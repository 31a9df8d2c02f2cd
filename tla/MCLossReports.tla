--------------------------- MODULE MCLossReports ---------------------------
(* Four frames and a queue of two ranges: long enough for an overflow, for  *)
(* ranges that are merged, and for requests made while one is being sent.   *)
EXTENDS LossReports
=============================================================================
