-------------------------- MODULE MCCodecRecovery --------------------------
(* The codec and its threads, with two recoveries before exceptions are     *)
(* kept, and the HDR metadata changed once.                                  *)
EXTENDS CodecRecovery
=============================================================================
