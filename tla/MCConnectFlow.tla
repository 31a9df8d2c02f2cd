--------------------------- MODULE MCConnectFlow ---------------------------
(* One screen, from a first session (perhaps of another game) to its          *)
(* successors, with sessions that stop and are created elsewhere.             *)
EXTENDS ConnectFlow
=============================================================================
