-------------------------- MODULE MCStreamSession --------------------------
(* Two sessions, one after the other; two stages that make state and two    *)
(* that start threads, of which one or both may report a lost connection.   *)
EXTENDS StreamSession
=============================================================================
