--------------------------- MODULE MCTokenRefresh ---------------------------
(* Requests that meet an expired token together, while the user may log out  *)
(* and in, with room for all of them and the refresh, or without.            *)
EXTENDS TokenRefresh
=============================================================================
