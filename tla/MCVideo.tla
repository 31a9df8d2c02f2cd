------------------------------ MODULE MCVideo ------------------------------
(* A handful of frames, each of which may be lost, predicted lost, come too  *)
(* late or fail to decode, with small queues and a drop limit that is hit.   *)
EXTENDS VideoDepacketizer

\* A decoder thread and packets in order, and a renderer that decodes on the
\* receive thread while losses are also predicted in error.
MCModes == {<<FALSE, FALSE>>, <<TRUE, TRUE>>}
=============================================================================
