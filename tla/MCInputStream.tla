--------------------------- MODULE MCInputStream ---------------------------
(* The thread of the user interface and that of a gamepad; a controller, a   *)
(* pen that moves or is put down, and a text; motions of which two do not fit *)
(* one packet; a queue that can be full.                                      *)
EXTENDS InputStream

Packet(k, w, x) == [kind |-> k, what |-> w, axes |-> x]
MCPackets == {Packet("controller", "released", 0), Packet("controller", "released", 1),
              Packet("pen", "move", 0), Packet("pen", "down", 0),
              Packet("text", "none", 0)}
MCDeltas == {2, -3}
MCStates == {0, 1}
=============================================================================
