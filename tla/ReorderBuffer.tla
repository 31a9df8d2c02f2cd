--------------------------- MODULE ReorderBuffer ---------------------------
(***************************************************************************)
(* What the RTP audio queue promises the decoder: the packets, numbered as *)
(* the host sent them, are handed out in order and at most once, a number  *)
(* that is passed over was not there, and what is there is never dropped.  *)
(* The promise ends with the first block whose packets differ in size.     *)
(* Sequence numbers that wrap, FEC blocks and their lists are in           *)
(* RtpAudioQueue, which implements this module.                            *)
(***************************************************************************)
EXTENDS Naturals

CONSTANT LOST    \* what the decoder gets in place of a packet to conceal

VARIABLES waiting,   \* packets that are there and not yet handed out
          next,      \* the number to be handed out next
          given,     \* what was handed out last
          ordered    \* the promise is still made

vars == <<waiting, next, given, ordered>>

Init == waiting = {} /\ next = 0 /\ given = LOST /\ ordered = TRUE

\* Packets arrive, or are recovered from others, and numbers of which no
\* packet is there may be given up.
Arrive ==
  /\ ordered
  /\ waiting \subseteq waiting'
  /\ next' \in Nat /\ next' >= next
  /\ \A n \in waiting' : n \in Nat /\ n >= next'
  /\ UNCHANGED <<given, ordered>>

\* The next packet, which waited or arrives right now, is handed out.
HandOut ==
  /\ ordered
  /\ given' = next /\ next' = next + 1
  /\ waiting' = waiting \ {next}
  /\ UNCHANGED ordered

Conceal ==
  /\ ordered
  /\ next \notin waiting
  /\ given' = LOST /\ next' = next + 1
  /\ UNCHANGED <<waiting, ordered>>

GiveUpOrder == ordered /\ ordered' = FALSE /\ UNCHANGED <<waiting, next, given>>

PassThrough == ~ordered /\ given' \in Nat /\ UNCHANGED <<waiting, next, ordered>>

Next == Arrive \/ HandOut \/ Conceal \/ GiveUpOrder \/ PassThrough

Spec == Init /\ [][Next]_vars
=============================================================================
