-------------------------- MODULE CoalescingQueue --------------------------
(***************************************************************************)
(* What InputStream.c promises for the events it passes on: they arrive in *)
(* the order in which they were submitted, and one is left out only when   *)
(* the next makes it superfluous.  After a failure nothing arrives.        *)
(***************************************************************************)
EXTENDS Sequences, Naturals

CONSTANTS Event,
          Supersedes   \* pairs of events: the second makes the first superfluous

VARIABLES pending,     \* what was submitted and has not arrived, in order
          given,       \* what arrived last
          closed       \* passing on has failed

vars == <<pending, given, closed>>

Init == pending = <<>> /\ given = <<>> /\ closed = FALSE

Submit ==
  /\ ~closed
  /\ \E e \in Event : pending' = Append(pending, e)
  /\ UNCHANGED <<given, closed>>

LeaveOut ==
  /\ Len(pending) > 1 /\ <<pending[1], pending[2]>> \in Supersedes
  /\ pending' = Tail(pending)
  /\ UNCHANGED <<given, closed>>

Arrive ==
  /\ pending # <<>>
  /\ given' = <<Head(pending)>> /\ pending' = Tail(pending)
  /\ UNCHANGED closed

Fail ==
  /\ closed' = TRUE /\ pending' = <<>>
  /\ UNCHANGED given

Next == Submit \/ LeaveOut \/ Arrive \/ Fail

Spec == Init /\ [][Next]_vars
=============================================================================
