---------------------------- MODULE BoundedFifo ----------------------------
(***************************************************************************)
(* What a linked blocking queue promises the streaming threads: a bounded  *)
(* FIFO of entries, closed by a shutdown (nothing more is handed out) or   *)
(* by a drain (what is queued is still handed out), with a wake-up request *)
(* that a waiting reader sees exactly once.  Every operation is one step,  *)
(* a reader that has to wait is one whose step is not enabled.  The        *)
(* pointers, the mutex and the condition variable are in                   *)
(* LinkedBlockingQueue, which implements this module.                      *)
(***************************************************************************)
EXTENDS Naturals, Sequences

CONSTANTS Entries,   \* the entries that can be queued
          SizeBound  \* the size given when the queue is initialized

VARIABLES items,           \* the queued entries, oldest first
          shutdown, draining, pendingUserWake,
          alive,           \* initialized and not yet destroyed
          result           \* what the last call returned to its thread

vars == <<items, shutdown, draining, pendingUserWake, alive, result>>
flags == <<shutdown, draining, pendingUserWake, alive>>

Codes == {"none", "SUCCESS", "INTERRUPTED", "BOUND_EXCEEDED", "NO_ELEMENT", "USER_WAKE"}

Return(code) == result' = code

Init == /\ items = <<>>
        /\ shutdown = FALSE /\ draining = FALSE /\ pendingUserWake = FALSE
        /\ alive = TRUE
        /\ result = "none"

Offer(e) ==
  /\ UNCHANGED flags
  /\ \/ /\ shutdown \/ draining
        /\ Return("INTERRUPTED") /\ UNCHANGED items
     \/ /\ ~shutdown /\ ~draining /\ Len(items) = SizeBound
        /\ Return("BOUND_EXCEEDED") /\ UNCHANGED items
     \/ /\ ~shutdown /\ ~draining /\ Len(items) < SizeBound
        /\ items' = Append(items, e) /\ Return("SUCCESS")

\* The oldest entry is handed out, unless the queue was shut down.
Take ==
  /\ ~shutdown /\ items # <<>>
  /\ items' = Tail(items) /\ Return("SUCCESS")
  /\ UNCHANGED flags

Look ==
  /\ ~shutdown /\ items # <<>>
  /\ Return("SUCCESS")
  /\ UNCHANGED <<items, flags>>

\* A drained queue interrupts its readers only once it is empty.
Interrupted ==
  /\ shutdown \/ (draining /\ items = <<>>)
  /\ Return("INTERRUPTED")
  /\ UNCHANGED <<items, flags>>

NothingThere ==
  /\ ~shutdown /\ ~draining /\ items = <<>>
  /\ Return("NO_ELEMENT")
  /\ UNCHANGED <<items, flags>>

Woken ==
  /\ ~shutdown /\ pendingUserWake
  /\ pendingUserWake' = FALSE /\ Return("USER_WAKE")
  /\ UNCHANGED <<items, shutdown, draining, alive>>

Flush == items' = <<>> /\ UNCHANGED <<flags, result>>

Close == /\ \/ shutdown' = TRUE /\ UNCHANGED draining
            \/ draining' = TRUE /\ UNCHANGED shutdown
         /\ UNCHANGED <<items, pendingUserWake, alive, result>>

RequestWake == /\ pendingUserWake' = TRUE
               /\ UNCHANGED <<items, shutdown, draining, alive, result>>

Destroy == alive' = FALSE /\ items' = <<>>
           /\ UNCHANGED <<shutdown, draining, pendingUserWake, result>>

Initialize == /\ ~alive /\ alive' = TRUE
              /\ items' = <<>>
              /\ shutdown' = FALSE /\ draining' = FALSE /\ pendingUserWake' = FALSE
              /\ UNCHANGED result

Next ==
  \/ /\ alive
     /\ \/ \E e \in Entries : Offer(e)
        \/ Take \/ Look \/ Interrupted \/ NothingThere \/ Woken
        \/ Flush \/ Close \/ RequestWake \/ Destroy
  \/ Initialize

Spec == Init /\ [][Next]_vars
=============================================================================
