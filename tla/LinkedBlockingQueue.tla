------------------------ MODULE LinkedBlockingQueue ------------------------
(***************************************************************************)
(* LinkedBlockingQueue.c: the intrusive linked list, its mutex and its     *)
(* condition variable, through which every pair of streaming threads hands *)
(* packets, frame ranges, callbacks and input to each other.               *)
(*                                                                         *)
(* The body of each function runs under queueHead->mutex, so a critical    *)
(* section is one step.  What the code does outside of it is a step of its *)
(* own: LbqOfferQueueItem and the three LbqSignal functions signal the     *)
(* condition variable after they unlock, and a waiting thread re-evaluates *)
(* its condition some time after it is woken.  Any number of threads call  *)
(* the other functions; one thread, the Consumer, calls                    *)
(* LbqWaitForQueueElement (as for every queue of the program).             *)
(*                                                                         *)
(* The entries are the caller's memory: `allocated' are those that are not *)
(* freed, and the caller of a flush or a destroy walks the returned list   *)
(* freeing each entry, while other threads go on using the queue.          *)
(***************************************************************************)
EXTENDS Naturals, Sequences

CONSTANTS Callers,    \* threads that offer, flush, poll, signal
          Consumer,   \* the thread that waits for elements
          Entries,    \* the memory entries live in
          SizeBound,  \* the sizeBound of LbqInitializeLinkedBlockingQueue
          NULL

ASSUME LbqAssumption == /\ Consumer \notin Callers
                        /\ NULL \notin Entries
                        /\ SizeBound \in Nat \ {0}

VARIABLES head, tail, flink, currentSize,
          everUsed,         \* lifetimeSize # 0
          shutdown, draining, pendingUserWake,
          alive,            \* between initialize and destroy
          pc,               \* what a thread has left to do
          result,           \* what the last call returned to its thread
          allocated,        \* entries that are not freed
          held,             \* entries handed out by wait and poll
          list              \* the rest of the list a thread is freeing

queue == <<head, tail, flink, currentSize, everUsed>>
flags == <<shutdown, draining, pendingUserWake, alive>>
memory == <<allocated, held, list>>
vars == <<queue, flags, pc, result, memory>>

Threads == Callers \union {Consumer}
Pointers == Entries \union {NULL}
Codes == {"none", "SUCCESS", "INTERRUPTED", "BOUND_EXCEEDED", "NO_ELEMENT", "USER_WAKE"}

TypeOK ==
  /\ head \in Pointers /\ tail \in Pointers
  /\ flink \in [Entries -> Pointers]
  /\ currentSize \in 0 .. SizeBound
  /\ everUsed \in BOOLEAN /\ shutdown \in BOOLEAN /\ draining \in BOOLEAN
  /\ pendingUserWake \in BOOLEAN /\ alive \in BOOLEAN
  /\ pc \in [Threads -> {"idle", "signal", "blocked", "woken"}]
  /\ result \in Codes
  /\ allocated \subseteq Entries /\ held \subseteq Entries
  /\ list \in [Threads -> Pointers]

-----------------------------------------------------------------------------
\* Plausible slips in the operators below, each the `as' of a mutant.
KeepFlink(e) == flink
OneTooMany == currentSize > SizeBound
NeglectSignal(t) == UNCHANGED pc

-----------------------------------------------------------------------------
IsEmpty == head = NULL

\* The while condition of LbqWaitForQueueElement.
MustWait == IsEmpty /\ ~draining /\ ~shutdown /\ ~pendingUserWake

Return(code) == result' = code

\* After the unlock, the thread still has to signal the condition variable.
OwesSignal(t) == pc' = [pc EXCEPT ![t] = "signal"]

\* A thread may call again when it is done with what its last call left it.
Ready(t) == alive /\ pc[t] = "idle" /\ list[t] = NULL

ResetFlink(e) == [flink EXCEPT ![e] = NULL]

AtBound == currentSize = SizeBound

\* entry->flink = NULL; then, under the mutex, a refusal or the link at the
\* tail.  A refused entry stays with the caller.
LbqOfferQueueItem(t, e) ==
  /\ Ready(t) /\ e \notin allocated
  /\ UNCHANGED <<flags, held, list>>
  /\ \/ /\ shutdown \/ draining
        /\ flink' = ResetFlink(e) /\ Return("INTERRUPTED")
        /\ UNCHANGED <<head, tail, currentSize, everUsed, allocated, pc>>
     \/ /\ ~shutdown /\ ~draining /\ AtBound
        /\ flink' = ResetFlink(e) /\ Return("BOUND_EXCEEDED")
        /\ UNCHANGED <<head, tail, currentSize, everUsed, allocated, pc>>
     \/ /\ ~shutdown /\ ~draining /\ ~AtBound
        /\ head' = IF IsEmpty THEN e ELSE head
        /\ flink' = IF IsEmpty THEN ResetFlink(e) ELSE [ResetFlink(e) EXCEPT ![tail] = e]
        /\ tail' = e
        /\ currentSize' = currentSize + 1 /\ everUsed' = TRUE
        /\ allocated' = allocated \union {e}
        /\ Return("SUCCESS")
        /\ IF IsEmpty THEN OwesSignal(t) ELSE UNCHANGED pc

\* The common tail of LbqPollQueueElement and LbqWaitForQueueElement.  The
\* flink of the entry handed out keeps its value.
Unlink ==
  /\ head' = flink[head]
  /\ currentSize' = currentSize - 1
  /\ tail' = IF flink[head] = NULL THEN NULL ELSE tail
  /\ held' = held \union {head}
  /\ Return("SUCCESS")
  /\ UNCHANGED <<flink, everUsed, allocated, list>>

\* What peek and poll return without touching the list.
Refuses ==
  \/ shutdown /\ Return("INTERRUPTED")
  \/ ~shutdown /\ IsEmpty /\ draining /\ Return("INTERRUPTED")
  \/ ~shutdown /\ IsEmpty /\ ~draining /\ Return("NO_ELEMENT")

LbqPeekQueueElement(t) ==
  /\ Ready(t)
  /\ \/ Refuses
     \/ ~shutdown /\ ~IsEmpty /\ Return("SUCCESS")
  /\ UNCHANGED <<queue, flags, memory, pc>>

LbqPollQueueElement(t) ==
  /\ Ready(t)
  /\ \/ Refuses /\ UNCHANGED <<queue, memory>>
     \/ ~shutdown /\ ~IsEmpty /\ Unlink
  /\ UNCHANGED <<flags, pc>>

\* The loop of the wait: block (releasing the mutex) or leave the loop.
LbqWaitForQueueElement(t) ==
  /\ alive /\ pc[t] \in {"idle", "woken"} /\ list[t] = NULL
  /\ \/ /\ MustWait
        /\ pc' = [pc EXCEPT ![t] = "blocked"]
        /\ UNCHANGED <<queue, flags, memory, result>>
     \/ /\ ~MustWait
        /\ pc' = [pc EXCEPT ![t] = "idle"]
        /\ \/ /\ shutdown
              /\ Return("INTERRUPTED") /\ UNCHANGED <<queue, flags, memory>>
           \/ /\ ~shutdown /\ pendingUserWake
              /\ pendingUserWake' = FALSE /\ Return("USER_WAKE")
              /\ UNCHANGED <<queue, shutdown, draining, alive, memory>>
           \/ /\ ~shutdown /\ ~pendingUserWake /\ draining /\ IsEmpty
              /\ Return("INTERRUPTED") /\ UNCHANGED <<queue, flags, memory>>
           \/ /\ ~shutdown /\ ~pendingUserWake /\ ~IsEmpty
              /\ Unlink /\ UNCHANGED flags

\* pthread_cond_wait may also return without a signal.
SpuriousWake(t) ==
  /\ pc[t] = "blocked"
  /\ pc' = [pc EXCEPT ![t] = "woken"]
  /\ UNCHANGED <<queue, flags, memory, result>>

\* PltSignalConditionVariable wakes one blocked thread, if there is one.
PltSignalConditionVariable(t) ==
  /\ pc[t] = "signal"
  /\ pc' = [u \in Threads |-> IF u = t THEN "idle"
                              ELSE IF pc[u] = "blocked" THEN "woken" ELSE pc[u]]
  /\ UNCHANGED <<queue, flags, memory, result>>

LbqSignalQueueShutdown(t) ==
  /\ Ready(t)
  /\ shutdown' = TRUE /\ OwesSignal(t)
  /\ UNCHANGED <<queue, draining, pendingUserWake, alive, memory, result>>

LbqSignalQueueDrain(t) ==
  /\ Ready(t)
  /\ draining' = TRUE /\ OwesSignal(t)
  /\ UNCHANGED <<queue, shutdown, pendingUserWake, alive, memory, result>>

LbqSignalQueueUserWake(t) ==
  /\ Ready(t)
  /\ pendingUserWake' = TRUE /\ OwesSignal(t)
  /\ UNCHANGED <<queue, shutdown, draining, alive, memory, result>>

\* The caller gets the old head and frees the list behind it.
LbqFlushQueueItems(t) ==
  /\ Ready(t)
  /\ head' = NULL
  /\ tail' = IF IsEmpty THEN tail ELSE NULL
  /\ currentSize' = IF IsEmpty THEN currentSize ELSE 0
  /\ list' = [list EXCEPT ![t] = head]
  /\ UNCHANGED <<flink, everUsed, flags, allocated, held, pc, result>>

\* freeBasicLbqList, freePacketList: the caller reads flink, frees the entry.
FreeNextOfList(t) ==
  /\ list[t] # NULL
  /\ allocated' = allocated \ {list[t]}
  /\ list' = [list EXCEPT ![t] = flink[list[t]]]
  /\ UNCHANGED <<queue, flags, held, pc, result>>

\* The thread an entry was handed to is done with it.
FreeHeld(e) ==
  /\ e \in held
  /\ held' = held \ {e} /\ allocated' = allocated \ {e}
  /\ UNCHANGED <<queue, flags, list, pc, result>>

\* Called once the threads of the stream are joined, after a shutdown or a
\* drain, or on a queue that was never used (the assertion of line 5).
LbqDestroyLinkedBlockingQueue(t) ==
  /\ Ready(t) /\ \A u \in Threads : pc[u] = "idle"
  /\ shutdown \/ draining \/ ~everUsed
  /\ alive' = FALSE
  /\ list' = [list EXCEPT ![t] = head]
  /\ UNCHANGED <<queue, shutdown, draining, pendingUserWake, allocated, held, pc, result>>

\* memset 0 and the bound; the next connection does it on the same memory.
LbqInitializeLinkedBlockingQueue ==
  /\ ~alive /\ alive' = TRUE
  /\ head' = NULL /\ tail' = NULL /\ currentSize' = 0 /\ everUsed' = FALSE
  /\ shutdown' = FALSE /\ draining' = FALSE /\ pendingUserWake' = FALSE
  /\ UNCHANGED <<flink, memory, pc, result>>

Init ==
  /\ head = NULL /\ tail = NULL /\ currentSize = 0 /\ everUsed = FALSE
  /\ flink = [e \in Entries |-> NULL]
  /\ shutdown = FALSE /\ draining = FALSE /\ pendingUserWake = FALSE /\ alive = TRUE
  /\ pc = [t \in Threads |-> "idle"]
  /\ result = "none"
  /\ allocated = {} /\ held = {}
  /\ list = [t \in Threads |-> NULL]

\* What a thread does to finish a call it has begun.
Finish(t) == \/ PltSignalConditionVariable(t)
             \/ FreeNextOfList(t)
             \/ t = Consumer /\ pc[t] = "woken" /\ LbqWaitForQueueElement(t)

Call(t) ==
  \/ \E e \in Entries : LbqOfferQueueItem(t, e)
  \/ LbqPeekQueueElement(t)
  \/ LbqPollQueueElement(t)
  \/ LbqFlushQueueItems(t)
  \/ LbqSignalQueueShutdown(t)
  \/ LbqSignalQueueDrain(t)
  \/ LbqSignalQueueUserWake(t)
  \/ LbqDestroyLinkedBlockingQueue(t)

Next ==
  \/ \E t \in Threads : PltSignalConditionVariable(t) \/ FreeNextOfList(t)
  \/ \E t \in Callers : Call(t)
  \/ LbqWaitForQueueElement(Consumer)
  \/ SpuriousWake(Consumer)
  \/ \E e \in Entries : FreeHeld(e)
  \/ LbqInitializeLinkedBlockingQueue

\* Threads run: what a call has begun is finished, and the consumer's loop
\* calls LbqWaitForQueueElement again.  Nothing makes a caller call.
Fairness ==
  /\ \A t \in Threads : WF_vars(PltSignalConditionVariable(t)) /\ WF_vars(FreeNextOfList(t))
  /\ WF_vars(LbqWaitForQueueElement(Consumer))

Spec == Init /\ [][Next]_vars
FairSpec == Spec /\ Fairness

-----------------------------------------------------------------------------
ItemsOf(s) == {s[i] : i \in DOMAIN s}

\* Following flink from p visits the entries of s, in order, and ends there.
Linked(p, s) ==
  IF s = <<>> THEN p = NULL
  ELSE /\ p = s[1] /\ flink[s[Len(s)]] = NULL
       /\ \A i \in 1 .. Len(s) - 1 : flink[s[i]] = s[i + 1]

\* The entries reached from p by following flink, first one first; none if they are
\* more than the queue can hold.
Chain(p) ==
  LET chains == {s \in UNION {[1 .. n -> Entries] : n \in 0 .. SizeBound} : Linked(p, s)}
  IN  IF chains = {} THEN <<>> ELSE CHOOSE s \in chains : TRUE

\* What the queue holds.
Items == IF alive THEN Chain(head) ELSE <<>>

NoRepeats(s) == \A i, j \in 1 .. Len(s) : i # j => s[i] # s[j]
Apart(s, r) == ItemsOf(s) \intersect ItemsOf(r) = {}

\* s is what the queue holds and f[t] what thread t still has to free: the
\* pointers say so, no entry is in two places, and nothing else is allocated.
Layout(s, f) ==
  /\ alive => /\ Linked(head, s) /\ Len(s) = currentSize
              /\ tail = IF s = <<>> THEN NULL ELSE s[Len(s)]
  /\ ~alive => s = <<>>
  /\ NoRepeats(s)
  /\ ItemsOf(s) \intersect held = {}
  /\ \A t \in Threads : /\ Linked(list[t], f[t])
                        /\ NoRepeats(f[t])
                        /\ Apart(s, f[t])
                        /\ ItemsOf(f[t]) \intersect held = {}
                        /\ \A u \in Threads \ {t} : Apart(f[t], f[u])
  /\ allocated = held \union ItemsOf(s) \union UNION {ItemsOf(f[t]) : t \in Threads}

(***************************************************************************)
(* An entry is in exactly one place: linked in the queue, in one list that *)
(* is being freed, or handed out; and nothing else is allocated.  A stale  *)
(* flink, a lost tail or a list shared by two threads (a double free or a  *)
(* leak) breaks it: LbqOfferQueueItem, LbqFlushQueueItems and the pops.    *)
(***************************************************************************)
EntriesAccounted ==
  Layout(Items, [t \in Threads |-> Chain(list[t])])

(***************************************************************************)
(* The consumer never sleeps through its wake-up: while it is blocked and  *)
(* its loop condition is false, some thread has a signal still to give.    *)
(* LbqOfferQueueItem signals only on empty -> non-empty and after the      *)
(* unlock, which is where this could go wrong.                             *)
(***************************************************************************)
NoLostWakeup ==
  (alive /\ pc[Consumer] = "blocked" /\ ~MustWait) => \E t \in Threads : pc[t] = "signal"

Queued(e) == e \in ItemsOf(Items)

(***************************************************************************)
(* A reader waiting on a queue that has something to tell it returns, and  *)
(* every accepted entry leaves the queue (handed out or flushed) unless    *)
(* the queue is shut down or is woken forever by LbqSignalQueueUserWake.   *)
(***************************************************************************)
ReaderServed ==
  /\ pc[Consumer] = "blocked" /\ ~MustWait ~> pc[Consumer] = "idle" \/ MustWait
  /\ <>[]~pendingUserWake => \A e \in Entries : Queued(e) ~> (~Queued(e) \/ shutdown)

Fifo == INSTANCE BoundedFifo WITH items <- Items

(***************************************************************************)
(* The linked list, with its threads and its late signals, is a bounded    *)
(* FIFO whose operations are atomic.                                       *)
(***************************************************************************)
ImplementsFifo == Fifo!Spec
=============================================================================
