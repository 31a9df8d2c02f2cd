---------------------------- MODULE InputStream ----------------------------
(***************************************************************************)
(* InputStream.c: any thread of the client submits input (LiSend...Event), *)
(* the input thread sends it over the control stream.                      *)
(*   - A relative mouse motion, the absolute mouse position and the motion *)
(*     sensors are not queued by value: their newest state is kept under   *)
(*     batchedInputMutex, and a packet holder is queued when none is.      *)
(*   - Controller and pen events that follow one another and differ only   *)
(*     in their axes are sent as one.                                      *)
(*   - stopInputStream drains the queue while threads may still submit.    *)
(* A motion has one axis.  The memory of the packet holders is left out,   *)
(* but for the refusal of allocatePacketHolder once its list is shut down. *)
(***************************************************************************)
EXTENDS Integers, Sequences, FiniteSets

CONSTANTS Senders,     \* threads that call LiSend...Event
          NoSender,
          Latest,      \* the absolute mouse, and the sensors, by gamepad and type
          States,      \* the states those may have
          Deltas,      \* relative motions
          MaxDelta,    \* INT16_MAX
          Packets,     \* events queued by value, as packets
          QueueBound,  \* MAX_QUEUED_INPUT_PACKETS
          MaxCalls     \* bound of the model: calls of LiSend...Event

Batched == {"relative"} \union Latest

\* kind: controller, pen, text or plain (a key, a button, a scroll, a touch, ...);
\* what: the buttons and number of the controller, the type and buttons of the pen;
\* axes: the rest.
Holder(k, x) == [kind |-> k, what |-> "state", axes |-> x]
Nothing == Holder("none", 0)

ASSUME InputAssumption ==
  /\ NoSender \notin Senders /\ QueueBound \in Nat \ {0} /\ MaxCalls \in Nat
  /\ MaxDelta \in Nat \ {0} /\ Deltas \subseteq (-MaxDelta - 1 .. MaxDelta) \ {0}
  /\ States \subseteq Int /\ 0 \in States
  /\ Latest \cap {"relative", "controller", "pen", "text", "plain", "none"} = {}
  /\ \A p \in Packets : p.kind \in {"controller", "pen", "text", "plain"}

VARIABLES initialized,
          packetQueue, draining,
          freeListShutdown,     \* packetHolderFreeList is shut down
          batchedInputMutex,    \* the sender that holds it, or NoSender
          value, dirty,         \* of each batched kind: the sum of the deltas, or the state
          sender,               \* where each sender is, and the event it submits
          thread, holder,       \* where the input thread is, and its packet holder
          stopper,              \* startInputStream and stopInputStream
          failed,               \* sendInputPacket has failed
          received, given,      \* what the host has: per batched kind, and the last packet
          moved,                \* the sum of all relative motions submitted
          refused,              \* the last holder for a batched kind was refused
          calls

queue == <<packetQueue, draining, freeListShutdown>>
batch == <<batchedInputMutex, value, dirty>>
host == <<received, given>>
history == <<moved, refused, calls>>
vars == <<initialized, queue, batch, sender, thread, holder, stopper, failed, host, history>>

Calls == Packets \union {Holder("relative", d) : d \in Deltas}
                 \union {Holder(k, x) : k \in Latest, x \in States}

-----------------------------------------------------------------------------
\* Plausible slips, each the `as' of a mutant.
OneOverBound == Len(packetQueue) > QueueBound
NotEvenAfterSending == holder.axes = 0 /\ value["relative"] # 0
SameKind(p, q) == p.kind = q.kind /\ p.kind \in {"controller", "pen"}
EvenIfNotEmpty == draining

-----------------------------------------------------------------------------
(* LiSend...Event *)

SenderAt(s, from, to) ==
  sender[s].pc = from /\ sender' = [sender EXCEPT ![s].pc = to]

\* Refused with -2 unless the stream is initialized.
Call(s) ==
  /\ sender[s].pc = "idle" /\ calls < MaxCalls /\ calls' = calls + 1
  /\ \E e \in Calls :
       sender' = IF ~initialized THEN sender
                 ELSE [sender EXCEPT ![s] =
                         [pc |-> IF e.kind \in Batched THEN "combine" ELSE "allocate", event |-> e]]
  /\ UNCHANGED <<initialized, queue, batch, thread, holder, stopper, failed, host, moved, refused>>

\* A holder is needed unless one is queued already; the mutex is held until it is.
NeedsHolder(s) ==
  /\ IF dirty[sender[s].event.kind]
     THEN SenderAt(s, "combine", "idle") /\ UNCHANGED batchedInputMutex
     ELSE SenderAt(s, "combine", "allocate") /\ batchedInputMutex' = s
  /\ UNCHANGED <<initialized, queue, dirty, thread, holder, stopper, failed, host, refused, calls>>

\* LiSendMouseMoveEvent: a motion is added to those before.
Accumulate(s) ==
  LET e == sender[s].event
  IN  /\ e.kind = "relative" /\ batchedInputMutex = NoSender
      /\ value' = [value EXCEPT !["relative"] = @ + e.axes]
      /\ moved' = moved + e.axes
      /\ NeedsHolder(s)

\* LiSendMousePositionEvent, LiSendControllerMotionEvent: the newest state replaces the last.
Overwrite(s) ==
  LET e == sender[s].event
  IN  /\ e.kind \in Latest /\ batchedInputMutex = NoSender
      /\ value' = [value EXCEPT ![e.kind] = e.axes]
      /\ NeedsHolder(s)
      /\ UNCHANGED moved

Unlock(s) == batchedInputMutex' = IF batchedInputMutex = s THEN NoSender ELSE batchedInputMutex

NoteOutcome(s, r) ==
  refused' = [k \in Batched |-> IF k = sender[s].event.kind THEN r ELSE refused[k]]

\* A text has a holder of its own size, which does not come from the list.
Allocate(s) ==
  /\ IF freeListShutdown /\ sender[s].event.kind # "text"
     THEN SenderAt(s, "allocate", "idle") /\ Unlock(s) /\ NoteOutcome(s, TRUE)
     ELSE SenderAt(s, "allocate", "offer") /\ UNCHANGED <<batchedInputMutex, refused>>
  /\ UNCHANGED <<initialized, queue, value, dirty, thread, holder, stopper, failed, host, moved, calls>>

AtBound == Len(packetQueue) = QueueBound

Offer(s) ==
  LET e == sender[s].event
      refuse == draining \/ AtBound
  IN  /\ SenderAt(s, "offer", "idle") /\ Unlock(s) /\ NoteOutcome(s, refuse)
      /\ IF refuse
         THEN UNCHANGED <<packetQueue, dirty>>
         ELSE /\ packetQueue' = Append(packetQueue, IF e.kind \in Batched THEN Holder(e.kind, 0) ELSE e)
              /\ dirty' = [k \in Batched |-> k = e.kind \/ dirty[k]]
      /\ UNCHANGED <<initialized, draining, freeListShutdown, value, thread, holder, stopper,
                     failed, host, moved, calls>>

LiSendEvent(s) == Accumulate(s) \/ Overwrite(s) \/ Allocate(s) \/ Offer(s)

-----------------------------------------------------------------------------
(* inputSendThreadProc *)

ThreadAt(from, to) == thread = from /\ thread' = to

\* What is done with a holder that has been taken off the queue.
Handling(h) ==
  CASE h.kind \in Batched                       -> "populate"
    [] h.kind = "controller"                    -> "batch"
    [] h.kind = "pen" /\ h.what \in {"hover", "move"} -> "batch"
    [] h.kind = "text"                          -> "transit"
    [] OTHER                                    -> "send"

TakeHolder ==
  /\ packetQueue # <<>>
  /\ holder' = Head(packetQueue) /\ packetQueue' = Tail(packetQueue)
  /\ ThreadAt("wait", Handling(Head(packetQueue)))
  /\ UNCHANGED <<initialized, draining, freeListShutdown, batch, sender, stopper, failed, host, history>>

NothingLeft == draining /\ packetQueue = <<>>

ThreadReturns ==
  /\ NothingLeft /\ ThreadAt("wait", "exited")
  /\ UNCHANGED <<initialized, queue, batch, sender, holder, stopper, failed, host, history>>

SameButAxes(p, q) == p.kind = q.kind /\ p.what = q.what

\* The next controller or pen event takes the place of the one at hand.
BatchNext ==
  /\ thread = "batch" /\ packetQueue # <<>> /\ SameButAxes(holder, Head(packetQueue))
  /\ holder' = Head(packetQueue) /\ packetQueue' = Tail(packetQueue)
  /\ UNCHANGED <<initialized, draining, freeListShutdown, batch, sender, thread, stopper, failed,
                 host, history>>

BatchDone ==
  /\ packetQueue # <<>> => ~SameButAxes(holder, Head(packetQueue))
  /\ ThreadAt("batch", "send")
  /\ UNCHANGED <<initialized, queue, batch, sender, holder, stopper, failed, host, history>>

\* Keyboard events sent before have been acknowledged (ENet sees to it, or gives up).
TransitEnds ==
  /\ ThreadAt("transit", "send")
  /\ UNCHANGED <<initialized, queue, batch, sender, holder, stopper, failed, host, history>>

PopulateLatest ==
  /\ holder.kind \in Latest /\ batchedInputMutex = NoSender
  /\ ThreadAt("populate", "send")
  /\ holder' = Holder(holder.kind, value[holder.kind])
  /\ dirty' = [dirty EXCEPT ![holder.kind] = FALSE]
  /\ UNCHANGED <<initialized, queue, batchedInputMutex, value, sender, stopper, failed, host, history>>

\* As much of the motion as fits a packet.
Part == IF value["relative"] > MaxDelta THEN MaxDelta
        ELSE IF value["relative"] < -MaxDelta - 1 THEN -MaxDelta - 1
        ELSE value["relative"]

MoreToSend == value["relative"] # 0

PopulateRelative ==
  /\ holder.kind = "relative" /\ batchedInputMutex = NoSender
  /\ IF MoreToSend
     THEN /\ ThreadAt("populate", "part") /\ holder' = Holder("relative", Part)
          /\ value' = [value EXCEPT !["relative"] = @ - Part]
          /\ UNCHANGED dirty
     ELSE /\ ThreadAt("populate", "wait") /\ holder' = Nothing
          /\ dirty' = [dirty EXCEPT !["relative"] = FALSE]
          /\ UNCHANGED value
  /\ UNCHANGED <<initialized, queue, batchedInputMutex, sender, stopper, failed, host, history>>

\* sendInputPacket; the mutex is not held meanwhile.
SendPart ==
  /\ ThreadAt("part", "populate")
  /\ received' = [received EXCEPT !["relative"] = @ + holder.axes]
  /\ UNCHANGED <<initialized, queue, batch, sender, holder, stopper, failed, given, history>>

SendHolder ==
  /\ ThreadAt("send", "wait") /\ holder' = Nothing
  /\ IF holder.kind \in Latest
     THEN received' = [received EXCEPT ![holder.kind] = holder.axes] /\ UNCHANGED given
     ELSE given' = <<holder>> /\ UNCHANGED received
  /\ UNCHANGED <<initialized, queue, batch, sender, stopper, failed, history>>

SendFails ==
  /\ thread \in {"part", "send"} /\ thread' = "exited"
  /\ failed' = TRUE /\ holder' = Nothing
  /\ UNCHANGED <<initialized, queue, batch, sender, stopper, host, history>>

inputSendThreadProc ==
  \/ TakeHolder \/ ThreadReturns \/ BatchNext \/ BatchDone \/ TransitEnds
  \/ PopulateLatest \/ PopulateRelative \/ SendPart \/ SendHolder \/ SendFails

-----------------------------------------------------------------------------
(* startInputStream and stopInputStream *)

StopperAt(from, to) == stopper = from /\ stopper' = to

\* sendEnableHaptics, which follows, is a call like that of any sender.
Start ==
  /\ StopperAt("created", "started") /\ initialized' = TRUE
  /\ UNCHANGED <<queue, batch, sender, thread, holder, failed, host, history>>

BeginStop ==
  /\ StopperAt("started", "closed") /\ initialized' = FALSE
  /\ UNCHANGED <<queue, batch, sender, thread, holder, failed, host, history>>

ShutDownFreeList ==
  /\ StopperAt("closed", "drain") /\ freeListShutdown' = TRUE
  /\ UNCHANGED <<initialized, packetQueue, draining, batch, sender, thread, holder, failed, host, history>>

Drain ==
  /\ StopperAt("drain", "joining") /\ draining' = TRUE
  /\ UNCHANGED <<initialized, packetQueue, freeListShutdown, batch, sender, thread, holder, failed,
                 host, history>>

Joined ==
  /\ StopperAt("joining", "stopped") /\ thread = "exited"
  /\ UNCHANGED <<initialized, queue, batch, sender, thread, holder, failed, host, history>>

stopInputStream == ShutDownFreeList \/ Drain \/ Joined

-----------------------------------------------------------------------------
\* After initializeInputStream, with the input thread created.
Init ==
  /\ initialized = FALSE /\ packetQueue = <<>> /\ draining = FALSE /\ freeListShutdown = FALSE
  /\ batchedInputMutex = NoSender
  /\ value = [k \in Batched |-> 0] /\ dirty = [k \in Batched |-> FALSE]
  /\ sender = [s \in Senders |-> [pc |-> "idle", event |-> Nothing]]
  /\ thread = "wait" /\ holder = Nothing
  /\ stopper = "created" /\ failed = FALSE
  /\ received = [k \in Batched |-> 0] /\ given = <<>>
  /\ moved = 0 /\ refused = [k \in Batched |-> FALSE] /\ calls = 0

Next ==
  \/ \E s \in Senders : Call(s) \/ LiSendEvent(s)
  \/ inputSendThreadProc
  \/ Start \/ BeginStop \/ stopInputStream

\* Threads go on with what they have begun; nobody has to call or to stop.
Fairness ==
  /\ \A s \in Senders : WF_vars(LiSendEvent(s))
  /\ WF_vars(inputSendThreadProc) /\ WF_vars(stopInputStream)

Spec == Init /\ [][Next]_vars /\ Fairness

-----------------------------------------------------------------------------
TypeOK ==
  /\ {initialized, draining, freeListShutdown, failed} \subseteq BOOLEAN
  /\ packetQueue \in Seq(Packets \union {Holder(k, 0) : k \in Batched})
  /\ Len(packetQueue) <= QueueBound
  /\ batchedInputMutex \in Senders \union {NoSender}
  /\ value \in [Batched -> Int] /\ \A k \in Latest : value[k] \in States
  /\ dirty \in [Batched -> BOOLEAN] /\ refused \in [Batched -> BOOLEAN]
  /\ sender \in [Senders -> [pc : {"idle", "combine", "allocate", "offer"},
                             event : Calls \union {Nothing}]]
  /\ thread \in {"wait", "batch", "transit", "populate", "part", "send", "exited"}
  /\ holder.kind = "relative" => holder.axes \in -MaxDelta - 1 .. MaxDelta
  /\ stopper \in {"created", "started", "closed", "drain", "joining", "stopped"}
  /\ received \in [Batched -> Int] /\ moved \in Int /\ calls \in 0 .. MaxCalls

\* The holders queued for a batched kind, the one about to be populated included.
HoldersOf(k) ==
  Cardinality({i \in 1 .. Len(packetQueue) : packetQueue[i].kind = k})
    + (IF holder.kind = k /\ thread \in {"populate", "part"} THEN 1 ELSE 0)

\* Something was submitted that has not been put in a packet yet.
Unsent(k) ==
  IF k = "relative" THEN value[k] # 0
  ELSE value[k] # IF holder.kind = k /\ thread = "send" THEN holder.axes ELSE received[k]

\* The sender that holds the mutex is about to queue a holder.
BeingQueued(k) == batchedInputMutex # NoSender /\ sender[batchedInputMutex].event.kind = k

(***************************************************************************)
(* What is submitted while a packet is queued, populated or being sent     *)
(* (the lock is released for that) is neither lost nor sent twice: a state *)
(* is marked dirty exactly while one holder is queued for it, nothing is   *)
(* unsent without a holder unless its holder was refused, and the motions  *)
(* of the host and of the client add up.                                   *)
(***************************************************************************)
NothingStranded ==
  ~failed =>
    /\ \A k \in Batched :
         /\ HoldersOf(k) = IF dirty[k] THEN 1 ELSE 0
         /\ Unsent(k) => dirty[k] \/ refused[k] \/ BeingQueued(k)
    /\ moved = received["relative"] + value["relative"]
                 + (IF thread = "part" THEN holder.axes ELSE 0)

IsPacket(h) == h.kind \notin Batched \union {"none"}

\* Where s holds packets, and f that gives these places in ascending order.
Places(s) == {i \in 1 .. Len(s) : IsPacket(s[i])}
Ascending(f, P) == /\ \A i, j \in DOMAIN f : i < j => f[i] < f[j]
                   /\ {f[i] : i \in DOMAIN f} = P

\* The packets of s in their order.
PacketsOf(s) ==
  LET f == CHOOSE f \in [1 .. Cardinality(Places(s)) -> Places(s)] : Ascending(f, Places(s))
  IN  [n \in DOMAIN f |-> s[f[n]]]

\* The holder at hand, and those queued.
Line == <<holder>> \o packetQueue

\* The events queued by value, the one at hand first.
Undelivered == IF failed THEN <<>> ELSE PacketsOf(Line)

(***************************************************************************)
(* Events queued by value reach the host in the order they were submitted; *)
(* one is left out only for the next one of the same controller with the   *)
(* same buttons, or of the same kind of pen movement.                      *)
(***************************************************************************)
Order == INSTANCE CoalescingQueue WITH
  Event <- Packets,
  Supersedes <- {x \in Packets \X Packets :
                   Handling(x[1]) = "batch" /\ x[1].kind = x[2].kind /\ x[1].what = x[2].what},
  pending <- Undelivered, given <- given, closed <- failed

KeepsOrder == Order!Spec

(***************************************************************************)
(* stopInputStream returns, and by then all that was accepted was sent,    *)
(* although threads that had found the stream initialized still submit:    *)
(* unless sending fails, no packet is left in the queue and nothing unsent *)
(* that was not refused.                                                   *)
(***************************************************************************)
DrainsOnStop ==
  stopper = "joining" ~>
    /\ stopper = "stopped"
    /\ failed \/ (packetQueue = <<>> /\ \A k \in Batched : Unsent(k) => refused[k])
=============================================================================
