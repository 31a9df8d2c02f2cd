-------------------------- MODULE InputStreamProofs --------------------------
(***************************************************************************)
(* Theorems about InputStream, for any threads, packets, states, motions   *)
(* and bounds: its type invariant, that nothing submitted is stranded      *)
(* (NothingStranded), and that it implements CoalescingQueue (KeepsOrder). *)
(*                                                                         *)
(* A thread that finds the newest state not dirty keeps the mutex until    *)
(* its holder is queued or refused, so that there is never a second        *)
(* holder; the input thread resets dirty under the mutex, when the state   *)
(* goes into the packet.                                                   *)
(*                                                                         *)
(* The packets not yet sent are those of the one ascending list of their   *)
(* places in the queue; every step appends to that list, drops its first   *)
(* or leaves it.                                                           *)
(***************************************************************************)
EXTENDS InputStream, FiniteSetTheorems, WellFoundedInduction, TLAPS

\* The events of the batched kinds, and what may be queued.
Plain == {"controller", "pen", "text", "plain"}
Holders == Packets \union {Holder(k, 0) : k \in Batched}

\* Where the holders for k are in the queue.
Queued(k) == {i \in 1 .. Len(packetQueue) : packetQueue[i].kind = k}

\* The input thread is putting the newest state, or motion, of k in a packet.
AtHand(k) == holder.kind = k /\ thread \in {"populate", "part"}

-----------------------------------------------------------------------------
\* A sender has an event until it returns; it combines those of the batched kinds.
EventAtHand ==
  \A s \in Senders :
    /\ sender[s].pc # "idle" => sender[s].event \in Calls
    /\ sender[s].pc = "combine" => sender[s].event.kind \in Batched

\* The mutex is kept exactly by the sender that is about to queue a holder for a batched
\* kind, and that kind is not dirty.
MutexKept ==
  \A s \in Senders :
    /\ batchedInputMutex = s <=>
         sender[s].pc \in {"allocate", "offer"} /\ sender[s].event.kind \in Batched
    /\ batchedInputMutex = s /\ ~failed => ~dirty[sender[s].event.kind]

\* What the input thread has taken off the queue, by what it does with it.
HolderAtHand ==
  /\ thread \in {"wait", "exited"} => holder = Nothing
  /\ thread \in {"batch", "transit"} => holder \in Packets
  /\ thread = "populate" => holder.kind \in Batched
  /\ thread = "part" => holder.kind = "relative" /\ holder.axes \in Int
  /\ thread = "send" => \/ holder \in Packets
                        \/ holder.kind \in Latest /\ holder.axes \in States

\* A kind is dirty exactly while one holder is queued, or at hand, for it.
OneHolder ==
  ~failed => \A k \in Batched :
    IF dirty[k]
    THEN \/ AtHand(k) /\ Queued(k) = {}
         \/ ~AtHand(k) /\ \E i \in 1 .. Len(packetQueue) : Queued(k) = {i}
    ELSE ~AtHand(k) /\ Queued(k) = {}

Submitted ==
  ~failed => \A k \in Batched : Unsent(k) => dirty[k] \/ refused[k] \/ BeingQueued(k)

MotionsAddUp ==
  ~failed => moved = received["relative"] + value["relative"]
                       + (IF thread = "part" THEN holder.axes ELSE 0)

IInv == /\ TypeOK /\ EventAtHand /\ MutexKept /\ HolderAtHand
        /\ OneHolder /\ Submitted /\ MotionsAddUp

-----------------------------------------------------------------------------
\* The kinds of the events, of the packets and of the holders are told apart.
LEMMA Kinds ==
  /\ \A k, x : Holder(k, x).kind = k /\ Holder(k, x).axes = x
  /\ Nothing.kind = "none" /\ "none" \notin Batched /\ "relative" \in Batched
  /\ "relative" \notin Latest /\ Latest \subseteq Batched
  /\ \A p \in Packets : p.kind \in Plain /\ p.kind \notin Batched /\ p.kind # "none"
  /\ \A e \in Calls : IF e.kind \in Batched THEN e.axes \in Int ELSE e \in Packets
  /\ \A e \in Calls : e.kind \in Latest => e.axes \in States
  /\ \A h \in Holders : h.kind \in Batched \/ h \in Packets
  /\ \A h \in Holders : h.kind \in Batched => h.axes = 0
<1> USE InputAssumption DEF Batched, Holder, Nothing, Plain, Calls, Holders
<1>1. \A p \in Packets : p.kind \in Plain /\ p.kind \notin Batched /\ p.kind # "none"
  OBVIOUS
<1>2. \A e \in Calls : e \in Packets \/ (e.kind = "relative" /\ e.axes \in Deltas)
                        \/ (e.kind \in Latest /\ e.axes \in States)
  OBVIOUS
<1>3. Deltas \subseteq Int /\ States \subseteq Int
  OBVIOUS
<1>4. \A h \in Holders : h \in Packets \/ (h.kind \in Batched /\ h.axes = 0)
  OBVIOUS
<1> QED BY <1>1, <1>2, <1>3, <1>4

\* A holder that is queued comes last.
LEMMA QueueAppend ==
  ASSUME packetQueue \in Seq(Holders), NEW h \in Holders, packetQueue' = Append(packetQueue, h)
  PROVE  /\ packetQueue' \in Seq(Holders) /\ Len(packetQueue') = Len(packetQueue) + 1
         /\ \A k : Queued(k)' = IF h.kind = k THEN Queued(k) \union {Len(packetQueue) + 1}
                                ELSE Queued(k)
         /\ \A k : \A i \in Queued(k) : i \in 1 .. Len(packetQueue')
         /\ Len(packetQueue) + 1 \in 1 .. Len(packetQueue')
<1>1. /\ packetQueue' \in Seq(Holders) /\ Len(packetQueue') = Len(packetQueue) + 1
      /\ packetQueue'[Len(packetQueue) + 1] = h
      /\ \A i \in 1 .. Len(packetQueue) : packetQueue'[i] = packetQueue[i]
  OBVIOUS
<1>2. /\ Len(packetQueue) \in Nat
      /\ 1 .. Len(packetQueue') = (1 .. Len(packetQueue)) \union {Len(packetQueue) + 1}
  BY <1>1
<1> QED BY <1>1, <1>2 DEF Queued

\* The holder that is taken was first, and the others move up.
LEMMA QueueTail ==
  ASSUME packetQueue \in Seq(Holders), packetQueue # <<>>, packetQueue' = Tail(packetQueue)
  PROVE  /\ packetQueue' \in Seq(Holders) /\ Len(packetQueue') = Len(packetQueue) - 1
         /\ Head(packetQueue) \in Holders
         /\ \A k : Queued(k) = {} => Queued(k)' = {} /\ Head(packetQueue).kind # k
         /\ \A k : Head(packetQueue).kind = k /\ (\E i \in 1 .. Len(packetQueue) : Queued(k) = {i})
              => Queued(k)' = {}
         /\ \A k : Head(packetQueue).kind # k /\ (\E i \in 1 .. Len(packetQueue) : Queued(k) = {i})
              => \E i \in 1 .. Len(packetQueue') : Queued(k)' = {i}
<1>1. /\ packetQueue' \in Seq(Holders) /\ Len(packetQueue') = Len(packetQueue) - 1
      /\ Len(packetQueue) \in Nat \ {0} /\ Head(packetQueue) = packetQueue[1]
      /\ Head(packetQueue) \in Holders
      /\ \A i \in 1 .. Len(packetQueue) - 1 : packetQueue'[i] = packetQueue[i + 1]
  OBVIOUS
<1>2. \A k : \A i : i \in Queued(k)' <=> i \in 1 .. Len(packetQueue) - 1 /\ i + 1 \in Queued(k)
  BY <1>1 DEF Queued
<1>3. \A k : 1 \in Queued(k) <=> Head(packetQueue).kind = k
  BY <1>1 DEF Queued
<1>4. ASSUME NEW k, Queued(k) = {} PROVE Queued(k)' = {} /\ Head(packetQueue).kind # k
  BY <1>2, <1>3, <1>4
<1>5. ASSUME NEW k, Head(packetQueue).kind = k, NEW i \in 1 .. Len(packetQueue), Queued(k) = {i}
      PROVE  Queued(k)' = {}
  <2>1. i = 1 BY <1>3, <1>5
  <2> QED BY <1>1, <1>2, <1>5, <2>1
<1>6. ASSUME NEW k, Head(packetQueue).kind # k, NEW i \in 1 .. Len(packetQueue), Queued(k) = {i}
      PROVE  \E j \in 1 .. Len(packetQueue') : Queued(k)' = {j}
  <2>1. i # 1 BY <1>3, <1>6
  <2>2. i - 1 \in 1 .. Len(packetQueue') BY <1>1, <2>1
  <2>3. \A j : j \in Queued(k)' <=> j = i - 1
    <3>1. \A j \in Int : j + 1 = i <=> j = i - 1 OBVIOUS
    <3> QED BY <1>1, <1>2, <1>6, <2>2, <3>1
  <2>4. Queued(k)' = {i - 1} BY <2>3
  <2> QED BY <2>2, <2>4
<1> QED BY <1>1, <1>4, <1>5, <1>6

-----------------------------------------------------------------------------
(* What a step leaves alone. *)

\* The senders and their mutex.
LEMMA SendersFrame ==
  ASSUME EventAtHand, MutexKept, UNCHANGED <<sender, batchedInputMutex>>,
         failed => failed', \A k \in Batched : dirty'[k] => dirty[k]
  PROVE  EventAtHand' /\ MutexKept'
BY DEF EventAtHand, MutexKept

\* The holders in the queue and at hand.
LEMMA HoldersFrame ==
  ASSUME OneHolder, UNCHANGED <<packetQueue, dirty, failed>>,
         \A k \in Batched : AtHand(k)' <=> AtHand(k)
  PROVE  OneHolder'
BY DEF OneHolder, Queued

\* What has been submitted and not sent.
LEMMA SubmittedFrame ==
  ASSUME Submitted, UNCHANGED <<dirty, refused, batchedInputMutex, sender, failed>>,
         \A k \in Batched : Unsent(k)' => Unsent(k)
  PROVE  Submitted'
BY DEF Submitted, BeingQueued

-----------------------------------------------------------------------------
(* The threads that call LiSend...Event. *)

\* A sender goes on with the event it has, and the others stay where they are.
LEMMA SenderMoves ==
  ASSUME TypeOK, NEW s \in Senders, NEW from, NEW to \in {"idle", "combine", "allocate", "offer"},
         SenderAt(s, from, to)
  PROVE  /\ sender' \in [Senders -> [pc : {"idle", "combine", "allocate", "offer"},
                                     event : Calls \union {Nothing}]]
         /\ sender[s].pc = from /\ sender'[s].pc = to /\ sender'[s].event = sender[s].event
         /\ \A q \in Senders \ {s} : sender'[q] = sender[q]
<1>1. sender \in [Senders -> [pc : {"idle", "combine", "allocate", "offer"},
                              event : Calls \union {Nothing}]]
  BY DEF TypeOK
<1>2. sender[s].pc = from /\ sender' = [sender EXCEPT ![s].pc = to]
  BY DEF SenderAt
<1> QED BY <1>1, <1>2

\* A call is refused, or gives the sender its event, without the mutex.
LEMMA CallKeeps ==
  ASSUME IInv, NEW s \in Senders, Call(s)
  PROVE  IInv'
<1> USE DEF history, host, batch, queue
<1>1. /\ sender \in [Senders -> [pc : {"idle", "combine", "allocate", "offer"},
                                 event : Calls \union {Nothing}]]
      /\ sender[s].pc = "idle" /\ calls \in Nat /\ MaxCalls \in Nat
  BY InputAssumption DEF IInv, TypeOK, Call
<1>2. PICK e \in Calls :
        sender' = IF ~initialized THEN sender
                  ELSE [sender EXCEPT ![s] =
                          [pc |-> IF e.kind \in Batched THEN "combine" ELSE "allocate",
                           event |-> e]]
  BY DEF Call
<1>3. sender' \in [Senders -> [pc : {"idle", "combine", "allocate", "offer"},
                               event : Calls \union {Nothing}]]
  BY <1>1, <1>2
<1>4. \A q \in Senders \ {s} : sender'[q] = sender[q]
  BY <1>1, <1>2
<1>5. \/ sender'[s] = sender[s]
      \/ /\ sender'[s].event = e
         /\ sender'[s].pc = IF e.kind \in Batched THEN "combine" ELSE "allocate"
  BY <1>1, <1>2
<1>6. calls' = calls + 1 /\ calls' \in 0 .. MaxCalls
  BY <1>1, InputAssumption DEF Call
<1>7. UNCHANGED <<initialized, queue, batch, thread, holder, stopper, failed, host, moved, refused>>
  BY DEF Call
<1>8. TypeOK' BY <1>3, <1>6, <1>7 DEF IInv, TypeOK
<1>9. EventAtHand' BY <1>4, <1>5 DEF IInv, EventAtHand
<1>10. batchedInputMutex # s BY <1>1 DEF IInv, MutexKept
<1>11. MutexKept' BY <1>1, <1>4, <1>5, <1>7, <1>10 DEF IInv, MutexKept
<1>12. Submitted'
  <2>1. \A k \in Batched : BeingQueued(k) => BeingQueued(k)'
    BY <1>4, <1>7, <1>10, InputAssumption DEF BeingQueued, IInv, TypeOK
  <2> QED BY <1>7, <2>1 DEF IInv, Submitted, Unsent
<1>13. HolderAtHand' /\ OneHolder' /\ MotionsAddUp'
  BY <1>7 DEF IInv, HolderAtHand, OneHolder, AtHand, Queued, MotionsAddUp
<1> QED BY <1>8, <1>9, <1>11, <1>12, <1>13 DEF IInv

\* The newest state is written under the mutex, which is kept if a holder is needed.
LEMMA CombineKeeps ==
  ASSUME IInv, NEW s \in Senders, Accumulate(s) \/ Overwrite(s)
  PROVE  IInv'
<1> DEFINE k == sender[s].event.kind
           x == sender[s].event.axes
<1> HIDE DEF k, x
<1> USE DEF host, queue
<1>1. /\ batchedInputMutex = NoSender /\ sender[s].pc = "combine" /\ k \in Batched
      /\ NeedsHolder(s)
  BY Kinds DEF Accumulate, Overwrite, NeedsHolder, SenderAt, k
<1>2. /\ sender[s].event \in Calls /\ x \in Int /\ (k \in Latest => x \in States)
  BY <1>1, Kinds DEF IInv, EventAtHand, k, x
<1>3. \/ /\ k = "relative" /\ value' = [value EXCEPT !["relative"] = @ + x]
         /\ moved' = moved + x
      \/ k \in Latest /\ value' = [value EXCEPT ![k] = x] /\ UNCHANGED moved
  BY DEF Accumulate, Overwrite, k, x
<1>4. UNCHANGED <<initialized, queue, dirty, thread, holder, stopper, failed, host, refused, calls>>
  BY <1>1 DEF NeedsHolder
<1>5. \/ dirty[k] /\ SenderAt(s, "combine", "idle") /\ UNCHANGED batchedInputMutex
      \/ ~dirty[k] /\ SenderAt(s, "combine", "allocate") /\ batchedInputMutex' = s
  BY <1>1 DEF NeedsHolder, k
<1>6. /\ sender' \in [Senders -> [pc : {"idle", "combine", "allocate", "offer"},
                                  event : Calls \union {Nothing}]]
      /\ sender'[s].pc = IF dirty[k] THEN "idle" ELSE "allocate"
      /\ sender'[s].event = sender[s].event
      /\ \A q \in Senders \ {s} : sender'[q] = sender[q]
  BY <1>5, SenderMoves DEF IInv
<1>7. /\ value \in [Batched -> Int] /\ moved \in Int /\ \A l \in Latest : value[l] \in States
  BY DEF IInv, TypeOK
<1>8. /\ value' \in [Batched -> Int] /\ moved' \in Int /\ \A l \in Latest : value'[l] \in States
      /\ \A l \in Batched \ {k} : value'[l] = value[l]
  BY <1>2, <1>3, <1>7, Kinds
<1>9. TypeOK' BY <1>4, <1>5, <1>6, <1>8 DEF IInv, TypeOK
<1>10. EventAtHand' BY <1>2, <1>6 DEF IInv, EventAtHand
<1>11. \A q \in Senders : batchedInputMutex # q BY <1>1, InputAssumption
<1>12. MutexKept' BY <1>1, <1>4, <1>5, <1>6, <1>11 DEF IInv, MutexKept, k
<1>13. HolderAtHand' BY <1>4 DEF IInv, HolderAtHand
<1>14. OneHolder' BY <1>4, HoldersFrame DEF IInv, AtHand
<1>15. Submitted'
  <2>1. \A l \in Batched : l = k => dirty'[l] \/ BeingQueued(l)'
    BY <1>4, <1>5, <1>6, InputAssumption DEF BeingQueued, k
  <2>2. \A l \in Batched \ {k} : Unsent(l)' => Unsent(l)
    BY <1>4, <1>8 DEF Unsent
  <2>3. \A l \in Batched : ~BeingQueued(l) BY <1>1 DEF BeingQueued
  <2>4. UNCHANGED <<dirty, refused, failed>> BY <1>4
  <2>5. ASSUME ~failed', NEW l \in Batched, Unsent(l)'
        PROVE  dirty'[l] \/ refused'[l] \/ BeingQueued(l)'
    BY <2>1, <2>2, <2>3, <2>4, <2>5 DEF IInv, Submitted
  <2> QED BY <2>5 DEF Submitted
<1>16. MotionsAddUp'
  <2>1. /\ moved - value["relative"] = moved' - value'["relative"]
        /\ value["relative"] \in Int /\ value'["relative"] \in Int
    BY <1>2, <1>3, <1>7, <1>8, Kinds
  <2>2. received["relative"] \in Int /\ (thread = "part" => holder.axes \in Int)
    BY Kinds DEF IInv, TypeOK, HolderAtHand
  <2>3. UNCHANGED <<received, thread, holder, failed>> BY <1>4
  <2> QED BY <1>7, <1>8, <2>1, <2>2, <2>3 DEF IInv, MotionsAddUp
<1> QED BY <1>9, <1>10, <1>12, <1>13, <1>14, <1>15, <1>16 DEF IInv

\* The memory for a packet holder is refused once its list is shut down.
LEMMA AllocateKeeps ==
  ASSUME IInv, NEW s \in Senders, Allocate(s)
  PROVE  IInv'
<1> DEFINE k == sender[s].event.kind
<1> HIDE DEF k
<1> USE DEF host, queue
<1>1. UNCHANGED <<initialized, queue, value, dirty, thread, holder, stopper, failed, host,
                  moved, calls>>
  BY DEF Allocate
<1>2. \/ /\ SenderAt(s, "allocate", "idle")
         /\ batchedInputMutex' = IF batchedInputMutex = s THEN NoSender ELSE batchedInputMutex
         /\ refused' = [l \in Batched |-> IF l = k THEN TRUE ELSE refused[l]]
      \/ /\ SenderAt(s, "allocate", "offer")
         /\ UNCHANGED <<batchedInputMutex, refused>>
  BY DEF Allocate, Unlock, NoteOutcome, k
<1>3. /\ sender' \in [Senders -> [pc : {"idle", "combine", "allocate", "offer"},
                                  event : Calls \union {Nothing}]]
      /\ sender[s].pc = "allocate" /\ sender'[s].event = sender[s].event
      /\ \/ sender'[s].pc = "idle"
            /\ batchedInputMutex' = IF batchedInputMutex = s THEN NoSender ELSE batchedInputMutex
         \/ sender'[s].pc = "offer" /\ UNCHANGED <<batchedInputMutex, refused>>
      /\ \A q \in Senders \ {s} : sender'[q] = sender[q]
  BY <1>2, SenderMoves DEF IInv
<1>4. /\ refused \in [Batched -> BOOLEAN] /\ batchedInputMutex \in Senders \union {NoSender}
  BY DEF IInv, TypeOK
<1>5. /\ refused' \in [Batched -> BOOLEAN] /\ batchedInputMutex' \in Senders \union {NoSender}
  BY <1>2, <1>4
<1>6. TypeOK' BY <1>1, <1>3, <1>5 DEF IInv, TypeOK
<1>7. EventAtHand' BY <1>3 DEF IInv, EventAtHand
<1>8. MutexKept' BY <1>1, <1>3, InputAssumption DEF IInv, MutexKept
<1>9. HolderAtHand' /\ MotionsAddUp' BY <1>1 DEF IInv, HolderAtHand, MotionsAddUp
<1>10. OneHolder' BY <1>1, HoldersFrame DEF IInv, AtHand
<1>11. Submitted'
  <2>1. ASSUME NEW l \in Batched, refused[l] \/ BeingQueued(l)
        PROVE  refused'[l] \/ BeingQueued(l)'
    <3>1. CASE UNCHANGED <<batchedInputMutex, refused>>
      BY <1>3, <1>4, <2>1, <3>1 DEF BeingQueued
    <3>2. CASE /\ batchedInputMutex' = IF batchedInputMutex = s THEN NoSender ELSE batchedInputMutex
               /\ refused' = [m \in Batched |-> IF m = k THEN TRUE ELSE refused[m]]
      <4>1. refused[l] => refused'[l] BY <3>2
      <4>2. CASE batchedInputMutex = s
        BY <2>1, <3>2, <4>1, <4>2 DEF BeingQueued, k
      <4>3. CASE batchedInputMutex # s
        BY <1>3, <1>4, <2>1, <3>2, <4>1, <4>3 DEF BeingQueued
      <4> QED BY <4>2, <4>3
    <3> QED BY <1>2, <3>1, <3>2
  <2>2. \A l \in Batched : Unsent(l)' => Unsent(l) BY <1>1 DEF Unsent
  <2>3. UNCHANGED <<dirty, failed>> BY <1>1
  <2>4. ASSUME ~failed', NEW l \in Batched, Unsent(l)'
        PROVE  dirty'[l] \/ refused'[l] \/ BeingQueued(l)'
    BY <2>1, <2>2, <2>3, <2>4 DEF IInv, Submitted
  <2> QED BY <2>4 DEF Submitted
<1> QED BY <1>6, <1>7, <1>8, <1>9, <1>10, <1>11 DEF IInv

\* A holder is queued, which makes its kind dirty, or refused; either way the mutex is free.
LEMMA OfferKeeps ==
  ASSUME IInv, NEW s \in Senders, Offer(s)
  PROVE  IInv'
<1> DEFINE e == sender[s].event
           refuse == draining \/ AtBound
           h == IF e.kind \in Batched THEN Holder(e.kind, 0) ELSE e
<1>1. UNCHANGED <<initialized, draining, freeListShutdown, value, thread, holder, stopper,
                  failed, host, moved, calls>>
  BY DEF Offer
<1>2. /\ SenderAt(s, "offer", "idle")
      /\ batchedInputMutex' = IF batchedInputMutex = s THEN NoSender ELSE batchedInputMutex
      /\ refused' = [l \in Batched |-> IF l = e.kind THEN refuse ELSE refused[l]]
  BY DEF Offer, Unlock, NoteOutcome
<1>3. IF refuse
      THEN UNCHANGED <<packetQueue, dirty>>
      ELSE /\ packetQueue' = Append(packetQueue, h)
           /\ dirty' = [l \in Batched |-> l = e.kind \/ dirty[l]]
  BY DEF Offer
<1>4. /\ sender' \in [Senders -> [pc : {"idle", "combine", "allocate", "offer"},
                                  event : Calls \union {Nothing}]]
      /\ sender[s].pc = "offer" /\ sender'[s].pc = "idle" /\ sender'[s].event = sender[s].event
      /\ \A q \in Senders \ {s} : sender'[q] = sender[q]
  BY <1>2, SenderMoves DEF IInv
<1>5. e \in Calls BY <1>4 DEF IInv, EventAtHand
<1>6. h \in Holders /\ h.kind = e.kind
  BY <1>5, Kinds DEF Holders
<1>7. /\ refused \in [Batched -> BOOLEAN] /\ dirty \in [Batched -> BOOLEAN]
      /\ batchedInputMutex \in Senders \union {NoSender} /\ draining \in BOOLEAN
      /\ packetQueue \in Seq(Holders) /\ Len(packetQueue) <= QueueBound
  BY DEF IInv, TypeOK, Holders
<1>8. e.kind \in Batched <=> batchedInputMutex = s
  BY <1>4 DEF IInv, MutexKept
<1>9. e.kind \in Batched /\ ~failed => ~dirty[e.kind]
  BY <1>8 DEF IInv, MutexKept
<1> HIDE DEF e, h
<1>10. /\ dirty' \in [Batched -> BOOLEAN] /\ refused' \in [Batched -> BOOLEAN]
       /\ \A l \in Batched : dirty'[l] <=> (~refuse /\ l = e.kind) \/ dirty[l]
       /\ \A l \in Batched : l # e.kind => refused'[l] = refused[l]
       /\ e.kind \in Batched => refused'[e.kind] = refuse
  BY <1>2, <1>3, <1>7 DEF AtBound
<1>11. packetQueue' \in Seq(Holders) /\ Len(packetQueue') <= QueueBound
  <2>1. CASE refuse BY <1>3, <1>7, <2>1
  <2>2. CASE ~refuse
    <3>1. Len(packetQueue') = Len(packetQueue) + 1 /\ packetQueue' \in Seq(Holders)
      BY <1>3, <1>6, <1>7, <2>2, QueueAppend
    <3>2. Len(packetQueue) \in Nat /\ Len(packetQueue) # QueueBound /\ QueueBound \in Nat
      BY <1>7, <2>2, InputAssumption DEF AtBound
    <3> QED BY <1>7, <3>1, <3>2
  <2> QED BY <2>1, <2>2
<1>12. TypeOK'
  <2>1. batchedInputMutex' \in Senders \union {NoSender} BY <1>2, <1>7
  <2> QED BY <1>1, <1>4, <1>10, <1>11, <2>1 DEF IInv, TypeOK, Holders, host
<1>13. EventAtHand' BY <1>4 DEF IInv, EventAtHand
<1>14. MutexKept'
  <2>1. ASSUME NEW q \in Senders \ {s}
        PROVE  batchedInputMutex' = q <=> batchedInputMutex = q
    BY <1>2, <2>1, InputAssumption
  <2>2. batchedInputMutex' # s BY <1>2, InputAssumption
  <2>3. ASSUME NEW q \in Senders \ {s}, batchedInputMutex = q, ~failed
        PROVE  ~dirty'[sender[q].event.kind]
    <3>1. batchedInputMutex # s BY <2>3
    <3>2. e.kind \notin Batched BY <1>8, <3>1
    <3>3. sender[q].event.kind \in Batched /\ ~dirty[sender[q].event.kind]
      BY <2>3 DEF IInv, MutexKept
    <3> QED BY <1>10, <3>2, <3>3
  <2> QED BY <1>1, <1>4, <2>1, <2>2, <2>3 DEF IInv, MutexKept
<1>15. HolderAtHand' /\ MotionsAddUp'
  BY <1>1 DEF IInv, HolderAtHand, MotionsAddUp, host
<1>16. OneHolder'
  <2>1. CASE refuse BY <1>1, <1>3, <2>1, HoldersFrame DEF IInv, AtHand
  <2>2. CASE ~refuse
    <3>1. /\ \A l : Queued(l)' = IF h.kind = l THEN Queued(l) \union {Len(packetQueue) + 1}
                                 ELSE Queued(l)
          /\ \A i \in 1 .. Len(packetQueue) : i \in 1 .. Len(packetQueue')
          /\ Len(packetQueue) + 1 \in 1 .. Len(packetQueue')
      <4>1. Len(packetQueue') = Len(packetQueue) + 1 /\ Len(packetQueue) \in Nat
        BY <1>3, <1>6, <1>7, <2>2, QueueAppend
      <4> QED BY <1>3, <1>6, <1>7, <2>2, <4>1, QueueAppend
    <3>2. \A l \in Batched : AtHand(l)' <=> AtHand(l) BY <1>1 DEF AtHand
    <3>3. ASSUME ~failed', NEW l \in Batched
          PROVE  IF dirty'[l]
                 THEN \/ AtHand(l)' /\ Queued(l)' = {}
                      \/ ~AtHand(l)' /\ \E i \in 1 .. Len(packetQueue') : Queued(l)' = {i}
                 ELSE ~AtHand(l)' /\ Queued(l)' = {}
      <4>1. IF dirty[l]
            THEN \/ AtHand(l) /\ Queued(l) = {}
                 \/ ~AtHand(l) /\ \E i \in 1 .. Len(packetQueue) : Queued(l) = {i}
            ELSE ~AtHand(l) /\ Queued(l) = {}
        BY <1>1, <3>3 DEF IInv, OneHolder
      <4>2. CASE l = e.kind
        <5>1. ~dirty[l] /\ dirty'[l] BY <1>1, <1>9, <1>10, <2>2, <3>3, <4>2
        <5>2. Queued(l)' = {Len(packetQueue) + 1} BY <1>6, <3>1, <4>1, <4>2, <5>1
        <5> QED BY <3>1, <3>2, <4>1, <5>1, <5>2
      <4>3. CASE l # e.kind
        <5>1. Queued(l)' = Queued(l) BY <1>6, <3>1, <4>3
        <5>2. dirty'[l] <=> dirty[l] BY <1>10, <4>3
        <5> QED BY <3>1, <3>2, <4>1, <5>1, <5>2
      <4> QED BY <4>2, <4>3
    <3> QED BY <3>3 DEF OneHolder
  <2> QED BY <2>1, <2>2
<1>17. Submitted'
  <2>1. ASSUME ~failed', NEW l \in Batched, Unsent(l)'
        PROVE  dirty'[l] \/ refused'[l] \/ BeingQueued(l)'
    <3>1. dirty[l] \/ refused[l] \/ BeingQueued(l)
      BY <1>1, <2>1 DEF IInv, Submitted, Unsent, host
    <3>2. CASE l = e.kind BY <1>10, <3>2
    <3>3. CASE l # e.kind
      <4>1. BeingQueued(l) => BeingQueued(l)'
        <5>1. SUFFICES ASSUME BeingQueued(l) PROVE BeingQueued(l)' OBVIOUS
        <5>2. batchedInputMutex # s BY <3>3, <5>1 DEF BeingQueued, e
        <5> QED BY <1>2, <1>4, <1>7, <5>1, <5>2 DEF BeingQueued
      <4> QED BY <1>10, <3>1, <3>3, <4>1
    <3> QED BY <3>2, <3>3
  <2> QED BY <2>1 DEF Submitted
<1> QED BY <1>12, <1>13, <1>14, <1>15, <1>16, <1>17 DEF IInv

-----------------------------------------------------------------------------
(* inputSendThreadProc *)

\* Holders for batched kinds are populated, and only those.
LEMMA Handles ==
  ASSUME NEW h
  PROVE  /\ h.kind \in Batched => Handling(h) = "populate"
         /\ h.kind \notin Batched => Handling(h) \in {"batch", "transit", "send"}
<1>1. h.kind \in Batched => h.kind # "controller" /\ h.kind # "pen" /\ h.kind # "text"
  BY InputAssumption DEF Batched
<1>2. CASE h.kind \in Batched BY <1>1, <1>2 DEF Handling
<1>3. CASE h.kind \notin Batched
  <2>1. CASE h.kind = "controller" BY <1>3, <2>1 DEF Handling
  <2>2. CASE h.kind = "text" BY <1>3, <2>2 DEF Handling
  <2>3. CASE h.kind = "pen" /\ h.what \in {"hover", "move"} BY <1>3, <2>3 DEF Handling
  <2>4. CASE /\ h.kind \notin {"controller", "text"}
             /\ ~(h.kind = "pen" /\ h.what \in {"hover", "move"})
    BY <1>3, <2>4 DEF Handling
  <2> QED BY <2>1, <2>2, <2>3, <2>4
<1> QED BY <1>2, <1>3

\* The input thread has the queue's first holder, and one of a batched kind is at hand.
LEMMA TakeKeeps ==
  ASSUME IInv, TakeHolder
  PROVE  IInv'
<1> DEFINE h == Head(packetQueue)
<1>1. /\ packetQueue # <<>> /\ packetQueue' = Tail(packetQueue) /\ holder' = h
      /\ thread = "wait" /\ thread' = Handling(h)
      /\ UNCHANGED <<initialized, draining, freeListShutdown, batch, sender, stopper, failed,
                     host, history>>
  BY DEF TakeHolder, ThreadAt
<1>2. packetQueue \in Seq(Holders) /\ Len(packetQueue) <= QueueBound
  BY DEF IInv, TypeOK, Holders
<1>3. /\ packetQueue' \in Seq(Holders) /\ Len(packetQueue') = Len(packetQueue) - 1
      /\ h \in Holders
      /\ \A k : Queued(k) = {} => Queued(k)' = {} /\ h.kind # k
      /\ \A k : h.kind = k /\ (\E i \in 1 .. Len(packetQueue) : Queued(k) = {i}) => Queued(k)' = {}
      /\ \A k : h.kind # k /\ (\E i \in 1 .. Len(packetQueue) : Queued(k) = {i})
           => \E i \in 1 .. Len(packetQueue') : Queued(k)' = {i}
  BY <1>1, <1>2, QueueTail
<1> HIDE DEF h
<1>4. /\ h.kind \in Batched => thread' = "populate" /\ h.axes = 0
      /\ h.kind \notin Batched => h \in Packets /\ thread' \in {"batch", "transit", "send"}
  BY <1>1, <1>3, Kinds, Handles
<1>5. TypeOK'
  <2>1. Len(packetQueue') <= QueueBound
    <3>1. Len(packetQueue) \in Nat /\ QueueBound \in Nat BY <1>2, InputAssumption
    <3> QED BY <1>2, <1>3, <3>1
  <2>2. holder'.kind = "relative" => holder'.axes \in -MaxDelta - 1 .. MaxDelta
    <3>1. 0 \in -MaxDelta - 1 .. MaxDelta BY InputAssumption
    <3> QED BY <1>1, <1>4, <3>1, Kinds
  <2>3. thread' \in {"wait", "batch", "transit", "populate", "part", "send", "exited"}
    BY <1>4
  <2> QED BY <1>1, <1>3, <2>1, <2>2, <2>3 DEF IInv, TypeOK, Holders, batch, host, history
<1>6. EventAtHand' /\ MutexKept'
  BY <1>1, SendersFrame DEF IInv, batch
<1>7. HolderAtHand' BY <1>1, <1>4 DEF HolderAtHand
<1>8. OneHolder'
  <2>1. ASSUME ~failed', NEW k \in Batched
        PROVE  IF dirty'[k]
               THEN \/ AtHand(k)' /\ Queued(k)' = {}
                    \/ ~AtHand(k)' /\ \E i \in 1 .. Len(packetQueue') : Queued(k)' = {i}
               ELSE ~AtHand(k)' /\ Queued(k)' = {}
    <3>1. ~AtHand(k) BY <1>1 DEF AtHand
    <3>2. IF dirty[k] THEN \E i \in 1 .. Len(packetQueue) : Queued(k) = {i} ELSE Queued(k) = {}
      BY <1>1, <2>1, <3>1 DEF IInv, OneHolder
    <3>3. dirty' = dirty BY <1>1 DEF batch
    <3>4. AtHand(k)' <=> h.kind = k
      BY <1>1, <1>4 DEF AtHand
    <3>5. CASE h.kind = k BY <1>3, <3>2, <3>3, <3>4, <3>5
    <3>6. CASE h.kind # k BY <1>3, <3>2, <3>3, <3>4, <3>6
    <3> QED BY <3>5, <3>6
  <2> QED BY <2>1 DEF OneHolder
<1>9. Submitted'
  <2>1. holder.kind \notin Batched BY <1>1, Kinds DEF IInv, HolderAtHand
  <2>2. \A k \in Batched : Unsent(k)' => Unsent(k)
    BY <1>1, <1>4, <2>1, Kinds DEF Unsent, batch, host
  <2> QED BY <1>1, <2>2, SubmittedFrame DEF IInv, batch, history
<1>10. MotionsAddUp' BY <1>1, <1>4 DEF IInv, MotionsAddUp, batch, host, history
<1> QED BY <1>5, <1>6, <1>7, <1>8, <1>9, <1>10 DEF IInv

\* One packet takes the place of another; the batched kinds have no part in it.
LEMMA BatchKeeps ==
  ASSUME IInv, BatchNext
  PROVE  IInv'
<1> DEFINE h == Head(packetQueue)
<1>1. /\ packetQueue # <<>> /\ packetQueue' = Tail(packetQueue) /\ holder' = h
      /\ thread = "batch" /\ UNCHANGED thread /\ h.kind = holder.kind
      /\ UNCHANGED <<initialized, draining, freeListShutdown, batch, sender, stopper, failed,
                     host, history>>
  BY DEF BatchNext, SameButAxes
<1>2. packetQueue \in Seq(Holders) /\ Len(packetQueue) <= QueueBound
  BY DEF IInv, TypeOK, Holders
<1>3. /\ packetQueue' \in Seq(Holders) /\ Len(packetQueue') = Len(packetQueue) - 1
      /\ h \in Holders
      /\ \A k : Queued(k) = {} => Queued(k)' = {} /\ h.kind # k
      /\ \A k : h.kind # k /\ (\E i \in 1 .. Len(packetQueue) : Queued(k) = {i})
           => \E i \in 1 .. Len(packetQueue') : Queued(k)' = {i}
  BY <1>1, <1>2, QueueTail
<1> HIDE DEF h
<1>4. holder.kind \notin Batched /\ h \in Packets
  BY <1>1, <1>3, Kinds DEF IInv, HolderAtHand
<1>5. TypeOK'
  <2>1. Len(packetQueue') <= QueueBound
    <3>1. Len(packetQueue) \in Nat /\ QueueBound \in Nat BY <1>2, InputAssumption
    <3> QED BY <1>2, <1>3, <3>1
  <2>2. holder'.kind # "relative" BY <1>1, <1>4, Kinds
  <2> QED BY <1>1, <1>3, <2>1, <2>2 DEF IInv, TypeOK, Holders, batch, host, history
<1>6. EventAtHand' /\ MutexKept'
  BY <1>1, SendersFrame DEF IInv, batch
<1>7. HolderAtHand' BY <1>1, <1>4 DEF HolderAtHand
<1>8. OneHolder'
  <2>1. ASSUME ~failed', NEW k \in Batched
        PROVE  IF dirty'[k]
               THEN \/ AtHand(k)' /\ Queued(k)' = {}
                    \/ ~AtHand(k)' /\ \E i \in 1 .. Len(packetQueue') : Queued(k)' = {i}
               ELSE ~AtHand(k)' /\ Queued(k)' = {}
    <3>1. ~AtHand(k) /\ ~AtHand(k)' /\ h.kind # k BY <1>1, <1>4 DEF AtHand
    <3>2. IF dirty[k] THEN \E i \in 1 .. Len(packetQueue) : Queued(k) = {i} ELSE Queued(k) = {}
      BY <1>1, <2>1, <3>1 DEF IInv, OneHolder
    <3>3. dirty' = dirty BY <1>1 DEF batch
    <3> QED BY <1>3, <3>1, <3>2, <3>3
  <2> QED BY <2>1 DEF OneHolder
<1>9. Submitted'
  <2>1. \A k \in Batched : Unsent(k)' => Unsent(k)
    BY <1>1 DEF Unsent, batch, host
  <2> QED BY <1>1, <2>1, SubmittedFrame DEF IInv, batch, history
<1>10. MotionsAddUp' BY <1>1 DEF IInv, MotionsAddUp, batch, host, history
<1> QED BY <1>5, <1>6, <1>7, <1>8, <1>9, <1>10 DEF IInv

\* The thread goes on with the holder at hand, which is a packet, or returns.
LEMMA GoesOnKeeps ==
  ASSUME IInv, ThreadReturns \/ BatchDone \/ TransitEnds
  PROVE  IInv'
<1>1. /\ UNCHANGED <<initialized, queue, batch, sender, holder, stopper, failed, host, history>>
      /\ \/ thread = "wait" /\ thread' = "exited"
         \/ thread \in {"batch", "transit"} /\ thread' = "send"
  BY DEF ThreadReturns, BatchDone, TransitEnds, ThreadAt
<1>2. TypeOK' BY <1>1 DEF IInv, TypeOK, queue, batch, host, history
<1>3. EventAtHand' /\ MutexKept'
  BY <1>1, SendersFrame DEF IInv, batch
<1>4. HolderAtHand' BY <1>1 DEF IInv, HolderAtHand
<1>5. OneHolder' BY <1>1, HoldersFrame DEF IInv, AtHand, queue, batch
<1>6. Submitted'
  <2>1. holder.kind \notin Batched BY <1>1, Kinds DEF IInv, HolderAtHand
  <2>2. \A k \in Batched : Unsent(k)' => Unsent(k)
    BY <1>1, <2>1 DEF Unsent, batch, host
  <2> QED BY <1>1, <2>2, SubmittedFrame DEF IInv, batch, history
<1>7. MotionsAddUp' BY <1>1 DEF IInv, MotionsAddUp, batch, host, history
<1> QED BY <1>2, <1>3, <1>4, <1>5, <1>6, <1>7 DEF IInv

\* The newest state goes into the packet.
LEMMA LatestKeeps ==
  ASSUME IInv, PopulateLatest
  PROVE  IInv'
<1> DEFINE k == holder.kind
<1>1. /\ k \in Latest /\ thread = "populate" /\ thread' = "send"
      /\ holder' = Holder(k, value[k]) /\ dirty' = [dirty EXCEPT ![k] = FALSE]
      /\ UNCHANGED <<initialized, queue, batchedInputMutex, value, sender, stopper, failed,
                     host, history>>
  BY DEF PopulateLatest, ThreadAt
<1>2. /\ k \in Batched /\ k # "relative" /\ value[k] \in States
      /\ holder'.kind = k /\ holder'.axes = value[k] /\ dirty \in [Batched -> BOOLEAN]
  BY <1>1, Kinds DEF IInv, TypeOK
<1>3. /\ dirty' \in [Batched -> BOOLEAN] /\ ~dirty'[k]
      /\ \A l \in Batched \ {k} : dirty'[l] = dirty[l]
  BY <1>1, <1>2
<1>4. TypeOK' BY <1>1, <1>2, <1>3 DEF IInv, TypeOK, queue, host, history
<1>5. EventAtHand' /\ MutexKept'
  BY <1>1, <1>3, SendersFrame DEF IInv
<1>6. HolderAtHand' BY <1>1, <1>2 DEF HolderAtHand
<1>7. OneHolder'
  <2>1. ASSUME ~failed', NEW l \in Batched
        PROVE  IF dirty'[l]
               THEN \/ AtHand(l)' /\ Queued(l)' = {}
                    \/ ~AtHand(l)' /\ \E i \in 1 .. Len(packetQueue') : Queued(l)' = {i}
               ELSE ~AtHand(l)' /\ Queued(l)' = {}
    <3>1. /\ ~AtHand(l)' /\ (AtHand(l) <=> l = k) /\ Queued(l)' = Queued(l)
          /\ packetQueue' = packetQueue
      BY <1>1 DEF AtHand, Queued, queue
    <3>2. IF dirty[l]
          THEN \/ AtHand(l) /\ Queued(l) = {}
               \/ ~AtHand(l) /\ \E i \in 1 .. Len(packetQueue) : Queued(l) = {i}
          ELSE ~AtHand(l) /\ Queued(l) = {}
      BY <1>1, <2>1 DEF IInv, OneHolder
    <3>3. CASE l = k BY <1>3, <3>1, <3>2, <3>3
    <3>4. CASE l # k BY <1>3, <3>1, <3>2, <3>4
    <3> QED BY <3>3, <3>4
  <2> QED BY <2>1 DEF OneHolder
<1>8. Submitted'
  <2>1. ASSUME ~failed', NEW l \in Batched, Unsent(l)'
        PROVE  dirty'[l] \/ refused'[l] \/ BeingQueued(l)'
    <3>1. l # k BY <1>1, <1>2, <2>1 DEF Unsent
    <3>2. Unsent(l) BY <1>1, <1>2, <2>1, <3>1 DEF Unsent, host
    <3> QED BY <1>1, <1>3, <2>1, <3>1, <3>2 DEF IInv, Submitted, BeingQueued, history
  <2> QED BY <2>1 DEF Submitted
<1>9. MotionsAddUp' BY <1>1 DEF IInv, MotionsAddUp, host, history
<1> QED BY <1>4, <1>5, <1>6, <1>7, <1>8, <1>9 DEF IInv

\* What is sent and what is left of a motion make the motion.
LEMMA Parts ==
  ASSUME value["relative"] \in Int
  PROVE  Part \in -MaxDelta - 1 .. MaxDelta /\ Part \in Int
<1>1. MaxDelta \in Nat \ {0} BY InputAssumption
<1> QED BY <1>1 DEF Part

\* As much of the motion as fits goes into the packet; the last time there is nothing left.
LEMMA RelativeKeeps ==
  ASSUME IInv, PopulateRelative
  PROVE  IInv'
<1>1. /\ holder.kind = "relative" /\ thread = "populate" /\ batchedInputMutex = NoSender
      /\ UNCHANGED <<initialized, queue, batchedInputMutex, sender, stopper, failed, host, history>>
  BY DEF PopulateRelative, ThreadAt
<1>2. /\ value \in [Batched -> Int] /\ dirty \in [Batched -> BOOLEAN]
      /\ \A l \in Latest : value[l] \in States
      /\ value["relative"] \in Int
  BY Kinds DEF IInv, TypeOK
<1>3. CASE MoreToSend
  <2>1. /\ thread' = "part" /\ holder' = Holder("relative", Part) /\ UNCHANGED dirty
        /\ value' = [value EXCEPT !["relative"] = @ - Part]
    BY <1>3 DEF PopulateRelative, ThreadAt
  <2>2. Part \in -MaxDelta - 1 .. MaxDelta /\ Part \in Int BY <1>2, Parts
  <2>3. /\ holder'.kind = "relative" /\ holder'.axes = Part
        /\ value' \in [Batched -> Int] /\ value'["relative"] = value["relative"] - Part
        /\ \A l \in Latest : value'[l] = value[l]
        /\ \A l \in Batched : l = "relative" \/ l \in Latest
    BY <1>2, <2>1, <2>2, Kinds DEF Batched
  <2>4. TypeOK' BY <1>1, <1>2, <2>1, <2>2, <2>3 DEF IInv, TypeOK, queue, host, history
  <2>5. EventAtHand' /\ MutexKept' BY <1>1, <2>1, SendersFrame DEF IInv
  <2>6. HolderAtHand' BY <2>1, <2>2, <2>3 DEF HolderAtHand
  <2>7. OneHolder' BY <1>1, <2>1, <2>3, HoldersFrame DEF IInv, AtHand, queue
  <2>8. Submitted'
    <3>1. \A k \in Batched : Unsent(k)' => Unsent(k)
      BY <1>1, <1>3, <2>1, <2>3 DEF Unsent, host, MoreToSend
    <3> QED BY <1>1, <2>1, <3>1, SubmittedFrame DEF IInv, history
  <2>9. MotionsAddUp'
    <3>1. UNCHANGED <<moved, received, failed>> BY <1>1 DEF host, history
    <3>2. received["relative"] \in Int BY Kinds DEF IInv, TypeOK
    <3>3. ~failed => moved = received["relative"] + value["relative"] + 0
      BY <1>1 DEF IInv, MotionsAddUp
    <3> QED BY <1>2, <2>1, <2>2, <2>3, <3>1, <3>2, <3>3 DEF MotionsAddUp
  <2> QED BY <2>4, <2>5, <2>6, <2>7, <2>8, <2>9 DEF IInv
<1>4. CASE ~MoreToSend
  <2>1. /\ thread' = "wait" /\ holder' = Nothing /\ UNCHANGED value
        /\ dirty' = [dirty EXCEPT !["relative"] = FALSE]
    BY <1>4 DEF PopulateRelative, ThreadAt
  <2>2. holder'.kind = "none" /\ "relative" \in Batched /\ "none" \notin Batched BY <2>1, Kinds
  <2>3. /\ dirty' \in [Batched -> BOOLEAN] /\ ~dirty'["relative"]
        /\ \A l \in Batched \ {"relative"} : dirty'[l] = dirty[l]
    BY <1>2, <2>1, <2>2
  <2>4. TypeOK' BY <1>1, <2>1, <2>2, <2>3 DEF IInv, TypeOK, queue, host, history
  <2>5. EventAtHand' /\ MutexKept' BY <1>1, <2>3, SendersFrame DEF IInv
  <2>6. HolderAtHand' BY <2>1 DEF HolderAtHand
  <2>7. OneHolder'
    <3>1. ASSUME ~failed', NEW l \in Batched
          PROVE  IF dirty'[l]
                 THEN \/ AtHand(l)' /\ Queued(l)' = {}
                      \/ ~AtHand(l)' /\ \E i \in 1 .. Len(packetQueue') : Queued(l)' = {i}
                 ELSE ~AtHand(l)' /\ Queued(l)' = {}
      <4>1. /\ ~AtHand(l)' /\ (AtHand(l) <=> l = "relative") /\ Queued(l)' = Queued(l)
            /\ packetQueue' = packetQueue
        BY <1>1, <2>1 DEF AtHand, Queued, queue
      <4>2. IF dirty[l]
            THEN \/ AtHand(l) /\ Queued(l) = {}
                 \/ ~AtHand(l) /\ \E i \in 1 .. Len(packetQueue) : Queued(l) = {i}
            ELSE ~AtHand(l) /\ Queued(l) = {}
        BY <1>1, <3>1 DEF IInv, OneHolder
      <4>3. CASE l = "relative" BY <2>3, <4>1, <4>2, <4>3
      <4>4. CASE l # "relative" BY <2>3, <4>1, <4>2, <4>4
      <4> QED BY <4>3, <4>4
    <3> QED BY <3>1 DEF OneHolder
  <2>8. Submitted'
    <3>1. ASSUME ~failed', NEW l \in Batched, Unsent(l)'
          PROVE  dirty'[l] \/ refused'[l] \/ BeingQueued(l)'
      <4>1. l # "relative" BY <1>4, <2>1, <3>1 DEF Unsent, MoreToSend
      <4>2. Unsent(l) BY <1>1, <2>1, <3>1, <4>1 DEF Unsent, host
      <4> QED BY <1>1, <2>3, <3>1, <4>1, <4>2 DEF IInv, Submitted, BeingQueued, history
    <3> QED BY <3>1 DEF Submitted
  <2>9. MotionsAddUp' BY <1>1, <2>1 DEF IInv, MotionsAddUp, host, history
  <2> QED BY <2>4, <2>5, <2>6, <2>7, <2>8, <2>9 DEF IInv
<1> QED BY <1>3, <1>4

\* The host has the part that was sent; the state is populated once more.
LEMMA PartKeeps ==
  ASSUME IInv, SendPart
  PROVE  IInv'
<1>1. /\ thread = "part" /\ thread' = "populate"
      /\ received' = [received EXCEPT !["relative"] = @ + holder.axes]
      /\ UNCHANGED <<initialized, queue, batch, sender, holder, stopper, failed, given, history>>
  BY DEF SendPart, ThreadAt
<1>2. /\ holder.kind = "relative" /\ holder.axes \in Int /\ "relative" \in Batched
      /\ received \in [Batched -> Int] /\ value["relative"] \in Int
  BY <1>1, Kinds DEF IInv, HolderAtHand, TypeOK
<1>3. /\ received' \in [Batched -> Int] /\ received["relative"] \in Int
      /\ received'["relative"] = received["relative"] + holder.axes
      /\ \A l \in Batched \ {"relative"} : received'[l] = received[l]
  BY <1>1, <1>2
<1>4. TypeOK' BY <1>1, <1>3 DEF IInv, TypeOK, queue, batch, history
<1>5. EventAtHand' /\ MutexKept' BY <1>1, SendersFrame DEF IInv, batch
<1>6. HolderAtHand' BY <1>1, <1>2 DEF HolderAtHand
<1>7. OneHolder' BY <1>1, HoldersFrame DEF IInv, AtHand, queue, batch
<1>8. Submitted'
  <2>1. \A k \in Batched : Unsent(k)' => Unsent(k)
    BY <1>1, <1>3 DEF Unsent, batch
  <2> QED BY <1>1, <2>1, SubmittedFrame DEF IInv, batch, history
<1>9. MotionsAddUp'
  <2>1. ~failed => moved = received["relative"] + value["relative"] + holder.axes
    BY <1>1 DEF IInv, MotionsAddUp
  <2>2. UNCHANGED <<moved, value, failed>> BY <1>1 DEF batch, history
  <2> QED BY <1>1, <1>2, <1>3, <2>1, <2>2 DEF MotionsAddUp
<1> QED BY <1>4, <1>5, <1>6, <1>7, <1>8, <1>9 DEF IInv

\* The host has the state that was sent, or the packet.
LEMMA SendKeeps ==
  ASSUME IInv, SendHolder
  PROVE  IInv'
<1>1. /\ thread = "send" /\ thread' = "wait" /\ holder' = Nothing
      /\ UNCHANGED <<initialized, queue, batch, sender, stopper, failed, history>>
      /\ IF holder.kind \in Latest
         THEN received' = [received EXCEPT ![holder.kind] = holder.axes]
         ELSE UNCHANGED received
  BY DEF SendHolder, ThreadAt
<1>2. /\ received \in [Batched -> Int] /\ States \subseteq Int /\ Latest \subseteq Batched
      /\ holder'.kind = "none" /\ "none" \notin Batched /\ "relative" \notin Latest
      /\ holder.kind \notin Latest => holder.kind \notin Batched
      /\ holder.kind \in Latest => holder.axes \in States
      /\ "relative" \in Batched
  BY <1>1, InputAssumption, Kinds DEF IInv, HolderAtHand, TypeOK
<1>3. /\ received' \in [Batched -> Int]
      /\ \A l \in Batched \ {holder.kind} : received'[l] = received[l]
      /\ holder.kind \in Latest => received'[holder.kind] = holder.axes
      /\ received'["relative"] = received["relative"]
  BY <1>1, <1>2
<1>4. TypeOK' BY <1>1, <1>2, <1>3 DEF IInv, TypeOK, queue, batch, history
<1>5. EventAtHand' /\ MutexKept' BY <1>1, SendersFrame DEF IInv, batch
<1>6. HolderAtHand' BY <1>1 DEF HolderAtHand
<1>7. OneHolder' BY <1>1, HoldersFrame DEF IInv, AtHand, queue, batch
<1>8. Submitted'
  <2>1. \A k \in Batched : Unsent(k)' => Unsent(k)
    BY <1>1, <1>2, <1>3 DEF Unsent, batch
  <2> QED BY <1>1, <2>1, SubmittedFrame DEF IInv, batch, history
<1>9. MotionsAddUp' BY <1>1, <1>3 DEF IInv, MotionsAddUp, batch, history
<1> QED BY <1>4, <1>5, <1>6, <1>7, <1>8, <1>9 DEF IInv

\* After a failure of sendInputPacket nothing is promised, and the thread has returned.
LEMMA FailureKeeps ==
  ASSUME IInv, SendFails
  PROVE  IInv'
<1>1. /\ thread' = "exited" /\ failed' = TRUE /\ holder' = Nothing
      /\ UNCHANGED <<initialized, queue, batch, sender, stopper, host, history>>
  BY DEF SendFails
<1>2. holder'.kind = "none" BY <1>1, Kinds
<1>3. TypeOK' BY <1>1, <1>2 DEF IInv, TypeOK, queue, batch, host, history
<1>4. EventAtHand' /\ MutexKept' BY <1>1, SendersFrame DEF IInv, batch
<1> QED BY <1>1, <1>3, <1>4 DEF IInv, HolderAtHand, OneHolder, Submitted, MotionsAddUp

-----------------------------------------------------------------------------
(* startInputStream, stopInputStream, and the theorems. *)

\* Starting and stopping touch neither the senders, the input thread nor the queue.
LEMMA StopperKeeps ==
  ASSUME IInv, Start \/ BeginStop \/ stopInputStream \/ UNCHANGED vars
  PROVE  IInv'
<1> USE DEF Start, BeginStop, stopInputStream, ShutDownFreeList, Drain, Joined, StopperAt,
            queue, batch, host, history, vars
<1>1. UNCHANGED <<packetQueue, batchedInputMutex, value, dirty, sender, thread, holder, failed,
                  received, moved, refused, calls>>
  OBVIOUS
<1>2. /\ initialized' \in BOOLEAN /\ draining' \in BOOLEAN /\ freeListShutdown' \in BOOLEAN
      /\ stopper' \in {"created", "started", "closed", "drain", "joining", "stopped"}
  BY DEF IInv, TypeOK
<1> HIDE DEF Start, BeginStop, stopInputStream, ShutDownFreeList, Drain, Joined, StopperAt, vars
<1>3. TypeOK' BY <1>1, <1>2 DEF IInv, TypeOK
<1>4. EventAtHand' /\ MutexKept' BY <1>1, SendersFrame DEF IInv
<1>5. HolderAtHand' /\ MotionsAddUp' BY <1>1 DEF IInv, HolderAtHand, MotionsAddUp
<1>6. OneHolder' BY <1>1, HoldersFrame DEF IInv, AtHand
<1>7. Submitted' BY <1>1, SubmittedFrame DEF IInv, Unsent
<1> QED BY <1>3, <1>4, <1>5, <1>6, <1>7 DEF IInv

\* After initializeInputStream nothing is queued, at hand or unsent.
LEMMA InitIInv == Init => IInv
<1> SUFFICES ASSUME Init PROVE IInv OBVIOUS
<1>1. /\ packetQueue = <<>> /\ batchedInputMutex = NoSender /\ thread = "wait"
      /\ holder = Nothing /\ moved = 0 /\ calls = 0 /\ stopper = "created"
      /\ {initialized, draining, freeListShutdown, failed} \subseteq BOOLEAN
  BY DEF Init
<1>2. /\ value = [k \in Batched |-> 0] /\ dirty = [k \in Batched |-> FALSE]
      /\ received = [k \in Batched |-> 0] /\ refused = [k \in Batched |-> FALSE]
      /\ sender = [s \in Senders |-> [pc |-> "idle", event |-> Nothing]]
  BY DEF Init
<1>3. packetQueue \in Seq(Packets \union {Holder(k, 0) : k \in Batched}) /\ Len(packetQueue) = 0
  BY <1>1
<1>4. /\ Len(packetQueue) <= QueueBound /\ calls \in 0 .. MaxCalls
  BY <1>1, <1>3, InputAssumption
<1>5. /\ value \in [Batched -> Int] /\ received \in [Batched -> Int] /\ moved \in Int
      /\ \A k \in Latest : value[k] \in States
  BY <1>1, <1>2, InputAssumption DEF Batched
<1>6. /\ dirty \in [Batched -> BOOLEAN] /\ refused \in [Batched -> BOOLEAN]
      /\ sender \in [Senders -> [pc : {"idle", "combine", "allocate", "offer"},
                                 event : Calls \union {Nothing}]]
  BY <1>2
<1>7. TypeOK BY <1>1, <1>3, <1>4, <1>5, <1>6, Kinds DEF TypeOK
<1>8. EventAtHand /\ MutexKept
  BY <1>1, <1>2, InputAssumption DEF EventAtHand, MutexKept
<1>9. HolderAtHand BY <1>1 DEF HolderAtHand
<1>10. OneHolder BY <1>1, <1>2, <1>3 DEF OneHolder, AtHand, Queued
<1>11. Submitted BY <1>1, <1>2, Kinds DEF Submitted, Unsent
<1>12. MotionsAddUp BY <1>1, <1>2, Kinds DEF MotionsAddUp
<1> QED BY <1>7, <1>8, <1>9, <1>10, <1>11, <1>12 DEF IInv

\* The invariant is inductive, and holds in every state the program reaches.
LEMMA Inductive == Spec => []IInv
<1>1. IInv /\ [Next]_vars => IInv'
  BY CallKeeps, CombineKeeps, AllocateKeeps, OfferKeeps, TakeKeeps, BatchKeeps, GoesOnKeeps,
     LatestKeeps, RelativeKeeps, PartKeeps, SendKeeps, FailureKeeps, StopperKeeps
  DEF Next, LiSendEvent, inputSendThreadProc
<1> QED BY <1>1, InitIInv, PTL DEF Spec

\* Every variable has its type: in particular the queue keeps its bound, and no motion in a
\* packet is out of range.
THEOREM TypeCorrect == Spec => []TypeOK
BY Inductive, PTL DEF IInv

\* Counting the holders of a kind comes to one or none.
LEMMA HoldersCounted ==
  ASSUME IInv
  PROVE  NothingStranded
<1> SUFFICES ASSUME ~failed PROVE NothingStranded BY DEF NothingStranded
<1>1. ASSUME NEW k \in Batched
      PROVE  HoldersOf(k) = IF dirty[k] THEN 1 ELSE 0
  <2>1. HoldersOf(k) = Cardinality(Queued(k)) + (IF AtHand(k) THEN 1 ELSE 0)
    BY DEF HoldersOf, Queued, AtHand
  <2>2. IF dirty[k]
        THEN \/ AtHand(k) /\ Queued(k) = {}
             \/ ~AtHand(k) /\ \E i \in 1 .. Len(packetQueue) : Queued(k) = {i}
        ELSE ~AtHand(k) /\ Queued(k) = {}
    BY DEF IInv, OneHolder
  <2>3. Queued(k) = {} => Cardinality(Queued(k)) = 0 BY FS_EmptySet
  <2>4. (\E i \in 1 .. Len(packetQueue) : Queued(k) = {i}) => Cardinality(Queued(k)) = 1
    BY FS_Singleton
  <2> QED BY <2>1, <2>2, <2>3, <2>4
<1> QED BY <1>1 DEF NothingStranded, IInv, Submitted, MotionsAddUp

\* What is submitted while a packet is queued, populated or sent is neither lost nor sent
\* twice, for any threads of the client and any states and motions (NothingStranded).
THEOREM NeverStranded == Spec => []NothingStranded
BY Inductive, HoldersCounted, PTL

-----------------------------------------------------------------------------
(* The packets of the queue in their order. *)

\* Every set of numbers that is not empty has a least one.
LEMMA LeastNumber ==
  ASSUME NEW S, S \subseteq Nat, S # {}
  PROVE  \E m \in S : \A x \in S : m <= x
<1>1. PICK m \in S : \A y \in S : ~ (<<y, m>> \in OpToRel(<, Nat))
  BY WFMin, NatLessThanWellFounded, Zenon
<1>2. \A y \in S : ~(y < m) BY <1>1 DEF OpToRel
<1> QED BY <1>2

\* Of two lists of the same places in ascending order, none skips a place of the other.
LEMMA NoneSkipped ==
  ASSUME NEW n \in Nat, NEW f \in [1 .. n -> Nat], NEW g \in [1 .. n -> Nat], NEW P,
         Ascending(f, P), Ascending(g, P), NEW m \in 1 .. n, \A i \in 1 .. m - 1 : f[i] = g[i]
  PROVE  ~(f[m] < g[m])
<1> SUFFICES ASSUME f[m] < g[m] PROVE FALSE OBVIOUS
<1>1. f[m] \in P BY DEF Ascending
<1>2. PICK j \in 1 .. n : g[j] = f[m] BY <1>1 DEF Ascending
<1>3. f[m] \in Nat /\ g[m] \in Nat /\ g[j] < g[m] BY <1>2
<1>4. ~(m < j)
  <2>1. m < j => g[m] < g[j] BY DEF Ascending
  <2> QED BY <1>2, <1>3, <2>1
<1>5. j # m BY <1>3
<1>6. j \in 1 .. m - 1 /\ j < m BY <1>4, <1>5
<1>7. f[j] < f[m] BY <1>6 DEF Ascending
<1> QED BY <1>2, <1>3, <1>6, <1>7

\* There is one way only to list places in ascending order.
LEMMA ListedOnce ==
  ASSUME NEW n \in Nat, NEW f \in [1 .. n -> Nat], NEW g \in [1 .. n -> Nat], NEW P,
         Ascending(f, P), Ascending(g, P)
  PROVE  f = g
<1> DEFINE Differ == {i \in 1 .. n : f[i] # g[i]}
<1>1. Differ # {} => FALSE
  <2> SUFFICES ASSUME Differ # {} PROVE FALSE OBVIOUS
  <2>1. PICK m \in Differ : \A i \in Differ : m <= i
    <3>1. Differ \subseteq Nat OBVIOUS
    <3> HIDE DEF Differ
    <3> QED BY <3>1, LeastNumber
  <2>2. m \in 1 .. n /\ f[m] # g[m] OBVIOUS
  <2>3. \A i \in 1 .. m - 1 : f[i] = g[i]
    <3> TAKE i \in 1 .. m - 1
    <3>1. i \in 1 .. n /\ ~(m <= i) BY <2>2
    <3> QED BY <2>1, <3>1
  <2>4. ~(f[m] < g[m]) BY <2>2, <2>3, NoneSkipped
  <2>5. ~(g[m] < f[m])
    <3>1. \A i \in 1 .. m - 1 : g[i] = f[i] BY <2>3
    <3> QED BY <2>2, <3>1, NoneSkipped
  <2>6. f[m] \in Nat /\ g[m] \in Nat BY <2>2
  <2> QED BY <2>2, <2>4, <2>5, <2>6
<1>2. \A i \in 1 .. n : f[i] = g[i] BY <1>1
<1> QED BY <1>2

\* f lists the places of the packets in s.
Lists(f, n, s) == n \in Nat /\ f \in [1 .. n -> Nat] /\ Ascending(f, Places(s))

\* What PacketsOf finds is what any such list gives.
LEMMA PacketsAre ==
  ASSUME NEW s, NEW n, NEW f, Lists(f, n, s)
  PROVE  PacketsOf(s) = [i \in 1 .. n |-> s[f[i]]]
<1> DEFINE P == Places(s)
           g == CHOOSE g \in [1 .. Cardinality(P) -> P] : Ascending(g, P)
<1>1. n \in Nat /\ f \in [1 .. n -> Nat] /\ Ascending(f, P) BY DEF Lists
<1>2. P = {f[i] : i \in 1 .. n} /\ P \subseteq Nat BY <1>1 DEF Ascending
<1>3. f \in [1 .. n -> P] BY <1>1, <1>2
<1>4. Cardinality(P) = n
  <2>1. IsFiniteSet(1 .. n) /\ Cardinality(1 .. n) = n
    <3>1. 1 \in Int /\ n \in Int BY <1>1
    <3>2. IsFiniteSet(1 .. n) /\ Cardinality(1 .. n) = IF 1 > n THEN 0 ELSE n - 1 + 1
      BY <3>1, FS_Interval
    <3> QED BY <3>2, <1>1
  <2>2. f \in Bijection(1 .. n, P)
    <3>1. \A i, j \in 1 .. n : f[i] = f[j] => i = j
      <4> TAKE i, j \in 1 .. n
      <4>1. f[i] \in Nat /\ f[j] \in Nat BY <1>1
      <4>2. i < j => f[i] < f[j] BY <1>1 DEF Ascending
      <4>3. j < i => f[j] < f[i] BY <1>1 DEF Ascending
      <4> QED BY <4>1, <4>2, <4>3
    <3>2. \A p \in P : \E i \in 1 .. n : f[i] = p BY <1>2
    <3> QED BY <1>3, <3>1, <3>2 DEF Bijection, Injection, Surjection, IsInjective
  <2>3. ExistsBijection(1 .. n, P) BY <2>2 DEF ExistsBijection
  <2> QED BY <2>1, <2>3, FS_Bijection
<1>5. g \in [1 .. n -> P] /\ Ascending(g, P)
  <2>1. \E h \in [1 .. Cardinality(P) -> P] : Ascending(h, P) BY <1>1, <1>3, <1>4
  <2> HIDE DEF P
  <2>2. g \in [1 .. Cardinality(P) -> P] /\ Ascending(g, P) BY <2>1
  <2> HIDE DEF g
  <2> QED BY <1>4, <2>2
<1> HIDE DEF g
<1>6. g \in [1 .. n -> Nat] BY <1>2, <1>5
<1> HIDE DEF P
<1>7. g = f BY <1>1, <1>5, <1>6, ListedOnce
<1>8. PacketsOf(s) = [i \in DOMAIN g |-> s[g[i]]] BY DEF PacketsOf, g, P
<1> QED BY <1>1, <1>7, <1>8

Listed(s) == \E n, f : Lists(f, n, s)

\* Nothing but the places of the packets, all by d, and what is between them changes.
LEMMA PacketsShift ==
  ASSUME NEW s, NEW t, Listed(s), NEW d \in Int,
         Len(s) \in Nat, Len(t) \in Nat,
         Places(t) = {i + d : i \in Places(s)}, \A i \in Places(s) : t[i + d] = s[i]
  PROVE  Listed(t) /\ PacketsOf(t) = PacketsOf(s)
<1>1. PICK n, f : Lists(f, n, s) BY DEF Listed
<1>2. /\ n \in Nat /\ f \in [1 .. n -> Nat]
      /\ \A i, j \in 1 .. n : i < j => f[i] < f[j]
      /\ Places(s) = {f[i] : i \in 1 .. n}
  BY <1>1 DEF Lists, Ascending
<1> DEFINE h == [i \in 1 .. n |-> f[i] + d]
<1>3. Places(t) \subseteq Nat BY DEF Places
<1>4. Places(t) = {h[i] : i \in 1 .. n} BY <1>2
<1>5. h \in [1 .. n -> Nat]
  <2>1. \A i \in 1 .. n : f[i] + d \in Nat BY <1>3, <1>4
  <2> QED BY <2>1
<1>6. \A i, j \in 1 .. n : i < j => h[i] < h[j]
  <2> TAKE i, j \in 1 .. n
  <2>1. f[i] \in Nat /\ f[j] \in Nat BY <1>2
  <2> QED BY <1>2, <2>1
<1>7. \A i \in 1 .. n : t[h[i]] = s[f[i]] BY <1>2
<1>8. DOMAIN h = 1 .. n OBVIOUS
<1> HIDE DEF h
<1>9. Lists(h, n, t) BY <1>2, <1>4, <1>5, <1>6, <1>8 DEF Lists, Ascending
<1>10. PacketsOf(t) = [i \in 1 .. n |-> t[h[i]]] BY <1>9, PacketsAre
<1>11. PacketsOf(s) = [i \in 1 .. n |-> s[f[i]]] BY <1>1, PacketsAre
<1> QED BY <1>7, <1>9, <1>10, <1>11 DEF Listed

\* A packet comes last.
LEMMA PacketsAppend ==
  ASSUME NEW s, NEW t, Listed(s), Len(s) \in Nat,
         Places(t) = Places(s) \union {Len(s) + 1}, \A i \in Places(s) : t[i] = s[i]
  PROVE  Listed(t) /\ PacketsOf(t) = Append(PacketsOf(s), t[Len(s) + 1])
<1>1. PICK n, f : Lists(f, n, s) BY DEF Listed
<1>2. /\ n \in Nat /\ f \in [1 .. n -> Nat]
      /\ \A i, j \in 1 .. n : i < j => f[i] < f[j]
      /\ Places(s) = {f[i] : i \in 1 .. n}
  BY <1>1 DEF Lists, Ascending
<1> DEFINE h == [i \in 1 .. n + 1 |-> IF i = n + 1 THEN Len(s) + 1 ELSE f[i]]
<1>3. \A i \in 1 .. n : f[i] \in 1 .. Len(s)
  <2>1. Places(s) \subseteq 1 .. Len(s) BY DEF Places
  <2> QED BY <1>2, <2>1
<1>4. /\ 1 .. n + 1 = (1 .. n) \union {n + 1} /\ n + 1 \in Nat /\ DOMAIN h = 1 .. n + 1
      /\ \A i \in 1 .. n : h[i] = f[i] /\ i # n + 1
      /\ h[n + 1] = Len(s) + 1
  BY <1>2
<1> HIDE DEF h
<1>5. h \in [1 .. n + 1 -> Nat]
  <2>1. \A i \in 1 .. n + 1 : h[i] \in Nat BY <1>2, <1>4
  <2>2. h = [i \in 1 .. n + 1 |-> h[i]] BY <1>4 DEF h
  <2> QED BY <2>1, <2>2
<1>6. \A i, j \in 1 .. n + 1 : i < j => h[i] < h[j]
  <2> TAKE i, j \in 1 .. n + 1
  <2>1. CASE i \in 1 .. n /\ j \in 1 .. n BY <1>2, <1>4, <2>1
  <2>2. CASE i \in 1 .. n /\ j = n + 1
    <3>1. h[i] \in 1 .. Len(s) /\ h[j] = Len(s) + 1 BY <1>3, <1>4, <2>2
    <3> QED BY <3>1
  <2>3. CASE i = n + 1 BY <1>2, <2>3
  <2> QED BY <1>4, <2>1, <2>2, <2>3
<1>7. Places(t) = {h[i] : i \in 1 .. n + 1}
  <2>1. {h[i] : i \in 1 .. n + 1} = {h[i] : i \in 1 .. n} \union {h[n + 1]} BY <1>4
  <2>2. {h[i] : i \in 1 .. n} = {f[i] : i \in 1 .. n} BY <1>4
  <2> QED BY <1>2, <1>4, <2>1, <2>2
<1>8. Lists(h, n + 1, t) BY <1>4, <1>5, <1>6, <1>7 DEF Lists, Ascending
<1>9. PacketsOf(t) = [i \in 1 .. n + 1 |-> t[h[i]]] BY <1>8, PacketsAre
<1>10. PacketsOf(s) = [i \in 1 .. n |-> s[f[i]]] BY <1>1, PacketsAre
<1>11. \A i \in 1 .. n : t[h[i]] = s[f[i]]
  <2> TAKE i \in 1 .. n
  <2>1. f[i] \in Places(s) BY <1>2
  <2> QED BY <1>4, <2>1
<1>12. /\ Len(PacketsOf(s)) = n
       /\ Append(PacketsOf(s), t[Len(s) + 1]) =
            [i \in 1 .. n + 1 |-> IF i = n + 1 THEN t[Len(s) + 1] ELSE s[f[i]]]
  BY <1>2, <1>10
<1>13. \A i \in 1 .. n + 1 : t[h[i]] = IF i = n + 1 THEN t[Len(s) + 1] ELSE s[f[i]]
  BY <1>4, <1>11
<1> QED BY <1>8, <1>9, <1>12, <1>13 DEF Listed

\* A packet that comes first is listed first.
LEMMA FirstPlace ==
  ASSUME NEW s, NEW n, NEW f, Lists(f, n, s), 1 \in Places(s)
  PROVE  1 \in 1 .. n /\ f[1] = 1
<1>1. /\ n \in Nat /\ f \in [1 .. n -> Nat]
      /\ \A i, j \in 1 .. n : i < j => f[i] < f[j]
      /\ Places(s) = {f[i] : i \in 1 .. n}
  BY DEF Lists, Ascending
<1>2. PICK j \in 1 .. n : f[j] = 1 BY <1>1
<1>3. 1 \in 1 .. n BY <1>1, <1>2
<1>4. f[1] \in 1 .. Len(s)
  <2>1. Places(s) \subseteq 1 .. Len(s) BY DEF Places
  <2> QED BY <1>1, <1>3, <2>1
<1>5. f[1] # 0 /\ f[1] \in Nat BY <1>1, <1>3, <1>4
<1>6. 1 < j => f[1] < f[j] BY <1>1, <1>3
<1> QED BY <1>1, <1>2, <1>3, <1>5, <1>6

LEMMA PacketsFirst ==
  ASSUME NEW s, Listed(s), 1 \in Places(s)
  PROVE  /\ PacketsOf(s) # <<>> /\ PacketsOf(s)[1] = s[1]
         /\ \E n \in Nat : PacketsOf(s) = [i \in 1 .. n |-> PacketsOf(s)[i]]
<1>1. PICK n, f : Lists(f, n, s) BY DEF Listed
<1>2. n \in Nat /\ 1 \in 1 .. n /\ f[1] = 1 BY <1>1, FirstPlace DEF Lists
<1>3. PacketsOf(s) = [i \in 1 .. n |-> s[f[i]]] BY <1>1, PacketsAre
<1> QED BY <1>2, <1>3

\* The first packet leaves, and the places of the others move by d.
LEMMA PacketsTail ==
  ASSUME NEW s, NEW t, Listed(s), NEW d \in Int, Len(s) \in Nat, Len(t) \in Nat,
         1 \in Places(s),
         Places(t) = {i + d : i \in Places(s) \ {1}}, \A i \in Places(s) \ {1} : t[i + d] = s[i]
  PROVE  Listed(t) /\ PacketsOf(t) = Tail(PacketsOf(s))
<1>1. PICK n, f : Lists(f, n, s) BY DEF Listed
<1>2. /\ n \in Nat /\ f \in [1 .. n -> Nat]
      /\ \A i, j \in 1 .. n : i < j => f[i] < f[j]
      /\ Places(s) = {f[i] : i \in 1 .. n}
  BY <1>1 DEF Lists, Ascending
<1>3. 1 \in 1 .. n /\ f[1] = 1 BY <1>1, FirstPlace
<1> DEFINE h == [i \in 1 .. n - 1 |-> f[i + 1] + d]
<1>4. /\ n - 1 \in Nat /\ \A i \in 1 .. n - 1 : i + 1 \in 1 .. n /\ 1 < i + 1
      /\ \A i \in 1 .. n : i # 1 => i - 1 \in 1 .. n - 1 /\ (i - 1) + 1 = i
  BY <1>2, <1>3
<1>5. Places(s) \ {1} = {f[i + 1] : i \in 1 .. n - 1}
  <2>1. ASSUME NEW i \in 1 .. n - 1 PROVE f[i + 1] \in Places(s) \ {1}
    <3>1. i + 1 \in 1 .. n /\ 1 < i + 1 BY <1>4
    <3>2. f[1] < f[i + 1] BY <1>2, <1>3, <3>1
    <3>3. f[i + 1] # 1 BY <1>3, <3>2
    <3> QED BY <1>2, <3>1, <3>3
  <2>2. ASSUME NEW p \in Places(s) \ {1} PROVE \E i \in 1 .. n - 1 : p = f[i + 1]
    <3>1. PICK j \in 1 .. n : f[j] = p BY <1>2
    <3>2. j # 1 BY <1>3, <3>1
    <3> QED BY <1>4, <3>1, <3>2
  <2> QED BY <2>1, <2>2
<1>6. Places(t) = {h[i] : i \in 1 .. n - 1} BY <1>5
<1>7. Places(t) \subseteq Nat BY DEF Places
<1>8. h \in [1 .. n - 1 -> Nat]
  <2>1. \A i \in 1 .. n - 1 : f[i + 1] + d \in Nat BY <1>6, <1>7
  <2> QED BY <2>1
<1>9. \A i, j \in 1 .. n - 1 : i < j => h[i] < h[j]
  <2> TAKE i, j \in 1 .. n - 1
  <2>1. i + 1 \in 1 .. n /\ j + 1 \in 1 .. n BY <1>4
  <2>2. f[i + 1] \in Nat /\ f[j + 1] \in Nat BY <1>2, <2>1
  <2>3. i < j => i + 1 < j + 1 OBVIOUS
  <2>4. i + 1 < j + 1 => f[i + 1] < f[j + 1] BY <1>2, <2>1
  <2> QED BY <2>2, <2>3, <2>4
<1>10. \A i \in 1 .. n - 1 : t[h[i]] = s[f[i + 1]] BY <1>5
<1>11. DOMAIN h = 1 .. n - 1 OBVIOUS
<1> HIDE DEF h
<1>12. Lists(h, n - 1, t) BY <1>4, <1>6, <1>8, <1>9, <1>11 DEF Lists, Ascending
<1>13. PacketsOf(t) = [i \in 1 .. n - 1 |-> t[h[i]]] BY <1>12, PacketsAre
<1>14. PacketsOf(s) = [i \in 1 .. n |-> s[f[i]]] BY <1>1, PacketsAre
<1>15. Tail(PacketsOf(s)) = [i \in 1 .. n - 1 |-> s[f[i + 1]]] BY <1>2, <1>3, <1>4, <1>14
<1> QED BY <1>10, <1>12, <1>13, <1>15 DEF Listed

-----------------------------------------------------------------------------
(* The events queued by value, in the order in which they are sent. *)

\* The holder at hand comes before those queued.
LEMMA HolderFirst ==
  ASSUME NEW h, NEW q \in Seq(Holders)
  PROVE  /\ Len(<<h>> \o q) = Len(q) + 1 /\ Len(q) \in Nat /\ (<<h>> \o q)[1] = h
         /\ \A i \in 1 .. Len(q) : (<<h>> \o q)[i + 1] = q[i]
         /\ 1 \in Places(<<h>> \o q) <=> IsPacket(h)
         /\ \A i : i \in Places(<<h>> \o q) \ {1} <=> i - 1 \in Places(q) /\ i \in Nat
<1>1. /\ Len(<<h>> \o q) = Len(q) + 1 /\ Len(q) \in Nat /\ (<<h>> \o q)[1] = h
      /\ \A i \in 1 .. Len(q) : (<<h>> \o q)[i + 1] = q[i]
  OBVIOUS
<1> DEFINE w == <<h>> \o q
<1> HIDE DEF w
<1>2. 1 \in Places(w) <=> IsPacket(h) BY <1>1 DEF Places, w
<1>3. ASSUME NEW i \in Places(w) \ {1} PROVE i - 1 \in Places(q) /\ i \in Nat
  <2>1. i \in 1 .. Len(q) + 1 /\ i # 1 /\ IsPacket(w[i]) BY <1>1, <1>3 DEF Places, w
  <2>2. i - 1 \in 1 .. Len(q) /\ i \in Nat /\ (i - 1) + 1 = i BY <1>1, <2>1
  <2>3. w[i] = q[i - 1] BY <1>1, <2>2 DEF w
  <2> QED BY <2>1, <2>2, <2>3 DEF Places
<1>4. ASSUME NEW i, i - 1 \in Places(q), i \in Nat PROVE i \in Places(w) \ {1}
  <2>1. i - 1 \in 1 .. Len(q) /\ IsPacket(q[i - 1]) BY <1>4 DEF Places
  <2>2. i \in 1 .. Len(q) + 1 /\ i # 1 /\ (i - 1) + 1 = i BY <1>1, <1>4, <2>1
  <2>3. w[i] = q[i - 1] BY <1>1, <2>1, <2>2 DEF w
  <2> QED BY <1>1, <2>1, <2>2, <2>3 DEF Places, w
<1> QED BY <1>1, <1>2, <1>3, <1>4 DEF w

\* Holders for the batched kinds, and none at hand, are told from packets.
LEMMA ToldApart ==
  /\ \A h \in Packets : IsPacket(h)
  /\ \A h : h.kind \in Batched \/ h = Nothing => ~IsPacket(h)
  /\ \A h \in Holders : IsPacket(h) => h \in Packets
BY Kinds DEF IsPacket

\* The list of packets depends on the holder and the queue alone.
LEMMA LineAfter ==
  ASSUME NEW t, Line' = t
  PROVE  /\ Listed(Line)' <=> Listed(t)
         /\ PacketsOf(Line)' = PacketsOf(t)
BY DEF Listed, Lists, PacketsOf, Places, Ascending, IsPacket

\* The holder at hand changes, and is a packet neither before nor after.
LEMMA LineSame ==
  ASSUME packetQueue \in Seq(Holders), Listed(Line), UNCHANGED packetQueue,
         UNCHANGED holder \/ (~IsPacket(holder) /\ ~IsPacket(holder'))
  PROVE  Listed(Line)' /\ PacketsOf(Line)' = PacketsOf(Line)
<1>1. CASE UNCHANGED holder
  <2>1. Line' = Line BY <1>1 DEF Line
  <2> QED BY <2>1, LineAfter
<1>2. CASE ~IsPacket(holder) /\ ~IsPacket(holder')
  <2> DEFINE s == <<holder>> \o packetQueue
             t == <<holder'>> \o packetQueue
  <2>1. /\ Len(s) = Len(packetQueue) + 1 /\ Len(packetQueue) \in Nat
        /\ \A i \in 1 .. Len(packetQueue) : s[i + 1] = packetQueue[i]
        /\ 1 \notin Places(s)
        /\ \A i : i \in Places(s) \ {1} <=> i - 1 \in Places(packetQueue) /\ i \in Nat
    BY <1>2, HolderFirst
  <2>2. /\ Len(t) = Len(packetQueue) + 1
        /\ \A i \in 1 .. Len(packetQueue) : t[i + 1] = packetQueue[i]
        /\ 1 \notin Places(t)
        /\ \A i : i \in Places(t) \ {1} <=> i - 1 \in Places(packetQueue) /\ i \in Nat
    BY <1>2, HolderFirst
  <2> HIDE DEF s, t
  <2>3. Places(t) = Places(s)
    <3>1. \A i : i \in Places(t) <=> i \in Places(s) BY <2>1, <2>2
    <3> QED BY <3>1
  <2>4. \A i \in Places(s) : i \in Nat /\ i + 0 = i /\ t[i + 0] = s[i]
    <3> TAKE i \in Places(s)
    <3>1. i \in Nat /\ i - 1 \in Places(packetQueue) BY <2>1
    <3>2. i - 1 \in 1 .. Len(packetQueue) /\ (i - 1) + 1 = i /\ i + 0 = i BY <3>1 DEF Places
    <3> QED BY <3>1, <3>2, <2>1, <2>2
  <2>5. Places(t) = {i + 0 : i \in Places(s)} BY <2>3, <2>4
  <2>6. Listed(s) BY DEF s, Line
  <2>7. Len(s) \in Nat /\ Len(t) \in Nat /\ 0 \in Int BY <2>1, <2>2
  <2>8. Listed(t) /\ PacketsOf(t) = PacketsOf(s)
    <3>1. \A i \in Places(s) : t[i + 0] = s[i] BY <2>4
    <3> QED BY <2>5, <2>6, <2>7, <3>1, PacketsShift
  <2>9. Line' = t /\ Line = s BY DEF Line, s, t
  <2> QED BY <2>8, <2>9, LineAfter
<1> QED BY <1>1, <1>2

\* The holder at hand was a packet and is none any more.
LEMMA LineGone ==
  ASSUME packetQueue \in Seq(Holders), Listed(Line), UNCHANGED packetQueue,
         IsPacket(holder), ~IsPacket(holder')
  PROVE  /\ Listed(Line)' /\ PacketsOf(Line)' = Tail(PacketsOf(Line))
         /\ PacketsOf(Line) # <<>> /\ PacketsOf(Line)[1] = holder
<1> DEFINE s == <<holder>> \o packetQueue
           t == <<holder'>> \o packetQueue
<1>1. /\ Len(s) = Len(packetQueue) + 1 /\ Len(packetQueue) \in Nat /\ s[1] = holder
      /\ \A i \in 1 .. Len(packetQueue) : s[i + 1] = packetQueue[i]
      /\ 1 \in Places(s)
      /\ \A i : i \in Places(s) \ {1} <=> i - 1 \in Places(packetQueue) /\ i \in Nat
  BY HolderFirst
<1>2. /\ Len(t) = Len(packetQueue) + 1
      /\ \A i \in 1 .. Len(packetQueue) : t[i + 1] = packetQueue[i]
      /\ 1 \notin Places(t)
      /\ \A i : i \in Places(t) \ {1} <=> i - 1 \in Places(packetQueue) /\ i \in Nat
  BY HolderFirst
<1> HIDE DEF s, t
<1>3. \A i \in Places(s) \ {1} : i \in Nat /\ i + 0 = i /\ t[i + 0] = s[i]
  <2> TAKE i \in Places(s) \ {1}
  <2>1. i \in Nat /\ i - 1 \in Places(packetQueue) BY <1>1
  <2>2. i - 1 \in 1 .. Len(packetQueue) /\ (i - 1) + 1 = i /\ i + 0 = i BY <2>1 DEF Places
  <2> QED BY <2>1, <2>2, <1>1, <1>2
<1>4. Places(t) = {i + 0 : i \in Places(s) \ {1}}
  <2>1. Places(t) = Places(s) \ {1} BY <1>1, <1>2
  <2> QED BY <1>3, <2>1
<1>5. Listed(s) /\ PacketsOf(Line) = PacketsOf(s) BY DEF s, Line
<1>6. Len(s) \in Nat /\ Len(t) \in Nat /\ 0 \in Int BY <1>1, <1>2
<1>7. Listed(t) /\ PacketsOf(t) = Tail(PacketsOf(s))
  <2>1. \A i \in Places(s) \ {1} : t[i + 0] = s[i] BY <1>3
  <2> QED BY <1>1, <1>4, <1>5, <1>6, <2>1, PacketsTail
<1>8. PacketsOf(s) # <<>> /\ PacketsOf(s)[1] = holder BY <1>1, <1>5, PacketsFirst
<1>9. Line' = t BY DEF Line, t
<1> QED BY <1>5, <1>7, <1>8, <1>9, LineAfter

\* A holder is queued behind the others.
LEMMA LineAppend ==
  ASSUME packetQueue \in Seq(Holders), Listed(Line), NEW h \in Holders, UNCHANGED holder,
         packetQueue' = Append(packetQueue, h)
  PROVE  /\ Listed(Line)'
         /\ PacketsOf(Line)' = IF IsPacket(h) THEN Append(PacketsOf(Line), h) ELSE PacketsOf(Line)
<1> DEFINE q == Append(packetQueue, h)
           s == <<holder>> \o packetQueue
           t == <<holder>> \o q
           n == Len(packetQueue)
<1>1. /\ q \in Seq(Holders) /\ Len(q) = n + 1 /\ q[n + 1] = h /\ n \in Nat
      /\ \A i \in 1 .. n : q[i] = packetQueue[i]
  OBVIOUS
<1> HIDE DEF q
<1>2. /\ Len(s) = n + 1 /\ s[1] = holder
      /\ \A i \in 1 .. n : s[i + 1] = packetQueue[i]
  BY HolderFirst
<1>3. /\ Len(t) = n + 2 /\ t[1] = holder
      /\ \A i \in 1 .. n + 1 : t[i + 1] = q[i]
  <2>1. Len(t) = Len(q) + 1 /\ t[1] = holder /\ \A i \in 1 .. Len(q) : t[i + 1] = q[i]
    BY <1>1, HolderFirst
  <2> QED BY <1>1, <2>1
<1> HIDE DEF s, t, n
<1>4. \A i \in 1 .. Len(s) : t[i] = s[i]
  <2> TAKE i \in 1 .. Len(s)
  <2>1. CASE i = 1 BY <1>2, <1>3, <2>1
  <2>2. CASE i # 1
    <3>1. i - 1 \in 1 .. n /\ i - 1 \in 1 .. n + 1 /\ (i - 1) + 1 = i BY <1>1, <1>2, <2>2
    <3>2. s[i] = packetQueue[i - 1] BY <1>2, <3>1
    <3>3. t[i] = q[i - 1] BY <1>3, <3>1
    <3> QED BY <1>1, <3>1, <3>2, <3>3
  <2> QED BY <2>1, <2>2
<1>5. t[Len(s) + 1] = h
  <2>1. n + 1 \in 1 .. n + 1 BY <1>1
  <2> QED BY <1>1, <1>2, <1>3, <2>1
<1>6. /\ 1 .. Len(t) = (1 .. Len(s)) \union {Len(s) + 1} /\ Len(s) \in Nat /\ Len(t) \in Nat
      /\ Len(s) + 1 \notin 1 .. Len(s)
  BY <1>1, <1>2, <1>3
<1>7. Places(t) = IF IsPacket(h) THEN Places(s) \union {Len(s) + 1} ELSE Places(s)
  BY <1>4, <1>5, <1>6 DEF Places
<1>8. Listed(s) /\ PacketsOf(Line) = PacketsOf(s) BY DEF s, Line
<1>9. \A i \in Places(s) : i + 0 = i /\ t[i] = s[i] BY <1>4, <1>6 DEF Places
<1>10. Line' = t BY DEF Line, t, q
<1>11. CASE IsPacket(h)
  <2>1. Listed(t) /\ PacketsOf(t) = Append(PacketsOf(s), t[Len(s) + 1])
    <3>1. \A i \in Places(s) : t[i] = s[i] BY <1>9
    <3> QED BY <1>6, <1>7, <1>8, <1>11, <3>1, PacketsAppend
  <2> QED BY <1>5, <1>8, <1>10, <1>11, <2>1, LineAfter
<1>12. CASE ~IsPacket(h)
  <2>1. Places(t) = {i + 0 : i \in Places(s)} BY <1>7, <1>9, <1>12
  <2>2. \A i \in Places(s) : t[i + 0] = s[i] BY <1>9
  <2>3. 0 \in Int OBVIOUS
  <2>4. Listed(t) /\ PacketsOf(t) = PacketsOf(s) BY <1>6, <1>8, <2>1, <2>2, <2>3, PacketsShift
  <2> QED BY <1>8, <1>10, <1>12, <2>4, LineAfter
<1> QED BY <1>11, <1>12

\* The first holder of the queue takes the place of the one at hand.
LEMMA LineMoves ==
  ASSUME packetQueue \in Seq(Holders), Listed(Line), packetQueue # <<>>,
         holder' = Head(packetQueue), packetQueue' = Tail(packetQueue)
  PROVE  /\ Listed(Line)'
         /\ ~IsPacket(holder) => PacketsOf(Line)' = PacketsOf(Line)
         /\ IsPacket(holder) => /\ PacketsOf(Line)' = Tail(PacketsOf(Line))
                                /\ PacketsOf(Line) # <<>> /\ PacketsOf(Line)[1] = holder
         /\ IsPacket(holder) /\ IsPacket(holder')
              => Len(PacketsOf(Line)) > 1 /\ PacketsOf(Line)[2] = holder'
<1> DEFINE h == Head(packetQueue)
           q == Tail(packetQueue)
           s == <<holder>> \o packetQueue
           t == <<h>> \o q
           n == Len(packetQueue)
<1>1. /\ q \in Seq(Holders) /\ Len(q) = n - 1 /\ n \in Nat \ {0} /\ h = packetQueue[1]
      /\ \A i \in 1 .. n - 1 : q[i] = packetQueue[i + 1]
  OBVIOUS
<1> HIDE DEF h, q
<1>2. /\ Len(s) = n + 1 /\ s[1] = holder /\ (1 \in Places(s) <=> IsPacket(holder))
      /\ \A i \in 1 .. n : s[i + 1] = packetQueue[i]
      /\ \A i : i \in Places(s) \ {1} <=> i - 1 \in Places(packetQueue) /\ i \in Nat
  BY HolderFirst
<1>3. /\ Len(t) = n /\ t[1] = h /\ (1 \in Places(t) <=> IsPacket(h))
      /\ \A i \in 1 .. n - 1 : t[i + 1] = q[i]
  <2>1. /\ Len(t) = Len(q) + 1 /\ t[1] = h /\ \A i \in 1 .. Len(q) : t[i + 1] = q[i]
        /\ 1 \in Places(t) <=> IsPacket(h)
    BY <1>1, HolderFirst
  <2> QED BY <1>1, <2>1
<1> HIDE DEF s, t, n
<1>4. \A i \in 1 .. n : t[i] = packetQueue[i]
  <2> TAKE i \in 1 .. n
  <2>1. CASE i = 1 BY <1>1, <1>3, <2>1
  <2>2. CASE i # 1
    <3>1. i - 1 \in 1 .. n - 1 /\ (i - 1) + 1 = i BY <1>1, <2>2
    <3>2. t[i] = q[i - 1] BY <1>3, <3>1
    <3> QED BY <1>1, <3>1, <3>2
  <2> QED BY <2>1, <2>2
<1>5. Places(t) = Places(packetQueue) /\ Places(t) \subseteq Nat BY <1>3, <1>4 DEF Places, n
<1>6. Places(t) = {i + (-1) : i \in Places(s) \ {1}}
  <2>1. ASSUME NEW i \in Places(s) \ {1} PROVE i + (-1) \in Places(t)
    BY <1>2, <1>5, <2>1
  <2>2. ASSUME NEW j \in Places(t) PROVE \E i \in Places(s) \ {1} : j = i + (-1)
    <3>1. j \in Nat /\ (j + 1) - 1 = j /\ j + 1 \in Nat /\ (j + 1) + (-1) = j BY <1>5
    <3>2. j + 1 \in Places(s) \ {1} BY <1>2, <1>5, <3>1
    <3> QED BY <3>1, <3>2
  <2> QED BY <2>1, <2>2
<1>7. \A i \in Places(s) \ {1} : t[i + (-1)] = s[i]
  <2> TAKE i \in Places(s) \ {1}
  <2>1. i \in Nat /\ i - 1 \in Places(packetQueue) BY <1>2
  <2>2. i - 1 \in 1 .. n /\ (i - 1) + 1 = i /\ i + (-1) = i - 1 BY <2>1 DEF Places, n
  <2>3. s[i] = packetQueue[i - 1] BY <1>2, <2>2
  <2>4. t[i + (-1)] = packetQueue[i - 1] BY <1>4, <2>2
  <2> QED BY <2>3, <2>4
<1>8. Listed(s) /\ PacketsOf(Line) = PacketsOf(s) BY DEF s, Line
<1>9. Len(s) \in Nat /\ Len(t) \in Nat /\ -1 \in Int BY <1>1, <1>2, <1>3
<1>10. Line' = t /\ holder' = h BY DEF Line, t, h, q
<1>11. CASE ~IsPacket(holder)
  <2>1. Places(s) \ {1} = Places(s) BY <1>2, <1>11
  <2>2. Places(t) = {i + (-1) : i \in Places(s)} /\ \A i \in Places(s) : t[i + (-1)] = s[i]
    BY <1>6, <1>7, <2>1
  <2>3. Listed(t) /\ PacketsOf(t) = PacketsOf(s) BY <1>8, <1>9, <2>2, PacketsShift
  <2> QED BY <1>8, <1>10, <1>11, <2>3, LineAfter
<1>12. CASE IsPacket(holder)
  <2>1. 1 \in Places(s) BY <1>2, <1>12
  <2>2. Listed(t) /\ PacketsOf(t) = Tail(PacketsOf(s))
    BY <1>6, <1>7, <1>8, <1>9, <2>1, PacketsTail
  <2>3. PacketsOf(s) # <<>> /\ PacketsOf(s)[1] = holder BY <1>2, <1>8, <2>1, PacketsFirst
  <2>4. ASSUME IsPacket(h) PROVE Len(PacketsOf(s)) > 1 /\ PacketsOf(s)[2] = h
    <3>1. PacketsOf(t) # <<>> /\ PacketsOf(t)[1] = h BY <1>3, <2>2, <2>4, PacketsFirst
    <3>2. PICK k \in Nat : PacketsOf(s) = [i \in 1 .. k |-> PacketsOf(s)[i]]
      BY <1>8, <2>1, PacketsFirst
    <3> DEFINE u == PacketsOf(s)
    <3>3. u = [i \in 1 .. k |-> u[i]] /\ u # <<>> /\ Tail(u) # <<>> /\ Tail(u)[1] = h
      BY <2>2, <2>3, <3>1, <3>2
    <3> HIDE DEF u
    <3>4. u \in Seq({u[i] : i \in 1 .. k})
      <4> DEFINE S == {u[i] : i \in 1 .. k}
      <4>1. \A i \in 1 .. k : u[i] \in S OBVIOUS
      <4>2. DOMAIN u = 1 .. k /\ u = [i \in DOMAIN u |-> u[i]] BY <3>3
      <4> HIDE DEF S
      <4>3. u \in [1 .. k -> S] BY <4>1, <4>2
      <4> QED BY <4>3, k \in Nat DEF S
    <3>5. Len(u) > 1 /\ u[2] = Tail(u)[1] BY <3>3, <3>4
    <3> QED BY <3>3, <3>5 DEF u
  <2> QED BY <1>8, <1>10, <1>12, <2>2, <2>3, <2>4, LineAfter
<1> QED BY <1>11, <1>12

\* The thread merges events of which the next replaces the last, and does nothing more once
\* it has failed.
OrderInv ==
  /\ thread = "batch" => Handling(holder) = "batch"
  /\ failed => thread = "exited"
  /\ ~failed => Listed(Line)

\* What a step that moves no packet leaves as it was.
LEMMA NothingMoves ==
  ASSUME OrderInv, UNCHANGED <<given, failed>>,
         thread' = "batch" => Handling(holder)' = "batch",
         failed => thread' = "exited",
         ~failed => Listed(Line)' /\ PacketsOf(Line)' = PacketsOf(Line)
  PROVE  OrderInv' /\ UNCHANGED Order!vars
BY DEF OrderInv, Order!vars, Undelivered

\* Where the holder at hand is a packet.
LEMMA PacketAtHand ==
  ASSUME IInv
  PROVE  /\ packetQueue \in Seq(Holders)
         /\ thread \in {"wait", "exited", "populate", "part"} => ~IsPacket(holder)
         /\ thread \in {"batch", "transit"} => holder \in Packets /\ IsPacket(holder)
         /\ thread = "send" => IF holder.kind \in Latest THEN ~IsPacket(holder)
                               ELSE holder \in Packets /\ IsPacket(holder)
<1>1. packetQueue \in Seq(Holders) BY DEF IInv, TypeOK, Holders
<1>2. HolderAtHand BY DEF IInv
<1> QED BY <1>1, <1>2, Kinds, ToldApart DEF HolderAtHand

\* A sender queues a packet, which is submitted then, or a holder for a batched kind.
LEMMA OfferSubmits ==
  ASSUME IInv, OrderInv, NEW s \in Senders, Offer(s)
  PROVE  OrderInv' /\ [Order!Next]_(Order!vars)
<1> DEFINE e == sender[s].event
           h == IF e.kind \in Batched THEN Holder(e.kind, 0) ELSE e
<1>1. UNCHANGED <<thread, holder, failed, given>> BY DEF Offer, host
<1>2. UNCHANGED packetQueue \/ packetQueue' = Append(packetQueue, h) BY DEF Offer
<1>3. h \in Holders
  <2>1. e \in Calls BY DEF IInv, EventAtHand, Offer, SenderAt
  <2> QED BY <2>1, Kinds DEF Holders
<1> HIDE DEF h
<1>4. packetQueue \in Seq(Holders) BY PacketAtHand
<1>5. thread' = "batch" => Handling(holder)' = "batch" BY <1>1 DEF OrderInv, Handling
<1>6. failed => thread' = "exited" BY <1>1 DEF OrderInv
<1>7. CASE failed \/ UNCHANGED packetQueue
  <2>1. ~failed => Listed(Line)' /\ PacketsOf(Line)' = PacketsOf(Line)
    BY <1>1, <1>4, <1>7, LineSame DEF OrderInv
  <2> QED BY <1>1, <1>5, <1>6, <2>1, NothingMoves
<1>8. CASE ~failed /\ packetQueue' = Append(packetQueue, h)
  <2>1. /\ Listed(Line)'
        /\ PacketsOf(Line)' = IF IsPacket(h) THEN Append(PacketsOf(Line), h) ELSE PacketsOf(Line)
    BY <1>1, <1>3, <1>4, <1>8, LineAppend DEF OrderInv
  <2>2. CASE ~IsPacket(h) BY <1>1, <1>5, <1>6, <2>1, <2>2, NothingMoves
  <2>3. CASE IsPacket(h)
    <3>1. h \in Packets BY <1>3, <2>3, ToldApart
    <3>2. Undelivered' = Append(Undelivered, h) BY <1>1, <1>8, <2>1, <2>3 DEF Undelivered
    <3>3. Order!Submit BY <1>1, <1>8, <3>1, <3>2 DEF Order!Submit
    <3>4. OrderInv' BY <1>1, <1>5, <1>8, <2>1 DEF OrderInv
    <3> QED BY <3>3, <3>4 DEF Order!Next
  <2> QED BY <2>2, <2>3
<1> QED BY <1>2, <1>7, <1>8

\* The first holder is taken; nothing was at hand.
LEMMA TakeStutters ==
  ASSUME IInv, OrderInv, TakeHolder
  PROVE  OrderInv' /\ UNCHANGED Order!vars
<1>1. /\ packetQueue # <<>> /\ holder' = Head(packetQueue) /\ packetQueue' = Tail(packetQueue)
      /\ thread = "wait" /\ thread' = Handling(Head(packetQueue)) /\ UNCHANGED <<given, failed>>
  BY DEF TakeHolder, ThreadAt, host
<1>2. packetQueue \in Seq(Holders) /\ ~IsPacket(holder) BY <1>1, PacketAtHand
<1>3. ~failed /\ Listed(Line) BY <1>1 DEF OrderInv
<1>4. Listed(Line)' /\ PacketsOf(Line)' = PacketsOf(Line) BY <1>1, <1>2, <1>3, LineMoves
<1>5. Handling(holder)' = thread' BY <1>1 DEF Handling
<1> QED BY <1>1, <1>3, <1>4, <1>5, NothingMoves

\* The next event takes the place of the one at hand, which it makes superfluous.
LEMMA BatchLeavesOut ==
  ASSUME IInv, OrderInv, BatchNext
  PROVE  OrderInv' /\ Order!LeaveOut
<1>1. /\ packetQueue # <<>> /\ holder' = Head(packetQueue) /\ packetQueue' = Tail(packetQueue)
      /\ thread = "batch" /\ UNCHANGED <<thread, given, failed>>
      /\ holder.kind = Head(packetQueue).kind /\ holder.what = Head(packetQueue).what
  BY DEF BatchNext, SameButAxes, host
<1>2. packetQueue \in Seq(Holders) /\ holder \in Packets /\ IsPacket(holder)
  BY <1>1, PacketAtHand
<1>3. ~failed /\ Listed(Line) /\ Handling(holder) = "batch" BY <1>1 DEF OrderInv
<1>4. holder' \in Packets /\ IsPacket(holder')
  <2>1. holder' \in Holders BY <1>1, <1>2
  <2>2. holder'.kind = holder.kind BY <1>1
  <2> QED BY <1>2, <2>1, <2>2, ToldApart DEF IsPacket
<1>5. /\ Listed(Line)' /\ PacketsOf(Line)' = Tail(PacketsOf(Line))
      /\ PacketsOf(Line)[1] = holder /\ Len(PacketsOf(Line)) > 1 /\ PacketsOf(Line)[2] = holder'
  BY <1>1, <1>2, <1>3, <1>4, LineMoves
<1>6. Undelivered = PacketsOf(Line) /\ Undelivered' = PacketsOf(Line)'
  BY <1>1, <1>3 DEF Undelivered
<1>7. <<holder, holder'>> \in {x \in Packets \X Packets :
          Handling(x[1]) = "batch" /\ x[1].kind = x[2].kind /\ x[1].what = x[2].what}
  BY <1>1, <1>2, <1>3, <1>4
<1>8. Order!LeaveOut BY <1>1, <1>5, <1>6, <1>7 DEF Order!LeaveOut
<1>9. Handling(holder)' = "batch"
  <2>1. holder'.kind = holder.kind /\ holder'.what = holder.what BY <1>1
  <2> QED BY <1>3, <2>1 DEF Handling
<1> QED BY <1>1, <1>3, <1>5, <1>8, <1>9 DEF OrderInv

\* A packet arrives at the host when sendInputPacket returns; a batched state is no packet.
LEMMA SendArrives ==
  ASSUME IInv, OrderInv, SendHolder
  PROVE  OrderInv' /\ [Order!Next]_(Order!vars)
<1>1. /\ thread = "send" /\ thread' = "wait" /\ holder' = Nothing /\ UNCHANGED <<packetQueue, failed>>
  BY DEF SendHolder, ThreadAt, queue
<1>2. packetQueue \in Seq(Holders) /\ ~IsPacket(holder') BY <1>1, PacketAtHand, ToldApart
<1>3. ~failed /\ Listed(Line) BY <1>1 DEF OrderInv
<1>4. CASE holder.kind \in Latest
  <2>1. ~IsPacket(holder) /\ UNCHANGED given BY <1>1, <1>4, PacketAtHand DEF SendHolder
  <2>2. Listed(Line)' /\ PacketsOf(Line)' = PacketsOf(Line) BY <1>1, <1>2, <1>3, <2>1, LineSame
  <2> QED BY <1>1, <1>3, <2>1, <2>2, NothingMoves
<1>5. CASE holder.kind \notin Latest
  <2>1. IsPacket(holder) /\ given' = <<holder>> BY <1>1, <1>5, PacketAtHand DEF SendHolder
  <2>2. /\ Listed(Line)' /\ PacketsOf(Line)' = Tail(PacketsOf(Line))
        /\ PacketsOf(Line) # <<>> /\ PacketsOf(Line)[1] = holder
    BY <1>1, <1>2, <1>3, <2>1, LineGone
  <2>3. Undelivered = PacketsOf(Line) /\ Undelivered' = PacketsOf(Line)'
    BY <1>1, <1>3 DEF Undelivered
  <2>4. Head(Undelivered) = holder BY <2>2, <2>3
  <2>5. Order!Arrive BY <1>1, <2>1, <2>2, <2>3, <2>4 DEF Order!Arrive
  <2>6. OrderInv' BY <1>1, <1>3, <2>2 DEF OrderInv
  <2> QED BY <2>5, <2>6 DEF Order!Next
<1> QED BY <1>4, <1>5

\* After a failure of sendInputPacket nothing arrives any more.
LEMMA FailureCloses ==
  ASSUME SendFails
  PROVE  OrderInv' /\ Order!Fail
<1>1. thread' = "exited" /\ failed' = TRUE /\ UNCHANGED given BY DEF SendFails, host
<1>2. Undelivered' = <<>> BY <1>1 DEF Undelivered
<1> QED BY <1>1, <1>2 DEF OrderInv, Order!Fail

\* The other steps leave the queue and the packet at hand alone.
LEMMA OthersStutter ==
  ASSUME IInv, IInv', OrderInv, UNCHANGED <<packetQueue, given, failed>>,
         thread' = "batch" => UNCHANGED <<thread, holder>>,
         failed => UNCHANGED thread,
         UNCHANGED holder \/ {thread, thread'} \subseteq {"wait", "exited", "populate", "part"}
           \/ (thread = "populate" /\ thread' = "send" /\ holder'.kind \in Latest)
  PROVE  OrderInv' /\ UNCHANGED Order!vars
<1>1. packetQueue \in Seq(Holders) BY PacketAtHand
<1>2. UNCHANGED holder \/ (~IsPacket(holder) /\ ~IsPacket(holder'))
  <2>1. thread' \in {"wait", "exited", "populate", "part"} => ~IsPacket(holder')
    <3>1. HolderAtHand' BY DEF IInv
    <3> QED BY <3>1, Kinds, ToldApart DEF HolderAtHand
  <2>2. holder'.kind \in Latest => ~IsPacket(holder') BY Kinds, ToldApart
  <2> QED BY <2>1, <2>2, PacketAtHand
<1>3. ~failed => Listed(Line)' /\ PacketsOf(Line)' = PacketsOf(Line)
  BY <1>1, <1>2, LineSame DEF OrderInv
<1>4. thread' = "batch" => Handling(holder)' = "batch" BY DEF OrderInv, Handling
<1> QED BY <1>3, <1>4, NothingMoves DEF OrderInv

\* Each step is one of the queue of events, or none of its.
LEMMA StepsInOrder ==
  ASSUME IInv, IInv', OrderInv, [Next]_vars
  PROVE  OrderInv' /\ [Order!Next]_(Order!vars)
<1>1. CASE \E s \in Senders : Offer(s) BY <1>1, OfferSubmits
<1>2. CASE TakeHolder BY <1>2, TakeStutters
<1>3. CASE BatchNext BY <1>3, BatchLeavesOut DEF Order!Next
<1>4. CASE SendHolder BY <1>4, SendArrives
<1>5. CASE SendFails BY <1>5, FailureCloses DEF Order!Next
<1>6. CASE \/ \E s \in Senders : Call(s) \/ Accumulate(s) \/ Overwrite(s) \/ Allocate(s)
           \/ Start \/ BeginStop \/ stopInputStream \/ UNCHANGED vars
  <2>1. UNCHANGED <<packetQueue, given, failed, thread, holder>>
    BY <1>6 DEF Call, Accumulate, Overwrite, NeedsHolder, Allocate, Start, BeginStop,
                stopInputStream, ShutDownFreeList, Drain, Joined, vars, queue, host
  <2> QED BY <2>1, OthersStutter
<1>7. CASE ThreadReturns \/ BatchDone \/ TransitEnds
  <2>1. UNCHANGED <<packetQueue, given, failed, holder>>
    BY <1>7 DEF ThreadReturns, BatchDone, TransitEnds, queue, host
  <2>2. thread # "exited" /\ thread' # "batch"
    BY <1>7 DEF ThreadReturns, BatchDone, TransitEnds, ThreadAt
  <2>3. ~failed BY <2>2 DEF OrderInv
  <2> QED BY <2>1, <2>2, <2>3, OthersStutter
<1>8. CASE PopulateLatest
  <2>1. /\ UNCHANGED <<packetQueue, given, failed>> /\ thread = "populate" /\ thread' = "send"
        /\ holder'.kind \in Latest
    BY <1>8, Kinds DEF PopulateLatest, ThreadAt, queue, host
  <2>2. ~failed BY <2>1 DEF OrderInv
  <2> QED BY <2>1, <2>2, OthersStutter
<1>9. CASE PopulateRelative \/ SendPart
  <2>1. /\ UNCHANGED <<packetQueue, given, failed>> /\ thread \in {"populate", "part"}
        /\ thread' \in {"wait", "populate", "part"}
    BY <1>9 DEF PopulateRelative, SendPart, ThreadAt, queue, host
  <2>2. ~failed BY <2>1 DEF OrderInv
  <2> QED BY <2>1, <2>2, OthersStutter
<1> QED BY <1>1, <1>2, <1>3, <1>4, <1>5, <1>6, <1>7, <1>8, <1>9
       DEF Next, LiSendEvent, inputSendThreadProc

\* Events queued by value reach the host in the order they were submitted, and one is left out
\* only for the next that replaces it, for any threads, packets and bounds (KeepsOrder).
THEOREM ArrivesInOrder == Spec => KeepsOrder
<1>1. Init => OrderInv /\ Order!Init
  <2> SUFFICES ASSUME Init PROVE OrderInv /\ Order!Init OBVIOUS
  <2>1. /\ packetQueue = <<>> /\ holder = Nothing /\ thread = "wait" /\ failed = FALSE
        /\ given = <<>>
    BY DEF Init
  <2>2. Places(Line) = {}
    <3>1. packetQueue \in Seq(Holders) /\ Len(packetQueue) = 0 BY <2>1
    <3>2. 1 \notin Places(Line) BY <2>1, <3>1, HolderFirst, ToldApart DEF Line
    <3>3. Len(Line) = 1 BY <3>1, HolderFirst DEF Line
    <3> QED BY <3>2, <3>3 DEF Places
  <2>3. Lists(<<>>, 0, Line) BY <2>2 DEF Lists, Ascending
  <2>4. PacketsOf(Line) = <<>> BY <2>3, PacketsAre
  <2> QED BY <2>1, <2>3, <2>4 DEF OrderInv, Order!Init, Undelivered, Listed
<1>2. IInv /\ IInv' /\ OrderInv /\ [Next]_vars => OrderInv' /\ [Order!Next]_(Order!vars)
  BY StepsInOrder
<1> QED BY <1>1, <1>2, Inductive, PTL DEF Spec, KeepsOrder, Order!Spec

=============================================================================
