--------------------------- MODULE RtpAudioQueue ---------------------------
(***************************************************************************)
(* RtpAudioQueue.c: the packets of the audio stream, put in order and      *)
(* completed by forward error correction.  The host groups DataShards      *)
(* consecutive packets into a block and adds FecShards parity packets; any *)
(* DataShards of a block give all of it.  Numbers on the wire are modulo   *)
(* Round (2^16).                                                           *)
(*                                                                         *)
(* `q' is the RTP_AUDIO_QUEUE; the operators that take q are the functions *)
(* that take the queue.  A block's `shard' says of each packet it has the  *)
(* block the host sent it in (NONE is a mark that is set): what is handed  *)
(* out is the packet itself, not the number the queue takes it for.  The   *)
(* receive thread alone uses the queue: it adds a packet and, told that    *)
(* packets are ready, gets them one by one.                                *)
(***************************************************************************)
EXTENDS Integers, Sequences, SequencesExt, FiniteSets

CONSTANTS DataShards, FecShards, Round,
          NONE, LOST,
          FirstBlocks,   \* the block the stream may begin with
          MaxBlock,      \* bound: the last block that is sent
          Late,          \* how far behind the newest block that was heard of a packet
                         \* may be: reordering
          MaxSkipped     \* how many blocks the stream may pass over, lost or late,
                         \* before the queue has caught up

Shards == 0 .. DataShards + FecShards - 1
Data == 0 .. DataShards - 1
Block == 0 .. MaxBlock

ASSUME AudioAssumption ==
  /\ DataShards \in Nat \ {0} /\ FecShards \in Nat \ {0}
  /\ Round \in Nat \ {0} /\ Round % (2 * DataShards) = 0
  /\ MaxBlock \in Nat /\ FirstBlocks \subseteq Block /\ NONE \notin Block
  /\ Late \in Nat /\ MaxSkipped \in Nat
  /\ 2 * DataShards * (Late + 2 * MaxSkipped + 3) <= Round

\* The queue is not begun with a block just before the numbers wrap, as an oldest
\* sequence number of 0 means `not begun' in the code.
ASSUME FirstBlocksAssumption ==
  \A b \in FirstBlocks : \A c \in b + 1 .. b + 1 + MaxSkipped : (c * DataShards) % Round # 0

VARIABLES q,
          newest,   \* the newest block of which a packet was kept
          skipped,  \* history: the blocks passed over since the queue was last in time
          pc,       \* of the receive thread: receiving, or draining
          given     \* what the decoder was given last: a packet, or LOST

vars == <<q, newest, skipped, pc, given>>

-----------------------------------------------------------------------------
U16(x) == x % Round
isBefore16(x, y) == U16(x - y) > (Round - 1) \div 2

Base(b) == U16(b * DataShards)

NewBlock(base) ==
  [base |-> base, shard |-> [s \in Shards |-> NONE], nextDataPacketIndex |-> 0,
   fullyReassembled |-> FALSE, allowDiscontinuity |-> FALSE]

RtpaInitializeQueue ==
  [blocks |-> <<>>, nextSeq |-> 0, oldest |-> 0, lastOos |-> 0,
   receivedOosData |-> FALSE, synchronizing |-> TRUE, incompatibleServer |-> FALSE]

-----------------------------------------------------------------------------
\* Each function of the file.  Head and Last of blocks are blockHead and blockTail.
freeFecBlockHead(u) ==
  [u EXCEPT !.blocks = Tail(@), !.oldest = U16(Head(u.blocks).base + DataShards),
            !.synchronizing = FALSE]

\* Out-of-sequence data makes the queue patient; half a round of sequence numbers
\* without it makes it impatient again.
NoteSequence(u, seq) ==
  IF ~u.synchronizing /\ isBefore16(seq, u.oldest)
  THEN [u EXCEPT !.lastOos = seq, !.receivedOosData = TRUE]
  ELSE [u EXCEPT !.receivedOosData = @ /\ ~isBefore16(u.oldest, u.lastOos)]

\* Where the block with this base is, or belongs.
Place(u, base) ==
  LET after == {k \in DOMAIN u.blocks : u.blocks[k].base = base \/ isBefore16(base, u.blocks[k].base)}
  IN  IF after = {} THEN Len(u.blocks) + 1 ELSE CHOOSE k \in after : \A j \in after : k <= j

Has(u, base) == \E k \in DOMAIN u.blocks : k = Place(u, base) /\ u.blocks[k].base = base

Received(blk) == {s \in Shards : blk.shard[s] # NONE}

\* Any DataShards shards give every data packet (reed_solomon_reconstruct).
completeFecBlock(blk) ==
  IF Cardinality(Received(blk)) < DataShards THEN blk
  ELSE LET one == CHOOSE b \in {blk.shard[s] : s \in Received(blk)} : TRUE
       IN  [blk EXCEPT !.fullyReassembled = TRUE,
                       !.shard = [s \in Shards |-> IF s \in Data /\ @[s] = NONE THEN one ELSE @[s]]]

\* Plausible slips, each the `as' of a mutant.
ReadyOutOfTurn(u) == u.blocks # <<>> /\ Head(u.blocks).shard[Head(u.blocks).nextDataPacketIndex] # NONE
NeverGivesUp(u, overdue) ==
  IF u.blocks # <<>> /\ isBefore16(u.nextSeq, Head(u.blocks).base)
  THEN [u EXCEPT !.nextSeq = Head(u.blocks).base, !.oldest = Head(u.blocks).base]
  ELSE u
StillAccepted(u, overdue) ==
  IF u.blocks = <<>> THEN u
  ELSE IF isBefore16(u.nextSeq, Head(u.blocks).base)
       THEN [u EXCEPT !.nextSeq = Head(u.blocks).base]
  ELSE IF Len(u.blocks) > 1 /\ (~u.receivedOosData \/ overdue)
       THEN [u EXCEPT !.blocks[1].allowDiscontinuity = TRUE]
  ELSE u
NotFreed(u) ==
  [u EXCEPT !.blocks[1].nextDataPacketIndex = @ + 1, !.nextSeq = U16(@ + 1)]

queueHasPacketReady(u) ==
  /\ u.blocks # <<>>
  /\ LET blk == Head(u.blocks) IN
     \/ /\ blk.shard[blk.nextDataPacketIndex] # NONE
        /\ blk.base + blk.nextDataPacketIndex = u.nextSeq
     \/ blk.allowDiscontinuity

\* overdue: the head has waited for longer than a block and RTPQ_OOS_WAIT_TIME_MS.
handleMissingPackets(u, overdue) ==
  IF u.blocks = <<>> THEN u
  ELSE IF isBefore16(u.nextSeq, Head(u.blocks).base)
       THEN [u EXCEPT !.nextSeq = Head(u.blocks).base, !.oldest = Head(u.blocks).base]
  ELSE IF Len(u.blocks) > 1 /\ (~u.receivedOosData \/ overdue)
       THEN [u EXCEPT !.blocks[1].allowDiscontinuity = TRUE]
  ELSE u

-----------------------------------------------------------------------------
(* RtpaAddPacket: shard s of block b arrives.                              *)

Noted(b, s) == IF s \in Data THEN NoteSequence(q, U16(b * DataShards + s)) ELSE q

Starting == q.synchronizing /\ q.oldest = 0

\* The first packet: begin with the block after its own.
Synchronize(b, s) ==
  /\ Starting
  /\ q' = [Noted(b, s) EXCEPT !.nextSeq = Base(b + 1), !.oldest = Base(b + 1)]
  /\ UNCHANGED <<pc, given>>

TooOld(b) == isBefore16(Base(b), q.oldest)

\* The block is completed, or has this packet.
Reject(b, s) ==
  /\ ~Starting
  /\ TooOld(b) \/ LET k == Place(q, Base(b))
                  IN  Has(q, Base(b)) /\ (q.blocks[k].fullyReassembled \/ q.blocks[k].shard[s] # NONE)
  /\ q' = Noted(b, s)
  /\ UNCHANGED <<pc, given>>

\* No memory can be had for a new block.
RejectForMemory(b, s) ==
  /\ ~Starting /\ ~TooOld(b) /\ ~Has(q, Base(b))
  /\ q' = Noted(b, s)
  /\ UNCHANGED <<pc, given>>

\* A block with packets of different sizes cannot be recovered: no more queueing.
RejectOddSize(b, s) ==
  /\ ~Starting /\ ~TooOld(b) /\ Has(q, Base(b))
  /\ q' = [Noted(b, s) EXCEPT !.incompatibleServer = TRUE]
  /\ UNCHANGED <<pc, given>>

\* getFecBlockForRtpPacket, which finds or inserts the block, and the packet put in.
Accepts(b, s) ==
  /\ ~Starting /\ ~TooOld(b)
  /\ Has(q, Base(b)) => LET blk == q.blocks[Place(q, Base(b))]
                        IN  ~blk.fullyReassembled /\ blk.shard[s] = NONE

WithPacket(b, s) ==
  LET u == Noted(b, s)
      k == Place(u, Base(b))
      blocks == IF Has(u, Base(b)) THEN u.blocks ELSE InsertAt(u.blocks, k, NewBlock(Base(b)))
  IN  [u EXCEPT !.blocks = [blocks EXCEPT ![k].shard[s] = b]]

\* The packet that is due is handled at once and the block, if this was its last, freed.
HandleNow(b, s) ==
  LET u == WithPacket(b, s)
      k == Place(u, Base(b))
      v == [u EXCEPT !.nextSeq = U16(@ + 1), !.blocks[k].nextDataPacketIndex = @ + 1]
  IN  /\ Accepts(b, s) /\ s \in Data
      /\ U16(b * DataShards + s) = q.nextSeq
      /\ q' = IF v.nextSeq = Base(b + 1) THEN freeFecBlockHead(v) ELSE v
      /\ given' = b * DataShards + s
      /\ UNCHANGED pc

Enqueue(b, s, overdue) ==
  LET u == WithPacket(b, s)
      v == [u EXCEPT !.blocks[Place(u, Base(b))] = completeFecBlock(@)]
      w == IF queueHasPacketReady(v) THEN v ELSE handleMissingPackets(v, overdue)
  IN  /\ Accepts(b, s)
      /\ ~(s \in Data /\ U16(b * DataShards + s) = q.nextSeq)
      /\ q' = w
      /\ pc' = IF queueHasPacketReady(w) THEN "draining" ELSE "receiving"
      /\ UNCHANGED given

PassThrough(b, s) ==
  /\ given' = IF s \in Data THEN b * DataShards + s ELSE given
  /\ UNCHANGED <<q, pc, newest, skipped>>

\* The block whose packets the first block of the queue has, the queue being behind
\* if even late packets of it are no longer expected, and the blocks passed over when
\* b is heard of.
headBlock == CHOOSE b \in {Head(q.blocks).shard[s] : s \in Received(Head(q.blocks))} : TRUE
Behind == q.blocks # <<>> /\ newest > headBlock + Late
NotCaughtUp == IF Behind THEN skipped ELSE 0
PassedOver(b) == IF newest # NONE /\ b > newest + 1 THEN b - newest - 1 ELSE 0

RtpaAddPacket(b, s, overdue) ==
  IF q.incompatibleServer THEN PassThrough(b, s)
  ELSE \/ /\ \/ Synchronize(b, s)
             \/ Reject(b, s)
             \/ RejectOddSize(b, s)
             \/ HandleNow(b, s)
             \/ Enqueue(b, s, overdue)
          /\ newest' = IF newest = NONE \/ b > newest THEN b ELSE newest
          /\ skipped' = NotCaughtUp + PassedOver(b)
       \/ RejectForMemory(b, s) /\ UNCHANGED <<newest, skipped>>

\* A head that the queue is behind with has waited long enough for its packets.
Overdue == IF Behind THEN {TRUE} ELSE BOOLEAN

(* The network loses packets, delivers some twice and reorders them. *)
Receive ==
  /\ pc = "receiving"
  /\ \E b \in IF newest = NONE THEN FirstBlocks
               ELSE Block \cap (newest - Late .. newest + 1 + MaxSkipped - NotCaughtUp),
        s \in Shards, overdue \in Overdue :
       RtpaAddPacket(b, s, overdue)

-----------------------------------------------------------------------------
(* RtpaGetQueuedPacket, called until it returns NULL. *)

Advance(u) ==
  LET v == [u EXCEPT !.blocks[1].nextDataPacketIndex = @ + 1, !.nextSeq = U16(@ + 1)]
  IN  IF Head(v.blocks).nextDataPacketIndex = DataShards THEN freeFecBlockHead(v) ELSE v

NextShard(u) == Head(u.blocks).shard[Head(u.blocks).nextDataPacketIndex]

GetLost ==
  /\ pc = "draining" /\ q.blocks # <<>>
  /\ Head(q.blocks).allowDiscontinuity /\ NextShard(q) = NONE
  /\ q' = Advance(q) /\ given' = LOST
  /\ UNCHANGED <<pc, newest, skipped>>

GetPacket ==
  /\ pc = "draining" /\ queueHasPacketReady(q) /\ NextShard(q) # NONE
  /\ q' = Advance(q)
  /\ given' = NextShard(q) * DataShards + Head(q.blocks).nextDataPacketIndex
  /\ UNCHANGED <<pc, newest, skipped>>

\* Nothing is ready, or no memory can be had for the packet; it can be had again
\* before the stream is far ahead.
GetNothing ==
  /\ pc = "draining" /\ pc' = "receiving"
  /\ queueHasPacketReady(q) => ~Behind
  /\ UNCHANGED <<q, given, newest, skipped>>

-----------------------------------------------------------------------------
Init ==
  /\ q = RtpaInitializeQueue
  /\ newest = NONE /\ skipped = 0 /\ pc = "receiving" /\ given = LOST

Next == Receive \/ GetLost \/ GetPacket \/ GetNothing

Spec == Init /\ [][Next]_vars

BlockRecord ==
  [base : {Base(b) : b \in Block}, shard : [Shards -> Block \union {NONE}],
   nextDataPacketIndex : Data, fullyReassembled : BOOLEAN, allowDiscontinuity : BOOLEAN]

Seq16 == 0 .. Round - 1

QueueRecord ==
  [blocks : Seq(BlockRecord), nextSeq : Seq16, oldest : Seq16, lastOos : Seq16,
   receivedOosData : BOOLEAN, synchronizing : BOOLEAN, incompatibleServer : BOOLEAN]

TypeOK ==
  /\ q \in QueueRecord
  /\ newest \in Block \union {NONE} /\ skipped \in 0 .. MaxSkipped
  /\ pc \in {"receiving", "draining"}
  /\ given \in Nat \union {LOST}

-----------------------------------------------------------------------------
(***************************************************************************)
(* validateFecBlockState, which debug builds assert around every step: the *)
(* next sequence number is not older than what is accepted and lies before *)
(* the end of the first block, the first block is not older than what is   *)
(* accepted, and the blocks are sorted.                                    *)
(***************************************************************************)
ValidState ==
  /\ ~isBefore16(q.nextSeq, q.oldest) \/ q.synchronizing
  /\ q.blocks # <<>> => /\ isBefore16(q.nextSeq, Head(q.blocks).base + DataShards)
                        /\ ~isBefore16(Head(q.blocks).base, q.oldest)
  /\ \A k \in 1 .. Len(q.blocks) - 1 : isBefore16(q.blocks[k].base, q.blocks[k + 1].base)

(***************************************************************************)
(* Playback never stalls on a loss: between packets the stream is ahead of  *)
(* the first block of the queue by reordering and by the blocks that were  *)
(* passed over meanwhile, each packet making up for its own block.  (It    *)
(* may be ahead by all of these: the queue itself has no bound.)           *)
(***************************************************************************)
WaitIsBounded ==
  pc = "receiving" /\ ~q.incompatibleServer /\ q.blocks # <<>> =>
    newest <= headBlock + Late + 1 + skipped

(***************************************************************************)
(* The queue hands out what the host sent in the host's order: numbers on  *)
(* the wire are read as the ones nearest to the newest block heard of.     *)
(***************************************************************************)
Unwrapped(seq) ==
  CHOOSE n \in (newest * DataShards - Round \div 2) .. (newest * DataShards + Round \div 2 - 1) :
    U16(n) = seq

Waiting ==
  UNION {{q.blocks[k].shard[i] * DataShards + i :
            i \in {j \in Data : j >= q.blocks[k].nextDataPacketIndex /\ q.blocks[k].shard[j] # NONE}} :
         k \in DOMAIN q.blocks}

Abstract ==
  INSTANCE ReorderBuffer
    WITH waiting <- Waiting, next <- IF Starting THEN 0 ELSE Unwrapped(q.nextSeq),
         ordered <- ~q.incompatibleServer

HandsOutInOrder == Abstract!Spec
=============================================================================
