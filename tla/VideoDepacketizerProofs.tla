---------------------- MODULE VideoDepacketizerProofs ----------------------
(***************************************************************************)
(* Theorems about LossReports, for any number of frames and any bound of   *)
(* the queue of ranges: its type invariant, the order of the ranges, and   *)
(* that no report of a lost frame is dropped.  Then, from them, theorems   *)
(* about VideoDepacketizer, for any number of frames, any queue, any drop  *)
(* limit and any number of failures of the decoder: its types, its         *)
(* assertions, that the decoder is never given a frame that refers to one  *)
(* it does not have, and that what is waited for is on its way.            *)
(***************************************************************************)
EXTENDS VideoDepacketizer, TLAPS

-----------------------------------------------------------------------------
(* LossReports: the ranges of frames that are reported lost. *)

Ranges == (0 .. MaxFrame) \X Frames
Merging == (0 .. MaxFrame) \X (0 .. MaxFrame)

\* The starts and the ends of the ranges in q never decrease, from r, the one
\* being merged, to the next one the depacketizer could report: <<s, n>> at least.
InWindow(q, r, s, n) ==
  /\ \A i, j \in 1 .. Len(q) : i < j => q[i][1] <= q[j][1] /\ q[i][2] <= q[j][2]
  /\ \A i \in 1 .. Len(q) : /\ r[1] <= q[i][1] /\ r[2] <= q[i][2]
                            /\ q[i][1] <= q[i][2]
                            /\ q[i][1] <= s /\ q[i][2] < n
  /\ r[1] <= r[2] /\ r[1] <= s /\ r[2] < n
  /\ s <= n

RangesInWindow ==
  InWindow(invalidReferenceFrameTuples, range, startFrameNumber, nextFrameNumber)

\* Shut down means stopping.
StopOrder == stop # "none" => stopping

LossInv == LossTypeOK /\ RangesInWindow /\ StopOrder /\ LossAccounted

-----------------------------------------------------------------------------
\* What the operations on the queue of ranges do to the order of its ranges.
LEMMA RangeParts ==
  ASSUME NEW q \in Seq(Ranges), NEW i \in 1 .. Len(q)
  PROVE  q[i] \in Ranges /\ q[i][1] \in Nat /\ q[i][2] \in Nat
<1>1. q[i] \in Ranges OBVIOUS
<1> QED BY <1>1, LossAssumption DEF Ranges, Frames

LEMMA AppendAt ==
  ASSUME NEW q \in Seq(Ranges), NEW e \in Ranges
  PROVE  /\ Append(q, e) \in Seq(Ranges) /\ Len(Append(q, e)) = Len(q) + 1
         /\ Append(q, e)[Len(q) + 1] = e
         /\ \A i \in 1 .. Len(q) : Append(q, e)[i] = q[i]
OBVIOUS

LEMMA TailAt ==
  ASSUME NEW q \in Seq(Ranges), q # <<>>
  PROVE  /\ Tail(q) \in Seq(Ranges) /\ Len(Tail(q)) = Len(q) - 1
         /\ Len(q) \in Nat \ {0} /\ Head(q) = q[1]
         /\ \A i \in 1 .. Len(q) - 1 : Tail(q)[i] = q[i + 1]
OBVIOUS

LEMMA WindowEmptied ==
  ASSUME NEW q, NEW r, NEW s, NEW n, InWindow(q, r, s, n)
  PROVE  InWindow(<<>>, r, s, n)
<1>1. 1 .. Len(<<>>) = {} OBVIOUS
<1> QED BY <1>1 DEF InWindow

LEMMA WindowMoves ==
  ASSUME NEW q \in Seq(Ranges), NEW r \in Merging, NEW s \in Nat, NEW n \in Nat,
         InWindow(q, r, s, n),
         NEW t \in Nat, NEW m \in Nat, s <= t, n <= m, t <= m
  PROVE  InWindow(q, r, t, m)
<1>1. r[1] \in Nat /\ r[2] \in Nat BY LossAssumption DEF Merging
<1> QED BY <1>1, RangeParts DEF InWindow

LEMMA WindowAppend ==
  ASSUME NEW q \in Seq(Ranges), NEW r \in Merging, NEW s \in Nat, NEW n \in Nat,
         InWindow(q, r, s, n),
         NEW f \in Nat, n <= f, <<s, f>> \in Ranges
  PROVE  InWindow(Append(q, <<s, f>>), r, s, f + 1)
<1> DEFINE p == Append(q, <<s, f>>)
<1>1. r[1] \in Nat /\ r[2] \in Nat BY LossAssumption DEF Merging
<1>2. /\ Len(p) = Len(q) + 1 /\ p[Len(q) + 1] = <<s, f>>
      /\ \A i \in 1 .. Len(q) : p[i] = q[i]
  BY AppendAt
<1>3. Len(q) \in Nat OBVIOUS
<1>4. \A i \in 1 .. Len(q) : p[i][1] = q[i][1] /\ p[i][2] = q[i][2] BY <1>2
<1>5. p[Len(q) + 1][1] = s /\ p[Len(q) + 1][2] = f BY <1>2
<1>6. \A i \in 1 .. Len(p) : i \in 1 .. Len(q) \/ i = Len(q) + 1 BY <1>2, <1>3
<1> HIDE DEF p
<1>7. \A i \in 1 .. Len(p) : /\ r[1] <= p[i][1] /\ r[2] <= p[i][2]
                             /\ p[i][1] <= p[i][2]
                             /\ p[i][1] <= s /\ p[i][2] < f + 1
  <2> TAKE i \in 1 .. Len(p)
  <2>1. CASE i \in 1 .. Len(q)
    <3>1. /\ r[1] <= q[i][1] /\ r[2] <= q[i][2] /\ q[i][1] <= q[i][2]
          /\ q[i][1] <= s /\ q[i][2] < n
      BY <2>1 DEF InWindow
    <3>2. q[i][2] \in Nat BY <2>1, RangeParts
    <3>3. q[i][2] < f + 1 BY <3>1, <3>2
    <3> QED BY <1>4, <2>1, <3>1, <3>3
  <2>2. CASE i = Len(q) + 1
    <3>1. r[1] <= s /\ r[2] < n /\ s <= n BY DEF InWindow
    <3> QED BY <1>1, <1>5, <2>2, <3>1
  <2> QED BY <1>6, <2>1, <2>2
<1>8. \A i, j \in 1 .. Len(p) : i < j => p[i][1] <= p[j][1] /\ p[i][2] <= p[j][2]
  <2> TAKE i, j \in 1 .. Len(p)
  <2> HAVE i < j
  <2>1. i \in 1 .. Len(q) BY <1>2, <1>3
  <2>2. CASE j \in 1 .. Len(q) BY <1>4, <2>1, <2>2 DEF InWindow
  <2>3. CASE j = Len(q) + 1
    <3>1. q[i][1] <= s /\ q[i][2] < n BY <2>1 DEF InWindow
    <3> QED BY <1>4, <1>5, <2>1, <2>3, <3>1, RangeParts
  <2> QED BY <1>6, <2>2, <2>3
<1>9. r[1] <= r[2] /\ r[1] <= s /\ r[2] < f + 1 /\ s <= f + 1
  BY <1>1 DEF InWindow
<1> QED BY <1>7, <1>8, <1>9 DEF InWindow, p

\* The oldest range is taken, as it is or merged into the one before it.
LEMMA WindowTail ==
  ASSUME NEW q \in Seq(Ranges), q # <<>>, NEW r \in Merging, NEW s \in Nat, NEW n \in Nat,
         InWindow(q, r, s, n)
  PROVE  InWindow(Tail(q), Head(q), s, n) /\ InWindow(Tail(q), <<r[1], Head(q)[2]>>, s, n)
<1> DEFINE p == Tail(q)
<1>1. r[1] \in Nat /\ r[2] \in Nat BY LossAssumption DEF Merging
<1>2. /\ Len(p) = Len(q) - 1 /\ Len(q) \in Nat \ {0} /\ Head(q) = q[1]
      /\ \A i \in 1 .. Len(q) - 1 : p[i] = q[i + 1]
  BY TailAt
<1>3. 1 \in 1 .. Len(q) /\ \A i \in 1 .. Len(p) : i + 1 \in 1 .. Len(q) /\ p[i] = q[i + 1] /\ 1 < i + 1
  BY <1>2
<1> HIDE DEF p
<1>4. \A i, j \in 1 .. Len(p) : i < j => p[i][1] <= p[j][1] /\ p[i][2] <= p[j][2]
  <2> TAKE i, j \in 1 .. Len(p)
  <2> HAVE i < j
  <2>1. i + 1 < j + 1 BY <1>2
  <2> QED BY <1>3, <2>1 DEF InWindow
<1>5. \A i \in 1 .. Len(p) : /\ q[1][1] <= p[i][1] /\ q[1][2] <= p[i][2] /\ r[1] <= p[i][1]
                             /\ p[i][1] <= p[i][2] /\ p[i][1] <= s /\ p[i][2] < n
  BY <1>3 DEF InWindow
<1>6. /\ q[1][1] <= q[1][2] /\ q[1][1] <= s /\ q[1][2] < n
      /\ r[1] <= q[1][1] /\ r[1] <= s /\ s <= n
      /\ q[1][1] \in Nat /\ q[1][2] \in Nat
  BY <1>3, RangeParts DEF InWindow
<1>7. r[1] <= q[1][2] BY <1>1, <1>6
<1> QED BY <1>2, <1>4, <1>5, <1>6, <1>7 DEF InWindow, p

LEMMA WindowSent ==
  ASSUME NEW q \in Seq(Ranges), NEW r, NEW s \in Nat, NEW n \in Nat \ {0}, InWindow(q, r, s, n)
  PROVE  InWindow(q, <<0, 0>>, s, n)
BY RangeParts DEF InWindow

-----------------------------------------------------------------------------
LEMMA InitLossInv == LossInit => LossInv
<1> SUFFICES ASSUME LossInit PROVE LossInv OBVIOUS
<1>1. LossTypeOK
  <2>1. 0 \in 0 .. MaxFrame /\ 0 \in 0 .. MaxFrame + 1 /\ 1 \in 1 .. MaxFrame + 1
    BY LossAssumption
  <2>2. <<>> \in Seq(Ranges) /\ Len(<<>>) <= RfiBound BY LossAssumption
  <2> QED BY <2>1, <2>2 DEF LossInit, LossTypeOK, Ranges
<1>2. RangesInWindow
  <2>1. 1 .. Len(<<>>) = {} OBVIOUS
  <2>2. InWindow(<<>>, <<0, 0>>, 0, 1) BY <2>1 DEF InWindow
  <2> QED BY <2>2 DEF LossInit, RangesInWindow
<1>3. StopOrder /\ LossAccounted BY DEF LossInit, StopOrder, LossAccounted
<1> QED BY <1>1, <1>2, <1>3 DEF LossInv

\* What a report of the depacketizer does: f is the last frame it lost.
LEMMA ReportInRanges ==
  ASSUME LossTypeOK, RangesInWindow, NEW f \in Frames, f >= nextFrameNumber
  PROVE  <<startFrameNumber, f>> \in Ranges
<1>1. startFrameNumber <= nextFrameNumber BY DEF RangesInWindow, InWindow
<1> QED BY <1>1, LossAssumption DEF LossTypeOK, Ranges, Frames

LEMMA NextLossType ==
  ASSUME LossTypeOK, RangesInWindow, [LossNext]_lossVars
  PROVE  LossTypeOK'
<1> DEFINE q == invalidReferenceFrameTuples
<1> USE LossAssumption
<1>0. q \in Seq(Ranges) /\ Len(q) <= RfiBound /\ <<>> \in Seq(Ranges) /\ Len(<<>>) = 0 /\ 0 <= RfiBound
  BY DEF LossTypeOK, Ranges
<1>9. 0 \in 0 .. MaxFrame BY SMT
<1>1. CASE VideoThreads
  <2>1. ASSUME NEW f \in Frames, f >= nextFrameNumber, nextFrameNumber' = f + 1,
               connectionDetectedFrameLoss(startFrameNumber, f), UNCHANGED startFrameNumber,
               UNCHANGED <<threads, stopper, terminated, host>>
        PROVE  LossTypeOK'
    <3>1. unanswered' \subseteq Frames
      BY <2>1 DEF connectionDetectedFrameLoss, LossTypeOK
    <3>2. q' \in Seq(Ranges) /\ Len(q') <= RfiBound /\ idrFrameRequired' \in BOOLEAN
      <4>1. CASE TupleFits /\ QueueTuple(startFrameNumber, f) /\ UNCHANGED idrFrameRequired
        <5>1. <<startFrameNumber, f>> \in Ranges BY <2>1, ReportInRanges
        <5>2. q' = Append(q, <<startFrameNumber, f>>) /\ Len(q) < RfiBound
          BY <4>1 DEF QueueTuple, TupleFits
        <5>3. q' \in Seq(Ranges) /\ Len(q') = Len(q) + 1 BY <1>0, <5>1, <5>2, AppendAt
        <5>4. Len(q) \in Nat BY <1>0
        <5>5. Len(q') <= RfiBound BY <5>2, <5>3, <5>4
        <5> QED BY <4>1, <5>3, <5>5 DEF LossTypeOK
      <4>2. CASE q' = <<>> /\ idrFrameRequired' = TRUE BY <1>0, <4>2
      <4> QED BY <2>1, <4>1, <4>2 DEF connectionDetectedFrameLoss
    <3>3. nextFrameNumber' \in 1 .. MaxFrame + 1 BY <2>1 DEF Frames
    <3> QED BY <2>1, <3>1, <3>2, <3>3 DEF LossTypeOK, Ranges, threads, stopper, host
  <2>2. ASSUME NEW f \in Frames, nextFrameNumber' = f + 1, startFrameNumber' = f + 1,
               UNCHANGED <<requests, threads, stopper, terminated, host>>
        PROVE  LossTypeOK'
    BY <2>2 DEF LossTypeOK, Frames, requests, threads, stopper, host
  <2>3. ASSUME LiRequestIdrFrame, UNCHANGED window, UNCHANGED <<threads, stopper, terminated, host>>
        PROVE  LossTypeOK'
    BY <1>0, <2>3 DEF LiRequestIdrFrame, LossTypeOK, Ranges, window, threads, stopper, host
  <2> QED BY <1>1, <2>1, <2>2, <2>3 DEF VideoThreads
<1>2. CASE IdrThreadStep /\ UNCHANGED window
  <2>1. CASE PltWaitForEvent \/ PltClearEvent \/ TestStopping
    BY <1>2, <2>1 DEF PltWaitForEvent, PltClearEvent, TestStopping,
       IdrThreadAt, LossTypeOK, window, requests, stopper, host
  <2>2. CASE DropRedundantTuples
    BY <1>0, <1>2, <2>2 DEF DropRedundantTuples, IdrThreadAt, LossTypeOK, Ranges, window, stopper, host
  <2>3. CASE requestIdrFrame
    BY <1>2, <2>3 DEF requestIdrFrame, IdrThreadAt, LossTypeOK, window, stopper
  <2> QED BY <1>2, <2>1, <2>2, <2>3 DEF IdrThreadStep
<1>3. CASE WaitForTuple /\ UNCHANGED window
  <2>1. CASE RfiThreadAt("wait", "exited") /\ UNCHANGED <<q, range>>
    BY <1>3, <2>1 DEF WaitForTuple, RfiThreadAt, LossTypeOK, window, stopper, host
  <2>2. CASE RfiThreadAt("wait", "merge") /\ q # <<>> /\ range' = Head(q) /\ q' = Tail(q)
    <3>1. q' \in Seq(Ranges) /\ Len(q') <= RfiBound BY <1>0, <2>2, TailAt
    <3>2. Head(q) \in Ranges BY <1>0, <2>2, TailAt, RangeParts
    <3>3. range' \in Merging BY <2>2, <3>2 DEF Ranges, Merging, Frames
    <3> QED BY <1>3, <2>2, <3>1, <3>3
        DEF WaitForTuple, RfiThreadAt, LossTypeOK, Ranges, Merging, window, stopper, host
  <2> QED BY <1>3, <2>1, <2>2 DEF WaitForTuple
<1>4. CASE MergeTuples /\ UNCHANGED window
  <2>1. CASE /\ RfiThreadAt("merge", "merge") /\ q # <<>> /\ range' = <<range[1], Head(q)[2]>>
             /\ q' = Tail(q)
    <3>1. q' \in Seq(Ranges) /\ Len(q') <= RfiBound BY <1>0, <2>1, TailAt
    <3>2. Head(q) \in Ranges BY <1>0, <2>1, TailAt, RangeParts
    <3>3. range' \in Merging BY <2>1, <3>2 DEF Ranges, Merging, Frames, LossTypeOK
    <3> QED BY <1>4, <2>1, <3>1, <3>3
        DEF MergeTuples, RfiThreadAt, LossTypeOK, Ranges, Merging, window, stopper, host
  <2>2. CASE RfiThreadAt("merge", "send") /\ UNCHANGED <<range, q>>
    BY <1>4, <2>2 DEF MergeTuples, RfiThreadAt, LossTypeOK, window, stopper, host
  <2> QED BY <1>4, <2>1, <2>2 DEF MergeTuples
<1>5. CASE requestInvalidateReferenceFrames /\ UNCHANGED window
  <2>1. range[1] \in 0 .. MaxFrame BY DEF LossTypeOK
  <2>2. hostRfi' \in 0 .. MaxFrame /\ unanswered' \subseteq Frames /\ terminated' \in BOOLEAN
    BY <1>5, <2>1 DEF requestInvalidateReferenceFrames, LossTypeOK
  <2>3. range' \in (0 .. MaxFrame) \X (0 .. MaxFrame)
    BY <1>5, <1>9 DEF requestInvalidateReferenceFrames
  <2> QED BY <1>5, <2>2, <2>3
      DEF requestInvalidateReferenceFrames, RfiThreadAt, LossTypeOK, window, stopper
<1>6. CASE stopControlStream /\ UNCHANGED window
  BY <1>6 DEF stopControlStream, StopSetsEvent, LossTypeOK, window, threads, host
<1>7. CASE HostEncodes
  BY <1>7, <1>9 DEF HostEncodes, LossTypeOK, requests, window, threads, stopper, host
<1>8. CASE UNCHANGED lossVars
  BY <1>8 DEF lossVars, reports, LossTypeOK, requests, window, threads, stopper, host
<1> QED BY <1>1, <1>2, <1>3, <1>4, <1>5, <1>6, <1>7, <1>8 DEF LossNext, RfiThreadStep

LEMMA NextRanges ==
  ASSUME LossTypeOK, RangesInWindow, [LossNext]_lossVars
  PROVE  RangesInWindow'
<1> DEFINE q == invalidReferenceFrameTuples
           s == startFrameNumber
           n == nextFrameNumber
<1>0. /\ q \in Seq(Ranges) /\ range \in Merging /\ s \in Nat /\ n \in Nat \ {0}
      /\ InWindow(q, range, s, n)
  BY LossAssumption DEF LossTypeOK, Ranges, Merging, RangesInWindow
<1> SUFFICES InWindow(q', range', s', n') BY DEF RangesInWindow
<1>1. CASE VideoThreads
  <2>0. UNCHANGED range BY <1>1 DEF VideoThreads, threads
  <2>1. ASSUME NEW f \in Frames, f >= n, n' = f + 1,
               connectionDetectedFrameLoss(s, f), UNCHANGED s
        PROVE  InWindow(q', range', s', n')
    <3>1. f \in Nat /\ n <= f /\ s <= f + 1
      BY <1>0, <2>1, LossAssumption DEF Frames, InWindow
    <3>2. <<s, f>> \in Ranges BY <2>1, ReportInRanges
    <3>3. CASE q' = Append(q, <<s, f>>)
      BY <1>0, <2>0, <2>1, <3>1, <3>2, <3>3, WindowAppend
    <3>4. CASE q' = <<>>
      <4>1. InWindow(q, range, s, f + 1) BY <1>0, <3>1, WindowMoves
      <4> QED BY <2>0, <2>1, <3>4, <4>1, WindowEmptied
    <3> QED BY <2>1, <3>3, <3>4 DEF connectionDetectedFrameLoss, QueueTuple
  <2>2. ASSUME NEW f \in Frames, f >= n, n' = f + 1, s' = f + 1, UNCHANGED requests
        PROVE  InWindow(q', range', s', n')
    <3>1. f + 1 \in Nat /\ n <= f + 1 /\ s <= f + 1
      BY <1>0, <2>2, LossAssumption DEF Frames, InWindow
    <3> QED BY <1>0, <2>0, <2>2, <3>1, WindowMoves DEF requests
  <2>3. ASSUME LiRequestIdrFrame, UNCHANGED window PROVE InWindow(q', range', s', n')
    BY <1>0, <2>0, <2>3, WindowEmptied DEF LiRequestIdrFrame, window
  <2> QED BY <1>1, <2>1, <2>2, <2>3 DEF VideoThreads
<1>2. CASE IdrThreadStep /\ UNCHANGED window
  <2>1. UNCHANGED range /\ (q' = q \/ q' = <<>>)
    BY <1>2 DEF IdrThreadStep, PltWaitForEvent, PltClearEvent, TestStopping, DropRedundantTuples,
       requestIdrFrame, requests
  <2> QED BY <1>0, <1>2, <2>1, WindowEmptied DEF window
<1>3. CASE (WaitForTuple \/ MergeTuples) /\ UNCHANGED window
  <2>1. \/ UNCHANGED <<q, range>>
        \/ /\ q # <<>> /\ q' = Tail(q)
           /\ range' = Head(q) \/ range' = <<range[1], Head(q)[2]>>
    BY <1>3 DEF WaitForTuple, MergeTuples
  <2>2. s' = s /\ n' = n BY <1>3 DEF window
  <2> QED BY <1>0, <2>1, <2>2, WindowTail
<1>4. CASE requestInvalidateReferenceFrames /\ UNCHANGED window
  BY <1>0, <1>4, WindowSent DEF requestInvalidateReferenceFrames, window
<1>5. CASE stopControlStream /\ UNCHANGED window
  BY <1>0, <1>5 DEF stopControlStream, threads, window
<1>6. CASE HostEncodes \/ UNCHANGED lossVars
  BY <1>0, <1>6 DEF HostEncodes, lossVars, reports, requests, window, threads
<1> QED BY <1>1, <1>2, <1>3, <1>4, <1>5, <1>6 DEF LossNext, RfiThreadStep

LEMMA NextStopOrder ==
  ASSUME LossTypeOK, StopOrder, [LossNext]_lossVars
  PROVE  StopOrder'
<1>1. CASE stopControlStream BY <1>1 DEF stopControlStream, StopOrder
<1>2. CASE UNCHANGED stopper BY <1>2 DEF stopper, StopOrder
<1>3. CASE RfiThreadStep
  BY <1>2, <1>3 DEF RfiThreadStep, WaitForTuple, MergeTuples, requestInvalidateReferenceFrames
<1>4. CASE IdrThreadStep
  BY <1>2, <1>4 DEF IdrThreadStep, PltWaitForEvent, PltClearEvent, TestStopping, DropRedundantTuples,
     requestIdrFrame
<1> QED BY <1>1, <1>2, <1>3, <1>4 DEF LossNext, VideoThreads, HostEncodes, lossVars, reports

-----------------------------------------------------------------------------
\* Where the report of frame f is.
Queued(f) ==
  \E i \in DOMAIN invalidReferenceFrameTuples : Covers(invalidReferenceFrameTuples[i], f)
Merged(f) == rfiThread # "wait" /\ Covers(range, f)
Reported(f) == IdrOnItsWay \/ Queued(f) \/ Merged(f)

\* Enough for a step: that each report that remains is still somewhere.
LEMMA StillAccounted ==
  ASSUME LossAccounted, terminated => terminated', stopping => stopping',
         \A f \in unanswered' :
            Reported(f)' \/ terminated' \/ stopping' \/ (f \in unanswered /\ (Reported(f) => Reported(f)'))
  PROVE  LossAccounted'
BY DEF LossAccounted, Reported, Queued, Merged

LEMMA NextAccounted ==
  ASSUME LossInv, [LossNext]_lossVars
  PROVE  LossAccounted'
<1> DEFINE q == invalidReferenceFrameTuples
<1>0. LossTypeOK /\ LossAccounted /\ StopOrder /\ RangesInWindow BY DEF LossInv
<1>1. q \in Seq(Ranges) /\ range \in Merging BY <1>0 DEF LossTypeOK, Ranges, Merging
<1>2. CASE VideoThreads
  <2>0. UNCHANGED <<terminated, stopping, idrThread, rfiThread, range>>
    BY <1>2 DEF VideoThreads, threads, stopper
  <2>1. ASSUME NEW e \in Frames, e >= nextFrameNumber,
               connectionDetectedFrameLoss(startFrameNumber, e)
        PROVE  LossAccounted'
    <3>1. CASE idrFrameRequired' = TRUE
      BY <1>0, <2>0, <3>1, StillAccounted DEF Reported, IdrOnItsWay
    <3>2. CASE /\ QueueTuple(startFrameNumber, e) /\ UNCHANGED idrFrameRequired
               /\ unanswered' = unanswered \union ((startFrameNumber .. e) \intersect Frames)
      <4> DEFINE t == <<startFrameNumber, e>>
      <4>1. t \in Ranges BY <1>0, <2>1, ReportInRanges
      <4>2. /\ Len(q') = Len(q) + 1 /\ q'[Len(q) + 1] = t
            /\ \A i \in 1 .. Len(q) : q'[i] = q[i]
        BY <1>1, <3>2, <4>1, AppendAt DEF QueueTuple
      <4>3. DOMAIN q = 1 .. Len(q) /\ DOMAIN q' = 1 .. Len(q') /\ Len(q) \in Nat
        BY <1>1, <3>2, <4>1, AppendAt DEF QueueTuple
      <4>4. ASSUME NEW f \in startFrameNumber .. e PROVE Queued(f)'
        <5>1. Len(q) + 1 \in DOMAIN q' BY <4>2, <4>3
        <5>2. Covers(q'[Len(q) + 1], f)
          <6>1. startFrameNumber <= f /\ f <= e OBVIOUS
          <6> QED BY <4>2, <6>1 DEF Covers
        <5> QED BY <5>1, <5>2 DEF Queued, Covers
      <4>5. ASSUME NEW f \in unanswered, Reported(f) PROVE Reported(f)'
        <5>1. CASE Queued(f)
          <6>1. PICK i \in DOMAIN q : Covers(q[i], f) BY <5>1 DEF Queued
          <6>2. i \in DOMAIN q' /\ q'[i] = q[i] BY <4>2, <4>3, <6>1
          <6> QED BY <6>1, <6>2 DEF Reported, Queued, Covers
        <5>2. CASE IdrOnItsWay \/ Merged(f)
          BY <2>0, <3>2, <5>2 DEF Reported, IdrOnItsWay, Merged, Covers
        <5> QED BY <4>5, <5>1, <5>2 DEF Reported
      <4>6. \A f \in unanswered' : Reported(f)' \/ (f \in unanswered /\ (Reported(f) => Reported(f)'))
        BY <3>2, <4>4, <4>5 DEF Reported
      <4> QED BY <1>0, <2>0, <4>6, StillAccounted
    <3> QED BY <2>1, <3>1, <3>2 DEF connectionDetectedFrameLoss
  <2>2. CASE UNCHANGED requests
    BY <1>0, <2>0, <2>2 DEF requests, LossAccounted, IdrOnItsWay, Covers
  <2>3. CASE LiRequestIdrFrame
    BY <1>0, <2>0, <2>3, StillAccounted DEF LiRequestIdrFrame, Reported, IdrOnItsWay
  <2> QED BY <1>2, <2>1, <2>2, <2>3 DEF VideoThreads
<1>3. CASE IdrThreadStep
  <2>1. CASE PltWaitForEvent
    BY <1>0, <2>1 DEF PltWaitForEvent, IdrThreadAt, requests, stopper, LossAccounted, IdrOnItsWay, Covers
  <2>2. CASE PltClearEvent
    BY <1>0, <2>2, StillAccounted DEF PltClearEvent, IdrThreadAt, stopper, Reported, IdrOnItsWay
  <2>3. CASE TestStopping
    BY <1>0, <2>3 DEF TestStopping, IdrThreadAt, requests, stopper, LossAccounted, IdrOnItsWay, Covers
  <2>4. CASE DropRedundantTuples
    BY <1>0, <2>4, StillAccounted DEF DropRedundantTuples, IdrThreadAt, stopper, Reported, IdrOnItsWay
  <2>5. CASE requestIdrFrame BY <2>5 DEF requestIdrFrame, LossAccounted
  <2> QED BY <1>3, <2>1, <2>2, <2>3, <2>4, <2>5 DEF IdrThreadStep
<1>4. CASE WaitForTuple \/ MergeTuples
  <2>0. UNCHANGED <<idrFrameRequired, unanswered, idrThread, terminated, stopping>>
    BY <1>4 DEF WaitForTuple, MergeTuples, stopper
  <2>1. CASE stopping BY <2>0, <2>1 DEF LossAccounted
  <2>2. CASE UNCHANGED <<q, range>> /\ rfiThread' # "wait"
    BY <1>0, <2>0, <2>2 DEF LossAccounted, IdrOnItsWay, Covers
  <2>3. ASSUME q # <<>>, q' = Tail(q), rfiThread' = "merge",
               \/ rfiThread = "wait" /\ range' = Head(q)
               \/ range' = <<range[1], Head(q)[2]>>
        PROVE  LossAccounted'
    <3>1. /\ Len(q') = Len(q) - 1 /\ Len(q) \in Nat \ {0} /\ Head(q) = q[1]
          /\ \A i \in 1 .. Len(q) - 1 : q'[i] = q[i + 1]
      BY <1>1, <2>3, TailAt
    <3>2. DOMAIN q = 1 .. Len(q) /\ DOMAIN q' = 1 .. Len(q') BY <1>1, <2>3, TailAt
    <3>3. /\ range[1] <= q[1][1] /\ range[2] <= q[1][2]
          /\ range[1] \in Nat /\ range[2] \in Nat /\ q[1][1] \in Nat /\ q[1][2] \in Nat
      <4>1. 1 \in 1 .. Len(q) BY <3>1
      <4>2. range[1] <= q[1][1] /\ range[2] <= q[1][2] BY <1>0, <4>1 DEF RangesInWindow, InWindow
      <4>3. range[1] \in Nat /\ range[2] \in Nat BY <1>1, LossAssumption DEF Merging
      <4> QED BY <1>1, <4>1, <4>2, <4>3, RangeParts
    <3>4. ASSUME NEW f \in unanswered, Reported(f) PROVE Reported(f)'
      <4>0. f \in Nat BY <1>0, LossAssumption DEF LossTypeOK, Frames
      <4>1. CASE IdrOnItsWay BY <2>0, <4>1 DEF Reported, IdrOnItsWay
      <4>2. CASE Covers(q[1], f)
        <5>1. range'[1] <= q[1][1] /\ range'[2] = q[1][2] /\ range'[1] \in Nat
          BY <2>3, <3>1, <3>3
        <5> QED BY <2>3, <3>3, <4>0, <4>2, <5>1 DEF Reported, Merged, Covers
      <4>3. CASE Merged(f)
        <5>1. range'[1] = range[1] /\ range'[2] = q[1][2] BY <2>3, <3>1, <4>3 DEF Merged
        <5> QED BY <2>3, <3>3, <4>0, <4>3, <5>1 DEF Reported, Merged, Covers
      <4>4. ASSUME NEW i \in DOMAIN q, i # 1, Covers(q[i], f) PROVE Reported(f)'
        <5>1. i - 1 \in DOMAIN q' /\ q'[i - 1] = q[i]
          <6>1. i - 1 \in 1 .. Len(q) - 1 /\ (i - 1) + 1 = i BY <3>1, <3>2, <4>4
          <6>2. q'[i - 1] = q[(i - 1) + 1] BY <3>1, <6>1
          <6> QED BY <3>1, <3>2, <6>1, <6>2
        <5> QED BY <4>4, <5>1 DEF Reported, Queued, Covers
      <4> QED BY <3>4, <4>1, <4>2, <4>3, <4>4 DEF Reported, Queued
    <3> QED BY <1>0, <2>0, <3>4, StillAccounted
  <2>4. TuplesShutDown => stopping BY <1>0 DEF TuplesShutDown, StopOrder
  <2> QED BY <1>4, <2>1, <2>2, <2>3, <2>4 DEF WaitForTuple, MergeTuples, RfiThreadAt
<1>5. CASE requestInvalidateReferenceFrames
  <2>0. UNCHANGED <<idrFrameRequired, q, idrThread, stopping>> /\ (terminated => terminated')
    BY <1>5 DEF requestInvalidateReferenceFrames, stopper
  <2>1. CASE terminated' BY <2>1 DEF LossAccounted
  <2>2. CASE unanswered' = unanswered \ (range[1] .. range[2])
    <3>1. ASSUME NEW f \in unanswered', Reported(f) PROVE Reported(f)'
      <4>1. f \in Nat BY <1>0, <2>2, LossAssumption DEF LossTypeOK, Frames
      <4>2. range[1] \in Nat /\ range[2] \in Nat BY <1>1, LossAssumption DEF Merging
      <4>3. ~Covers(range, f) BY <2>2, <4>1, <4>2 DEF Covers
      <4> QED BY <2>0, <3>1, <4>3 DEF Reported, Queued, Merged, IdrOnItsWay, Covers
    <3> QED BY <1>0, <2>0, <2>2, <3>1, StillAccounted
  <2> QED BY <1>5, <2>1, <2>2 DEF requestInvalidateReferenceFrames
<1>6. CASE stopControlStream
  <2>1. CASE stop = "none" BY <1>6, <2>1 DEF stopControlStream, LossAccounted
  <2>2. CASE stop # "none"
    <3>1. stopping' BY <1>0, <1>6, <2>2 DEF stopControlStream, StopOrder
    <3> QED BY <3>1 DEF LossAccounted
  <2> QED BY <2>1, <2>2
<1>7. CASE HostEncodes \/ UNCHANGED lossVars
  <2>1. UNCHANGED <<requests, threads, terminated, stopper>>
    BY <1>7 DEF HostEncodes, lossVars, reports
  <2>2. UNCHANGED <<idrFrameRequired, q, unanswered, idrThread, rfiThread, range, terminated, stopping>>
    BY <2>1 DEF requests, threads, stopper
  <2> QED BY <1>0, <2>2 DEF LossAccounted, IdrOnItsWay, Covers
<1> QED BY <1>2, <1>3, <1>4, <1>5, <1>6, <1>7 DEF LossNext, RfiThreadStep

-----------------------------------------------------------------------------
\* The invariant the three theorems below follow from.
LEMMA LossInvHolds == LossSpec => []LossInv
<1>1. LossInv /\ [LossNext]_lossVars => LossInv'
  BY NextLossType, NextRanges, NextStopOrder, NextAccounted DEF LossInv
<1> QED BY <1>1, InitLossInv, PTL DEF LossSpec

(***************************************************************************)
(* Type correctness: in particular the queue of ranges stays within its    *)
(* bound, and a range that is queued is one of frames that exist.  It needs*)
(* that startFrameNumber does not pass nextFrameNumber.                    *)
(***************************************************************************)
THEOREM LossTypeCorrect == LossSpec => []LossTypeOK
<1>1. LossInv => LossTypeOK BY DEF LossInv
<1> QED BY <1>1, LossInvHolds, PTL

(***************************************************************************)
(* No report of a lost frame is dropped between connectionDetectedFrameLoss*)
(* and the message to the host, for any number of frames and ranges.       *)
(***************************************************************************)
THEOREM LossNoReportDropped == LossSpec => []LossAccounted
<1>1. LossInv => LossAccounted BY DEF LossInv
<1> QED BY <1>1, LossInvHolds, PTL

(***************************************************************************)
(* The assertion of invalidateRefFramesFunc holds: the range taken next    *)
(* never ends before the one it is merged into.                            *)
(***************************************************************************)
THEOREM LossRangesGrow == LossSpec => []RangesGrow
<1>1. LossInv => RangesGrow
  <2> SUFFICES ASSUME LossInv PROVE RangesGrow OBVIOUS
  <2>1. DOMAIN invalidReferenceFrameTuples = 1 .. Len(invalidReferenceFrameTuples)
    BY DEF LossInv, LossTypeOK
  <2> QED BY <2>1 DEF LossInv, RangesInWindow, InWindow, RangesGrow
<1> QED BY <1>1, LossInvHolds, PTL

-----------------------------------------------------------------------------
(* VideoDepacketizer: what becomes of the frames. *)

\* The receive thread has noted frame.n as received, and is about to submit or
\* drop it.
Finishing == {"drop", "pending", "submit", "full", "flush"}

\* It is at a frame that arrived, not at one it only knows to be lost.
Opened == {"gap", "open", "first", "header", "last"} \union Finishing
InHand == recv \in Opened \/ (recv = "lost" /\ frame.kind # "none")

Kept == waitingForIdrFrame \/ waitingForRefInvalFrame

\* The numbers of the receive thread, the RTP queue and the host agree.
InOrder ==
  /\ startFrameNumber <= currentFrameNumber /\ currentFrameNumber <= hostFrame
  /\ nextFrameNumber <= hostFrame /\ nextFrameNumber <= currentFrameNumber + 1
  /\ recv \notin Finishing /\ ~reportedLostFrame => nextFrameNumber <= currentFrameNumber
  /\ lastIdr < hostFrame /\ hostRfi <= startFrameNumber

AtFrame ==
  /\ InHand => /\ frame \in FrameType /\ frame.n = currentFrameNumber /\ frame.n < hostFrame
               /\ frame.kind = "P" => frame.ref = frame.n - 1
               /\ frame.kind = "IDR" => frame.n <= lastIdr
  /\ recv = "gap" => nextFrameNumber < frame.n /\ startFrameNumber < frame.n
  /\ recv = "lost" => /\ frame.n \in Frames /\ frame.n < hostFrame /\ reportedLostFrame
                      /\ startFrameNumber <= frame.n /\ nextFrameNumber <= frame.n
                      /\ frame.n <= currentFrameNumber
  /\ recv \in {"header", "last"} => nextFrameNumber = frame.n
  /\ recv \in Finishing => nextFrameNumber = frame.n + 1 /\ startFrameNumber <= frame.n

\* A loss that is reported, and a frame that is dropped, leave frames kept back.
KeptBack ==
  /\ recv \in {"gap", "lost", "drop"} => Kept
  /\ recv \in {"full", "flush"} => waitingForIdrFrame
  /\ waitingForNextSuccessfulFrame => recv \in {"header", "last"} /\ Kept

\* Once the first k frames of q are decoded, the decoder has frame r, if it has
\* those of d now.
Have(q, d, k, r) ==
  \/ \E j \in 1 .. k : q[j].n = r /\ \A m \in j + 1 .. k : q[m].kind # "IDR"
  \/ r \in d /\ \A m \in 1 .. k : q[m].kind # "IDR"

Decodable(q, d) ==
  \A i \in 1 .. Len(q) : q[i].kind = "IDR" \/ Have(q, d, i - 1, q[i].ref)

\* The decoder will have frame r when it has decoded all that was submitted.
Available(r) == Have(decodeUnitQueue, intact, Len(decodeUnitQueue), r)

\* Frames that are or will be in a request as the first one to invalidate.
FirstLost(s) ==
  \/ s = startFrameNumber \/ s = range[1] \/ s = hostRfi
  \/ \E i \in 1 .. Len(invalidReferenceFrameTuples) : invalidReferenceFrameTuples[i][1] = s

\* The decoder has not failed behind the receive thread's back.
InStep == directSubmit \/ failures = 0

\* Between frames, the decoder will have the one before the next, or the next
\* ones are kept back; at the end of one, the one it refers to.
ReadyForNext ==
  recv \notin {"last"} \union Finishing => Kept \/ Available(nextFrameNumber - 1)

ReadyForThis ==
  /\ recv = "last" => Kept \/ frame.kind = "IDR" \/ Available(frame.ref)
  /\ recv \in {"pending", "submit"} => frame.kind = "IDR" \/ Available(frame.ref)

\* A frame encoded after an invalidation refers to one the decoder will have, and
\* so will any that is encoded after the requests under way, unless an IDR frame
\* is waited for or was sent since.
InvalidatedRight ==
  /\ InHand /\ frame.kind = "RFI" /\ recv \notin Finishing =>
       waitingForIdrFrame \/ Available(frame.ref)
  /\ \A s \in 0 .. MaxFrame + 1 :
       FirstLost(s) /\ s > lastIdr => waitingForIdrFrame \/ Available(s - 1)

Submittable == ReadyForNext /\ ReadyForThis /\ InvalidatedRight

Unbroken ==
  /\ decoder = "wait" /\ ~broken
  /\ intact # {} => idrFrameProcessed
  /\ Decodable(decodeUnitQueue, intact)

References == InStep => Submittable /\ Unbroken

Direct == directSubmit => decoder = "wait" /\ decodeUnitQueue = <<>>

\* Nothing in this module stops the stream.
Running == stop = "none"

VInv == /\ TypeOK /\ RangesInWindow /\ Running /\ InOrder /\ AtFrame /\ KeptBack
        /\ Direct /\ References
-----------------------------------------------------------------------------
\* What submitting and decoding a frame do to what the decoder will have.
LEMMA SubmittedAt ==
  ASSUME NEW q \in Seq(FrameType), NEW f \in FrameType
  PROVE  /\ Append(q, f) \in Seq(FrameType) /\ Len(Append(q, f)) = Len(q) + 1 /\ Len(q) \in Nat
         /\ Append(q, f)[Len(q) + 1] = f
         /\ \A i \in 1 .. Len(q) : Append(q, f)[i] = q[i]
OBVIOUS

LEMMA DecodedAt ==
  ASSUME NEW q \in Seq(FrameType), q # <<>>
  PROVE  /\ Tail(q) \in Seq(FrameType) /\ Len(Tail(q)) = Len(q) - 1
         /\ Len(q) \in Nat \ {0} /\ Head(q) = q[1] /\ q[1] \in FrameType
         /\ \A i \in 1 .. Len(q) - 1 : Tail(q)[i] = q[i + 1]
OBVIOUS

\* Have looks at the first k frames only.
LEMMA HaveSame ==
  ASSUME NEW q, NEW p, NEW d, NEW k \in Nat, NEW r, Have(q, d, k, r), \A i \in 1 .. k : p[i] = q[i]
  PROVE  Have(p, d, k, r)
<1>1. \A j \in 1 .. k : \A m \in j + 1 .. k : m \in 1 .. k OBVIOUS
<1> QED BY <1>1 DEF Have

\* One more frame that is no IDR frame leaves them there.
LEMMA HaveMore ==
  ASSUME NEW q, NEW d, NEW k \in Nat, NEW r, Have(q, d, k, r), q[k + 1].kind # "IDR"
  PROVE  Have(q, d, k + 1, r)
<1>1. CASE \E j \in 1 .. k : q[j].n = r /\ \A m \in j + 1 .. k : q[m].kind # "IDR"
  <2>1. PICK j \in 1 .. k : q[j].n = r /\ \A m \in j + 1 .. k : q[m].kind # "IDR" BY <1>1
  <2>2. \A m \in j + 1 .. k + 1 : m \in j + 1 .. k \/ m = k + 1 OBVIOUS
  <2>3. j \in 1 .. k + 1 OBVIOUS
  <2> QED BY <2>1, <2>2, <2>3 DEF Have
<1>2. CASE r \in d /\ \A m \in 1 .. k : q[m].kind # "IDR"
  <2>1. \A m \in 1 .. k + 1 : m \in 1 .. k \/ m = k + 1 OBVIOUS
  <2> QED BY <1>2, <2>1 DEF Have
<1> QED BY <1>1, <1>2 DEF Have

LEMMA HaveLast ==
  ASSUME NEW q, NEW d, NEW k \in Nat \ {0}
  PROVE  Have(q, d, k, q[k].n)
<1>1. k \in 1 .. k /\ k + 1 .. k = {} OBVIOUS
<1> QED BY <1>1 DEF Have

LEMMA SubmittedHave ==
  ASSUME NEW q \in Seq(FrameType), NEW f \in FrameType, NEW d
  PROVE  /\ Have(Append(q, f), d, Len(Append(q, f)), f.n)
         /\ \A r : Have(q, d, Len(q), r) /\ f.kind # "IDR" =>
                Have(Append(q, f), d, Len(Append(q, f)), r)
<1> DEFINE p == Append(q, f)
<1>1. /\ Len(p) = Len(q) + 1 /\ Len(q) \in Nat /\ p[Len(q) + 1] = f
      /\ \A i \in 1 .. Len(q) : p[i] = q[i]
  BY SubmittedAt
<1> HIDE DEF p
<1>2. Have(p, d, Len(p), f.n)
  <2>1. Len(q) + 1 \in Nat \ {0} BY <1>1
  <2>2. Have(p, d, Len(q) + 1, p[Len(q) + 1].n) BY <2>1, HaveLast
  <2> QED BY <1>1, <2>2
<1>3. ASSUME NEW r, Have(q, d, Len(q), r), f.kind # "IDR" PROVE Have(p, d, Len(p), r)
  <2>1. Have(p, d, Len(q), r) BY <1>1, <1>3, HaveSame
  <2> QED BY <1>1, <1>3, <2>1, HaveMore
<1> QED BY <1>2, <1>3 DEF p

LEMMA SubmittedDecodable ==
  ASSUME NEW q \in Seq(FrameType), NEW f \in FrameType, NEW d, Decodable(q, d),
         f.kind = "IDR" \/ Have(q, d, Len(q), f.ref)
  PROVE  Decodable(Append(q, f), d)
<1> DEFINE p == Append(q, f)
<1>1. /\ Len(p) = Len(q) + 1 /\ Len(q) \in Nat /\ p[Len(q) + 1] = f
      /\ \A i \in 1 .. Len(q) : p[i] = q[i]
  BY SubmittedAt
<1> HIDE DEF p
<1>2. ASSUME NEW i \in 1 .. Len(p) PROVE p[i].kind = "IDR" \/ Have(p, d, i - 1, p[i].ref)
  <2>1. i - 1 \in Nat /\ i - 1 <= Len(q) /\ \A m \in 1 .. i - 1 : m \in 1 .. Len(q)
    BY <1>1
  <2>2. \A r : Have(q, d, i - 1, r) => Have(p, d, i - 1, r) BY <1>1, <2>1, HaveSame
  <2>3. CASE i \in 1 .. Len(q) BY <1>1, <2>2, <2>3 DEF Decodable
  <2>4. CASE i = Len(q) + 1
    <3>1. i - 1 = Len(q) BY <1>1, <2>4
    <3> QED BY <1>1, <2>2, <2>4, <3>1
  <2> QED BY <1>1, <2>3, <2>4
<1> QED BY <1>2 DEF Decodable, p

\* What the decoder has after frame f.
After(d, f) == IF f.kind = "IDR" THEN {f.n} ELSE d \union {f.n}

LEMMA DecodedHave ==
  ASSUME NEW q \in Seq(FrameType), q # <<>>, NEW d, NEW k \in 1 .. Len(q), NEW r, Have(q, d, k, r)
  PROVE  Have(Tail(q), After(d, Head(q)), k - 1, r)
<1> DEFINE p == Tail(q)
<1>1. /\ Len(q) \in Nat \ {0} /\ Head(q) = q[1]
      /\ \A i \in 1 .. Len(q) - 1 : p[i] = q[i + 1]
  BY DecodedAt
<1> HIDE DEF p
<1>2. ASSUME NEW j \in 0 .. k, \A m \in j + 1 .. k : q[m].kind # "IDR", j # 0
      PROVE  \A m \in j .. k - 1 : p[m].kind # "IDR"
  <2> TAKE m \in j .. k - 1
  <2>1. m + 1 \in j + 1 .. k /\ m \in 1 .. Len(q) - 1 BY <1>1, <1>2
  <2> QED BY <1>1, <1>2, <2>1
<1>3. CASE \E j \in 1 .. k : q[j].n = r /\ \A m \in j + 1 .. k : q[m].kind # "IDR"
  <2>1. PICK j \in 1 .. k : q[j].n = r /\ \A m \in j + 1 .. k : q[m].kind # "IDR" BY <1>3
  <2>2. \A m \in j .. k - 1 : p[m].kind # "IDR" BY <1>2, <2>1
  <2>3. CASE j = 1
    <3>1. r \in After(d, Head(q)) BY <1>1, <2>1, <2>3 DEF After
    <3> QED BY <2>2, <2>3, <3>1 DEF Have, p
  <2>4. CASE j # 1
    <3>1. j - 1 \in 1 .. k - 1 /\ j - 1 \in 1 .. Len(q) - 1 /\ (j - 1) + 1 = j BY <1>1, <2>4
    <3>2. p[j - 1].n = r BY <1>1, <2>1, <3>1
    <3> QED BY <2>2, <3>1, <3>2 DEF Have, p
  <2> QED BY <2>3, <2>4
<1>4. CASE r \in d /\ \A m \in 1 .. k : q[m].kind # "IDR"
  <2>1. 1 \in 1 .. k /\ \A m \in 1 + 1 .. k : m \in 1 .. k BY <1>1
  <2>2. r \in After(d, Head(q)) BY <1>1, <1>4, <2>1 DEF After
  <2>3. 1 \in 0 .. k /\ 1 # 0 BY <1>1
  <2>4. \A m \in 1 .. k - 1 : p[m].kind # "IDR" BY <1>2, <1>4, <2>1, <2>3
  <2> QED BY <2>2, <2>4 DEF Have, p
<1> QED BY <1>3, <1>4 DEF Have

LEMMA DecodedDecodable ==
  ASSUME NEW q \in Seq(FrameType), q # <<>>, NEW d, Decodable(q, d)
  PROVE  Decodable(Tail(q), After(d, Head(q)))
<1> DEFINE p == Tail(q)
<1>1. /\ Len(q) \in Nat \ {0} /\ Len(p) = Len(q) - 1
      /\ \A i \in 1 .. Len(q) - 1 : p[i] = q[i + 1]
  BY DecodedAt
<1>2. ASSUME NEW i \in 1 .. Len(p)
      PROVE  p[i].kind = "IDR" \/ Have(p, After(d, Head(q)), i - 1, p[i].ref)
  <2>1. i + 1 \in 1 .. Len(q) /\ i \in 1 .. Len(q) /\ (i + 1) - 1 = i BY <1>1
  <2>2. q[i + 1].kind = "IDR" \/ Have(q, d, i, q[i + 1].ref) BY <2>1 DEF Decodable
  <2> HIDE DEF p
  <2>3. p[i] = q[i + 1] BY <1>1
  <2>4. Have(q, d, i, q[i + 1].ref) => Have(p, After(d, Head(q)), i - 1, q[i + 1].ref)
    BY <2>1, DecodedHave DEF p
  <2> QED BY <2>2, <2>3, <2>4
<1> QED BY <1>2 DEF Decodable

-----------------------------------------------------------------------------
\* The operators several actions share.
Tuples == invalidReferenceFrameTuples

LEMMA LossKept ==
  ASSUME LossTypeOK, UNCHANGED <<threads, stopper, terminated>>,
         idrFrameRequired' \in BOOLEAN, unanswered' \subseteq Frames,
         Tuples' \in Seq(Ranges), Len(Tuples') <= RfiBound,
         startFrameNumber' \in 0 .. MaxFrame + 1, nextFrameNumber' \in 1 .. MaxFrame + 1,
         hostIdr' \in BOOLEAN, hostRfi' \in 0 .. MaxFrame
  PROVE  LossTypeOK'
BY DEF LossTypeOK, Ranges, Tuples, threads, stopper

\* Requests of an IDR frame, or none.
Asks == /\ idrFrameRequired' \in BOOLEAN /\ unanswered' = unanswered
        /\ Tuples' = Tuples \/ Tuples' = <<>>

LEMMA AsksTyped ==
  ASSUME LossTypeOK, Asks
  PROVE  /\ idrFrameRequired' \in BOOLEAN /\ unanswered' \subseteq Frames
         /\ Tuples' \in Seq(Ranges) /\ Len(Tuples') <= RfiBound
<1>1. <<>> \in Seq(Ranges) /\ Len(<<>>) <= RfiBound BY LossAssumption
<1> QED BY <1>1 DEF Asks, LossTypeOK, Ranges, Tuples

LEMMA AskNothing == ASSUME LossTypeOK, UNCHANGED requests PROVE Asks
BY DEF Asks, LossTypeOK, requests, Tuples

LEMMA AskIdr == ASSUME LossTypeOK, LiRequestIdrFrame PROVE Asks
BY DEF Asks, LiRequestIdrFrame, Tuples

LEMMA DropFacts ==
  ASSUME TypeOK, dropFrameState
  PROVE  /\ Asks /\ dropStatePending' = FALSE /\ consecutiveFrameDrops' \in 0 .. DropLimit - 1
         /\ waitingForIdrFrame' \in BOOLEAN /\ waitingForRefInvalFrame' \in BOOLEAN
         /\ waitingForIdrFrame => waitingForIdrFrame'
         /\ Kept'
<1> DEFINE n == consecutiveFrameDrops + 1
<1>1. consecutiveFrameDrops' \in 0 .. DropLimit - 1
  <2>1. consecutiveFrameDrops' = IF n = DropLimit THEN 0 ELSE n
    BY DEF dropFrameState, RestartAtLimit
  <2> QED BY <2>1, VideoAssumption DEF TypeOK
<1>2. Asks
  <2>1. LossTypeOK BY DEF TypeOK
  <2> QED BY <2>1, AskNothing, AskIdr DEF dropFrameState
<1>3. /\ waitingForIdrFrame' = (NeedsIdr \/ n = DropLimit)
      /\ waitingForRefInvalFrame' = (waitingForRefInvalFrame \/ ~NeedsIdr)
      /\ dropStatePending' = FALSE
  BY DEF dropFrameState
<1>4. NeedsIdr \in BOOLEAN /\ (waitingForIdrFrame => NeedsIdr) BY DEF NeedsIdr
<1>5. waitingForIdrFrame' \in BOOLEAN /\ waitingForRefInvalFrame' \in BOOLEAN
  BY <1>3, Zenon
<1>6. Kept' BY <1>3 DEF Kept
<1> QED BY <1>1, <1>2, <1>3, <1>4, <1>5, <1>6

\* The frame the host sends, and what it refers to.
LEMMA SentFacts ==
  ASSUME TypeOK, InOrder, NEW kind \in {"P", "IDR", "RFI"}, HostSends(Encoded(kind))
  PROVE  /\ Encoded(kind) \in FrameType
         /\ Encoded(kind).n = hostFrame /\ Encoded(kind).kind = kind
         /\ hostFrame \in Frames /\ hostFrame' = hostFrame + 1
         /\ hostIdr' \in BOOLEAN /\ hostRfi' \in {0, hostRfi}
         /\ lastIdr' \in {lastIdr, hostFrame}
         /\ kind = "P" => Encoded(kind).ref = hostFrame - 1
         /\ kind = "IDR" => lastIdr' = hostFrame
         /\ kind = "RFI" => /\ Encoded(kind).ref = hostRfi - 1 /\ hostRfi > lastIdr
                            /\ hostRfi \in 1 .. MaxFrame
<1>1. /\ hostFrame \in 1 .. MaxFrame + 1 /\ lastIdr \in 0 .. MaxFrame /\ lastIdr < hostFrame
      /\ hostRfi \in 0 .. MaxFrame /\ hostIdr \in BOOLEAN
  BY DEF TypeOK, LossTypeOK, InOrder
<1>2. hostFrame \in Frames /\ hostFrame' = hostFrame + 1
  BY <1>1, LossAssumption DEF HostSends, Frames
<1>3. Encoded(kind).n = hostFrame /\ Encoded(kind).kind = kind BY DEF Encoded
<1>4. CASE kind = "P"
  <2>1. Encoded("P") = [n |-> hostFrame, kind |-> "P", ref |-> hostFrame - 1] BY DEF Encoded
  <2>2. hostFrame > 1 /\ UNCHANGED <<host, lastIdr>>
    BY <1>3, <1>4, <2>1 DEF HostSends, Encoded
  <2>3. hostFrame - 1 \in 0 .. MaxFrame BY <1>1, <2>2, LossAssumption
  <2> QED BY <1>1, <1>2, <1>4, <2>1, <2>2, <2>3 DEF FrameType, host
<1>5. CASE kind = "IDR"
  <2>1. Encoded("IDR") = [n |-> hostFrame, kind |-> "IDR", ref |-> 0] BY DEF Encoded
  <2>2. hostIdr' = FALSE /\ hostRfi' = 0 /\ lastIdr' = hostFrame
    BY <1>3, <1>5, <2>1 DEF HostSends, Encoded
  <2>3. 0 \in 0 .. MaxFrame BY LossAssumption
  <2>4. Encoded("IDR") \in FrameType BY <1>2, <2>1, <2>3 DEF FrameType
  <2> QED BY <1>1, <1>2, <1>3, <1>5, <2>2, <2>4
<1>6. CASE kind = "RFI"
  <2>1. Encoded("RFI") = [n |-> hostFrame, kind |-> "RFI", ref |-> hostRfi - 1] BY DEF Encoded
  <2>2. hostRfi > lastIdr /\ hostRfi' = 0 /\ UNCHANGED <<hostIdr, lastIdr>>
    BY <1>3, <1>6, <2>1 DEF HostSends, Encoded
  <2>3. hostRfi - 1 \in 0 .. MaxFrame /\ hostRfi \in 1 .. MaxFrame BY <1>1, <2>2, LossAssumption
  <2> QED BY <1>1, <1>2, <1>6, <2>1, <2>2, <2>3 DEF FrameType
<1> QED BY <1>4, <1>5, <1>6

-----------------------------------------------------------------------------
\* The numbers, by name, for the arithmetic of the steps.
LEMMA Numbers ==
  ASSUME TypeOK
  PROVE  /\ startFrameNumber \in Nat /\ nextFrameNumber \in Nat \ {0}
         /\ currentFrameNumber \in Nat /\ hostFrame \in Nat /\ lastIdr \in Nat /\ hostRfi \in Nat
         /\ frame.n \in Nat /\ MaxFrame \in Nat
         /\ hostFrame <= MaxFrame + 1 /\ frame.n <= MaxFrame
BY LossAssumption DEF TypeOK, LossTypeOK

\* The reports of losses, step by step: a step that asks at most for an IDR
\* frame, and one that reports the frames up to f.
LEMMA LossStep ==
  ASSUME LossTypeOK, RangesInWindow, Running, UNCHANGED <<threads, stopper, terminated>>,
         Asks, hostIdr' \in BOOLEAN, hostRfi' \in 0 .. MaxFrame,
         startFrameNumber' \in 0 .. MaxFrame + 1, nextFrameNumber' \in 1 .. MaxFrame + 1,
         startFrameNumber <= startFrameNumber', nextFrameNumber <= nextFrameNumber',
         startFrameNumber' <= nextFrameNumber'
  PROVE  LossTypeOK' /\ RangesInWindow' /\ Running'
<1>1. LossTypeOK' BY AsksTyped, LossKept
<1>2. /\ Tuples \in Seq(Ranges) /\ range \in Merging /\ UNCHANGED <<range, stop>>
      /\ startFrameNumber \in Nat /\ nextFrameNumber \in Nat
      /\ startFrameNumber' \in Nat /\ nextFrameNumber' \in Nat
  BY LossAssumption DEF LossTypeOK, Ranges, Merging, Tuples, threads, stopper
<1>3. InWindow(Tuples, range, startFrameNumber', nextFrameNumber')
  BY <1>2, WindowMoves DEF RangesInWindow, Tuples
<1>4. InWindow(Tuples', range', startFrameNumber', nextFrameNumber')
  BY <1>2, <1>3, WindowEmptied DEF Asks
<1> QED BY <1>1, <1>2, <1>4 DEF RangesInWindow, Running, Tuples

LEMMA LossReported ==
  ASSUME LossTypeOK, RangesInWindow, Running, UNCHANGED <<threads, stopper, terminated, host>>,
         NEW f \in Frames, startFrameNumber <= f, nextFrameNumber <= f,
         connectionDetectedFrameLoss(startFrameNumber, f),
         nextFrameNumber' = f + 1, UNCHANGED startFrameNumber
  PROVE  /\ LossTypeOK' /\ RangesInWindow' /\ Running'
         /\ Tuples' = <<>> \/ Tuples' = Append(Tuples, <<startFrameNumber, f>>)
<1> DEFINE s == startFrameNumber
<1>1. <<s, f>> \in Ranges BY LossAssumption DEF LossTypeOK, Ranges, Frames
<1>2. Tuples \in Seq(Ranges) /\ Len(Tuples) <= RfiBound /\ <<>> \in Seq(Ranges) /\ Len(<<>>) <= RfiBound
  BY LossAssumption DEF LossTypeOK, Ranges, Tuples
<1>3. /\ range \in Merging /\ UNCHANGED <<range, stop>>
      /\ s \in Nat /\ nextFrameNumber \in Nat /\ f \in Nat
  BY LossAssumption DEF LossTypeOK, Frames, Merging, threads, stopper
<1>4. /\ unanswered' \subseteq Frames
      /\ \/ Tuples' = <<>> /\ idrFrameRequired' = TRUE
         \/ Tuples' = Append(Tuples, <<s, f>>) /\ TupleFits /\ UNCHANGED idrFrameRequired
  BY DEF connectionDetectedFrameLoss, QueueTuple, LossTypeOK, Tuples
<1>5. Tuples' \in Seq(Ranges) /\ Len(Tuples') <= RfiBound /\ idrFrameRequired' \in BOOLEAN
  <2>1. CASE Tuples' = <<>> /\ idrFrameRequired' = TRUE BY <1>2, <2>1
  <2>2. CASE Tuples' = Append(Tuples, <<s, f>>) /\ TupleFits /\ UNCHANGED idrFrameRequired
    <3>1. Tuples' \in Seq(Ranges) /\ Len(Tuples') = Len(Tuples) + 1 BY <1>1, <1>2, <2>2, AppendAt
    <3>2. Len(Tuples) \in Nat /\ Len(Tuples) < RfiBound BY <1>2, <2>2 DEF TupleFits, Tuples
    <3>3. idrFrameRequired' \in BOOLEAN BY <2>2 DEF LossTypeOK
    <3> QED BY <3>1, <3>2, <3>3, LossAssumption
  <2> QED BY <1>4, <2>1, <2>2
<1>6. LossTypeOK'
  <2>1. startFrameNumber' \in 0 .. MaxFrame + 1 BY DEF LossTypeOK
  <2>2. nextFrameNumber' \in 1 .. MaxFrame + 1 BY LossAssumption DEF Frames
  <2>3. hostIdr' \in BOOLEAN /\ hostRfi' \in 0 .. MaxFrame BY DEF LossTypeOK, host
  <2> QED BY <1>4, <1>5, <2>1, <2>2, <2>3, LossKept
<1>7. InWindow(Tuples, range, s, nextFrameNumber) BY DEF RangesInWindow, Tuples
<1>8. InWindow(Tuples', range', startFrameNumber', nextFrameNumber')
  <2>1. CASE Tuples' = <<>>
    <3>1. InWindow(Tuples, range, s, f + 1)
      <4>1. f + 1 \in Nat /\ nextFrameNumber <= f + 1 /\ s <= f + 1 /\ s <= s BY <1>3
      <4> QED BY <1>2, <1>3, <1>7, <4>1, WindowMoves
    <3> QED BY <1>3, <2>1, <3>1, WindowEmptied
  <2>2. CASE Tuples' = Append(Tuples, <<s, f>>)
    BY <1>1, <1>2, <1>3, <1>7, <2>2, WindowAppend
  <2> QED BY <1>4, <2>1, <2>2
<1> QED BY <1>3, <1>4, <1>6, <1>8 DEF RangesInWindow, Running, Tuples

LEMMA NextLoss ==
  ASSUME VInv, Next
  PROVE  LossTypeOK' /\ RangesInWindow' /\ Running'
<1>0. LossTypeOK /\ RangesInWindow /\ Running /\ TypeOK /\ InOrder /\ AtFrame
  BY DEF VInv, TypeOK
<1>1. /\ startFrameNumber \in Nat /\ nextFrameNumber \in Nat \ {0}
      /\ currentFrameNumber \in Nat /\ hostFrame \in Nat /\ frame.n \in Nat /\ MaxFrame \in Nat
      /\ hostFrame <= MaxFrame + 1
      /\ startFrameNumber <= nextFrameNumber
  BY <1>0, Numbers DEF RangesInWindow, InWindow
<1>2. ASSUME UNCHANGED lossVars PROVE LossTypeOK' /\ RangesInWindow' /\ Running'
  BY <1>0, <1>2 DEF lossVars, reports, requests, window, threads, stopper, host,
     LossTypeOK, RangesInWindow, Running
<1>3. ASSUME Asks, UNCHANGED <<window, threads, stopper, terminated>>,
             hostIdr' \in BOOLEAN, hostRfi' \in 0 .. MaxFrame
      PROVE  LossTypeOK' /\ RangesInWindow' /\ Running'
  <2>1. /\ startFrameNumber' = startFrameNumber /\ nextFrameNumber' = nextFrameNumber
        /\ startFrameNumber' \in 0 .. MaxFrame + 1 /\ nextFrameNumber' \in 1 .. MaxFrame + 1
    BY <1>0, <1>3 DEF window, LossTypeOK
  <2> QED BY <1>0, <1>1, <1>3, <2>1, LossStep
<1>4. ASSUME Asks, UNCHANGED <<window, threads, stopper, terminated, host>>
      PROVE  LossTypeOK' /\ RangesInWindow' /\ Running'
  <2>1. hostIdr' \in BOOLEAN /\ hostRfi' \in 0 .. MaxFrame BY <1>0, <1>4 DEF LossTypeOK, host
  <2> QED BY <1>3, <1>4, <2>1
<1>5. ASSUME NEW kind \in {"P", "IDR", "RFI"}, HostSends(Encoded(kind)), Asks,
             UNCHANGED <<window, threads, stopper, terminated>>
      PROVE  LossTypeOK' /\ RangesInWindow' /\ Running'
  <2>1. hostIdr' \in BOOLEAN /\ hostRfi' \in {0, hostRfi} BY <1>0, <1>5, SentFacts
  <2>2. hostRfi' \in 0 .. MaxFrame BY <1>0, <1>1, <2>1 DEF LossTypeOK
  <2> QED BY <1>3, <1>5, <2>1, <2>2
<1>6. ASSUME UNCHANGED requests \/ dropFrameState \/ LiRequestIdrFrame PROVE Asks
  BY <1>0, <1>6, AskNothing, AskIdr, DropFacts
<1>7. CASE FrameLost \/ FrameOpens \/ FrameOpensLate
  <2>1. PICK kind \in {"P", "IDR", "RFI"} : HostSends(Encoded(kind))
    BY <1>7 DEF FrameLost, FrameOpens, FrameOpensLate
  <2>2. UNCHANGED <<window, threads, stopper, terminated>>
    BY <1>7 DEF FrameLost, FrameOpens, FrameOpensLate
  <2>3. UNCHANGED requests \/ dropFrameState
    BY <1>7 DEF FrameLost, FrameOpens, FrameOpensLate
  <2> QED BY <1>5, <1>6, <2>1, <2>2, <2>3
<1>8. CASE NotifyFrameLost
  <2>0. UNCHANGED <<threads, stopper, terminated, host>> BY <1>8 DEF NotifyFrameLost
  <2>1. ASSUME NEW f \in Frames, startFrameNumber <= f, nextFrameNumber <= f, NotifyLoss(f)
        PROVE  LossTypeOK' /\ RangesInWindow' /\ Running'
    <3>1. CASE waitingForIdrFrame BY <1>4, <1>6, <2>0, <2>1, <3>1 DEF NotifyLoss
    <3>2. CASE ~waitingForIdrFrame BY <1>0, <2>0, <2>1, <3>2, LossReported DEF NotifyLoss
    <3> QED BY <3>1, <3>2
  <2>2. CASE recv = "gap" /\ NotifyLoss(frame.n - 1)
    <3>1. nextFrameNumber < frame.n /\ startFrameNumber < frame.n /\ frame.n <= MaxFrame
      BY <1>0, <2>2, Numbers DEF AtFrame
    <3>2. /\ frame.n - 1 \in Frames /\ startFrameNumber <= frame.n - 1
          /\ nextFrameNumber <= frame.n - 1
      BY <1>1, <3>1 DEF Frames
    <3> QED BY <2>1, <2>2, <3>2
  <2>3. CASE recv = "lost" /\ NotifyLoss(frame.n)
    BY <1>0, <2>1, <2>3 DEF AtFrame
  <2> QED BY <1>8, <2>2, <2>3 DEF NotifyFrameLost, RecvAt
<1>9. CASE FrameUnrecoverable \/ DropUnusable \/ CheckPendingDrop \/ QueueOverflow \/ RefreshRequests
  <2>1. UNCHANGED <<window, threads, stopper, terminated, host>>
    BY <1>9 DEF FrameUnrecoverable, DropUnusable, CheckPendingDrop, QueueOverflow, RefreshRequests
  <2>2. UNCHANGED requests \/ dropFrameState \/ LiRequestIdrFrame
    BY <1>9 DEF FrameUnrecoverable, DropUnusable, CheckPendingDrop, QueueOverflow, RefreshRequests
  <2> QED BY <1>4, <1>6, <2>1, <2>2
<1>10. CASE FrameStalls \/ FrameCompletes \/ ReadHeader \/ DecoderTakes \/ RefreshWaits
            \/ RefreshFlushes \/ RefreshDrops
  BY <1>2, <1>10 DEF FrameStalls, FrameCompletes, ReadHeader, DecoderTakes, RefreshWaits,
     RefreshFlushes, RefreshDrops
<1>11. CASE CheckSequence
  <2>1. UNCHANGED <<startFrameNumber, threads, stopper, terminated, host>>
    BY <1>11 DEF CheckSequence
  <2>2. CASE UNCHANGED requests /\ UNCHANGED nextFrameNumber
    BY <1>4, <1>6, <2>1, <2>2 DEF window
  <2>3. CASE frame.n > nextFrameNumber /\ nextFrameNumber' = frame.n /\ dropFrameState
    <3>1. nextFrameNumber' \in 1 .. MaxFrame + 1 BY <1>0, <1>1, <2>3, Numbers
    <3>2. startFrameNumber' \in 0 .. MaxFrame + 1 /\ hostIdr' \in BOOLEAN /\ hostRfi' \in 0 .. MaxFrame
      BY <1>0, <2>1 DEF LossTypeOK, host
    <3> QED BY <1>0, <1>1, <1>6, <2>1, <2>3, <3>1, <3>2, LossStep
  <2> QED BY <1>11, <2>2, <2>3 DEF CheckSequence
<1>12. CASE LastPacket
  <2>0. UNCHANGED <<threads, stopper, terminated, host>> /\ UNCHANGED startFrameNumber
    BY <1>12 DEF LastPacket
  <2>1. /\ recv = "last" /\ nextFrameNumber' = frame.n + 1 /\ nextFrameNumber = frame.n
        /\ frame.n \in Frames
    BY <1>0, <1>12 DEF LastPacket, RecvAt, AtFrame, InHand, Opened, FrameType
  <2>2. CASE UNCHANGED requests \/ LiRequestIdrFrame
    <3>1. nextFrameNumber' \in 1 .. MaxFrame + 1 BY <1>1, <2>1 DEF Frames
    <3>2. startFrameNumber' \in 0 .. MaxFrame + 1 /\ hostIdr' \in BOOLEAN /\ hostRfi' \in 0 .. MaxFrame
      BY <1>0, <2>0 DEF LossTypeOK, host
    <3> QED BY <1>0, <1>1, <1>6, <2>0, <2>1, <2>2, <3>1, <3>2, LossStep
  <2>3. CASE connectionDetectedFrameLoss(startFrameNumber, frame.n)
    <3>1. startFrameNumber <= frame.n /\ nextFrameNumber <= frame.n BY <1>1, <2>1
    <3> QED BY <1>0, <2>0, <2>1, <2>3, <3>1, LossReported
  <2> QED BY <1>12, <2>2, <2>3 DEF LastPacket, ReportUnusable
<1>13. CASE SubmitDirectly \/ SubmitQueued
  <2>0. UNCHANGED <<threads, stopper, terminated, host>> /\ UNCHANGED nextFrameNumber
    BY <1>13 DEF SubmitDirectly, SubmitQueued
  <2>1. UNCHANGED requests \/ LiRequestIdrFrame BY <1>13 DEF SubmitDirectly, SubmitQueued
  <2>2. startFrameNumber' = nextFrameNumber \/ UNCHANGED startFrameNumber
    BY <1>13 DEF SubmitDirectly, SubmitQueued, NoteSubmitted
  <2>3. startFrameNumber' \in 0 .. MaxFrame + 1 /\ nextFrameNumber' \in 1 .. MaxFrame + 1
    BY <1>0, <2>0, <2>2 DEF LossTypeOK
  <2>4. hostIdr' \in BOOLEAN /\ hostRfi' \in 0 .. MaxFrame BY <1>0, <2>0 DEF LossTypeOK, host
  <2> QED BY <1>0, <1>1, <1>6, <2>0, <2>1, <2>2, <2>3, <2>4, LossStep
<1>14. CASE Report
  <2>1. LossNext /\ UNCHANGED window BY <1>14 DEF Report, LossNext
  <2>2. UNCHANGED stop
    BY <1>14 DEF Report, IdrThreadStep, RfiThreadStep, PltWaitForEvent, PltClearEvent, TestStopping,
       DropRedundantTuples, requestIdrFrame, WaitForTuple, MergeTuples,
       requestInvalidateReferenceFrames, stopper
  <2> QED BY <1>0, <2>1, <2>2, NextLossType, NextRanges DEF Running
<1> QED
  BY <1>7, <1>8, <1>9, <1>10, <1>11, <1>12, <1>13, <1>14 DEF Next, Receive, Decode

-----------------------------------------------------------------------------
LEMMA NextType ==
  ASSUME VInv, Next
  PROVE  TypeOK'
<1> USE DEF waiting, drops, rtp, source, decoding, RecvAt, DecoderAt
<1>0. /\ TypeOK /\ InOrder /\ AtFrame /\ LossTypeOK' /\ mode' \in Modes
      /\ LossAssumption /\ VideoAssumption
  BY NextLoss, LossAssumption, VideoAssumption DEF VInv, TypeOK, Next
<1>1. /\ currentFrameNumber \in Nat /\ hostFrame \in Nat /\ frame.n \in Nat /\ MaxFrame \in Nat
      /\ hostFrame <= MaxFrame + 1 /\ frame.n <= MaxFrame /\ frame.n + 1 \in 1 .. MaxFrame + 1
  <2>1. frame.n + 1 \in 1 .. MaxFrame + 1 BY <1>0, Numbers
  <2> QED BY <1>0, <2>1, Numbers
<1>2. ASSUME dropFrameState \/ UNCHANGED <<drops, waitingForIdrFrame, waitingForRefInvalFrame>>
      PROVE  /\ waitingForIdrFrame' \in BOOLEAN /\ waitingForRefInvalFrame' \in BOOLEAN
             /\ dropStatePending' \in BOOLEAN /\ consecutiveFrameDrops' \in 0 .. DropLimit - 1
  <2>1. CASE dropFrameState BY <1>0, <2>1, DropFacts
  <2>2. CASE UNCHANGED <<drops, waitingForIdrFrame, waitingForRefInvalFrame>>
    BY <1>0, <2>2 DEF TypeOK
  <2> QED BY <1>2, <2>1, <2>2
<1>3. NoFrame \in [n : 0 .. MaxFrame, kind : {"P", "IDR", "RFI", "none"}, ref : 0 .. MaxFrame]
      /\ \A m \in 0 .. MaxFrame : [NoFrame EXCEPT !.n = m]
           \in [n : 0 .. MaxFrame, kind : {"P", "IDR", "RFI", "none"}, ref : 0 .. MaxFrame]
  <2>1. 0 \in 0 .. MaxFrame BY <1>1
  <2> QED BY <2>1 DEF NoFrame
<1>4. CASE FrameLost \/ FrameOpens \/ FrameOpensLate
  <2>1. PICK kind \in {"P", "IDR", "RFI"} :
          HostSends(Encoded(kind)) /\ (FrameOpens => frame' = Encoded(kind))
    BY <1>4 DEF FrameLost, FrameOpens, FrameOpensLate
  <2>2. /\ Encoded(kind) \in FrameType /\ hostFrame \in Frames /\ hostFrame' = hostFrame + 1
        /\ lastIdr' \in {lastIdr, hostFrame}
    BY <1>0, <2>1, SentFacts
  <2>3. hostFrame' \in 1 .. MaxFrame + 1 /\ lastIdr' \in 0 .. MaxFrame /\ hostFrame \in 1 .. MaxFrame + 1
    BY <1>0, <1>1, <2>2 DEF TypeOK, Frames
  <2>4. CASE FrameLost BY <1>0, <2>3, <2>4 DEF FrameLost, TypeOK
  <2>5. CASE FrameOpens
    <3>1. frame' \in [n : 0 .. MaxFrame, kind : {"P", "IDR", "RFI", "none"}, ref : 0 .. MaxFrame]
      BY <1>1, <2>1, <2>2, <2>5 DEF FrameType, Frames
    <3>2. dropFrameState \/ UNCHANGED <<drops, waitingForIdrFrame, waitingForRefInvalFrame>>
      BY <2>5 DEF FrameOpens
    <3>3. recv' \in {"gap", "open"} BY <2>5 DEF FrameOpens
    <3> QED BY <1>0, <1>2, <2>3, <2>5, <3>1, <3>2, <3>3 DEF FrameOpens, TypeOK
  <2>6. CASE FrameOpensLate
    <3>1. dropFrameState \/ UNCHANGED <<drops, waitingForIdrFrame, waitingForRefInvalFrame>>
      BY <2>6 DEF FrameOpensLate
    <3>2. currentFrameNumber \in 0 .. MaxFrame
      BY <1>0, <1>1, <2>2 DEF InOrder, Frames
    <3>3. frame' \in [n : 0 .. MaxFrame, kind : {"P", "IDR", "RFI", "none"}, ref : 0 .. MaxFrame]
      BY <1>0, <1>3, <2>6, <3>2 DEF FrameOpensLate, TypeOK
    <3>4. recv' \in {"lost", "idle"} BY <2>6 DEF FrameOpensLate
    <3> QED BY <1>0, <1>2, <2>2, <2>3, <2>6, <3>1, <3>3, <3>4 DEF FrameOpensLate, TypeOK
  <2> QED BY <1>4, <2>4, <2>5, <2>6
<1>5. CASE NotifyFrameLost \/ FrameStalls \/ FrameCompletes \/ ReadHeader \/ LastPacket
  <2>1. CASE NotifyFrameLost BY <1>0, <2>1 DEF NotifyFrameLost, TypeOK
  <2>2. CASE FrameStalls \/ FrameCompletes BY <1>0, <2>2, SMTT(30) DEF FrameStalls, FrameCompletes, TypeOK
  <2>3. CASE ReadHeader BY <1>0, <2>3, ZenonT(60) DEF ReadHeader, TypeOK
  <2>4. CASE LastPacket
    <3>1. recv' \in {"drop", "pending"} /\ waitingForNextSuccessfulFrame' \in BOOLEAN
      BY <1>0, <2>4 DEF LastPacket, TypeOK
    <3> QED BY <1>0, <2>4, <3>1 DEF LastPacket, TypeOK
  <2> QED BY <1>5, <2>1, <2>2, <2>3, <2>4
<1>6. CASE FrameUnrecoverable
  <2>1. dropFrameState \/ UNCHANGED <<drops, waitingForIdrFrame, waitingForRefInvalFrame>>
    BY <1>6 DEF FrameUnrecoverable
  <2>2. frame' \in [n : 0 .. MaxFrame, kind : {"P", "IDR", "RFI", "none"}, ref : 0 .. MaxFrame]
    BY <1>0, <1>1, <1>3, <1>6 DEF FrameUnrecoverable, TypeOK
  <2>3. recv' \in {"idle", "lost"} BY <1>6 DEF FrameUnrecoverable
  <2>4. currentFrameNumber' \in 1 .. MaxFrame + 1 BY <1>0, <1>1, <1>6 DEF FrameUnrecoverable, TypeOK
  <2> QED BY <1>0, <1>2, <1>6, <2>1, <2>2, <2>3, <2>4 DEF FrameUnrecoverable, TypeOK
<1>7. CASE CheckSequence \/ DropUnusable \/ CheckPendingDrop \/ QueueOverflow
  <2>1. CASE CheckSequence
    <3>1. dropFrameState \/ UNCHANGED <<drops, waitingForIdrFrame, waitingForRefInvalFrame>>
      BY <2>1 DEF CheckSequence
    <3>2. waitingForNextSuccessfulFrame' \in BOOLEAN /\ recv' \in {"idle", "header"}
      BY <1>0, <2>1 DEF CheckSequence, TypeOK
    <3>3. currentFrameNumber' \in 1 .. MaxFrame + 1 /\ reportedLostFrame' \in BOOLEAN
      BY <1>0, <1>1, <2>1 DEF CheckSequence, FrameDone, TypeOK
    <3> QED BY <1>0, <1>2, <2>1, <3>1, <3>2, <3>3 DEF CheckSequence, TypeOK
  <2>2. CASE DropUnusable
    BY <1>0, <1>1, <1>2, <2>2 DEF DropUnusable, FrameDone, TypeOK
  <2>3. CASE CheckPendingDrop
    <3>1. currentFrameNumber' \in 1 .. MaxFrame + 1 /\ reportedLostFrame' \in BOOLEAN
          /\ recv' \in {"idle", "submit"}
      BY <1>0, <1>1, <2>3 DEF CheckPendingDrop, FrameDone, TypeOK
    <3>2. /\ waitingForIdrFrame' \in BOOLEAN /\ waitingForRefInvalFrame' \in BOOLEAN
          /\ dropStatePending' \in BOOLEAN /\ consecutiveFrameDrops' \in 0 .. DropLimit - 1
      BY <1>0, <1>2, <2>3 DEF CheckPendingDrop, TypeOK
    <3> QED BY <1>0, <2>3, <3>1, <3>2 DEF CheckPendingDrop, TypeOK
  <2>4. CASE QueueOverflow
    <3>1. dropFrameState \/ UNCHANGED <<drops, waitingForIdrFrame, waitingForRefInvalFrame>>
      BY <2>4 DEF QueueOverflow
    <3>2. currentFrameNumber' \in 1 .. MaxFrame + 1 /\ reportedLostFrame' \in BOOLEAN
          /\ recv' \in {"idle", "flush"}
      BY <1>0, <1>1, <2>4 DEF QueueOverflow, FrameDone, TypeOK
    <3>3. decodeUnitQueue' \in Seq(FrameType) /\ Len(decodeUnitQueue') <= QueueBound
      <4>1. <<>> \in Seq(FrameType) /\ Len(<<>>) <= QueueBound BY VideoAssumption
      <4> QED BY <1>0, <2>4, <4>1 DEF QueueOverflow, TypeOK
    <3> QED BY <1>0, <1>2, <2>4, <3>1, <3>2, <3>3 DEF QueueOverflow, TypeOK
  <2> QED BY <1>7, <2>1, <2>2, <2>3, <2>4
<1>8. ASSUME NEW f \in FrameType, Decodes(f) \/ Fails
      PROVE  /\ intact' \subseteq Frames /\ broken' \in BOOLEAN
             /\ failures' \in 0 .. MaxFailures /\ idrFrameProcessed' \in BOOLEAN
  <2>1. f.n \in Frames BY DEF FrameType
  <2>2. failures' \in 0 .. MaxFailures BY <1>0, <1>8, VideoAssumption DEF Decodes, Fails, TypeOK
  <2>3. intact' \subseteq Frames BY <1>0, <1>8, <2>1 DEF Decodes, Fails, TypeOK
  <2>4. broken' \in BOOLEAN BY <1>0, <1>8, Zenon DEF Decodes, Fails, TypeOK
  <2>5. idrFrameProcessed' \in BOOLEAN BY <1>0, <1>8, Zenon DEF Decodes, Fails, TypeOK
  <2> QED BY <2>2, <2>3, <2>4, <2>5
<1>9. CASE SubmitDirectly
  <2>1. frame \in FrameType BY <1>0, <1>9 DEF SubmitDirectly, AtFrame, InHand, Opened, Finishing
  <2>2. Decodes(frame) \/ Fails BY <1>9 DEF SubmitDirectly
  <2>3. 0 \in 0 .. DropLimit - 1 BY VideoAssumption
  <2>4. waitingForIdrFrame' \in BOOLEAN /\ dropStatePending' \in BOOLEAN
    BY <1>0, <1>9 DEF SubmitDirectly, TypeOK
  <2> QED BY <1>0, <1>1, <1>8, <1>9, <2>1, <2>2, <2>3, <2>4 
      DEF SubmitDirectly, FrameDone, NoteSubmitted, TypeOK
<1>10. CASE SubmitQueued
  <2>1. frame \in FrameType BY <1>0, <1>10 DEF SubmitQueued, AtFrame, InHand, Opened, Finishing
  <2>2. decodeUnitQueue' \in Seq(FrameType) /\ Len(decodeUnitQueue') <= QueueBound
    <3>1. CASE UNCHANGED decodeUnitQueue BY <1>0, <3>1 DEF TypeOK
    <3>2. CASE Len(decodeUnitQueue) < QueueBound /\ decodeUnitQueue' = Append(decodeUnitQueue, frame)
      <4>1. decodeUnitQueue \in Seq(FrameType) BY <1>0 DEF TypeOK
      <4>2. /\ decodeUnitQueue' \in Seq(FrameType) /\ Len(decodeUnitQueue) \in Nat
            /\ Len(decodeUnitQueue') = Len(decodeUnitQueue) + 1
        BY <2>1, <3>2, <4>1, SubmittedAt
      <4> QED BY <3>2, <4>2, VideoAssumption
    <3> QED BY <1>10, <3>1, <3>2 DEF SubmitQueued
  <2>3. 0 \in 0 .. DropLimit - 1 BY VideoAssumption
  <2>4. /\ currentFrameNumber' \in 1 .. MaxFrame + 1 /\ reportedLostFrame' \in BOOLEAN
        /\ recv' \in {"idle", "full"} /\ waitingForIdrFrame' \in BOOLEAN
        /\ consecutiveFrameDrops' \in 0 .. DropLimit - 1
    BY <1>0, <1>1, <1>10, <2>3 DEF SubmitQueued, FrameDone, NoteSubmitted, TypeOK
  <2> QED BY <1>0, <1>10, <2>2, <2>4 DEF SubmitQueued, TypeOK
<1>11. CASE DecoderTakes
  <2>1. decodeUnitQueue \in Seq(FrameType) /\ decodeUnitQueue # <<>>
    BY <1>0, <1>11 DEF DecoderTakes, TypeOK
  <2>2. Head(decodeUnitQueue) \in FrameType /\ Tail(decodeUnitQueue) \in Seq(FrameType)
        /\ Len(Tail(decodeUnitQueue)) <= QueueBound
    <3>1. Len(decodeUnitQueue) <= QueueBound BY <1>0 DEF TypeOK
    <3> QED BY <2>1, <3>1, DecodedAt, VideoAssumption
  <2>3. Decodes(Head(decodeUnitQueue)) \/ Fails BY <1>11 DEF DecoderTakes
  <2>4. decoder' \in {"wait", "decode"} BY <1>11 DEF DecoderTakes
  <2> QED BY <1>0, <1>8, <1>11, <2>2, <2>3, <2>4 DEF DecoderTakes, TypeOK
<1>12. CASE RefreshWaits \/ RefreshFlushes \/ RefreshDrops \/ RefreshRequests
  <2>1. <<>> \in Seq(FrameType) /\ Len(<<>>) <= QueueBound BY VideoAssumption
  <2>2. CASE RefreshWaits BY <1>0, <2>2 DEF RefreshWaits, TypeOK
  <2>3. CASE RefreshFlushes BY <1>0, <2>1, <2>3 DEF RefreshFlushes, TypeOK
  <2>4. CASE RefreshDrops BY <1>0, <2>4 DEF RefreshDrops, TypeOK
  <2>5. CASE RefreshRequests BY <1>0, <2>5 DEF RefreshRequests, TypeOK
  <2> QED BY <1>12, <2>2, <2>3, <2>4, <2>5
<1>13. CASE Report BY <1>0, <1>13 DEF Report, TypeOK
<1> QED
  BY <1>4, <1>5, <1>6, <1>7, <1>9, <1>10, <1>11, <1>12, <1>13 DEF Next, Receive, Decode

-----------------------------------------------------------------------------
\* What the invariant says of the receive thread's numbers, for a step of it.
LEMMA NextInOrder ==
  ASSUME VInv, Next
  PROVE  InOrder'
<1> USE DEF rtp, source, window, host, RecvAt
<1>0. /\ TypeOK /\ InOrder /\ AtFrame /\ RangesInWindow
  BY DEF VInv
<1>1. /\ startFrameNumber \in Nat /\ nextFrameNumber \in Nat \ {0}
      /\ currentFrameNumber \in Nat /\ hostFrame \in Nat /\ lastIdr \in Nat /\ hostRfi \in Nat
      /\ frame.n \in Nat /\ startFrameNumber <= nextFrameNumber
  BY <1>0, Numbers DEF RangesInWindow, InWindow
<1>2. CASE FrameLost \/ FrameOpens \/ FrameOpensLate
  <2>1. PICK kind \in {"P", "IDR", "RFI"} : HostSends(Encoded(kind))
    BY <1>2 DEF FrameLost, FrameOpens, FrameOpensLate
  <2>2. hostFrame' = hostFrame + 1 /\ lastIdr' \in {lastIdr, hostFrame} /\ hostRfi' \in {0, hostRfi}
    BY <1>0, <2>1, SentFacts
  <2>3. CASE FrameLost BY <1>0, <1>1, <2>2, <2>3 DEF FrameLost, InOrder
  <2>4. CASE FrameOpens
    <3>1. /\ recv = "idle" /\ recv' \in {"gap", "open"} /\ currentFrameNumber' = hostFrame
          /\ reportedLostFrame' = FALSE /\ UNCHANGED window
      BY <2>4 DEF FrameOpens
    <3> QED BY <1>0, <1>1, <2>2, <3>1 DEF InOrder
  <2>5. CASE FrameOpensLate
    <3>1. /\ recv = "idle" /\ recv' \in {"lost", "idle"} /\ currentFrameNumber' = hostFrame + 1
          /\ reportedLostFrame' = TRUE /\ UNCHANGED window
      BY <2>5 DEF FrameOpensLate
    <3> QED BY <1>0, <1>1, <2>2, <3>1 DEF InOrder
  <2> QED BY <1>2, <2>3, <2>4, <2>5
<1>3. CASE NotifyFrameLost
  <2>1. UNCHANGED <<host, rtp, source, startFrameNumber>> /\ recv' \notin Finishing
    BY <1>3 DEF NotifyFrameLost, NotifyLoss, Finishing
  <2>2. CASE UNCHANGED nextFrameNumber
    BY <1>0, <1>1, <1>3, <2>1, <2>2 DEF NotifyFrameLost, InOrder, Finishing
  <2>3. CASE recv = "gap" /\ nextFrameNumber' = (frame.n - 1) + 1
    <3>1. frame.n = currentFrameNumber /\ frame.n < hostFrame
      BY <1>0, <2>3 DEF AtFrame, InHand, Opened
    <3> QED BY <1>0, <1>1, <2>1, <2>3, <3>1 DEF InOrder
  <2>4. CASE recv = "lost" /\ nextFrameNumber' = frame.n + 1
    <3>1. frame.n <= currentFrameNumber /\ frame.n < hostFrame /\ reportedLostFrame
      BY <1>0, <2>4 DEF AtFrame
    <3> QED BY <1>0, <1>1, <2>1, <2>4, <3>1 DEF InOrder
  <2> QED BY <1>3, <2>2, <2>3, <2>4 DEF NotifyFrameLost, NotifyLoss
<1>4. CASE FrameUnrecoverable
  <2>1. frame.n = currentFrameNumber /\ frame.n < hostFrame
    BY <1>0, <1>4 DEF FrameUnrecoverable, AtFrame, InHand, Opened
  <2>2. /\ UNCHANGED <<window, host, source>> /\ recv' \notin Finishing /\ reportedLostFrame' = TRUE
        /\ currentFrameNumber' = frame.n + 1 \/ UNCHANGED currentFrameNumber
    BY <1>4 DEF FrameUnrecoverable, Finishing
  <2> QED BY <1>0, <1>1, <2>1, <2>2 DEF InOrder
<1>5. CASE FrameStalls \/ FrameCompletes \/ ReadHeader
  <2>1. /\ UNCHANGED <<window, host, source, rtp>>
        /\ recv \notin Finishing /\ recv' \notin Finishing
    BY <1>5 DEF FrameStalls, FrameCompletes, ReadHeader, lossVars, reports, Finishing
  <2> QED BY <1>0, <1>1, <2>1 DEF InOrder
<1>6. CASE CheckSequence
  <2>1. /\ UNCHANGED <<startFrameNumber, host, source>> /\ recv' \notin Finishing
        /\ frame.n = currentFrameNumber /\ frame.n < hostFrame /\ recv \notin Finishing
    BY <1>0, <1>6 DEF CheckSequence, Finishing, AtFrame, InHand, Opened
  <2>2. CASE UNCHANGED nextFrameNumber /\ FrameDone
    BY <1>0, <1>1, <2>1, <2>2 DEF FrameDone, InOrder
  <2>3. CASE UNCHANGED nextFrameNumber /\ UNCHANGED rtp
    BY <1>0, <1>1, <2>1, <2>3 DEF InOrder
  <2>4. CASE nextFrameNumber' = frame.n /\ UNCHANGED rtp
    BY <1>0, <1>1, <2>1, <2>4 DEF InOrder
  <2> QED BY <1>6, <2>2, <2>3, <2>4 DEF CheckSequence
<1>7. CASE LastPacket
  <2>1. /\ UNCHANGED <<startFrameNumber, host, source, rtp>> /\ recv' \in Finishing
        /\ frame.n = currentFrameNumber /\ frame.n < hostFrame /\ nextFrameNumber' = frame.n + 1
    BY <1>0, <1>7 DEF LastPacket, Finishing, AtFrame, InHand, Opened
  <2> QED BY <1>0, <1>1, <2>1 DEF InOrder
<1>8. CASE DropUnusable \/ CheckPendingDrop \/ QueueOverflow \/ SubmitDirectly \/ SubmitQueued
  <2>1. /\ frame.n = currentFrameNumber /\ frame.n < hostFrame /\ nextFrameNumber = frame.n + 1
        /\ recv \in Finishing
    BY <1>0, <1>8 DEF DropUnusable, CheckPendingDrop, QueueOverflow, SubmitDirectly, SubmitQueued,
       Finishing, AtFrame, InHand, Opened
  <2>2. UNCHANGED <<nextFrameNumber, host, source>>
    BY <1>8 DEF DropUnusable, CheckPendingDrop, QueueOverflow, SubmitDirectly, SubmitQueued
  <2>3. \/ UNCHANGED <<startFrameNumber, rtp>> /\ recv' \in Finishing
        \/ FrameDone /\ startFrameNumber' \in {startFrameNumber, nextFrameNumber}
    BY <1>8 DEF DropUnusable, CheckPendingDrop, QueueOverflow, SubmitDirectly, SubmitQueued,
       NoteSubmitted, Finishing
  <2>4. CASE UNCHANGED <<startFrameNumber, rtp>> /\ recv' \in Finishing
    BY <1>0, <2>1, <2>2, <2>4 DEF InOrder
  <2>5. CASE FrameDone /\ startFrameNumber' \in {startFrameNumber, nextFrameNumber}
    BY <1>0, <1>1, <2>1, <2>2, <2>5 DEF FrameDone, InOrder
  <2> QED BY <2>3, <2>4, <2>5
<1>9. CASE Decode
  BY <1>0, <1>9 DEF Decode, DecoderTakes, RefreshWaits, RefreshFlushes, RefreshDrops, RefreshRequests,
     lossVars, reports, InOrder
<1>10. CASE Report
  <2>1. UNCHANGED <<window, rtp, recv, source>> BY <1>10 DEF Report
  <2>2. range[1] <= startFrameNumber BY <1>0 DEF RangesInWindow, InWindow
  <2>3. hostRfi' \in {hostRfi, range[1]}
    BY <1>10 DEF Report, IdrThreadStep, RfiThreadStep, PltWaitForEvent, PltClearEvent, TestStopping,
       DropRedundantTuples, requestIdrFrame, WaitForTuple, MergeTuples,
       requestInvalidateReferenceFrames
  <2> QED BY <1>0, <2>1, <2>2, <2>3 DEF InOrder
<1> QED
  BY <1>2, <1>3, <1>4, <1>5, <1>6, <1>7, <1>8, <1>9, <1>10 DEF Next, Receive

LEMMA NextAtFrame ==
  ASSUME VInv, Next
  PROVE  AtFrame'
<1> USE DEF rtp, source, window, RecvAt
<1>0. /\ TypeOK /\ InOrder /\ AtFrame /\ RangesInWindow
  BY DEF VInv
<1>1. /\ startFrameNumber \in Nat /\ nextFrameNumber \in Nat \ {0}
      /\ currentFrameNumber \in Nat /\ hostFrame \in Nat /\ lastIdr \in Nat
      /\ frame.n \in Nat /\ startFrameNumber <= nextFrameNumber /\ hostFrame <= MaxFrame + 1
      /\ MaxFrame \in Nat
  BY <1>0, Numbers DEF RangesInWindow, InWindow
\* The thread moves on with the frame it has.
<1>2. ASSUME recv \in Opened, UNCHANGED <<frame, currentFrameNumber, lastIdr, hostFrame>>
      PROVE  /\ frame \in FrameType /\ frame.n = currentFrameNumber /\ frame.n < hostFrame
             /\ (frame.kind = "P" => frame.ref = frame.n - 1)'
             /\ (frame.kind = "IDR" => frame.n <= lastIdr)'
             /\ frame' = frame /\ currentFrameNumber' = currentFrameNumber /\ hostFrame' = hostFrame
  BY <1>0, <1>2 DEF AtFrame, InHand
<1>3. ASSUME recv' = "idle" PROVE AtFrame'
  BY <1>3 DEF AtFrame, InHand, Opened, Finishing
<1>4. CASE FrameLost \/ FrameOpens \/ FrameOpensLate
  <2>1. PICK kind \in {"P", "IDR", "RFI"} :
          HostSends(Encoded(kind)) /\ (FrameOpens => frame' = Encoded(kind))
    BY <1>4 DEF FrameLost, FrameOpens, FrameOpensLate
  <2>2. /\ Encoded(kind) \in FrameType /\ Encoded(kind).n = hostFrame /\ Encoded(kind).kind = kind
        /\ hostFrame \in Frames /\ hostFrame' = hostFrame + 1 /\ lastIdr' \in {lastIdr, hostFrame}
        /\ kind = "P" => Encoded(kind).ref = hostFrame - 1
        /\ kind = "IDR" => lastIdr' = hostFrame
    BY <1>0, <2>1, SentFacts
  <2>3. CASE FrameLost
    <3>1. UNCHANGED <<window, rtp, recv, frame>> BY <2>3 DEF FrameLost
    <3>2. lastIdr < hostFrame BY <1>0 DEF InOrder
    <3> QED BY <1>0, <1>1, <2>2, <3>1, <3>2 DEF AtFrame, InHand
  <2>4. CASE FrameOpens
    <3>1. /\ recv' \in {"gap", "open"} /\ currentFrameNumber' = hostFrame /\ UNCHANGED window
          /\ frame' = Encoded(kind)
      BY <2>1, <2>4 DEF FrameOpens
    <3>2. recv' = "gap" => nextFrameNumber < hostFrame /\ startFrameNumber < hostFrame
      <4>1. CASE currentFrameNumber = hostFrame BY <2>4, <4>1 DEF FrameOpens
      <4>2. CASE currentFrameNumber # hostFrame
        <5>1. /\ currentFrameNumber < hostFrame /\ startFrameNumber <= currentFrameNumber
              /\ nextFrameNumber <= currentFrameNumber + 1
              /\ ~reportedLostFrame => nextFrameNumber <= currentFrameNumber
          BY <1>0, <1>1, <2>4, <4>2 DEF InOrder, FrameOpens, Finishing
        <5>2. recv' = "gap" => currentFrameNumber + 1 # hostFrame \/ ~reportedLostFrame
          BY <2>4 DEF FrameOpens
        <5> QED BY <1>1, <5>1, <5>2
      <4> QED BY <4>1, <4>2
    <3>3. /\ frame' \in FrameType /\ frame'.n = hostFrame /\ frame'.n < hostFrame'
          /\ frame'.kind = "P" => frame'.ref = frame'.n - 1
          /\ frame'.kind = "IDR" => frame'.n <= lastIdr'
      BY <1>1, <2>2, <3>1
    <3> QED BY <3>1, <3>2, <3>3 DEF AtFrame, InHand, Opened, Finishing
  <2>5. CASE FrameOpensLate
    <3>1. CASE reportedLostFrame
      <4>1. recv' = "idle" BY <2>5, <3>1 DEF FrameOpensLate
      <4> QED BY <1>3, <4>1
    <3>2. CASE ~reportedLostFrame
      <4>1. /\ recv = "idle" /\ recv' = "lost" /\ frame' = [NoFrame EXCEPT !.n = currentFrameNumber]
            /\ currentFrameNumber' = hostFrame + 1 /\ reportedLostFrame' = TRUE /\ UNCHANGED window
        BY <2>5, <3>2 DEF FrameOpensLate
      <4>2. frame'.n = currentFrameNumber /\ frame'.kind = "none" BY <4>1 DEF NoFrame
      <4>3. /\ startFrameNumber <= currentFrameNumber /\ currentFrameNumber <= hostFrame
            /\ nextFrameNumber <= currentFrameNumber
        BY <1>0, <3>2, <4>1 DEF InOrder, Finishing
      <4>4. currentFrameNumber \in Frames BY <1>0, <1>1, <2>2, <4>3 DEF TypeOK, Frames
      <4> QED BY <1>1, <2>2, <4>1, <4>2, <4>3, <4>4 DEF AtFrame, InHand, Opened, Finishing
    <3> QED BY <3>1, <3>2
  <2> QED BY <1>4, <2>3, <2>4, <2>5
<1>5. CASE NotifyFrameLost
  <2>1. CASE recv' = "idle" BY <1>3, <2>1
  <2>2. CASE recv' # "idle"
    <3>1. /\ recv' = "open" /\ UNCHANGED <<frame, rtp, source>>
          /\ recv = "gap" \/ (recv = "lost" /\ frame.kind # "none")
      BY <1>5, <2>2 DEF NotifyFrameLost
    <3> QED BY <1>0, <3>1 DEF AtFrame, InHand, Opened, Finishing
  <2> QED BY <2>1, <2>2
<1>6. CASE FrameUnrecoverable
  <2>1. CASE reportedLostFrame
    <3>1. recv' = "idle" BY <1>6, <2>1 DEF FrameUnrecoverable
    <3> QED BY <1>3, <3>1
  <2>2. CASE ~reportedLostFrame
    <3>1. /\ recv = "open" /\ recv' = "lost" /\ reportedLostFrame' = TRUE
          /\ UNCHANGED <<window, source>>
          /\ \/ UNCHANGED <<currentFrameNumber, frame>>
             \/ currentFrameNumber' = frame.n + 1 /\ frame' = [NoFrame EXCEPT !.n = frame.n]
      BY <1>6, <2>2 DEF FrameUnrecoverable
    <3>2. /\ frame \in FrameType /\ frame.n = currentFrameNumber /\ frame.n < hostFrame
          /\ frame.n \in Frames
      BY <1>0, <3>1 DEF AtFrame, InHand, Opened, FrameType
    <3>3. startFrameNumber <= frame.n /\ nextFrameNumber <= frame.n
      BY <1>0, <2>2, <3>1, <3>2 DEF InOrder, Finishing
    <3>4. CASE UNCHANGED <<currentFrameNumber, frame>>
      BY <1>0, <1>1, <3>1, <3>2, <3>3, <3>4 DEF AtFrame, InHand, Opened, Finishing
    <3>5. CASE currentFrameNumber' = frame.n + 1 /\ frame' = [NoFrame EXCEPT !.n = frame.n]
      <4>1. frame'.n = frame.n /\ frame'.kind = "none" BY <3>5 DEF NoFrame
      <4> QED BY <1>1, <3>1, <3>2, <3>3, <3>5, <4>1 DEF AtFrame, InHand, Opened, Finishing
    <3> QED BY <3>1, <3>4, <3>5
  <2> QED BY <2>1, <2>2
<1>7. CASE FrameStalls \/ FrameCompletes
  <2>1. CASE FrameStalls BY <1>3, <2>1 DEF FrameStalls
  <2>2. CASE FrameCompletes
    <3>1. /\ recv = "open" /\ recv' = "first" /\ UNCHANGED <<frame, rtp, source>>
      BY <2>2 DEF FrameCompletes
    <3> QED BY <1>0, <3>1 DEF AtFrame, InHand, Opened, Finishing
  <2> QED BY <1>7, <2>1, <2>2
<1>8. CASE CheckSequence
  <2>1. CASE recv' = "idle" BY <1>3, <2>1
  <2>2. CASE recv' # "idle"
    <3>1. /\ recv = "first" /\ recv' = "header" /\ UNCHANGED <<frame, rtp, source>>
          /\ nextFrameNumber' = frame.n
      BY <1>8, <2>2 DEF CheckSequence
    <3>2. recv \in Opened BY <3>1 DEF Opened
    <3> QED BY <1>2, <3>1, <3>2 DEF AtFrame, InHand, Opened, Finishing
  <2> QED BY <2>1, <2>2
<1>9. CASE ReadHeader
  <2>1. /\ recv = "header" /\ recv' = "last" /\ UNCHANGED <<frame, rtp, source, window>>
    BY <1>9 DEF ReadHeader, lossVars
  <2> QED BY <1>0, <2>1 DEF AtFrame, InHand, Opened, Finishing
<1>10. CASE LastPacket
  <2>1. /\ recv = "last" /\ recv' \in {"drop", "pending"} /\ UNCHANGED <<frame, rtp, source>>
        /\ nextFrameNumber' = frame.n + 1 /\ UNCHANGED startFrameNumber
    BY <1>10 DEF LastPacket
  <2>2. startFrameNumber <= frame.n BY <1>0, <1>1, <2>1 DEF AtFrame
  <2> QED BY <1>0, <2>1, <2>2 DEF AtFrame, InHand, Opened, Finishing
<1>11. CASE DropUnusable \/ CheckPendingDrop \/ QueueOverflow \/ SubmitDirectly \/ SubmitQueued
  <2>1. CASE recv' = "idle" BY <1>3, <2>1
  <2>2. CASE recv' # "idle"
    <3>1. /\ recv \in {"pending", "submit", "full"} /\ recv' \in {"submit", "full", "flush"}
          /\ UNCHANGED <<frame, rtp, source, window>>
      BY <1>11, <2>2 DEF DropUnusable, CheckPendingDrop, QueueOverflow, SubmitDirectly, SubmitQueued
    <3> QED BY <1>0, <3>1 DEF AtFrame, InHand, Opened, Finishing
  <2> QED BY <2>1, <2>2
<1>12. CASE Decode
  <2>1. UNCHANGED <<frame, rtp, source, window, recv>>
    BY <1>12 DEF Decode, DecoderTakes, RefreshWaits, RefreshFlushes, RefreshDrops, RefreshRequests,
       lossVars
  <2> QED BY <1>0, <2>1 DEF AtFrame, InHand
<1>13. CASE Report
  <2>1. UNCHANGED <<frame, rtp, source, window, recv>> BY <1>13 DEF Report
  <2> QED BY <1>0, <2>1 DEF AtFrame, InHand
<1> QED
  BY <1>4, <1>5, <1>6, <1>7, <1>8, <1>9, <1>10, <1>11, <1>12, <1>13 DEF Next, Receive

LEMMA NextKeptBack ==
  ASSUME VInv, Next
  PROVE  KeptBack'
<1> USE DEF RecvAt, waiting
<1>0. TypeOK /\ KeptBack BY DEF VInv
<1>1. ASSUME UNCHANGED <<recv, waitingForNextSuccessfulFrame, waitingForRefInvalFrame>>,
             waitingForIdrFrame => waitingForIdrFrame'
      PROVE  KeptBack'
  BY <1>0, <1>1 DEF KeptBack, Kept
<1>2. CASE FrameLost \/ Decode \/ Report
  BY <1>1, <1>2 DEF FrameLost, Decode, DecoderTakes, RefreshWaits, RefreshFlushes, RefreshDrops,
     RefreshRequests, Report
<1>3. CASE FrameOpens \/ FrameOpensLate \/ FrameUnrecoverable
  <2>1. /\ recv \in {"idle", "open"} /\ UNCHANGED waitingForNextSuccessfulFrame
        /\ recv' \in {"idle", "open"} \/ (recv' \in {"gap", "lost"} /\ dropFrameState)
    BY <1>3 DEF FrameOpens, FrameOpensLate, FrameUnrecoverable
  <2>2. dropFrameState => Kept' BY <1>0, DropFacts
  <2> QED BY <1>0, <2>1, <2>2 DEF KeptBack
<1>4. CASE NotifyFrameLost \/ FrameStalls \/ FrameCompletes
  <2>1. recv' \in {"idle", "open", "first"} /\ UNCHANGED waiting /\ recv \in {"gap", "lost", "open"}
    BY <1>4 DEF NotifyFrameLost, FrameStalls, FrameCompletes
  <2> QED BY <1>0, <2>1 DEF KeptBack
<1>5. CASE CheckSequence
  <2>1. recv = "first" /\ recv' \in {"idle", "header"} BY <1>5 DEF CheckSequence
  <2>2. UNCHANGED waiting \/ (dropFrameState /\ recv' = "header") BY <1>5 DEF CheckSequence
  <2>3. dropFrameState => Kept' BY <1>0, DropFacts
  <2> QED BY <1>0, <2>1, <2>2, <2>3 DEF KeptBack
<1>6. CASE ReadHeader
  <2>1. recv = "header" /\ recv' = "last" BY <1>6 DEF ReadHeader
  <2> QED BY <1>0, <1>6, <2>1 DEF ReadHeader, KeptBack, Kept
<1>7. CASE LastPacket
  <2>1. /\ recv = "last" /\ UNCHANGED <<waitingForIdrFrame, waitingForRefInvalFrame>>
        /\ \/ Kept /\ recv' = "drop" /\ waitingForNextSuccessfulFrame' = FALSE
           \/ ~Kept /\ recv' = "pending" /\ UNCHANGED waitingForNextSuccessfulFrame
    BY <1>7 DEF LastPacket, Kept
  <2> QED BY <1>0, <2>1 DEF KeptBack, Kept
<1>8. CASE DropUnusable \/ CheckPendingDrop \/ SubmitDirectly
  <2>1. /\ recv \in {"drop", "pending", "submit"} /\ recv' \in {"idle", "submit"}
        /\ UNCHANGED waitingForNextSuccessfulFrame
    BY <1>8 DEF DropUnusable, CheckPendingDrop, SubmitDirectly
  <2> QED BY <1>0, <2>1 DEF KeptBack
<1>9. CASE SubmitQueued \/ QueueOverflow
  <2>1. /\ recv \in {"submit", "full", "flush"} /\ UNCHANGED waitingForNextSuccessfulFrame
        /\ \/ recv' = "idle" \/ (recv' = "full" /\ waitingForIdrFrame')
           \/ recv = "full" /\ recv' = "flush" /\ dropFrameState
    BY <1>9 DEF SubmitQueued, QueueOverflow
  <2>2. dropFrameState /\ waitingForIdrFrame => waitingForIdrFrame' BY <1>0, DropFacts
  <2> QED BY <1>0, <2>1, <2>2 DEF KeptBack
<1> QED
  BY <1>2, <1>3, <1>4, <1>5, <1>6, <1>7, <1>8, <1>9 DEF Next, Receive

LEMMA NextDirect ==
  ASSUME VInv, Next
  PROVE  Direct'
<1>0. Direct /\ UNCHANGED directSubmit BY DEF VInv, Next, mode
<1>1. CASE UNCHANGED <<decoder, decodeUnitQueue>> BY <1>0, <1>1 DEF Direct
<1>2. CASE SubmitQueued BY <1>0, <1>2 DEF SubmitQueued, Direct
<1>3. CASE QueueOverflow BY <1>0, <1>3 DEF QueueOverflow, Direct
<1>4. CASE Decode
  BY <1>0, <1>4 DEF Decode, DecoderTakes, RefreshWaits, RefreshFlushes, RefreshDrops, RefreshRequests,
     DecoderAt, Direct
<1>5. CASE \/ FrameLost \/ FrameOpens \/ FrameOpensLate \/ NotifyFrameLost \/ FrameUnrecoverable
           \/ FrameStalls \/ FrameCompletes \/ CheckSequence \/ ReadHeader \/ LastPacket
           \/ DropUnusable \/ CheckPendingDrop \/ SubmitDirectly \/ Report
  BY <1>1, <1>5 DEF FrameLost, FrameOpens, FrameOpensLate, NotifyFrameLost, FrameUnrecoverable,
     FrameStalls, FrameCompletes, CheckSequence, ReadHeader, LastPacket, DropUnusable,
     CheckPendingDrop, SubmitDirectly, Report
<1> QED BY <1>2, <1>3, <1>4, <1>5 DEF Next, Receive

-----------------------------------------------------------------------------
\* Where the first frame of a request comes from.
LEMMA FirstLostBound ==
  ASSUME VInv, NEW s, FirstLost(s)
  PROVE  s <= startFrameNumber
<1>0. TypeOK /\ InOrder /\ RangesInWindow BY DEF VInv
<1>1. startFrameNumber \in Nat BY <1>0, Numbers
<1>2. /\ range[1] <= startFrameNumber /\ hostRfi <= startFrameNumber
      /\ \A i \in 1 .. Len(Tuples) : Tuples[i][1] <= startFrameNumber
  BY <1>0 DEF RangesInWindow, InWindow, InOrder, Tuples
<1> QED BY <1>1, <1>2 DEF FirstLost, Tuples

LEMMA ReceiveFirstLost ==
  ASSUME LossTypeOK, UNCHANGED <<range, startFrameNumber>>, hostRfi' \in {0, hostRfi},
         \/ Tuples' = Tuples \/ Tuples' = <<>>
         \/ \E f \in Frames : Tuples' = Append(Tuples, <<startFrameNumber, f>>),
         NEW s \in Nat \ {0}, FirstLost(s)'
  PROVE  FirstLost(s)
<1>1. CASE Tuples' = Tuples BY <1>1 DEF FirstLost, Tuples
<1>2. CASE Tuples' = <<>>
  <2>1. 1 .. Len(<<>>) = {} OBVIOUS
  <2> QED BY <1>2, <2>1 DEF FirstLost, Tuples
<1>3. CASE \E f \in Frames : Tuples' = Append(Tuples, <<startFrameNumber, f>>)
  <2>1. PICK f \in Frames : Tuples' = Append(Tuples, <<startFrameNumber, f>>) BY <1>3
  <2> DEFINE e == <<startFrameNumber, f>>
             T == Nat \X Nat
  <2>2. Tuples \in Seq(T) /\ e \in T
    BY LossAssumption, SMTT(30) DEF LossTypeOK, Frames, Tuples
  <2>3. /\ Len(Append(Tuples, e)) = Len(Tuples) + 1 /\ Append(Tuples, e)[Len(Tuples) + 1] = e
        /\ \A i \in 1 .. Len(Tuples) : Append(Tuples, e)[i] = Tuples[i]
        /\ Len(Tuples) \in Nat
    <3> HIDE DEF e, T
    <3> QED BY <2>2
  <2>4. e[1] = startFrameNumber OBVIOUS
  <2>5. ASSUME NEW i \in 1 .. Len(Tuples'), Tuples'[i][1] = s PROVE FirstLost(s)
    <3>1. CASE i \in 1 .. Len(Tuples) BY <2>1, <2>3, <2>5, <3>1 DEF FirstLost, Tuples
    <3>2. CASE i = Len(Tuples) + 1 BY <2>1, <2>3, <2>4, <2>5, <3>2 DEF FirstLost
    <3> QED BY <2>1, <2>3, <2>5, <3>1, <3>2
  <2> QED BY <2>5 DEF FirstLost, Tuples
<1> QED BY <1>1, <1>2, <1>3

LEMMA ReportFirstLost ==
  ASSUME TypeOK, Report, NEW s \in Nat \ {0}, FirstLost(s)'
  PROVE  FirstLost(s)
<1>0. Tuples \in Seq(Ranges) BY DEF TypeOK, LossTypeOK, Ranges, Tuples
<1>1. UNCHANGED startFrameNumber BY DEF Report, window
<1>2. ASSUME Tuples' = Tuples \/ Tuples' = <<>>, range' \in {range, <<0, 0>>},
             hostRfi' \in {hostRfi, range[1]}
      PROVE  FirstLost(s)
  <2>1. 1 .. Len(<<>>) = {} /\ <<0, 0>>[1] = 0 OBVIOUS
  <2> QED BY <1>1, <1>2, <2>1 DEF FirstLost, Tuples
<1>3. ASSUME Tuples # <<>>, Tuples' = Tail(Tuples), hostRfi' = hostRfi,
             range' = Head(Tuples) \/ range' = <<range[1], Head(Tuples)[2]>>
      PROVE  FirstLost(s)
  <2>1. /\ Len(Tuples') = Len(Tuples) - 1 /\ Len(Tuples) \in Nat \ {0} /\ Head(Tuples) = Tuples[1]
        /\ \A i \in 1 .. Len(Tuples) - 1 : Tuples'[i] = Tuples[i + 1]
    BY <1>0, <1>3, TailAt
  <2>2. range'[1] = range[1] \/ range'[1] = Tuples[1][1] BY <1>3, <2>1
  <2>3. 1 \in 1 .. Len(Tuples) BY <2>1
  <2>4. ASSUME NEW i \in 1 .. Len(Tuples'), Tuples'[i][1] = s PROVE FirstLost(s)
    <3>1. i + 1 \in 1 .. Len(Tuples) /\ Tuples'[i] = Tuples[i + 1] BY <2>1
    <3> QED BY <2>4, <3>1 DEF FirstLost, Tuples
  <2> QED BY <1>1, <1>3, <2>2, <2>3, <2>4 DEF FirstLost, Tuples
<1>4. CASE IdrThreadStep
  BY <1>2, <1>4 DEF IdrThreadStep, PltWaitForEvent, PltClearEvent, TestStopping, DropRedundantTuples,
     requestIdrFrame, requests, host, Tuples
<1>5. CASE RfiThreadStep
  BY <1>2, <1>3, <1>5 DEF RfiThreadStep, WaitForTuple, MergeTuples, requestInvalidateReferenceFrames,
     host, Tuples
<1> QED BY <1>4, <1>5 DEF Report

LEMMA NextFirstLost ==
  ASSUME VInv, Next, NEW s \in Nat \ {0}, FirstLost(s)'
  PROVE  FirstLost(s) \/ s = startFrameNumber'
<1> USE DEF window, threads, host
<1>0. TypeOK /\ LossTypeOK /\ InOrder /\ AtFrame BY DEF VInv, TypeOK
<1>1. ASSUME dropFrameState \/ LiRequestIdrFrame \/ UNCHANGED requests
      PROVE  Tuples' = Tuples \/ Tuples' = <<>>
  BY <1>0, <1>1, DropFacts, AskIdr, AskNothing DEF Asks
<1>2. ASSUME NEW f \in Frames, connectionDetectedFrameLoss(startFrameNumber, f)
      PROVE  Tuples' = <<>> \/ Tuples' = Append(Tuples, <<startFrameNumber, f>>)
  BY <1>2 DEF connectionDetectedFrameLoss, QueueTuple, Tuples
<1>3. CASE FrameLost \/ FrameOpens \/ FrameOpensLate
  <2>1. PICK kind \in {"P", "IDR", "RFI"} : HostSends(Encoded(kind))
    BY <1>3 DEF FrameLost, FrameOpens, FrameOpensLate
  <2>2. hostRfi' \in {0, hostRfi} BY <1>0, <2>1, SentFacts
  <2>3. UNCHANGED <<range, startFrameNumber>> /\ (dropFrameState \/ UNCHANGED requests)
    BY <1>3 DEF FrameLost, FrameOpens, FrameOpensLate
  <2> QED BY <1>0, <1>1, <2>2, <2>3, ReceiveFirstLost
<1>4. CASE \/ FrameUnrecoverable \/ FrameStalls \/ FrameCompletes \/ CheckSequence \/ ReadHeader
           \/ DropUnusable \/ CheckPendingDrop \/ QueueOverflow \/ Decode
  <2>1. UNCHANGED <<range, startFrameNumber, hostRfi>>
    BY <1>4 DEF FrameUnrecoverable, FrameStalls, FrameCompletes, CheckSequence, ReadHeader,
       DropUnusable, CheckPendingDrop, QueueOverflow, Decode, DecoderTakes, RefreshWaits,
       RefreshFlushes, RefreshDrops, RefreshRequests, lossVars, reports
  <2>2. dropFrameState \/ LiRequestIdrFrame \/ UNCHANGED requests
    BY <1>4 DEF FrameUnrecoverable, FrameStalls, FrameCompletes, CheckSequence, ReadHeader,
       DropUnusable, CheckPendingDrop, QueueOverflow, Decode, DecoderTakes, RefreshWaits,
       RefreshFlushes, RefreshDrops, RefreshRequests, lossVars, reports
  <2> QED BY <1>0, <1>1, <2>1, <2>2, ReceiveFirstLost
<1>5. CASE NotifyFrameLost
  <2>1. UNCHANGED <<range, startFrameNumber, hostRfi>>
    BY <1>5 DEF NotifyFrameLost, NotifyLoss
  <2>2. \/ UNCHANGED requests
        \/ recv = "gap" /\ connectionDetectedFrameLoss(startFrameNumber, frame.n - 1)
        \/ recv = "lost" /\ connectionDetectedFrameLoss(startFrameNumber, frame.n)
    BY <1>5 DEF NotifyFrameLost, NotifyLoss, RecvAt
  <2>3. /\ recv = "gap" => frame.n - 1 \in Frames
        /\ recv = "lost" => frame.n \in Frames
    <3>1. recv = "gap" => nextFrameNumber < frame.n BY <1>0 DEF AtFrame
    <3> QED BY <1>0, <3>1, Numbers DEF AtFrame, Frames
  <2> QED BY <1>0, <1>1, <1>2, <2>1, <2>2, <2>3, ReceiveFirstLost
<1>6. CASE LastPacket
  <2>1. UNCHANGED <<range, startFrameNumber, hostRfi>> BY <1>6 DEF LastPacket
  <2>2. \/ UNCHANGED requests \/ LiRequestIdrFrame
        \/ connectionDetectedFrameLoss(startFrameNumber, frame.n)
    BY <1>6 DEF LastPacket, ReportUnusable
  <2>3. frame.n \in Frames
    BY <1>0, <1>6 DEF LastPacket, RecvAt, AtFrame, InHand, Opened, FrameType
  <2> QED BY <1>0, <1>1, <1>2, <2>1, <2>2, <2>3, ReceiveFirstLost
<1>7. CASE SubmitDirectly \/ SubmitQueued
  <2>1. UNCHANGED <<range, hostRfi>> /\ (LiRequestIdrFrame \/ UNCHANGED requests)
    BY <1>7 DEF SubmitDirectly, SubmitQueued
  <2>2. ASSUME s # startFrameNumber' PROVE FirstLost(s)
    <3>1. Tuples' = Tuples \/ Tuples' = <<>> BY <1>1, <2>1
    <3>2. 1 .. Len(<<>>) = {} OBVIOUS
    <3> QED BY <2>1, <2>2, <3>1, <3>2 DEF FirstLost, Tuples
  <2> QED BY <2>2
<1>8. CASE Report BY <1>0, <1>8, ReportFirstLost
<1> QED BY <1>3, <1>4, <1>5, <1>6, <1>7, <1>8 DEF Next, Receive

LEMMA LastIdrGrows ==
  ASSUME VInv, Next
  PROVE  lastIdr <= lastIdr' /\ lastIdr' \in Nat
<1>0. TypeOK /\ InOrder BY DEF VInv
<1>1. lastIdr \in Nat /\ hostFrame \in Nat /\ lastIdr < hostFrame BY <1>0, Numbers DEF InOrder
<1>2. CASE FrameLost \/ FrameOpens \/ FrameOpensLate
  <2>1. PICK kind \in {"P", "IDR", "RFI"} : HostSends(Encoded(kind))
    BY <1>2 DEF FrameLost, FrameOpens, FrameOpensLate
  <2> QED BY <1>0, <1>1, <2>1, SentFacts
<1>3. CASE UNCHANGED source BY <1>1, <1>3 DEF source
<1>4. CASE \/ NotifyFrameLost \/ FrameUnrecoverable \/ FrameStalls \/ FrameCompletes \/ CheckSequence
           \/ ReadHeader \/ LastPacket \/ DropUnusable \/ CheckPendingDrop \/ SubmitDirectly
           \/ SubmitQueued \/ QueueOverflow \/ Decode \/ Report
  BY <1>3, <1>4 DEF NotifyFrameLost, FrameUnrecoverable, FrameStalls, FrameCompletes, CheckSequence,
     ReadHeader, LastPacket, DropUnusable, CheckPendingDrop, SubmitDirectly, SubmitQueued,
     QueueOverflow, Decode, DecoderTakes, RefreshWaits, RefreshFlushes, RefreshDrops, RefreshRequests,
     Report
<1> QED BY <1>2, <1>4 DEF Next, Receive

LEMMA NextReferences ==
  ASSUME VInv, Next
  PROVE  References'
<1> SUFFICES ASSUME InStep' PROVE Submittable' /\ Unbroken' BY DEF References
<1> USE DEF RecvAt, DecoderAt, waiting, window, decoding
<1>0. /\ TypeOK /\ LossTypeOK /\ InOrder /\ AtFrame /\ KeptBack /\ Direct /\ RangesInWindow
      /\ UNCHANGED directSubmit
  BY DEF VInv, TypeOK, Next, mode
<1>1. /\ startFrameNumber \in Nat /\ nextFrameNumber \in Nat \ {0} /\ lastIdr \in Nat
      /\ hostFrame \in Nat /\ frame.n \in Nat /\ MaxFrame \in Nat
      /\ startFrameNumber <= nextFrameNumber
  BY <1>0, Numbers DEF RangesInWindow, InWindow
<1>2. InStep
  <2>1. ASSUME ~directSubmit PROVE failures = 0
    <3>1. failures' = 0 BY <1>0, <2>1 DEF InStep
    <3>2. failures \in Nat BY <1>0 DEF TypeOK
    <3>3. UNCHANGED failures \/ failures' = failures + 1
      <4>1. ASSUME NEW f, Decodes(f) \/ Fails PROVE UNCHANGED failures \/ failures' = failures + 1
        BY <4>1 DEF Decodes, Fails
      <4> QED
        BY <4>1 DEF Next, Receive, Decode, Report, FrameLost, FrameOpens, FrameOpensLate,
           NotifyFrameLost, FrameUnrecoverable, FrameStalls, FrameCompletes, CheckSequence,
           ReadHeader, LastPacket, DropUnusable, CheckPendingDrop, SubmitDirectly, SubmitQueued,
           QueueOverflow, DecoderTakes, RefreshWaits, RefreshFlushes, RefreshDrops, RefreshRequests
    <3> QED BY <3>1, <3>2, <3>3
  <2> QED BY <2>1 DEF InStep
<1>3. ReadyForNext /\ ReadyForThis /\ InvalidatedRight /\ Unbroken
  BY <1>2 DEF VInv, References, Submittable
\* What most steps leave alone.
<1>4. ASSUME UNCHANGED <<decoder, broken, intact, idrFrameProcessed, decodeUnitQueue>>
      PROVE  Unbroken'
  BY <1>3, <1>4 DEF Unbroken
<1>5. ASSUME UNCHANGED <<intact, decodeUnitQueue>>, NEW r PROVE Available(r)' <=> Available(r)
  BY <1>5 DEF Available
<1>6. ASSUME UNCHANGED <<intact, decodeUnitQueue, startFrameNumber>>,
             waitingForIdrFrame => waitingForIdrFrame',
             NEW s \in 0 .. MaxFrame + 1, FirstLost(s)', s > lastIdr'
      PROVE  waitingForIdrFrame' \/ Available(s - 1)'
  <2>1. s \in Nat \ {0} /\ s > lastIdr BY <1>1, <1>6, LastIdrGrows
  <2>2. FirstLost(s) BY <1>6, <2>1, NextFirstLost DEF FirstLost
  <2>3. waitingForIdrFrame \/ Available(s - 1) BY <1>3, <2>1, <2>2 DEF InvalidatedRight
  <2> QED BY <1>6, <2>3 DEF Available
<1>7. dropFrameState => Kept' /\ (waitingForIdrFrame => waitingForIdrFrame')
  BY <1>0, DropFacts
<1>8. CASE FrameLost
  <2>1. UNCHANGED <<intact, decodeUnitQueue, decoder, broken, idrFrameProcessed, startFrameNumber,
                    nextFrameNumber, recv, frame, waiting>>
    BY <1>8 DEF FrameLost
  <2>2. Unbroken' BY <1>4, <2>1
  <2>3. ReadyForNext' /\ ReadyForThis'
    BY <1>3, <2>1 DEF ReadyForNext, ReadyForThis, Kept, Available
  <2>4. InvalidatedRight'
    BY <1>3, <1>6, <2>1 DEF InvalidatedRight, InHand, Available
  <2> QED BY <2>2, <2>3, <2>4 DEF Submittable
<1>9. CASE FrameOpens
  <2>1. PICK kind \in {"P", "IDR", "RFI"} : HostSends(Encoded(kind)) /\ frame' = Encoded(kind)
    BY <1>9 DEF FrameOpens
  <2>2. /\ UNCHANGED <<intact, decodeUnitQueue, decoder, broken, idrFrameProcessed,
                       startFrameNumber, nextFrameNumber>>
        /\ recv = "idle"
        /\ \/ recv' = "open" /\ UNCHANGED <<waitingForIdrFrame, waitingForRefInvalFrame>>
           \/ recv' = "gap" /\ dropFrameState
    BY <1>9 DEF FrameOpens
  <2>3. waitingForIdrFrame => waitingForIdrFrame' BY <1>7, <2>2
  <2>4. ReadyForNext'
    <3>1. Kept \/ Available(nextFrameNumber - 1) BY <1>3, <2>2 DEF ReadyForNext, Finishing
    <3>2. Kept' \/ Available(nextFrameNumber - 1)' BY <1>7, <2>2, <3>1 DEF Kept, Available
    <3> QED BY <3>2 DEF ReadyForNext
  <2>5. ReadyForThis' BY <2>2 DEF ReadyForThis
  <2>6. ASSUME frame'.kind = "RFI" PROVE waitingForIdrFrame' \/ Available(frame.ref)'
    <3>1. /\ frame'.ref = hostRfi - 1 /\ hostRfi > lastIdr /\ hostRfi \in 1 .. MaxFrame
      BY <1>0, <2>1, <2>6, SentFacts
    <3>2. FirstLost(hostRfi) /\ hostRfi \in 0 .. MaxFrame + 1 BY <1>1, <3>1 DEF FirstLost
    <3>3. waitingForIdrFrame \/ Available(hostRfi - 1) BY <1>3, <3>1, <3>2 DEF InvalidatedRight
    <3> QED BY <2>2, <2>3, <3>1, <3>3 DEF Available
  <2>7. InvalidatedRight' BY <1>6, <2>2, <2>3, <2>6 DEF InvalidatedRight
  <2> QED BY <1>4, <2>2, <2>4, <2>5, <2>7 DEF Submittable
<1>10. CASE FrameOpensLate \/ FrameUnrecoverable
  <2>1. /\ UNCHANGED <<intact, decodeUnitQueue, decoder, broken, idrFrameProcessed,
                       startFrameNumber, nextFrameNumber>>
        /\ recv \in {"idle", "open"}
        /\ \/ recv' = "idle" /\ UNCHANGED <<waitingForIdrFrame, waitingForRefInvalFrame>>
           \/ /\ recv' = "lost" /\ dropFrameState
              /\ \/ frame'.kind = "none"
                 \/ recv = "open" /\ frame' = frame
    BY <1>10 DEF FrameOpensLate, FrameUnrecoverable, NoFrame
  <2>2. waitingForIdrFrame => waitingForIdrFrame' BY <1>7, <2>1
  <2>3. ReadyForNext'
    <3>1. Kept \/ Available(nextFrameNumber - 1) BY <1>3, <2>1 DEF ReadyForNext, Finishing
    <3>2. Kept' \/ Available(nextFrameNumber - 1)' BY <1>7, <2>1, <3>1 DEF Kept, Available
    <3> QED BY <3>2 DEF ReadyForNext
  <2>4. ReadyForThis' BY <2>1 DEF ReadyForThis
  <2>5. ASSUME InHand', frame'.kind = "RFI" PROVE waitingForIdrFrame' \/ Available(frame.ref)'
    <3>1. recv = "open" /\ frame' = frame
      BY <2>1, <2>5 DEF InHand, Opened, Finishing
    <3>2. waitingForIdrFrame \/ Available(frame.ref)
      BY <1>3, <2>5, <3>1 DEF InvalidatedRight, InHand, Opened, Finishing
    <3> QED BY <2>1, <2>2, <3>1, <3>2 DEF Available
  <2>6. InvalidatedRight' BY <1>6, <2>1, <2>2, <2>5 DEF InvalidatedRight
  <2> QED BY <1>4, <2>1, <2>3, <2>4, <2>6 DEF Submittable
<1>11. CASE NotifyFrameLost
  <2>1. /\ UNCHANGED <<intact, decodeUnitQueue, decoder, broken, idrFrameProcessed,
                       startFrameNumber, frame, waiting>>
        /\ \/ recv' = "idle"
           \/ recv' = "open" /\ (recv = "gap" \/ (recv = "lost" /\ frame.kind # "none"))
        /\ recv \in {"gap", "lost"}
    BY <1>11 DEF NotifyFrameLost, NotifyLoss
  <2>2. Kept' BY <1>0, <2>1 DEF KeptBack, Kept
  <2>3. ReadyForNext' /\ ReadyForThis' BY <2>1, <2>2 DEF ReadyForNext, ReadyForThis
  <2>4. InvalidatedRight'
    <3>1. ASSUME InHand', frame'.kind = "RFI" PROVE waitingForIdrFrame' \/ Available(frame.ref)'
      <4>1. InHand /\ recv \notin Finishing
        BY <2>1, <3>1 DEF InHand, Opened, Finishing
      <4> QED BY <1>3, <2>1, <3>1, <4>1 DEF InvalidatedRight, Available
    <3> QED BY <1>6, <2>1, <3>1 DEF InvalidatedRight
  <2> QED BY <1>4, <2>1, <2>3, <2>4 DEF Submittable
<1>12. CASE FrameStalls \/ FrameCompletes \/ CheckSequence
  <2>1. /\ UNCHANGED <<intact, decodeUnitQueue, decoder, broken, idrFrameProcessed,
                       startFrameNumber, frame>>
        /\ recv \in {"open", "first"} /\ recv' \in {"idle", "first", "header"}
        /\ \/ UNCHANGED <<nextFrameNumber, waitingForIdrFrame, waitingForRefInvalFrame>>
           \/ dropFrameState
    BY <1>12 DEF FrameStalls, FrameCompletes, CheckSequence, lossVars
  <2>2. waitingForIdrFrame => waitingForIdrFrame' BY <1>7, <2>1
  <2>3. ReadyForNext'
    <3>1. Kept \/ Available(nextFrameNumber - 1) BY <1>3, <2>1 DEF ReadyForNext, Finishing
    <3>2. Kept' \/ Available(nextFrameNumber - 1)' BY <1>7, <2>1, <3>1 DEF Kept, Available
    <3> QED BY <3>2 DEF ReadyForNext
  <2>4. ReadyForThis' BY <2>1 DEF ReadyForThis
  <2>5. InvalidatedRight'
    <3>1. ASSUME InHand', frame'.kind = "RFI" PROVE waitingForIdrFrame' \/ Available(frame.ref)'
      <4>1. InHand /\ recv \notin Finishing BY <2>1 DEF InHand, Opened, Finishing
      <4> QED BY <1>3, <2>1, <2>2, <3>1, <4>1 DEF InvalidatedRight, Available
    <3> QED BY <1>6, <2>1, <2>2, <3>1 DEF InvalidatedRight
  <2> QED BY <1>4, <2>1, <2>3, <2>4, <2>5 DEF Submittable
<1>13. CASE ReadHeader
  <2>0. /\ UNCHANGED <<intact, decodeUnitQueue, decoder, broken, idrFrameProcessed,
                       startFrameNumber, nextFrameNumber, frame, lastIdr>>
        /\ recv = "header" /\ recv' = "last"
    BY <1>13 DEF ReadHeader, lossVars, source
  <2>1. /\ frame \in FrameType /\ nextFrameNumber = frame.n
        /\ frame.kind = "P" => frame.ref = frame.n - 1
        /\ frame.kind = "IDR" => frame.n <= lastIdr
    BY <1>0, <2>0 DEF AtFrame, InHand, Opened
  <2>2. /\ frame.kind = "P" => UNCHANGED waiting
        /\ frame.kind = "RFI" => UNCHANGED waitingForIdrFrame
    BY <1>13 DEF ReadHeader
  <2>3. InvalidatedRight'
    <3>1. CASE frame.kind = "IDR"
      <4>1. ASSUME NEW s \in 0 .. MaxFrame + 1, FirstLost(s)', s > lastIdr' PROVE FALSE
        <5>1. s \in Nat \ {0} BY <1>1, <2>0, <4>1
        <5>2. FirstLost(s) BY <2>0, <4>1, <5>1, NextFirstLost DEF FirstLost
        <5>3. s <= startFrameNumber BY <5>2, FirstLostBound
        <5> QED BY <1>1, <2>0, <2>1, <3>1, <4>1, <5>1, <5>3
      <4> QED BY <2>0, <3>1, <4>1 DEF InvalidatedRight
    <3>2. CASE frame.kind # "IDR"
      <4>1. UNCHANGED waitingForIdrFrame BY <2>1, <2>2, <3>2 DEF FrameType
      <4>2. InHand /\ recv \notin Finishing BY <2>0 DEF InHand, Opened, Finishing
      <4>3. frame'.kind = "RFI" => waitingForIdrFrame' \/ Available(frame.ref)'
        BY <1>3, <2>0, <4>1, <4>2 DEF InvalidatedRight, Available
      <4> QED BY <1>6, <2>0, <4>1, <4>3 DEF InvalidatedRight
    <3> QED BY <3>1, <3>2
  <2>4. ReadyForThis'
    <3>1. CASE frame.kind = "IDR" BY <2>0, <3>1 DEF ReadyForThis
    <3>2. CASE frame.kind = "RFI"
      <4>1. InHand' /\ recv' \notin Finishing BY <2>0 DEF InHand, Opened, Finishing
      <4> QED BY <2>0, <2>3, <3>2, <4>1 DEF ReadyForThis, InvalidatedRight, Kept
    <3>3. CASE frame.kind = "P"
      <4>1. Kept \/ Available(frame.ref) BY <1>3, <2>0, <2>1, <3>3 DEF ReadyForNext, Finishing
      <4> QED BY <2>0, <2>2, <3>3, <4>1 DEF ReadyForThis, Kept, Available
    <3> QED BY <2>1, <3>1, <3>2, <3>3 DEF FrameType
  <2>5. ReadyForNext' BY <2>0 DEF ReadyForNext
  <2> QED BY <1>4, <2>0, <2>3, <2>4, <2>5 DEF Submittable
<1>14. CASE LastPacket
  <2>1. /\ UNCHANGED <<intact, decodeUnitQueue, decoder, broken, idrFrameProcessed,
                       startFrameNumber, frame, waitingForIdrFrame, waitingForRefInvalFrame>>
        /\ recv = "last" /\ \/ recv' = "drop"
                            \/ recv' = "pending" /\ ~Kept
    BY <1>14 DEF LastPacket, Kept
  <2>2. ReadyForThis' BY <1>3, <2>1 DEF ReadyForThis, Available
  <2>3. ReadyForNext' BY <2>1 DEF ReadyForNext, Finishing
  <2>4. recv' \in Finishing BY <2>1 DEF Finishing
  <2>5. InvalidatedRight' BY <1>6, <2>1, <2>4 DEF InvalidatedRight
  <2> QED BY <1>4, <2>1, <2>2, <2>3, <2>5 DEF Submittable
<1>15. CASE DropUnusable \/ CheckPendingDrop
  <2>1. /\ UNCHANGED <<intact, decodeUnitQueue, decoder, broken, idrFrameProcessed,
                       startFrameNumber, frame>>
        /\ \/ recv' = "idle" /\ dropFrameState
           \/ recv = "pending" /\ recv' = "submit" /\ UNCHANGED waitingForIdrFrame
    BY <1>15 DEF DropUnusable, CheckPendingDrop
  <2>2. ReadyForNext' /\ ReadyForThis'
    BY <1>3, <1>7, <2>1 DEF ReadyForNext, ReadyForThis, Finishing, Available
  <2>3. ~InHand' \/ recv' \in Finishing BY <2>1 DEF InHand, Opened, Finishing
  <2>4. InvalidatedRight' BY <1>6, <1>7, <2>1, <2>3 DEF InvalidatedRight
  <2> QED BY <1>4, <2>1, <2>2, <2>4 DEF Submittable
<1>16. CASE SubmitDirectly
  <2>0. /\ directSubmit /\ decodeUnitQueue = <<>> /\ UNCHANGED decodeUnitQueue
        /\ recv = "submit" /\ recv' = "idle" /\ startFrameNumber' = nextFrameNumber
        /\ UNCHANGED <<nextFrameNumber, decoder>> /\ lastIdr' = lastIdr
    BY <1>0, <1>16 DEF SubmitDirectly, Direct, NoteSubmitted, source
  <2>1. /\ frame \in FrameType /\ nextFrameNumber = frame.n + 1 /\ startFrameNumber <= frame.n
        /\ frame.kind = "IDR" => frame.n <= lastIdr
    BY <1>0, <2>0 DEF AtFrame, InHand, Opened, Finishing
  <2>2. \A d, r : Have(<<>>, d, Len(<<>>), r) <=> r \in d
    <3>1. Len(<<>>) = 0 /\ 1 .. 0 = {} OBVIOUS
    <3> QED BY <3>1 DEF Have
  <2>3. (\A r : Available(r) <=> r \in intact) /\ (\A r : Available(r)' <=> r \in intact')
    BY <2>0, <2>2 DEF Available
  <2>4. \A d : Decodable(<<>>, d)
    <3>1. 1 .. Len(<<>>) = {} OBVIOUS
    <3> QED BY <3>1 DEF Decodable
  <2>5. ReadyForThis' /\ ~InHand' BY <2>0 DEF ReadyForThis, InHand, Opened, Finishing
  <2>6. CASE Decodes(frame) /\ UNCHANGED waitingForIdrFrame
    <3>1. frame.kind = "IDR" \/ frame.ref \in intact BY <1>3, <2>0, <2>3 DEF ReadyForThis
    <3>2. ~broken' /\ frame.n \in intact' /\ idrFrameProcessed'
      BY <1>3, <2>6, <3>1 DEF Decodes, Unbroken
    <3>3. Unbroken' BY <1>3, <2>0, <2>4, <3>2 DEF Unbroken
    <3>4. nextFrameNumber - 1 = frame.n /\ nextFrameNumber' = nextFrameNumber BY <1>1, <2>0, <2>1
    <3>5. ReadyForNext' BY <2>3, <3>2, <3>4 DEF ReadyForNext
    <3>6. ASSUME NEW s \in 0 .. MaxFrame + 1, FirstLost(s)', s > lastIdr'
          PROVE  waitingForIdrFrame' \/ Available(s - 1)'
      <4>1. s \in Nat \ {0} /\ s > lastIdr BY <1>1, <2>0, <3>6
      <4>2. CASE s = startFrameNumber'
        <5>1. s - 1 = frame.n BY <2>0, <3>4, <4>2
        <5> QED BY <2>3, <3>2, <5>1
      <4>3. CASE FirstLost(s)
        <5>1. s <= startFrameNumber BY <4>3, FirstLostBound
        <5>2. s <= frame.n BY <1>1, <2>1, <4>1, <5>1
        <5>3. frame.kind # "IDR" BY <1>1, <2>1, <4>1, <5>2
        <5>4. waitingForIdrFrame \/ s - 1 \in intact
          BY <1>3, <2>3, <4>1, <4>3 DEF InvalidatedRight
        <5> QED BY <2>3, <2>6, <5>3, <5>4 DEF Decodes
      <4> QED BY <3>6, <4>1, <4>2, <4>3, NextFirstLost
    <3> QED BY <2>5, <3>3, <3>5, <3>6 DEF Submittable, InvalidatedRight
  <2>7. CASE Fails /\ waitingForIdrFrame'
    <3>1. Unbroken' BY <1>3, <2>0, <2>4, <2>7 DEF Unbroken, Fails
    <3> QED BY <2>5, <2>7, <3>1 DEF Submittable, ReadyForNext, InvalidatedRight, Kept
  <2> QED BY <1>16, <2>6, <2>7 DEF SubmitDirectly
<1>17. CASE SubmitQueued
  <2>0. /\ recv = "submit" /\ lastIdr' = lastIdr
        /\ UNCHANGED <<nextFrameNumber, decoder, broken, intact, idrFrameProcessed>>
    BY <1>17 DEF SubmitQueued, source
  <2>1. CASE /\ recv' = "full" /\ waitingForIdrFrame' = TRUE
             /\ UNCHANGED <<decodeUnitQueue, startFrameNumber>>
    <3>1. ReadyForNext' /\ ReadyForThis' BY <2>1 DEF ReadyForNext, ReadyForThis, Finishing
    <3>2. InvalidatedRight' BY <2>1 DEF InvalidatedRight
    <3> QED BY <1>4, <2>0, <2>1, <3>1, <3>2 DEF Submittable
  <2>2. CASE /\ recv' = "idle" /\ decodeUnitQueue' = Append(decodeUnitQueue, frame)
             /\ startFrameNumber' = nextFrameNumber /\ UNCHANGED waitingForIdrFrame
    <3>1. /\ frame \in FrameType /\ nextFrameNumber = frame.n + 1 /\ startFrameNumber <= frame.n
          /\ frame.kind = "IDR" => frame.n <= lastIdr
      BY <1>0, <2>0 DEF AtFrame, InHand, Opened, Finishing
    <3>2. decodeUnitQueue \in Seq(FrameType) BY <1>0 DEF TypeOK
    <3>3. /\ Have(decodeUnitQueue', intact', Len(decodeUnitQueue'), frame.n)
          /\ \A r : Available(r) /\ frame.kind # "IDR" => Available(r)'
      BY <2>0, <2>2, <3>1, <3>2, SubmittedHave DEF Available
    <3>4. frame.kind = "IDR" \/ Available(frame.ref) BY <1>3, <2>0 DEF ReadyForThis
    <3>5. Decodable(decodeUnitQueue', intact')
      BY <1>3, <2>0, <2>2, <3>1, <3>2, <3>4, SubmittedDecodable DEF Unbroken, Available
    <3>6. Unbroken' BY <1>3, <2>0, <3>5 DEF Unbroken
    <3>7. nextFrameNumber - 1 = frame.n BY <1>1, <3>1
    <3>8. Available(nextFrameNumber - 1)'
      BY <2>0, <3>3, <3>7 DEF Available
    <3>9. ReadyForNext' /\ ReadyForThis' /\ ~InHand'
      BY <2>2, <3>8 DEF ReadyForNext, ReadyForThis, InHand, Opened, Finishing
    <3>10. ASSUME NEW s \in 0 .. MaxFrame + 1, FirstLost(s)', s > lastIdr'
           PROVE  waitingForIdrFrame' \/ Available(s - 1)'
      <4>1. s \in Nat \ {0} /\ s > lastIdr BY <1>1, <2>0, <3>10
      <4>2. CASE s = startFrameNumber'
        <5>1. s - 1 = frame.n BY <2>2, <3>7, <4>2
        <5> QED BY <3>3, <5>1 DEF Available
      <4>3. CASE FirstLost(s)
        <5>1. s <= startFrameNumber BY <4>3, FirstLostBound
        <5>2. s <= frame.n BY <1>1, <3>1, <4>1, <5>1
        <5>3. frame.kind # "IDR" BY <1>1, <3>1, <4>1, <5>2
        <5>4. waitingForIdrFrame \/ Available(s - 1) BY <1>3, <4>1, <4>3 DEF InvalidatedRight
        <5> QED BY <2>2, <3>3, <5>3, <5>4
      <4> QED BY <3>10, <4>1, <4>2, <4>3, NextFirstLost
    <3> QED BY <3>6, <3>9, <3>10 DEF Submittable, InvalidatedRight
  <2> QED BY <1>17, <2>1, <2>2 DEF SubmitQueued, NoteSubmitted
<1>18. CASE QueueOverflow
  <2>0. recv \in {"full", "flush"} /\ waitingForIdrFrame
    BY <1>0, <1>18 DEF QueueOverflow, KeptBack
  <2>1. waitingForIdrFrame' BY <1>7, <1>18, <2>0 DEF QueueOverflow
  <2>2. recv' \in {"flush", "idle"} BY <1>18 DEF QueueOverflow
  <2>3. Submittable'
    BY <2>1, <2>2 DEF Submittable, ReadyForNext, ReadyForThis, InvalidatedRight, Kept
  <2>4. UNCHANGED <<decoder, broken, intact, idrFrameProcessed>> BY <1>18 DEF QueueOverflow
  <2>5. Unbroken'
    <3>1. CASE UNCHANGED decodeUnitQueue BY <1>4, <2>4, <3>1
    <3>2. CASE decodeUnitQueue' = <<>>
      <4>1. 1 .. Len(<<>>) = {} OBVIOUS
      <4> QED BY <1>3, <2>4, <3>2, <4>1 DEF Unbroken, Decodable
    <3> QED BY <1>18, <3>1, <3>2 DEF QueueOverflow
  <2> QED BY <2>3, <2>5
<1>19. CASE DecoderTakes
  <2> DEFINE q == decodeUnitQueue
  <2>0. /\ ~directSubmit /\ q # <<>> /\ q' = Tail(q)
        /\ UNCHANGED <<startFrameNumber, nextFrameNumber, recv, frame, waiting>>
        /\ lastIdr' = lastIdr
    BY <1>19 DEF DecoderTakes, lossVars, source
  <2>1. ~Fails
    <3>1. failures' = 0 /\ failures = 0 BY <1>0, <1>2, <2>0 DEF InStep
    <3> QED BY <3>1 DEF Fails
  <2>2. decoder' = "wait" /\ Decodes(Head(q)) BY <1>19, <2>1 DEF DecoderTakes
  <2>3. q \in Seq(FrameType) BY <1>0 DEF TypeOK
  <2>4. /\ Len(q') = Len(q) - 1 /\ Len(q) \in Nat \ {0} /\ Head(q) = q[1]
    BY <2>0, <2>3, DecodedAt
  <2>5. intact' = After(intact, Head(q)) BY <2>2 DEF Decodes, After
  <2>6. \A r : Available(r) => Available(r)'
    <3>1. Len(q) \in 1 .. Len(q) BY <2>4
    <3> QED BY <2>0, <2>3, <2>4, <2>5, <3>1, DecodedHave DEF Available
  <2>7. Decodable(q', intact') BY <1>3, <2>0, <2>3, <2>5, DecodedDecodable DEF Unbroken
  <2>8. Head(q).kind = "IDR" \/ Head(q).ref \in intact
    <3>1. 1 \in 1 .. Len(q) /\ 1 - 1 = 0 /\ 1 .. 0 = {} BY <2>4
    <3>2. q[1].kind = "IDR" \/ Have(q, intact, 0, q[1].ref)
      BY <1>3, <3>1 DEF Unbroken, Decodable
    <3> QED BY <2>4, <3>1, <3>2 DEF Have
  <2>9. ~broken' /\ idrFrameProcessed' BY <1>3, <2>2, <2>8 DEF Decodes, Unbroken
  <2>10. Unbroken' BY <2>2, <2>7, <2>9 DEF Unbroken
  <2> HIDE DEF q
  <2>11. \A r : Available(r) =>
                Have(decodeUnitQueue', intact', Len(decodeUnitQueue'), r)
    BY <2>6 DEF Available
  <2>12. ReadyForNext' /\ ReadyForThis'
    BY <1>3, <2>0, <2>11 DEF ReadyForNext, ReadyForThis, Kept, Available
  <2>13. InvalidatedRight'
    <3>1. ASSUME NEW s \in 0 .. MaxFrame + 1, FirstLost(s)', s > lastIdr'
          PROVE  waitingForIdrFrame' \/ Available(s - 1)'
      <4>1. s \in Nat \ {0} /\ s > lastIdr BY <1>1, <2>0, <3>1
      <4>2. FirstLost(s) BY <2>0, <3>1, <4>1, NextFirstLost DEF FirstLost
      <4> QED BY <1>3, <2>0, <2>6, <4>1, <4>2 DEF InvalidatedRight
    <3>2. ASSUME InHand', frame'.kind = "RFI", recv' \notin Finishing
          PROVE  waitingForIdrFrame' \/ Available(frame.ref)'
      BY <1>3, <2>0, <2>11, <3>2 DEF InvalidatedRight, InHand, Available
    <3> QED BY <3>1, <3>2 DEF InvalidatedRight
  <2> QED BY <2>10, <2>12, <2>13 DEF Submittable
<1>20. CASE RefreshWaits \/ RefreshFlushes \/ RefreshDrops \/ RefreshRequests
  <2>1. decoder = "wait" BY <1>3 DEF Unbroken
  <2> QED BY <1>20, <2>1 DEF RefreshWaits, RefreshFlushes, RefreshDrops, RefreshRequests
<1>21. CASE Report
  <2>1. UNCHANGED <<intact, decodeUnitQueue, decoder, broken, idrFrameProcessed, startFrameNumber,
                    nextFrameNumber, recv, frame, waiting>>
    BY <1>21 DEF Report
  <2>2. ReadyForNext' /\ ReadyForThis'
    BY <1>3, <2>1 DEF ReadyForNext, ReadyForThis, Kept, Available
  <2>3. InvalidatedRight'
    BY <1>3, <1>6, <2>1 DEF InvalidatedRight, InHand, Available
  <2> QED BY <1>4, <2>1, <2>2, <2>3 DEF Submittable
<1> QED
  BY <1>8, <1>9, <1>10, <1>11, <1>12, <1>13, <1>14, <1>15, <1>16, <1>17, <1>18, <1>19, <1>20, <1>21
  DEF Next, Receive, Decode

-----------------------------------------------------------------------------
LEMMA InitVInv == Init => VInv
<1> SUFFICES ASSUME Init PROVE VInv OBVIOUS
<1>1. /\ MaxFrame \in Nat \ {0} /\ DropLimit \in Nat \ {0} /\ MaxFailures \in Nat
      /\ QueueBound \in Nat \ {0}
  BY LossAssumption, VideoAssumption
<1>2. LossTypeOK /\ RangesInWindow BY InitLossInv DEF Init, LossInv
<1>3. <<>> \in Seq(FrameType) /\ Len(<<>>) = 0 /\ 1 .. 0 = {} OBVIOUS
<1>4. TypeOK
  <2>1. PICK m \in Modes : directSubmit = m[1] /\ outOfOrder = m[2] BY DEF Init
  <2>2. mode \in Modes BY <2>1, VideoAssumption DEF mode
  <2>3. frame \in [n : 0 .. MaxFrame, kind : {"P", "IDR", "RFI", "none"}, ref : 0 .. MaxFrame]
    <3>1. 0 \in 0 .. MaxFrame BY <1>1
    <3> QED BY <3>1 DEF Init, NoFrame
  <2>4. /\ currentFrameNumber \in 1 .. MaxFrame + 1 /\ hostFrame \in 1 .. MaxFrame + 1
        /\ lastIdr \in 0 .. MaxFrame /\ failures \in 0 .. MaxFailures
    BY <1>1 DEF Init
  <2>5. decodeUnitQueue \in Seq(FrameType) /\ Len(decodeUnitQueue) <= QueueBound
    BY <1>1, <1>3 DEF Init
  <2> QED BY <1>2, <2>2, <2>3, <2>4, <2>5 DEF Init, TypeOK
<1>5. Running /\ InOrder BY DEF Init, LossInit, Running, InOrder
<1>6. AtFrame /\ KeptBack /\ Direct /\ Kept
  BY DEF Init, AtFrame, InHand, Opened, Finishing, KeptBack, Direct, Kept
<1>7. Submittable
  BY <1>6 DEF Init, Submittable, ReadyForNext, ReadyForThis, InvalidatedRight, InHand, Opened, Finishing
<1>8. Unbroken BY <1>3 DEF Init, Unbroken, Decodable
<1> QED BY <1>2, <1>4, <1>5, <1>6, <1>7, <1>8 DEF VInv, References

LEMMA NextVInv == VInv /\ [Next]_videoVars => VInv'
<1>1. ASSUME VInv, Next PROVE VInv'
  BY <1>1, NextLoss, NextType, NextInOrder, NextAtFrame, NextKeptBack, NextDirect, NextReferences
  DEF VInv
<1>2. ASSUME VInv, UNCHANGED videoVars PROVE VInv'
  <2>0. UNCHANGED <<lossVars, mode, waiting, drops, rtp, recv, frame, decodeUnitQueue, decoder,
                    source, decoding>>
    BY <1>2 DEF videoVars
  <2>1. UNCHANGED <<requests, window, threads, stopper, terminated, host>>
    BY <2>0 DEF lossVars, reports
  <2>2. UNCHANGED <<idrFrameRequired, invalidReferenceFrameTuples, unanswered, startFrameNumber,
                    nextFrameNumber, idrThread, rfiThread, range, stopping, stop, terminated, hostIdr,
                    hostRfi, directSubmit, outOfOrder>>
    BY <2>0, <2>1 DEF requests, window, threads, stopper, host, mode
  <2>3. UNCHANGED <<waitingForNextSuccessfulFrame, waitingForIdrFrame, waitingForRefInvalFrame,
                    dropStatePending, consecutiveFrameDrops, currentFrameNumber, reportedLostFrame,
                    recv, frame, decodeUnitQueue, decoder, hostFrame, lastIdr, intact, broken,
                    failures, idrFrameProcessed>>
    BY <2>0 DEF waiting, drops, rtp, source, decoding
  <2>4. TypeOK'
    <3>1. LossTypeOK' BY <1>2, <2>0, NextLossType DEF VInv, TypeOK
    <3> QED BY <1>2, <2>2, <2>3, <3>1 DEF VInv, TypeOK, mode
  <2>5. (RangesInWindow /\ Running /\ InOrder /\ Direct)'
    BY <1>2, <2>2, <2>3 DEF VInv, RangesInWindow, Running, InOrder, Direct
  <2>6. (AtFrame /\ KeptBack)' BY <1>2, <2>2, <2>3 DEF VInv, AtFrame, KeptBack, InHand, Kept
  <2>7. References'
    BY <1>2, <2>2, <2>3
    DEF VInv, References, InStep, Submittable, ReadyForNext, ReadyForThis, InvalidatedRight, Unbroken,
        InHand, Kept, Available, FirstLost
  <2> QED BY <2>4, <2>5, <2>6, <2>7 DEF VInv
<1> QED BY <1>1, <1>2

\* The inductive invariant.
LEMMA VInvHolds == Spec => []VInv
BY InitVInv, NextVInv, PTL DEF Spec

(***************************************************************************)
(* Type correctness: the numbers stay those of frames, decodeUnitQueue     *)
(* within its bound, and consecutiveFrameDrops below the limit.            *)
(***************************************************************************)
THEOREM VideoTypeCorrect == Spec => []TypeOK
<1>1. VInv => TypeOK BY DEF VInv
<1> QED BY <1>1, VInvHolds, PTL

(***************************************************************************)
(* The decoder is never given a frame that refers to one it does not have, *)
(* for any number of frames, any sizes of the queues and every mode: the   *)
(* flags of the depacketizer keep back all that a loss, a prediction, an   *)
(* overflow or (decoding on the receive thread) a failure made unusable.   *)
(***************************************************************************)
THEOREM ReferencesAreIntact == Spec => []NoBrokenReference
<1>1. VInv => NoBrokenReference
  <2> SUFFICES ASSUME VInv, InStep PROVE NoBrokenReference BY DEF NoBrokenReference, InStep
  <2>1. Unbroken /\ decodeUnitQueue \in Seq(FrameType) BY DEF VInv, References, TypeOK
  <2>2. ASSUME decodeUnitQueue # <<>>, Head(decodeUnitQueue).kind # "IDR" PROVE idrFrameProcessed
    <3>1. /\ Head(decodeUnitQueue) = decodeUnitQueue[1] /\ 1 \in 1 .. Len(decodeUnitQueue)
          /\ 1 - 1 = 0 /\ 1 .. 0 = {}
      BY <2>1, <2>2, DecodedAt
    <3>2. Have(decodeUnitQueue, intact, 0, decodeUnitQueue[1].ref)
      BY <2>1, <2>2, <3>1 DEF Unbroken, Decodable
    <3>3. decodeUnitQueue[1].ref \in intact BY <3>1, <3>2 DEF Have
    <3> QED BY <2>1, <3>3 DEF Unbroken
  <2> QED BY <2>1, <2>2 DEF Unbroken, NoBrokenReference
<1> QED BY <1>1, VInvHolds, PTL

(***************************************************************************)
(* The assertions of notifyFrameLost and processRtpPayload hold: no frame  *)
(* that was submitted is reported as lost, a report leaves frames kept     *)
(* back, and none is submitted while a successful one is waited for.       *)
(***************************************************************************)
THEOREM AssertionsAreRight == Spec => []AssertionsHold
<1>1. VInv => AssertionsHold
  <2> SUFFICES ASSUME VInv PROVE AssertionsHold OBVIOUS
  <2>1. startFrameNumber \in Nat /\ frame.n \in Nat /\ AtFrame /\ KeptBack
    BY Numbers DEF VInv
  <2>2. recv = "gap" => startFrameNumber <= frame.n - 1 BY <2>1 DEF AtFrame
  <2> QED BY <2>1, <2>2 DEF AssertionsHold, AtFrame, KeptBack, Kept
<1> QED BY <1>1, VInvHolds, PTL

-----------------------------------------------------------------------------
(* What is waited for is on its way. *)

\* A loss is only predicted in error where frames are decoded on the receive
\* thread and references can be invalidated.
PredictsSafely == \A m \in Modes : m[2] => m[1] /\ RfiEnabled

\* An IDR frame will be requested, was requested, or is the next the host sends.
IdrComing == IdrOnItsWay \/ HostWillSendIdr \/ decoder # "wait" \/ recv \in {"full", "flush"}

\* So it is with a frame after an invalidation.
RfiComing == invalidReferenceFrameTuples # <<>> \/ rfiThread # "wait" \/ hostRfi # 0

\* Frame s is the first of a loss that was reported and not yet acted on.
LostFrom(s) ==
  \/ rfiThread \in {"merge", "send"} /\ s = range[1]
  \/ hostRfi # 0 /\ s = hostRfi
  \/ \E i \in 1 .. Len(invalidReferenceFrameTuples) : invalidReferenceFrameTuples[i][1] = s

Answered == /\ waitingForIdrFrame => IdrComing
            /\ waitingForRefInvalFrame => IdrComing \/ RfiComing

\* Or the frame at hand is the one that is waited for.
AnsweredAtHand ==
  /\ waitingForIdrFrame => IdrComing \/ frame.kind = "IDR"
  /\ waitingForRefInvalFrame => IdrComing \/ RfiComing \/ frame.kind \in {"IDR", "RFI"}

\* The frame at hand will not be completed.
GivenUp == reportedLostFrame /\ ~outOfOrder

\* The next frame that arrives will show a loss.
Missed == IF recv = "idle" THEN GapAhead ELSE frame.n + 1 < hostFrame

\* What is waited for is coming, or a report that will ask for it.
Pursued ==
  /\ recv = "idle" => Answered
  /\ recv \in {"open", "first"} => \/ nextFrameNumber < frame.n
                                   \/ nextFrameNumber = frame.n /\ (GivenUp \/ AnsweredAtHand)
                                   \/ Answered
  /\ recv = "lost" /\ frame.kind # "none" =>
       nextFrameNumber < frame.n \/ GivenUp \/ (waitingForIdrFrame => IdrComing \/ frame.kind = "IDR")
  /\ recv = "header" => waitingForNextSuccessfulFrame \/ AnsweredAtHand
  /\ recv = "last" => waitingForNextSuccessfulFrame \/ (waitingForIdrFrame => IdrComing)
  /\ recv = "drop" => Answered
  /\ recv \in {"pending", "submit"} => (waitingForIdrFrame => IdrComing)

\* A frame after an invalidation does not use up the wait for an IDR frame.
RfiInTime ==
  recv \in {"gap", "open", "lost", "first", "header"} /\ frame.kind = "RFI" /\ waitingForIdrFrame =>
    IdrComing

\* While one is waited for, and none is coming, the last one that was sent is
\* later than every loss the host has yet to act on.
NotOvertaken == waitingForIdrFrame => IdrComing \/ \A s : LostFrom(s) => s <= lastIdr

\* A drop the decoder asked for has its request, or ends with the frame at hand.
DropAnswered ==
  dropStatePending =>
    \/ IdrComing \/ recv = "drop"
    \/ recv \in {"open", "first"} /\ nextFrameNumber < frame.n
    \/ recv \in {"open", "first"} /\ nextFrameNumber = frame.n /\ frame.kind = "IDR"
    \/ recv \in {"header", "last", "pending"} /\ frame.kind = "IDR"

\* References are only invalidated once an IDR frame was decoded; decoding on the
\* receive thread, it is waited for until then.
Processed ==
  /\ waitingForRefInvalFrame \/ frame.kind = "RFI" \/ (\E s : LostFrom(s)) =>
       idrFrameProcessed /\ RfiEnabled
  /\ idrFrameProcessed \/ decodeUnitQueue # <<>> => startFrameNumber # 0
  /\ ~LostFrom(0)
  /\ directSubmit /\ ~idrFrameProcessed =>
       waitingForIdrFrame \/ (recv \in {"last", "drop", "pending", "submit"} /\ frame.kind = "IDR")

Settled == /\ recv = "first" => ~GivenUp
           /\ recv \in {"pending", "submit"} => ~waitingForRefInvalFrame

InPursuit == NotOvertaken /\ (Missed \/ (Pursued /\ RfiInTime /\ DropAnswered))

RInv == /\ VInv /\ ~stopping /\ Processed /\ Settled
        /\ ~terminated => InPursuit

-----------------------------------------------------------------------------
\* An IDR frame on its way is all that is ever waited for.
LEMMA IdrSuffices ==
  ASSUME IdrComing
  PROVE  InPursuit
BY DEF InPursuit, NotOvertaken, Pursued, RfiInTime, DropAnswered, Answered, AnsweredAtHand

\* What a step does to the reports: nothing but ask for an IDR frame, report a loss
\* since startFrameNumber, or let the control stream's threads or the host act.
Silent == /\ UNCHANGED <<threads, stopper, terminated, host, source>>
          /\ UNCHANGED requests \/ LiRequestIdrFrame
Tells == /\ UNCHANGED <<threads, stopper, terminated, host, source, startFrameNumber, frame,
                       waitingForIdrFrame, waitingForRefInvalFrame>>
         /\ ~waitingForIdrFrame /\ waitingForRefInvalFrame
         /\ \E f \in Frames :
              startFrameNumber <= f /\ connectionDetectedFrameLoss(startFrameNumber, f)
Sends == /\ \E kind \in {"P", "IDR", "RFI"} : HostSends(Encoded(kind))
         /\ FrameLost \/ FrameOpens \/ FrameOpensLate

LEMMA DropIsSilent ==
  ASSUME dropFrameState
  PROVE  UNCHANGED requests \/ LiRequestIdrFrame
BY DEF dropFrameState

LEMMA StepKinds ==
  ASSUME VInv, Next
  PROVE  Silent \/ Tells \/ Sends \/ Report
<1> USE DEF source, RecvAt
<1>0. TypeOK /\ AtFrame /\ KeptBack BY DEF VInv
<1>1. CASE FrameLost \/ FrameOpens \/ FrameOpensLate
  BY <1>1 DEF Sends, FrameLost, FrameOpens, FrameOpensLate
<1>2. CASE NotifyFrameLost
  <2>1. UNCHANGED <<threads, stopper, terminated, host, waiting, source, frame>>
    BY <1>2 DEF NotifyFrameLost
  <2>2. CASE waitingForIdrFrame
    BY <1>2, <2>1, <2>2 DEF NotifyFrameLost, NotifyLoss, Silent
  <2>3. CASE ~waitingForIdrFrame
    <3>1. waitingForRefInvalFrame BY <1>0, <1>2, <2>3 DEF NotifyFrameLost, KeptBack, Kept
    <3>2. UNCHANGED startFrameNumber BY <1>2, <2>3 DEF NotifyFrameLost, NotifyLoss
    <3>3. \E f \in Frames :
            startFrameNumber <= f /\ connectionDetectedFrameLoss(startFrameNumber, f)
      <4>1. CASE recv = "gap" /\ NotifyLoss(frame.n - 1)
        <5>1. frame.n \in Nat /\ frame.n <= MaxFrame /\ startFrameNumber < frame.n
              /\ nextFrameNumber < frame.n /\ nextFrameNumber \in Nat \ {0} /\ MaxFrame \in Nat
          BY <1>0, <4>1, Numbers DEF AtFrame
        <5>2. frame.n - 1 \in Frames /\ startFrameNumber <= frame.n - 1
          BY <1>0, <5>1, Numbers DEF Frames
        <5> QED BY <2>3, <4>1, <5>2 DEF NotifyLoss
      <4>2. CASE recv = "lost" /\ NotifyLoss(frame.n)
        BY <1>0, <2>3, <4>2 DEF NotifyLoss, AtFrame
      <4> QED BY <1>2, <4>1, <4>2 DEF NotifyFrameLost
    <3> QED BY <2>1, <2>3, <3>1, <3>2, <3>3 DEF Tells, waiting
  <2> QED BY <2>2, <2>3
<1>3. CASE LastPacket
  <2>1. UNCHANGED <<threads, stopper, terminated, host, source, startFrameNumber, waitingForIdrFrame,
                    waitingForRefInvalFrame, frame>>
    BY <1>3 DEF LastPacket
  <2>2. CASE UNCHANGED requests \/ LiRequestIdrFrame BY <2>1, <2>2 DEF Silent
  <2>3. CASE ~waitingForIdrFrame /\ waitingForRefInvalFrame
             /\ connectionDetectedFrameLoss(startFrameNumber, frame.n)
    <3>1. frame.n \in Frames /\ nextFrameNumber = frame.n
      BY <1>0, <1>3 DEF LastPacket, AtFrame, InHand, Opened, FrameType
    <3>2. startFrameNumber <= frame.n BY <3>1 DEF VInv, RangesInWindow, InWindow
    <3> QED BY <2>1, <2>3, <3>1, <3>2 DEF Tells
  <2> QED BY <1>3, <2>2, <2>3 DEF LastPacket, ReportUnusable
<1>4. CASE FrameUnrecoverable \/ CheckSequence \/ DropUnusable \/ CheckPendingDrop \/ QueueOverflow
  <2>1. UNCHANGED <<threads, stopper, terminated, host, source>>
    BY <1>4 DEF FrameUnrecoverable, CheckSequence, DropUnusable, CheckPendingDrop, QueueOverflow
  <2>2. UNCHANGED requests \/ LiRequestIdrFrame
    BY <1>4, DropIsSilent
    DEF FrameUnrecoverable, CheckSequence, DropUnusable, CheckPendingDrop, QueueOverflow
  <2> QED BY <2>1, <2>2 DEF Silent
<1>5. CASE FrameStalls \/ FrameCompletes \/ ReadHeader \/ DecoderTakes \/ RefreshWaits
           \/ RefreshFlushes \/ RefreshDrops
  BY <1>5 DEF FrameStalls, FrameCompletes, ReadHeader, DecoderTakes, RefreshWaits, RefreshFlushes,
     RefreshDrops, lossVars, reports, Silent
<1>6. CASE SubmitDirectly \/ SubmitQueued \/ RefreshRequests
  BY <1>6 DEF SubmitDirectly, SubmitQueued, RefreshRequests, Silent
<1> QED
  BY <1>1, <1>2, <1>3, <1>4, <1>5, <1>6 DEF Next, Receive, Decode

\* The losses under way: only a report adds one, which begins at startFrameNumber.
LEMMA LossesStay ==
  ASSUME VInv, Next, NEW s, LostFrom(s)'
  PROVE  LostFrom(s) \/ (Tells /\ RfiEnabled /\ s = startFrameNumber)
<1> DEFINE q == invalidReferenceFrameTuples
<1>0. /\ q \in Seq(Ranges) /\ range \in Merging BY DEF VInv, TypeOK, LossTypeOK, Ranges, Merging
<1>1. CASE Silent
  <2>1. UNCHANGED <<rfiThread, range, hostRfi>> BY <1>1 DEF Silent, threads, host
  <2>2. q' = q \/ q' = <<>> BY <1>1 DEF Silent, LiRequestIdrFrame, requests
  <2> QED BY <1>0, <2>1, <2>2 DEF LostFrom
<1>2. CASE Tells
  <2>1. UNCHANGED <<rfiThread, range, hostRfi>> BY <1>2 DEF Tells, threads, host
  <2>2. PICK f \in Frames :
         startFrameNumber <= f /\ connectionDetectedFrameLoss(startFrameNumber, f)
    BY <1>2 DEF Tells
  <2>3. CASE q' = <<>> BY <2>1, <2>3 DEF LostFrom
  <2>4. CASE RfiEnabled /\ q' = Append(q, <<startFrameNumber, f>>)
    <3>1. <<startFrameNumber, f>> \in Ranges
      <4>1. startFrameNumber \in Nat /\ MaxFrame \in Nat BY Numbers DEF VInv
      <4>2. startFrameNumber \in 0 .. MaxFrame BY <2>2, <4>1 DEF Frames
      <4> QED BY <4>2 DEF Ranges
    <3> QED BY <1>0, <1>2, <2>1, <2>4, <3>1, AppendAt DEF LostFrom
  <2> QED BY <2>2, <2>3, <2>4 DEF connectionDetectedFrameLoss, QueueTuple
<1>3. CASE Sends
  <2>1. PICK kind \in {"P", "IDR", "RFI"} : HostSends(Encoded(kind)) BY <1>3 DEF Sends
  <2>2. hostRfi' \in {0, hostRfi} BY <2>1, SentFacts DEF VInv
  <2>3. UNCHANGED <<rfiThread, range>> BY <1>3 DEF Sends, FrameLost, FrameOpens, FrameOpensLate, threads
  <2>4. q' = q \/ q' = <<>>
    BY <1>3 DEF Sends, FrameLost, FrameOpens, FrameOpensLate, dropFrameState, LiRequestIdrFrame, requests
  <2> QED BY <1>0, <2>2, <2>3, <2>4 DEF LostFrom
<1>4. CASE Report
  <2>1. CASE WaitForTuple \/ MergeTuples
    <3>1. hostRfi' = hostRfi BY <2>1 DEF WaitForTuple, MergeTuples, host
    <3>2. CASE /\ q # <<>> /\ q' = Tail(q) /\ rfiThread' = "merge"
               /\ range'[1] = Head(q)[1] \/ (rfiThread = "merge" /\ range'[1] = range[1])
      <4>1. /\ Len(q') = Len(q) - 1 /\ Len(q) \in Nat \ {0} /\ Head(q) = q[1]
            /\ \A i \in 1 .. Len(q) - 1 : q'[i] = q[i + 1]
        BY <1>0, <3>2, TailAt
      <4>2. \A i \in 1 .. Len(q') : i + 1 \in 1 .. Len(q) /\ q'[i] = q[i + 1] BY <4>1
      <4>3. 1 \in 1 .. Len(q) BY <4>1
      <4> QED BY <3>1, <3>2, <4>1, <4>2, <4>3 DEF LostFrom
    <3>3. CASE q' = q /\ UNCHANGED range /\ rfiThread' = "send" /\ rfiThread = "merge"
      BY <3>1, <3>3 DEF LostFrom
    <3> QED BY <2>1, <3>2, <3>3 DEF WaitForTuple, MergeTuples, RfiThreadAt, TuplesShutDown, VInv, Running
  <2>2. CASE requestInvalidateReferenceFrames
    BY <2>2 DEF requestInvalidateReferenceFrames, RfiThreadAt, LostFrom
  <2>3. CASE IdrThreadStep
    <3>1. UNCHANGED <<rfiThread, range, hostRfi>> /\ (q' = q \/ q' = <<>>)
      BY <2>3 DEF IdrThreadStep, PltWaitForEvent, PltClearEvent, TestStopping, DropRedundantTuples,
         requestIdrFrame, requests, host
    <3> QED BY <3>1 DEF LostFrom
  <2> QED BY <1>4, <2>1, <2>2, <2>3 DEF Report, RfiThreadStep
<1> QED BY <1>1, <1>2, <1>3, <1>4, StepKinds

\* An IDR frame on its way stays so until the host sends it.
LEMMA IdrStays ==
  ASSUME VInv, ~stopping, ~LostFrom(0), Next, IdrComing, ~terminated',
         lastIdr' = lastIdr
  PROVE  IdrComing'
<1>0. TypeOK /\ InOrder /\ LossTypeOK BY DEF VInv, TypeOK
<1>1. CASE decoder # "wait"
  <2>1. decoder' # "wait" \/ idrFrameRequired'
    <3>1. CASE Decode
      BY <1>1, <3>1 DEF Decode, DecoderTakes, RefreshWaits, RefreshFlushes, RefreshDrops,
         RefreshRequests, DecoderAt, LiRequestIdrFrame
    <3>2. CASE Receive
      <4>1. UNCHANGED decoder
        BY <3>2 DEF Receive, FrameLost, FrameOpens, FrameOpensLate, NotifyFrameLost, FrameUnrecoverable,
           FrameStalls, FrameCompletes, CheckSequence, ReadHeader, LastPacket, DropUnusable,
           CheckPendingDrop, SubmitDirectly, SubmitQueued, QueueOverflow
      <4> QED BY <1>1, <4>1
    <3>3. CASE Report BY <1>1, <3>3 DEF Report
    <3> QED BY <3>1, <3>2, <3>3 DEF Next
  <2> QED BY <2>1 DEF IdrComing, IdrOnItsWay
<1>2. CASE recv \in {"full", "flush"}
  <2>1. recv' = recv \/ QueueOverflow
    BY <1>2 DEF Next, Receive, Decode, Report, DecoderTakes, RefreshWaits, RefreshFlushes, RefreshDrops,
       RefreshRequests, FrameLost, FrameOpens, FrameOpensLate, NotifyFrameLost, FrameUnrecoverable,
       FrameStalls, FrameCompletes, CheckSequence, ReadHeader, LastPacket, DropUnusable,
       CheckPendingDrop, SubmitDirectly, SubmitQueued, RecvAt
  <2>2. QueueOverflow => recv' = "flush" \/ idrFrameRequired'
    BY DEF QueueOverflow, RecvAt, LiRequestIdrFrame
  <2> QED BY <1>2, <2>1, <2>2 DEF IdrComing, IdrOnItsWay
<1>3. CASE IdrOnItsWay \/ HostWillSendIdr
  <2>1. CASE Silent \/ Tells
    <3>1. idrFrameRequired => idrFrameRequired'
      BY <1>0, <2>1 DEF Silent, Tells, LiRequestIdrFrame, connectionDetectedFrameLoss, requests
    <3>2. UNCHANGED <<idrThread, hostIdr, hostRfi, lastIdr>>
      BY <2>1 DEF Silent, Tells, threads, host, source
    <3> QED BY <1>3, <3>1, <3>2 DEF IdrComing, IdrOnItsWay, HostWillSendIdr
  <2>2. CASE Sends
    <3>1. PICK kind \in {"P", "IDR", "RFI"} : HostSends(Encoded(kind)) BY <2>2 DEF Sends
    <3>2. kind # "IDR" BY <1>0, <3>1, SentFacts, Numbers DEF InOrder
    <3>3. hostIdr' = hostIdr /\ (hostRfi' = hostRfi \/ hostRfi > lastIdr)
      BY <3>1, <3>2 DEF HostSends, Encoded, host
    <3>4. UNCHANGED idrThread /\ (idrFrameRequired => idrFrameRequired')
      BY <1>0, <2>2 DEF Sends, FrameLost, FrameOpens, FrameOpensLate, dropFrameState, LiRequestIdrFrame,
         requests, threads
    <3>5. lastIdr \in Nat /\ hostRfi \in Nat BY <1>0, Numbers
    <3> QED BY <1>3, <3>3, <3>4, <3>5 DEF IdrComing, IdrOnItsWay, HostWillSendIdr
  <2>3. CASE Report
    <3>1. lastIdr' = lastIdr BY <2>3 DEF Report, source
    <3>2. CASE IdrThreadStep
      <4>1. hostRfi' = hostRfi /\ (hostIdr => hostIdr')
        BY <1>0, <3>2 DEF IdrThreadStep, PltWaitForEvent, PltClearEvent, TestStopping, DropRedundantTuples,
           requestIdrFrame, host
      <4>2. IdrOnItsWay => IdrOnItsWay' \/ hostIdr'
        BY <3>2 DEF IdrThreadStep, PltWaitForEvent, PltClearEvent, TestStopping, DropRedundantTuples,
           requestIdrFrame, IdrThreadAt, IdrOnItsWay, requests
      <4> QED BY <1>3, <3>1, <4>1, <4>2 DEF IdrComing, HostWillSendIdr
    <3>3. CASE RfiThreadStep
      <4>1. UNCHANGED <<idrThread, idrFrameRequired, hostIdr>>
        BY <3>3 DEF RfiThreadStep, WaitForTuple, MergeTuples, requestInvalidateReferenceFrames, host
      <4>2. \/ hostRfi' = hostRfi
            \/ /\ requestInvalidateReferenceFrames
               /\ hostRfi' = IF hostRfi = 0 \/ range[1] < hostRfi THEN range[1] ELSE hostRfi
        BY <3>3 DEF RfiThreadStep, WaitForTuple, MergeTuples, requestInvalidateReferenceFrames, host
      <4>3. requestInvalidateReferenceFrames => range[1] # 0
        BY DEF requestInvalidateReferenceFrames, RfiThreadAt, LostFrom
      <4>4. lastIdr \in Nat /\ hostRfi \in Nat /\ range[1] \in Nat
        BY <1>0, Numbers DEF LossTypeOK
      <4>5. hostRfi # 0 /\ hostRfi <= lastIdr => hostRfi' # 0 /\ hostRfi' <= lastIdr
        BY <4>2, <4>3, <4>4
      <4> QED BY <1>3, <3>1, <4>1, <4>5 DEF IdrComing, IdrOnItsWay, HostWillSendIdr
    <3> QED BY <2>3, <3>2, <3>3 DEF Report
  <2> QED BY <2>1, <2>2, <2>3, StepKinds
<1> QED BY <1>1, <1>2, <1>3 DEF IdrComing

LEMMA AppendNotEmpty ==
  ASSUME NEW q \in Seq(Ranges), NEW e
  PROVE  Append(q, e) # <<>>
<1> DEFINE S == {q[i] : i \in 1 .. Len(q)} \union {e}
<1>1. q \in Seq(S) /\ e \in S OBVIOUS
<1> QED BY <1>1

\* A report on its way stays so, or makes way for an IDR request.
LEMMA RfiStays ==
  ASSUME VInv, ~LostFrom(0), Next, RfiComing, ~terminated', UNCHANGED source
  PROVE  RfiComing' \/ IdrComing'
<1> DEFINE q == invalidReferenceFrameTuples
<1>0. q \in Seq(Ranges) /\ hostRfi \in Nat /\ range[1] \in Nat
  BY Numbers DEF VInv, TypeOK, LossTypeOK, Ranges
<1>1. CASE Silent
  BY <1>1 DEF Silent, LiRequestIdrFrame, requests, threads, host, RfiComing, IdrComing, IdrOnItsWay
<1>2. CASE Tells
  <2>1. UNCHANGED <<rfiThread, hostRfi>> BY <1>2 DEF Tells, threads, host
  <2>2. idrFrameRequired' \/ \E f \in Frames : q' = Append(q, <<startFrameNumber, f>>)
    BY <1>2 DEF Tells, connectionDetectedFrameLoss, QueueTuple
  <2>3. \A e : Append(q, e) # <<>> BY <1>0, AppendNotEmpty
  <2> QED BY <2>1, <2>2, <2>3 DEF RfiComing, IdrComing, IdrOnItsWay
<1>3. CASE Sends
  <2>1. hostFrame' = hostFrame + 1 /\ hostFrame \in Nat
    BY <1>3, Numbers DEF Sends, HostSends, VInv
  <2> QED BY <2>1 DEF source
<1>4. CASE Report
  <2>1. CASE WaitForTuple \/ MergeTuples
    <3>1. rfiThread' # "wait"
      BY <2>1 DEF WaitForTuple, MergeTuples, RfiThreadAt
    <3> QED BY <3>1 DEF RfiComing
  <2>2. CASE requestInvalidateReferenceFrames
    <3>1. range[1] # 0 BY <2>2 DEF requestInvalidateReferenceFrames, RfiThreadAt, LostFrom
    <3>2. hostRfi' = IF hostRfi = 0 \/ range[1] < hostRfi THEN range[1] ELSE hostRfi
      BY <2>2 DEF requestInvalidateReferenceFrames
    <3> QED BY <3>1, <3>2 DEF RfiComing
  <2>3. CASE IdrThreadStep
    <3>1. UNCHANGED <<rfiThread, hostRfi>> /\ (q' = q \/ idrThread' = "send")
      BY <2>3 DEF IdrThreadStep, PltWaitForEvent, PltClearEvent, TestStopping, DropRedundantTuples,
         IdrThreadAt, requestIdrFrame, requests, host
    <3> QED BY <3>1 DEF RfiComing, IdrComing, IdrOnItsWay
  <2> QED BY <1>4, <2>1, <2>2, <2>3 DEF Report, RfiThreadStep
<1> QED BY <1>1, <1>2, <1>3, <1>4, StepKinds

\* The receive thread at a frame: where nextFrameNumber can be.
LEMMA AtMostNext ==
  ASSUME VInv, recv # "idle"
  PROVE  nextFrameNumber <= frame.n + 1 /\ frame.n < hostFrame
<1>1. TypeOK /\ InOrder /\ AtFrame BY DEF VInv
<1>2. CASE recv = "lost" BY <1>1, <1>2, Numbers DEF AtFrame
<1>3. CASE recv \in Opened
  BY <1>1, <1>3, Numbers DEF AtFrame, InOrder, InHand
<1> QED BY <1>1, <1>2, <1>3 DEF TypeOK, Opened, Finishing

\* What the other steps leave the receive thread with.
LEMMA FrameStays ==
  ASSUME VInv, Next, UNCHANGED source
  PROVE  /\ ~FrameLost /\ ~FrameOpens /\ ~FrameOpensLate
         /\ frame' = frame \/ (recv = "open" /\ recv' = "lost" /\ frame' = [NoFrame EXCEPT !.n = frame.n])
         /\ recv = "idle" => recv' = "idle" /\ UNCHANGED nextFrameNumber
         /\ nextFrameNumber' = nextFrameNumber \/ nextFrameNumber' <= frame.n + 1
<1>1. ~FrameLost /\ ~FrameOpens /\ ~FrameOpensLate
  BY Numbers DEF FrameLost, FrameOpens, FrameOpensLate, HostSends, source, VInv
<1>2. /\ frame.n \in Nat /\ nextFrameNumber \in Nat /\ TypeOK BY Numbers DEF VInv
<1>3. CASE Receive
  <2>1. CASE NotifyFrameLost
    BY <1>1, <1>2, <2>1 DEF NotifyFrameLost, NotifyLoss, RecvAt, window
  <2>2. CASE FrameUnrecoverable BY <1>1, <2>2 DEF FrameUnrecoverable, RecvAt, window
  <2>3. CASE CheckSequence BY <1>1, <1>2, <2>3 DEF CheckSequence, RecvAt
  <2>4. CASE LastPacket BY <1>1, <1>2, <2>4 DEF LastPacket, RecvAt
  <2>5. CASE FrameStalls \/ FrameCompletes \/ ReadHeader
    BY <1>1, <2>5 DEF FrameStalls, FrameCompletes, ReadHeader, RecvAt, lossVars, window
  <2>6. CASE DropUnusable \/ CheckPendingDrop \/ QueueOverflow \/ SubmitDirectly \/ SubmitQueued
    BY <1>1, <2>6 DEF DropUnusable, CheckPendingDrop, QueueOverflow, SubmitDirectly, SubmitQueued,
       RecvAt, window
  <2> QED BY <1>1, <1>3, <2>1, <2>2, <2>3, <2>4, <2>5, <2>6 DEF Receive
<1>4. CASE Decode
  BY <1>1, <1>4 DEF Decode, DecoderTakes, RefreshWaits, RefreshFlushes, RefreshDrops, RefreshRequests,
     lossVars, window
<1>5. CASE Report BY <1>1, <1>5 DEF Report, window
<1> QED BY <1>3, <1>4, <1>5 DEF Next

\* A frame that was missed stays so until the next one shows it.
LEMMA MissedStays ==
  ASSUME VInv, Next, Missed, UNCHANGED source
  PROVE  Missed'
<1>1. /\ nextFrameNumber \in Nat /\ hostFrame \in Nat /\ frame.n \in Nat BY Numbers DEF VInv
<1>2. hostFrame' = hostFrame BY DEF source
<1>3. CASE recv = "idle" BY <1>2, <1>3, FrameStays DEF Missed, GapAhead
<1>4. CASE recv # "idle"
  <2>1. frame.n + 1 < hostFrame BY <1>4 DEF Missed
  <2>2. frame'.n = frame.n BY FrameStays DEF NoFrame
  <2>3. nextFrameNumber' <= frame.n + 1 BY <1>4, AtMostNext, FrameStays
  <2>4. nextFrameNumber' \in Nat BY NextLoss, LossAssumption DEF LossTypeOK
  <2> QED BY <1>1, <1>2, <2>1, <2>2, <2>3, <2>4 DEF Missed, GapAhead
<1> QED BY <1>3, <1>4

\* What dropFrameState adds to what is waited for, with no request: nothing, once
\* an IDR frame was decoded and references can be invalidated.
LEMMA DropWithoutRequest ==
  ASSUME TypeOK, dropFrameState, ~idrFrameRequired'
  PROVE  /\ UNCHANGED requests /\ dropStatePending' = FALSE
         /\ waitingForIdrFrame' = NeedsIdr
         /\ waitingForRefInvalFrame' = (waitingForRefInvalFrame \/ ~NeedsIdr)
         /\ idrFrameProcessed /\ RfiEnabled => waitingForIdrFrame' = waitingForIdrFrame
<1>1. consecutiveFrameDrops + 1 # DropLimit /\ UNCHANGED requests
  BY DEF dropFrameState, LiRequestIdrFrame
<1>2. /\ waitingForIdrFrame' = NeedsIdr /\ dropStatePending' = FALSE
      /\ waitingForRefInvalFrame' = (waitingForRefInvalFrame \/ ~NeedsIdr)
  <2>1. waitingForIdrFrame' = (NeedsIdr \/ consecutiveFrameDrops + 1 = DropLimit) BY DEF dropFrameState
  <2>2. NeedsIdr \in BOOLEAN BY DEF NeedsIdr
  <2>3. waitingForIdrFrame' = NeedsIdr BY <1>1, <2>1, <2>2
  <2> QED BY <2>3 DEF dropFrameState
<1>3. idrFrameProcessed /\ RfiEnabled => NeedsIdr = waitingForIdrFrame
  <2>1. waitingForIdrFrame \in BOOLEAN BY DEF TypeOK
  <2> QED BY <2>1 DEF NeedsIdr, strictIdrFrameWait
<1> QED BY <1>1, <1>2, <1>3

\* Of the flags, with or without a request.
LEMMA DropFlags ==
  ASSUME TypeOK, dropFrameState
  PROVE  /\ waitingForIdrFrame \/ ~idrFrameProcessed => waitingForIdrFrame'
         /\ waitingForRefInvalFrame' =>
              waitingForRefInvalFrame \/ (idrFrameProcessed /\ RfiEnabled)
BY DEF dropFrameState, NeedsIdr, strictIdrFrameWait

-----------------------------------------------------------------------------
\* What is decided about IDR frames and invalidations from the start.
LEMMA NextProcessed ==
  ASSUME VInv, Processed, Next
  PROVE  Processed'
<1> USE DEF RecvAt, decoding, waiting, drops
<1>0. TypeOK /\ AtFrame /\ KeptBack /\ InOrder /\ Direct BY DEF VInv
<1>1. idrFrameProcessed => idrFrameProcessed'
  BY DEF Next, Receive, Decode, Report, DecoderTakes, RefreshWaits, RefreshFlushes, RefreshDrops,
     RefreshRequests, FrameLost, FrameOpens, FrameOpensLate, NotifyFrameLost, FrameUnrecoverable,
     FrameStalls, FrameCompletes, CheckSequence, ReadHeader, LastPacket, DropUnusable,
     CheckPendingDrop, SubmitDirectly, SubmitQueued, QueueOverflow, Decodes, Fails
<1>2. Tells => idrFrameProcessed /\ RfiEnabled /\ startFrameNumber # 0 BY DEF Tells, Processed
<1>3. ASSUME waitingForRefInvalFrame' PROVE idrFrameProcessed /\ RfiEnabled
  <2>1. waitingForRefInvalFrame \/ dropFrameState
    BY <1>3 DEF Next, Receive, Decode, Report, DecoderTakes, RefreshWaits, RefreshFlushes, RefreshDrops,
       RefreshRequests, FrameLost, FrameOpens, FrameOpensLate, NotifyFrameLost, FrameUnrecoverable,
       FrameStalls, FrameCompletes, CheckSequence, ReadHeader, LastPacket, DropUnusable,
       CheckPendingDrop, SubmitDirectly, SubmitQueued, QueueOverflow
  <2> QED BY <1>0, <1>3, <2>1, DropFlags DEF Processed
<1>4. ASSUME frame'.kind = "RFI" PROVE idrFrameProcessed /\ RfiEnabled
  <2>1. CASE UNCHANGED source
    <3>1. frame.kind = "RFI" BY <1>4, <2>1, FrameStays DEF NoFrame
    <3> QED BY <3>1 DEF Processed
  <2>2. CASE Sends
    <3>1. CASE UNCHANGED frame BY <1>4, <3>1 DEF Processed
    <3>2. CASE FrameOpens
      <4>1. PICK kind \in {"P", "IDR", "RFI"} : HostSends(Encoded(kind)) /\ frame' = Encoded(kind)
        BY <3>2 DEF FrameOpens
      <4>2. hostRfi # 0 BY <1>0, <1>4, <4>1, SentFacts
      <4> QED BY <4>2 DEF Processed, LostFrom
    <3>3. CASE frame' = [NoFrame EXCEPT !.n = currentFrameNumber] BY <1>4, <3>3 DEF NoFrame
    <3> QED BY <2>2, <3>1, <3>2, <3>3 DEF Sends, FrameLost, FrameOpensLate
  <2>3. ~Sends => UNCHANGED source BY StepKinds DEF Silent, Tells, Report
  <2> QED BY <2>1, <2>2, <2>3
<1>5. ASSUME NEW s, LostFrom(s)' PROVE idrFrameProcessed /\ RfiEnabled /\ s # 0
  <2>1. LostFrom(s) \/ (Tells /\ RfiEnabled /\ s = startFrameNumber) BY <1>5, LossesStay
  <2> QED BY <1>2, <2>1 DEF Processed
<1>6. idrFrameProcessed' \/ decodeUnitQueue' # <<>> => startFrameNumber' # 0
  <2>1. startFrameNumber \in Nat /\ nextFrameNumber \in Nat \ {0} BY <1>0, Numbers
  <2>2. CASE SubmitDirectly \/ SubmitQueued
    BY <2>1, <2>2 DEF SubmitDirectly, SubmitQueued, NoteSubmitted, Processed
  <2>3. CASE DecoderTakes BY <2>3 DEF DecoderTakes, lossVars, window, Processed
  <2>4. CASE ~SubmitDirectly /\ ~SubmitQueued /\ ~DecoderTakes
    <3>1. /\ UNCHANGED <<startFrameNumber, idrFrameProcessed>>
          /\ decodeUnitQueue' = decodeUnitQueue \/ decodeUnitQueue' = <<>>
      BY <2>4 DEF Next, Receive, Decode, Report, RefreshWaits, RefreshFlushes, RefreshDrops,
         RefreshRequests, FrameLost, FrameOpens, FrameOpensLate, NotifyFrameLost, NotifyLoss,
         FrameUnrecoverable, FrameStalls, FrameCompletes, CheckSequence, ReadHeader, LastPacket,
         DropUnusable, CheckPendingDrop, QueueOverflow, window, lossVars
    <3> QED BY <3>1 DEF Processed
  <2> QED BY <2>2, <2>3, <2>4
<1>7. ASSUME directSubmit', ~idrFrameProcessed'
      PROVE  (waitingForIdrFrame \/ (recv \in {"last", "drop", "pending", "submit"} /\ frame.kind = "IDR"))'
  <2>1. directSubmit /\ ~idrFrameProcessed BY <1>1, <1>7 DEF Next, mode
  <2>2. waitingForIdrFrame \/ (recv \in {"last", "drop", "pending", "submit"} /\ frame.kind = "IDR")
    BY <2>1 DEF Processed
  <2>3. dropFrameState => waitingForIdrFrame' BY <1>0, <2>1, DropFlags
  <2>4. CASE FrameLost \/ FrameOpens \/ FrameOpensLate \/ NotifyFrameLost \/ FrameUnrecoverable
             \/ FrameStalls \/ FrameCompletes \/ CheckSequence
    BY <2>2, <2>3, <2>4 DEF FrameLost, FrameOpens, FrameOpensLate, NotifyFrameLost, FrameUnrecoverable,
       FrameStalls, FrameCompletes, CheckSequence
  <2>5. CASE ReadHeader BY <2>2, <2>5 DEF ReadHeader
  <2>6. CASE LastPacket \/ DropUnusable \/ CheckPendingDrop \/ QueueOverflow
    BY <2>2, <2>3, <2>6 DEF LastPacket, DropUnusable, CheckPendingDrop, QueueOverflow
  <2>7. CASE SubmitDirectly
    <3>1. CASE Decodes(frame) /\ UNCHANGED waitingForIdrFrame
      <4>1. frame.kind # "IDR" BY <1>7, <3>1 DEF Decodes
      <4> QED BY <2>2, <3>1, <4>1
    <3> QED BY <2>7, <3>1 DEF SubmitDirectly
  <2>8. CASE SubmitQueued BY <2>1, <2>8 DEF SubmitQueued
  <2>9. CASE Decode
    BY <2>2, <2>9 DEF Decode, DecoderTakes, RefreshWaits, RefreshFlushes, RefreshDrops, RefreshRequests
  <2>10. CASE Report BY <2>2, <2>10 DEF Report
  <2> QED BY <2>4, <2>5, <2>6, <2>7, <2>8, <2>9, <2>10 DEF Next, Receive
<1> QED BY <1>1, <1>3, <1>4, <1>5, <1>6, <1>7 DEF Processed

LEMMA NextSettled ==
  ASSUME VInv, Settled, Next
  PROVE  Settled'
<1> USE DEF RecvAt, rtp, waiting, drops
<1>1. CASE UNCHANGED <<recv, rtp, waitingForRefInvalFrame, mode>>
  BY <1>1 DEF Settled, GivenUp, mode
<1>2. CASE recv' \notin {"first", "pending", "submit"} BY <1>2 DEF Settled
<1>3. CASE FrameCompletes BY <1>3 DEF FrameCompletes, Settled, GivenUp, Next, mode
<1>4. CASE LastPacket BY <1>4 DEF LastPacket, Settled
<1>5. CASE CheckPendingDrop BY <1>5 DEF CheckPendingDrop, Settled
<1> QED
  BY <1>1, <1>2, <1>3, <1>4, <1>5
  DEF Next, Receive, Decode, Report, DecoderTakes, RefreshWaits, RefreshFlushes, RefreshDrops,
      RefreshRequests, FrameLost, FrameOpens, FrameOpensLate, NotifyFrameLost, FrameUnrecoverable,
      FrameStalls, CheckSequence, ReadHeader, DropUnusable, SubmitDirectly, SubmitQueued, QueueOverflow

LEMMA NeverStopping ==
  ASSUME Next
  PROVE  UNCHANGED stopping /\ (terminated => terminated')
<1>1. UNCHANGED <<stopper, terminated>> \/ Report
  BY DEF Next, Receive, Decode, DecoderTakes, RefreshWaits, RefreshFlushes, RefreshDrops,
     RefreshRequests, FrameLost, FrameOpens, FrameOpensLate, NotifyFrameLost, FrameUnrecoverable,
     FrameStalls, FrameCompletes, CheckSequence, ReadHeader, LastPacket, DropUnusable,
     CheckPendingDrop, SubmitDirectly, SubmitQueued, QueueOverflow, lossVars, reports
<1> QED
  BY <1>1 DEF Report, IdrThreadStep, RfiThreadStep, PltWaitForEvent, PltClearEvent, TestStopping,
     DropRedundantTuples, requestIdrFrame, WaitForTuple, MergeTuples, requestInvalidateReferenceFrames,
     stopper

-----------------------------------------------------------------------------
\* The pursuit, action by action; an IDR frame on its way ends the matter (IdrSuffices).
LEMMA SentInPursuit ==
  ASSUME RInv, Next, Sends, ~terminated', ~IdrComing'
  PROVE  InPursuit'
<1> USE DEF RecvAt
<1>0. TypeOK /\ InOrder /\ AtFrame /\ RangesInWindow /\ Processed /\ ~stopping /\ VInv
  BY DEF RInv, VInv
<1>1. ~terminated /\ InPursuit BY NeverStopping DEF RInv
<1>2. /\ startFrameNumber \in Nat /\ nextFrameNumber \in Nat /\ currentFrameNumber \in Nat
      /\ hostFrame \in Nat /\ lastIdr \in Nat /\ hostRfi \in Nat /\ frame.n \in Nat
  BY <1>0, Numbers
<1>3. PICK kind \in {"P", "IDR", "RFI"} :
        HostSends(Encoded(kind)) /\ (FrameOpens => frame' = Encoded(kind))
  BY DEF Sends, FrameLost, FrameOpens, FrameOpensLate
<1>4. /\ Encoded(kind).n = hostFrame /\ Encoded(kind).kind = kind
      /\ hostFrame' = hostFrame + 1 /\ lastIdr' \in {lastIdr, hostFrame}
      /\ kind = "IDR" => lastIdr' = hostFrame
      /\ kind = "RFI" => hostRfi > lastIdr /\ hostRfi # 0
  BY <1>0, <1>3, SentFacts
<1>5. kind # "IDR" => ~IdrComing
  <2>1. kind # "IDR" => lastIdr' = lastIdr BY <1>3 DEF HostSends, Encoded
  <2> QED BY <1>0, <2>1, IdrStays DEF Processed
<1>6. ~idrFrameRequired' BY DEF IdrComing, IdrOnItsWay
\* A frame after an invalidation is not overtaken by an IDR frame that is waited for.
<1>7. kind = "RFI" => ~waitingForIdrFrame /\ idrFrameProcessed /\ RfiEnabled
  <2> HAVE kind = "RFI"
  <2>1. LostFrom(hostRfi) BY <1>4 DEF LostFrom
  <2>2. idrFrameProcessed /\ RfiEnabled BY <1>0, <2>1 DEF Processed
  <2>3. ~waitingForIdrFrame
    BY <1>1, <1>2, <1>4, <1>5, <2>1 DEF InPursuit, NotOvertaken
  <2> QED BY <2>2, <2>3
<1>8. kind = "RFI" => ~waitingForIdrFrame'
  <2>1. dropFrameState \/ UNCHANGED waitingForIdrFrame
    BY DEF Sends, FrameLost, FrameOpens, FrameOpensLate, waiting
  <2> QED BY <1>0, <1>6, <1>7, <2>1, DropWithoutRequest
<1>9. NotOvertaken'
  <2>0. ~Tells BY <1>2, <1>4 DEF Tells, source
  <2>1. \A s : LostFrom(s)' => LostFrom(s) BY <1>0, <2>0, LossesStay
  <2>2. CASE kind = "IDR"
    <3>1. hostRfi' = 0 BY <1>3, <2>2 DEF HostSends, Encoded
    <3>2. ASSUME NEW s, LostFrom(s)' PROVE s <= lastIdr'
      <4>1. UNCHANGED <<range, rfiThread>> /\ (Tuples' = Tuples \/ Tuples' = <<>>)
        BY DEF Sends, FrameLost, FrameOpens, FrameOpensLate, threads, dropFrameState,
           LiRequestIdrFrame, requests, Tuples
      <4>2. s = range[1] \/ \E i \in 1 .. Len(Tuples) : Tuples[i][1] = s
        BY <3>1, <3>2, <4>1 DEF LostFrom, Tuples
      <4>3. s <= startFrameNumber BY <1>0, <4>2 DEF RangesInWindow, InWindow, Tuples
      <4>4. s \in Nat
        <5>1. Tuples \in Seq(Ranges) BY <1>0 DEF TypeOK, LossTypeOK, Ranges, Tuples
        <5>2. range[1] \in Nat BY <1>0, LossAssumption DEF TypeOK, LossTypeOK
        <5> QED BY <4>2, <5>1, <5>2, RangeParts
      <4> QED BY <1>0, <1>2, <1>4, <2>2, <4>3, <4>4 DEF InOrder
    <3> QED BY <3>2 DEF NotOvertaken
  <2>3. CASE kind # "IDR"
    <3>1. lastIdr' = lastIdr BY <1>3, <2>3 DEF HostSends, Encoded
    <3>2. CASE waitingForIdrFrame
      BY <1>1, <1>5, <2>1, <2>3, <3>1, <3>2 DEF InPursuit, NotOvertaken
    <3>3. CASE ~waitingForIdrFrame /\ dropFrameState
      <4>1. waitingForIdrFrame' => ~idrFrameProcessed \/ ~RfiEnabled
        BY <1>0, <1>6, <3>3, DropWithoutRequest
      <4> QED BY <1>0, <2>1, <4>1 DEF NotOvertaken, Processed
    <3>4. CASE ~waitingForIdrFrame /\ UNCHANGED waitingForIdrFrame BY <3>4 DEF NotOvertaken
    <3> QED BY <3>2, <3>3, <3>4 DEF Sends, FrameLost, FrameOpens, FrameOpensLate, waiting
  <2> QED BY <2>2, <2>3
<1>10. CASE FrameLost
  <2>1. UNCHANGED <<nextFrameNumber, recv, frame>> BY <1>10 DEF FrameLost, window
  <2>2. recv # "idle" => frame.n < hostFrame BY <1>0, AtMostNext
  <2>3. Missed' BY <1>0, <1>2, <1>4, <2>1, <2>2 DEF Missed, GapAhead, InOrder
  <2> QED BY <1>9, <2>3 DEF InPursuit
<1>11. CASE FrameOpensLate
  <2>1. CASE reportedLostFrame
    <3>1. recv' = "idle" /\ nextFrameNumber' = nextFrameNumber BY <1>11, <2>1 DEF FrameOpensLate, window
    <3>2. Missed' BY <1>0, <1>2, <1>4, <3>1 DEF Missed, GapAhead, InOrder
    <3> QED BY <1>9, <3>2 DEF InPursuit
  <2>2. CASE ~reportedLostFrame
    <3>1. recv' = "lost" /\ frame'.kind = "none" /\ dropStatePending' = FALSE
      BY <1>0, <1>6, <1>11, <2>2, DropWithoutRequest DEF FrameOpensLate, NoFrame
    <3>2. Pursued' /\ RfiInTime' /\ DropAnswered' BY <3>1 DEF Pursued, RfiInTime, DropAnswered
    <3> QED BY <1>9, <3>2 DEF InPursuit
  <2> QED BY <2>1, <2>2
<1>12. CASE FrameOpens
  <2>0. /\ recv = "idle" /\ frame'.n = hostFrame /\ frame'.kind = kind
        /\ nextFrameNumber' = nextFrameNumber /\ nextFrameNumber <= hostFrame
    BY <1>0, <1>3, <1>4, <1>12 DEF FrameOpens, InOrder, window
  <2>1. RfiInTime' BY <1>8, <2>0 DEF RfiInTime
  <2>2. CASE recv' = "gap"
    <3>1. dropStatePending' = FALSE BY <1>0, <1>6, <1>12, <2>2, DropWithoutRequest DEF FrameOpens
    <3>2. Pursued' /\ DropAnswered' BY <2>2, <3>1 DEF Pursued, DropAnswered
    <3> QED BY <1>9, <2>1, <3>2 DEF InPursuit
  <2>3. CASE recv' = "open"
    <3>0. UNCHANGED <<requests, threads, drops, waitingForIdrFrame, waitingForRefInvalFrame>>
      BY <1>12, <2>3 DEF FrameOpens
    <3>1. CASE Missed
      <4>1. nextFrameNumber' < frame'.n BY <2>0, <3>1 DEF Missed, GapAhead
      <4>2. Pursued' /\ DropAnswered' BY <2>3, <4>1 DEF Pursued, DropAnswered
      <4> QED BY <1>9, <2>1, <4>2 DEF InPursuit
    <3>2. CASE ~Missed
      <4>1. nextFrameNumber' = frame'.n BY <1>2, <2>0, <3>2 DEF Missed, GapAhead
      <4>2. Answered /\ DropAnswered BY <1>1, <2>0, <3>2 DEF InPursuit, Pursued
      <4>3. CASE kind = "IDR"
        <5>1. AnsweredAtHand' BY <2>0, <4>3 DEF AnsweredAtHand
        <5>2. Pursued' /\ DropAnswered' BY <2>0, <2>3, <4>1, <4>3, <5>1 DEF Pursued, DropAnswered
        <5> QED BY <1>9, <2>1, <5>2 DEF InPursuit
      <4>4. CASE kind # "IDR"
        <5>1. ~dropStatePending' /\ ~waitingForIdrFrame'
          BY <1>5, <2>0, <3>0, <4>2, <4>4 DEF Answered, DropAnswered, drops
        <5>2. waitingForRefInvalFrame' => RfiComing' \/ frame'.kind = "RFI"
          <6>1. kind = "P" => hostRfi' = hostRfi BY <1>3 DEF HostSends, Encoded, host
          <6> QED BY <1>5, <2>0, <3>0, <4>2, <4>4, <6>1 DEF Answered, RfiComing, requests, threads
        <5>3. AnsweredAtHand' BY <5>1, <5>2 DEF AnsweredAtHand
        <5>4. Pursued' /\ DropAnswered' BY <2>3, <4>1, <5>1, <5>3 DEF Pursued, DropAnswered
        <5> QED BY <1>9, <2>1, <5>4 DEF InPursuit
      <4> QED BY <4>3, <4>4
    <3> QED BY <3>1, <3>2
  <2> QED BY <1>12, <2>2, <2>3 DEF FrameOpens
<1> QED BY <1>10, <1>11, <1>12 DEF Sends

\* The steps with no frame from the host: it is enough that the flags are left as
\* they are, or that dropFrameState sets none that was not set.
LEMMA StillNotOvertaken ==
  ASSUME RInv, Next, UNCHANGED source, ~terminated', ~IdrComing'
  PROVE  NotOvertaken'
<1>0. TypeOK /\ Processed /\ VInv /\ ~stopping /\ ~LostFrom(0) BY DEF RInv, VInv, Processed
<1>1. ~terminated /\ NotOvertaken BY NeverStopping DEF RInv, InPursuit
<1>2. ~IdrComing /\ lastIdr' = lastIdr BY <1>0, IdrStays DEF source
<1>3. \/ UNCHANGED waitingForIdrFrame
      \/ ReadHeader /\ ~waitingForIdrFrame'
      \/ dropFrameState \/ RefreshWaits \/ LiRequestIdrFrame \/ recv' = "full"
  BY <1>0, FrameStays DEF Next, Receive, Decode, Report, DecoderTakes, RefreshFlushes, RefreshDrops,
     RefreshRequests, NotifyFrameLost, FrameUnrecoverable, FrameStalls, FrameCompletes, CheckSequence,
     ReadHeader, LastPacket, DropUnusable, CheckPendingDrop, SubmitDirectly, SubmitQueued,
     QueueOverflow, waiting, RecvAt
<1>4. ~RefreshWaits /\ ~LiRequestIdrFrame /\ recv' # "full" /\ ~idrFrameRequired'
  BY DEF RefreshWaits, DecoderAt, LiRequestIdrFrame, IdrComing, IdrOnItsWay
<1>5. CASE waitingForIdrFrame /\ waitingForIdrFrame'
  <2>1. ~Tells BY <1>5 DEF Tells
  <2> QED BY <1>0, <1>1, <1>2, <1>5, <2>1, LossesStay DEF NotOvertaken
<1>6. CASE ~waitingForIdrFrame /\ dropFrameState
  <2>1. waitingForIdrFrame' => ~idrFrameProcessed \/ ~RfiEnabled
    BY <1>0, <1>4, <1>6, DropWithoutRequest
  <2>2. Tells => ~waitingForIdrFrame' BY DEF Tells
  <2> QED BY <1>0, <2>1, <2>2, LossesStay DEF NotOvertaken, Processed
<1>7. CASE ~waitingForIdrFrame' BY <1>7 DEF NotOvertaken
<1> QED BY <1>3, <1>4, <1>5, <1>6, <1>7

\* What holds before a step that brings no request: no frame was missed, none that
\* is waited for is coming but after an invalidation.
LEMMA NoneComing ==
  ASSUME RInv, Next, UNCHANGED source, ~terminated', ~IdrComing', ~Missed'
  PROVE  /\ TypeOK /\ InOrder /\ AtFrame /\ KeptBack /\ Processed /\ Settled
         /\ Pursued /\ RfiInTime /\ DropAnswered /\ ~IdrComing /\ ~Missed
         /\ RfiComing => RfiComing'
         /\ ~idrFrameRequired' /\ hostFrame' = hostFrame
         /\ recv # "idle" => frame.n + 1 = hostFrame /\ nextFrameNumber <= frame.n + 1
<1>0. TypeOK /\ InOrder /\ AtFrame /\ KeptBack /\ Processed /\ Settled /\ VInv /\ ~stopping /\ ~LostFrom(0)
  BY DEF RInv, VInv, Processed
<1>1. ~terminated BY NeverStopping
<1>2. ~IdrComing BY <1>0, IdrStays DEF source
<1>3. ~Missed BY <1>0, MissedStays
<1>4. Pursued /\ RfiInTime /\ DropAnswered BY <1>1, <1>3 DEF RInv, InPursuit
<1>5. RfiComing => RfiComing' BY <1>0, RfiStays
<1>6. ~idrFrameRequired' /\ hostFrame' = hostFrame BY DEF IdrComing, IdrOnItsWay, source
<1>7. recv # "idle" => frame.n + 1 = hostFrame /\ nextFrameNumber <= frame.n + 1
  <2> HAVE recv # "idle"
  <2>1. nextFrameNumber <= frame.n + 1 /\ frame.n < hostFrame BY <1>0, AtMostNext
  <2> QED BY <1>0, <1>3, <2>1, Numbers DEF Missed
<1> QED BY <1>0, <1>2, <1>3, <1>4, <1>5, <1>6, <1>7

\* A step that leaves the frame at hand, and what is waited for, as they are.
LEMMA UntouchedInPursuit ==
  ASSUME RInv, Next, UNCHANGED source, ~terminated', ~IdrComing', ~Missed',
         UNCHANGED <<window, waiting, rtp, recv, frame>>, dropStatePending' => dropStatePending
  PROVE  Pursued' /\ RfiInTime' /\ DropAnswered'
<1>1. Pursued /\ RfiInTime /\ DropAnswered /\ ~IdrComing /\ (RfiComing => RfiComing') BY NoneComing
<1>2. UNCHANGED <<nextFrameNumber, waitingForNextSuccessfulFrame, waitingForIdrFrame,
                  waitingForRefInvalFrame, reportedLostFrame, recv, frame, outOfOrder>>
  BY DEF window, waiting, rtp, Next, mode
<1>3. GivenUp' <=> GivenUp BY <1>2 DEF GivenUp
<1>4. (Answered => Answered') /\ (AnsweredAtHand => AnsweredAtHand')
  BY <1>1, <1>2 DEF Answered, AnsweredAtHand
<1>5. Pursued'
  <2>1. recv \in {"open", "first"} =>
          (\/ nextFrameNumber < frame.n
           \/ nextFrameNumber = frame.n /\ (GivenUp \/ AnsweredAtHand)
           \/ Answered)'
    BY <1>1, <1>2, <1>3, <1>4 DEF Pursued
  <2>2. recv = "lost" /\ frame.kind # "none" =>
          (nextFrameNumber < frame.n \/ GivenUp \/ (waitingForIdrFrame => IdrComing \/ frame.kind = "IDR"))'
    BY <1>1, <1>2, <1>3 DEF Pursued
  <2> QED BY <1>1, <1>2, <1>4, <2>1, <2>2 DEF Pursued
<1>6. RfiInTime' BY <1>1, <1>2 DEF RfiInTime
<1>7. DropAnswered' BY <1>1, <1>2 DEF DropAnswered
<1> QED BY <1>5, <1>6, <1>7

LEMMA LossNotifiedInPursuit ==
  ASSUME RInv, Next, UNCHANGED source, ~terminated', ~IdrComing', ~Missed', NotifyFrameLost
  PROVE  Pursued' /\ RfiInTime' /\ DropAnswered'
<1>0. /\ TypeOK /\ AtFrame /\ KeptBack
      /\ Pursued /\ RfiInTime /\ DropAnswered /\ ~IdrComing /\ (RfiComing => RfiComing')
      /\ ~idrFrameRequired' /\ hostFrame' = hostFrame /\ frame.n + 1 = hostFrame
  BY NoneComing DEF NotifyFrameLost, RecvAt
<1>1. /\ frame.n \in Nat /\ nextFrameNumber \in Nat BY <1>0, Numbers
<1>2. UNCHANGED <<waitingForIdrFrame, waitingForRefInvalFrame, dropStatePending, reportedLostFrame,
                  outOfOrder, frame>>
  BY DEF NotifyFrameLost, waiting, drops, rtp, Next, mode
\* No drop the decoder asked for is pending, as that has its request.
<1>3. ~dropStatePending BY <1>0 DEF DropAnswered, NotifyFrameLost, RecvAt
<1>4. DropAnswered' BY <1>2, <1>3 DEF DropAnswered
<1>5. RfiInTime' BY <1>0, <1>2 DEF RfiInTime, NotifyFrameLost, RecvAt
<1>6. CASE waitingForIdrFrame
  <2>1. UNCHANGED nextFrameNumber BY <1>6 DEF NotifyFrameLost, NotifyLoss, window
  <2>2. CASE recv = "gap"
    <3>1. recv' = "open" /\ nextFrameNumber' < frame'.n
      BY <1>0, <1>2, <2>1, <2>2 DEF NotifyFrameLost, RecvAt, AtFrame
    <3>2. Pursued' BY <3>1 DEF Pursued
    <3> QED BY <1>4, <1>5, <3>2
  <2>3. CASE recv = "lost" /\ frame.kind = "none"
    <3>1. recv' = "idle" /\ nextFrameNumber <= frame.n
      BY <1>0, <2>3 DEF NotifyFrameLost, RecvAt, AtFrame
    <3>2. Missed' BY <1>0, <1>1, <2>1, <3>1 DEF Missed, GapAhead
    <3> QED BY <3>2
  <2>4. CASE recv = "lost" /\ frame.kind # "none"
    <3>1. recv' = "open" /\ nextFrameNumber <= frame.n
      BY <1>0, <2>4 DEF NotifyFrameLost, RecvAt, AtFrame
    <3>2. nextFrameNumber < frame.n \/ GivenUp \/ frame.kind = "IDR"
      BY <1>0, <1>6, <2>4 DEF Pursued
    <3>3. GivenUp => GivenUp' BY <1>2 DEF GivenUp
    <3>4. frame.kind = "IDR" => AnsweredAtHand' BY <1>2 DEF AnsweredAtHand
    <3>5. Pursued' BY <1>1, <1>2, <2>1, <3>1, <3>2, <3>3, <3>4 DEF Pursued
    <3> QED BY <1>4, <1>5, <3>5
  <2> QED BY <2>2, <2>3, <2>4 DEF NotifyFrameLost, RecvAt
<1>7. CASE ~waitingForIdrFrame
  <2>1. \E n : connectionDetectedFrameLoss(startFrameNumber, n)
    BY <1>7 DEF NotifyFrameLost, NotifyLoss
  <2>2. \E e : invalidReferenceFrameTuples' = Append(invalidReferenceFrameTuples, e)
    BY <1>0, <2>1 DEF connectionDetectedFrameLoss, QueueTuple
  <2>3. invalidReferenceFrameTuples \in Seq(Ranges) BY <1>0 DEF TypeOK, LossTypeOK, Ranges
  <2>4. invalidReferenceFrameTuples' # <<>> BY <2>2, <2>3, AppendNotEmpty
  <2>5. Answered' BY <1>2, <1>7, <2>4 DEF Answered, RfiComing
  <2>6. recv' \in {"idle", "open"} BY DEF NotifyFrameLost, RecvAt
  <2>7. Pursued' BY <2>5, <2>6 DEF Pursued
  <2> QED BY <1>4, <1>5, <2>7
<1> QED BY <1>6, <1>7

LEMMA UnrecoverableInPursuit ==
  ASSUME RInv, Next, UNCHANGED source, ~terminated', ~IdrComing', ~Missed', FrameUnrecoverable,
         PredictsSafely
  PROVE  Pursued' /\ RfiInTime' /\ DropAnswered'
<1>0. /\ TypeOK /\ InOrder /\ AtFrame /\ Processed
      /\ Pursued /\ RfiInTime /\ DropAnswered /\ ~IdrComing /\ (RfiComing => RfiComing')
      /\ ~idrFrameRequired' /\ hostFrame' = hostFrame
      /\ frame.n + 1 = hostFrame /\ nextFrameNumber <= frame.n + 1
  BY NoneComing DEF FrameUnrecoverable, RecvAt
<1>1. /\ frame.n \in Nat /\ nextFrameNumber \in Nat /\ currentFrameNumber \in Nat BY <1>0, Numbers
<1>2. recv = "open" /\ nextFrameNumber' = nextFrameNumber /\ outOfOrder' = outOfOrder
  BY DEF FrameUnrecoverable, RecvAt, window, Next, mode
<1>3. CASE reportedLostFrame
  <2>1. recv' = "idle" /\ UNCHANGED <<waitingForIdrFrame, waitingForRefInvalFrame, dropStatePending>>
    BY <1>3 DEF FrameUnrecoverable, RecvAt, drops
  <2>2. nextFrameNumber = frame.n + 1 BY <1>0, <1>1, <1>2, <2>1 DEF Missed, GapAhead
  <2>3. ~(nextFrameNumber < frame.n) /\ nextFrameNumber # frame.n BY <1>1, <2>2
  <2>4. Answered /\ ~dropStatePending BY <1>0, <1>2, <2>3 DEF Pursued, DropAnswered
  <2>5. Answered' BY <1>0, <2>1, <2>4 DEF Answered
  <2> QED BY <2>1, <2>4, <2>5 DEF Pursued, RfiInTime, DropAnswered
<1>4. CASE ~reportedLostFrame
  <2>0. /\ recv' = "lost" /\ dropFrameState /\ reportedLostFrame' = TRUE
    BY <1>4 DEF FrameUnrecoverable, RecvAt
  <2>1. DropAnswered' BY <1>0, <2>0, DropWithoutRequest DEF DropAnswered
  <2>2. CASE frame'.kind = "none" BY <2>0, <2>1, <2>2 DEF Pursued, RfiInTime
  <2>3. CASE UNCHANGED frame
    \* Where a loss is predicted in error, an IDR frame is not waited for anew.
    <3>1. idrFrameProcessed /\ RfiEnabled => waitingForIdrFrame' = waitingForIdrFrame
      BY <1>0, <2>0, DropWithoutRequest
    <3>2. RfiInTime' BY <1>0, <1>2, <2>3, <3>1 DEF RfiInTime, Processed
    <3>3. nextFrameNumber < frame.n \/ GivenUp' \/ (waitingForIdrFrame' => frame.kind = "IDR")
      <4> SUFFICES ASSUME ~(nextFrameNumber < frame.n), ~GivenUp', waitingForIdrFrame'
                   PROVE  frame.kind = "IDR"
        OBVIOUS
      <4>1. outOfOrder BY <1>2, <2>0 DEF GivenUp
      <4>2. directSubmit /\ RfiEnabled
        <5>1. <<directSubmit, outOfOrder>> \in Modes BY <1>0 DEF TypeOK, mode
        <5>2. <<directSubmit, outOfOrder>>[2] => <<directSubmit, outOfOrder>>[1] /\ RfiEnabled
          BY <5>1 DEF PredictsSafely
        <5> QED BY <4>1, <5>2
      <4>3. waitingForIdrFrame BY <1>0, <1>2, <3>1, <4>2 DEF Processed
      <4>4. ~GivenUp BY <1>4 DEF GivenUp
      <4>5. AnsweredAtHand \/ Answered BY <1>0, <1>2, <4>4 DEF Pursued
      <4> QED BY <1>0, <4>3, <4>5 DEF Answered, AnsweredAtHand
    <3>4. Pursued' BY <1>2, <2>0, <2>3, <3>3 DEF Pursued
    <3> QED BY <2>1, <3>2, <3>4
  <2> QED BY <1>4, <2>2, <2>3 DEF FrameUnrecoverable, NoFrame
<1> QED BY <1>3, <1>4

\* The frame at hand is left, too early for what is waited for or already reported.
LEMMA LeftInPursuit ==
  ASSUME RInv, Next, UNCHANGED source, ~terminated', ~IdrComing', ~Missed',
         recv \in {"open", "first"}, recv' = "idle",
         UNCHANGED <<nextFrameNumber, waitingForIdrFrame, waitingForRefInvalFrame, dropStatePending>>
  PROVE  Pursued' /\ RfiInTime' /\ DropAnswered'
<1>0. /\ TypeOK /\ Pursued /\ DropAnswered /\ ~IdrComing /\ (RfiComing => RfiComing')
      /\ hostFrame' = hostFrame /\ frame.n + 1 = hostFrame /\ nextFrameNumber <= frame.n + 1
  BY NoneComing
<1>1. /\ frame.n \in Nat /\ nextFrameNumber \in Nat BY <1>0, Numbers
<1>2. nextFrameNumber = frame.n + 1 BY <1>0, <1>1 DEF Missed, GapAhead
<1>3. ~(nextFrameNumber < frame.n) /\ nextFrameNumber # frame.n BY <1>1, <1>2
<1>4. Answered /\ ~dropStatePending BY <1>0, <1>3 DEF Pursued, DropAnswered
<1>5. Answered' BY <1>0, <1>4 DEF Answered
<1> QED BY <1>4, <1>5 DEF Pursued, RfiInTime, DropAnswered

LEMMA CheckedInPursuit ==
  ASSUME RInv, Next, UNCHANGED source, ~terminated', ~IdrComing', ~Missed',
         FrameStalls \/ FrameCompletes \/ CheckSequence
  PROVE  Pursued' /\ RfiInTime' /\ DropAnswered'
<1>0. /\ TypeOK /\ Processed /\ Settled
      /\ Pursued /\ RfiInTime /\ DropAnswered /\ ~IdrComing /\ (RfiComing => RfiComing')
      /\ ~idrFrameRequired'
  BY NoneComing
<1>1. /\ frame.n \in Nat /\ nextFrameNumber \in Nat BY <1>0, Numbers
<1>2. CASE FrameStalls
  BY <1>2, LeftInPursuit DEF FrameStalls, RecvAt, lossVars, window, waiting, drops
<1>3. CASE FrameCompletes
  <2>1. /\ recv = "open" /\ recv' = "first"
        /\ UNCHANGED <<nextFrameNumber, waitingForIdrFrame, waitingForRefInvalFrame, dropStatePending,
                       reportedLostFrame, frame, outOfOrder>>
    BY <1>3 DEF FrameCompletes, RecvAt, lossVars, window, waiting, drops, rtp, Next, mode
  <2>2. GivenUp => GivenUp' BY <2>1 DEF GivenUp
  <2>3. (Answered => Answered') /\ (AnsweredAtHand => AnsweredAtHand')
    BY <1>0, <2>1 DEF Answered, AnsweredAtHand
  <2>4. (\/ nextFrameNumber < frame.n
         \/ nextFrameNumber = frame.n /\ (GivenUp \/ AnsweredAtHand)
         \/ Answered)'
    BY <1>0, <2>1, <2>2, <2>3 DEF Pursued
  <2>5. Pursued' BY <2>1, <2>4 DEF Pursued
  <2> QED BY <1>0, <2>1, <2>5 DEF RfiInTime, DropAnswered
<1>4. CASE CheckSequence
  <2>0. recv = "first" /\ UNCHANGED frame BY <1>4 DEF CheckSequence, RecvAt
  <2>1. CASE recv' = "idle"
    BY <1>4, <2>0, <2>1, LeftInPursuit DEF CheckSequence, RecvAt, waiting, drops
  <2>2. CASE /\ frame.n = nextFrameNumber /\ recv' = "header"
             /\ UNCHANGED <<nextFrameNumber, waiting, drops>>
    <3>1. UNCHANGED <<waitingForIdrFrame, waitingForRefInvalFrame, dropStatePending>>
      BY <2>2 DEF waiting, drops
    <3>2. AnsweredAtHand \/ Answered BY <1>0, <1>1, <2>0, <2>2 DEF Pursued, Settled
    <3>3. AnsweredAtHand' BY <1>0, <2>0, <3>1, <3>2 DEF Answered, AnsweredAtHand
    <3>4. DropAnswered' BY <1>0, <1>1, <2>0, <2>2, <3>1 DEF DropAnswered
    <3> QED BY <1>0, <2>0, <2>2, <3>1, <3>3, <3>4 DEF Pursued, RfiInTime
  <2>3. CASE recv' = "header" /\ waitingForNextSuccessfulFrame' = TRUE /\ dropFrameState
    <3>1. /\ dropStatePending' = FALSE
          /\ idrFrameProcessed /\ RfiEnabled => waitingForIdrFrame' = waitingForIdrFrame
      BY <1>0, <2>3, DropWithoutRequest
    <3>2. RfiInTime' BY <1>0, <2>0, <3>1 DEF RfiInTime, Processed
    <3> QED BY <2>3, <3>1, <3>2 DEF Pursued, DropAnswered
  <2> QED BY <1>4, <2>1, <2>2, <2>3 DEF CheckSequence, RecvAt
<1> QED BY <1>2, <1>3, <1>4

LEMMA PacketsInPursuit ==
  ASSUME RInv, Next, UNCHANGED source, ~terminated', ~IdrComing', ~Missed',
         ReadHeader \/ LastPacket
  PROVE  Pursued' /\ RfiInTime' /\ DropAnswered'
<1>0. /\ TypeOK /\ Pursued /\ RfiInTime /\ DropAnswered /\ ~IdrComing /\ (RfiComing => RfiComing')
      /\ ~idrFrameRequired'
  BY NoneComing
<1>1. CASE ReadHeader
  <2>1. recv = "header" /\ recv' = "last" /\ UNCHANGED <<frame, dropStatePending>>
    BY <1>1 DEF ReadHeader, RecvAt, drops
  <2>2. waitingForNextSuccessfulFrame' \/ ~waitingForIdrFrame'
    <3>1. CASE frame.kind = "IDR" BY <1>1, <3>1 DEF ReadHeader
    <3>2. CASE frame.kind = "RFI"
      <4>1. ~waitingForIdrFrame BY <1>0, <2>1, <3>2 DEF RfiInTime
      <4> QED BY <1>1, <3>2, <4>1 DEF ReadHeader, waiting
    <3>3. CASE frame.kind = "P"
      BY <1>0, <1>1, <2>1, <3>3 DEF ReadHeader, waiting, Pursued, AnsweredAtHand
    <3> QED BY <1>1, <3>1, <3>2, <3>3 DEF ReadHeader
  <2>3. DropAnswered' BY <1>0, <2>1 DEF DropAnswered
  <2> QED BY <2>1, <2>2, <2>3 DEF Pursued, RfiInTime
<1>2. CASE LastPacket
  <2>1. recv = "last" /\ UNCHANGED <<frame, waitingForIdrFrame, waitingForRefInvalFrame, dropStatePending>>
    BY <1>2 DEF LastPacket, RecvAt, drops
  <2>2. CASE recv' = "pending" /\ ~waitingForIdrFrame /\ ~waitingForRefInvalFrame
    BY <1>0, <2>1, <2>2 DEF Pursued, RfiInTime, DropAnswered
  <2>3. CASE recv' = "drop" /\ ReportUnusable
    <3>1. ~waitingForIdrFrame
      BY <1>0, <2>1, <2>3 DEF ReportUnusable, LiRequestIdrFrame, Pursued
    <3>2. \E e : invalidReferenceFrameTuples' = Append(invalidReferenceFrameTuples, e)
      BY <1>0, <2>3, <3>1 DEF ReportUnusable, connectionDetectedFrameLoss, QueueTuple
    <3>3. invalidReferenceFrameTuples \in Seq(Ranges) BY <1>0 DEF TypeOK, LossTypeOK, Ranges
    <3>4. invalidReferenceFrameTuples' # <<>> BY <3>2, <3>3, AppendNotEmpty
    <3>5. Answered' BY <2>1, <3>1, <3>4 DEF Answered, RfiComing
    <3> QED BY <2>3, <3>5 DEF Pursued, RfiInTime, DropAnswered
  <2> QED BY <1>2, <2>2, <2>3 DEF LastPacket, RecvAt
<1> QED BY <1>1, <1>2

LEMMA FinishedInPursuit ==
  ASSUME RInv, Next, UNCHANGED source, ~terminated', ~IdrComing', ~Missed',
         DropUnusable \/ CheckPendingDrop \/ SubmitDirectly \/ SubmitQueued \/ QueueOverflow
  PROVE  Pursued' /\ RfiInTime' /\ DropAnswered'
<1>0. /\ TypeOK /\ KeptBack /\ Processed /\ Settled
      /\ Pursued /\ DropAnswered /\ ~IdrComing /\ (RfiComing => RfiComing')
      /\ ~idrFrameRequired' /\ ~LiRequestIdrFrame
  BY NoneComing DEF LiRequestIdrFrame
<1>1. CASE DropUnusable
  <2>1. recv = "drop" /\ recv' = "idle" /\ dropFrameState BY <1>1 DEF DropUnusable, RecvAt
  <2>2. ~waitingForIdrFrame /\ RfiComing /\ waitingForRefInvalFrame
    BY <1>0, <2>1 DEF Pursued, Answered, KeptBack, Kept
  <2>3. dropStatePending' = FALSE /\ ~waitingForIdrFrame'
    BY <1>0, <2>1, <2>2, DropWithoutRequest DEF Processed
  <2> QED BY <1>0, <2>1, <2>2, <2>3 DEF Pursued, Answered, RfiInTime, DropAnswered
<1>2. CASE CheckPendingDrop
  <2>1. recv = "pending" /\ UNCHANGED frame /\ ~waitingForIdrFrame
    BY <1>0, <1>2 DEF CheckPendingDrop, RecvAt, Pursued
  <2>2. dropStatePending => frame.kind = "IDR" BY <1>0, <2>1 DEF DropAnswered
  <2>3. recv' = "submit" /\ dropStatePending' = FALSE /\ ~waitingForIdrFrame'
    BY <1>0, <1>2, <2>1, <2>2 DEF CheckPendingDrop, RecvAt, drops, TypeOK
  <2> QED BY <2>3 DEF Pursued, RfiInTime, DropAnswered
<1>3. CASE SubmitDirectly \/ SubmitQueued
  <2>1. recv = "submit" /\ recv' \in {"idle", "full"}
    BY <1>3 DEF SubmitDirectly, SubmitQueued, RecvAt
  <2>2. recv' = "idle" BY <2>1 DEF IdrComing
  <2>3. ~waitingForIdrFrame /\ ~waitingForRefInvalFrame /\ ~dropStatePending
    BY <1>0, <2>1 DEF Pursued, Settled, DropAnswered
  <2>4. UNCHANGED <<waitingForIdrFrame, waitingForRefInvalFrame, dropStatePending>>
    BY <1>0, <1>3, <2>2 DEF SubmitDirectly, SubmitQueued, RecvAt
  <2> QED BY <2>2, <2>3, <2>4 DEF Pursued, Answered, RfiInTime, DropAnswered
<1>4. CASE QueueOverflow
  <2>1. recv \in {"full", "flush"} BY <1>4 DEF QueueOverflow, RecvAt
  <2> QED BY <1>0, <2>1 DEF IdrComing
<1> QED BY <1>1, <1>2, <1>3, <1>4

LEMMA OthersInPursuit ==
  ASSUME RInv, Next, UNCHANGED source, ~terminated', ~IdrComing', ~Missed', Decode \/ Report
  PROVE  Pursued' /\ RfiInTime' /\ DropAnswered'
<1>1. decoder' = "wait" /\ ~LiRequestIdrFrame
  BY DEF IdrComing, IdrOnItsWay, LiRequestIdrFrame
<1>2. DecoderTakes \/ Report
  BY <1>1 DEF Decode, RefreshWaits, RefreshFlushes, RefreshDrops, RefreshRequests, DecoderAt
<1>3. UNCHANGED <<window, waiting, rtp, recv, frame, dropStatePending>>
  BY <1>2 DEF DecoderTakes, Report, lossVars, drops
<1> QED BY <1>3, UntouchedInPursuit

LEMMA NextInPursuit ==
  ASSUME RInv, Next, PredictsSafely, ~terminated'
  PROVE  InPursuit'
<1>1. CASE IdrComing'
  BY <1>1 DEF InPursuit, NotOvertaken, Pursued, RfiInTime, DropAnswered, Answered, AnsweredAtHand
<1>2. CASE ~IdrComing' /\ Sends BY <1>2, SentInPursuit
<1>3. CASE ~IdrComing' /\ ~Sends
  <2>1. UNCHANGED source
    <3>1. VInv BY DEF RInv
    <3> QED BY <1>3, <3>1, StepKinds DEF Silent, Tells, Report
  <2>2. NotOvertaken' BY <1>3, <2>1, StillNotOvertaken
  <2>3. CASE ~Missed'
    <3>1. ~FrameLost /\ ~FrameOpens /\ ~FrameOpensLate BY <2>1, FrameStays DEF RInv
    <3>2. Pursued' /\ RfiInTime' /\ DropAnswered'
      BY <1>3, <2>1, <2>3, <3>1, LossNotifiedInPursuit, UnrecoverableInPursuit, CheckedInPursuit,
         PacketsInPursuit, FinishedInPursuit, OthersInPursuit
      DEF Next, Receive
    <3> QED BY <2>2, <3>2 DEF InPursuit
  <2> QED BY <2>2, <2>3 DEF InPursuit
<1> QED BY <1>1, <1>2, <1>3

LEMMA InitRInv == Init => RInv
<1> SUFFICES ASSUME Init PROVE RInv OBVIOUS
<1>1. VInv BY InitVInv
<1>2. 1 .. Len(<<>>) = {} OBVIOUS
<1>3. \A s : ~LostFrom(s) BY <1>2 DEF Init, LossInit, LostFrom
<1>4. IdrComing BY DEF Init, LossInit, IdrComing, HostWillSendIdr
<1>5. Processed BY <1>3 DEF Init, LossInit, Processed, NoFrame
<1>6. ~stopping /\ Settled BY DEF Init, LossInit, Settled
<1> QED BY <1>1, <1>4, <1>5, <1>6, IdrSuffices DEF RInv

LEMMA NextRInv ==
  ASSUME PredictsSafely, RInv, [Next]_videoVars
  PROVE  RInv'
<1>1. VInv' BY NextVInv DEF RInv
<1>2. CASE Next
  <2>1. ~stopping' /\ Processed' /\ Settled'
    BY <1>2, NeverStopping, NextProcessed, NextSettled DEF RInv
  <2> QED BY <1>1, <1>2, <2>1, NextInPursuit DEF RInv
<1>3. CASE UNCHANGED videoVars
  <2>1. UNCHANGED <<idrFrameRequired, invalidReferenceFrameTuples, startFrameNumber,
                    nextFrameNumber, idrThread, rfiThread, range, stopping, terminated, hostIdr,
                    hostRfi, directSubmit, outOfOrder>>
    BY <1>3 DEF videoVars, lossVars, reports, requests, window, threads, stopper, host, mode
  <2>2. UNCHANGED <<waitingForNextSuccessfulFrame, waitingForIdrFrame, waitingForRefInvalFrame,
                    dropStatePending, reportedLostFrame,
                    recv, frame, decodeUnitQueue, decoder, hostFrame, lastIdr, idrFrameProcessed>>
    BY <1>3 DEF videoVars, waiting, drops, rtp, source, decoding
  <2>3. \A s : LostFrom(s)' <=> LostFrom(s) BY <2>1 DEF LostFrom
  <2>4. /\ IdrComing' <=> IdrComing
        /\ RfiComing' <=> RfiComing
        /\ Missed' <=> Missed
        /\ GivenUp' <=> GivenUp
    BY <2>1, <2>2 DEF IdrComing, IdrOnItsWay, HostWillSendIdr, RfiComing, Missed, GapAhead, GivenUp
  <2>5. (Answered' <=> Answered) /\ (AnsweredAtHand' <=> AnsweredAtHand)
    BY <2>2, <2>4 DEF Answered, AnsweredAtHand
  <2>6. Processed' /\ Settled' BY <2>1, <2>2, <2>3, <2>4 DEF RInv, Processed, Settled
  <2>7. /\ NotOvertaken => NotOvertaken'
        /\ RfiInTime => RfiInTime'
        /\ DropAnswered => DropAnswered'
    BY <2>1, <2>2, <2>3, <2>4 DEF NotOvertaken, RfiInTime, DropAnswered
  <2>8. Pursued => Pursued' BY <2>1, <2>2, <2>4, <2>5 DEF Pursued
  <2> QED BY <1>1, <2>1, <2>4, <2>6, <2>7, <2>8 DEF RInv, InPursuit
<1> QED BY <1>2, <1>3

(***************************************************************************)
(* The stream never waits for a frame nobody will send, for any number of  *)
(* frames, any sizes of the queues and any drop limit, in every mode in    *)
(* which no loss is predicted in error but where the decoder runs on the   *)
(* receive thread and references can be invalidated: whatever is waited    *)
(* for was asked of the host, or the next frame shows a loss.  In the      *)
(* other modes it is false: a frame completes after its loss was reported, *)
(* and is dropped with no request.                                         *)
(***************************************************************************)
THEOREM RecoveryIsPending == PredictsSafely => (Spec => []RecoveryPending)
<1> SUFFICES ASSUME PredictsSafely PROVE Spec => []RecoveryPending OBVIOUS
<1>1. RInv => RecoveryPending
  <2> SUFFICES ASSUME RInv, Quiet, ~terminated, ~GapAhead, ~IdrOnItsWay, ~HostWillSendIdr,
                      waitingForIdrFrame \/ waitingForRefInvalFrame
               PROVE  ~waitingForIdrFrame /\ RfiComing
    BY DEF RecoveryPending, RfiComing
  <2>1. ~IdrComing /\ ~Missed BY DEF Quiet, IdrComing, Missed
  <2>2. Answered BY <2>1 DEF RInv, InPursuit, Pursued, Quiet
  <2> QED BY <2>1, <2>2 DEF Answered
<1>2. RInv /\ [Next]_videoVars => RInv' BY NextRInv
<1> QED BY <1>1, <1>2, InitRInv, PTL DEF Spec
=============================================================================
