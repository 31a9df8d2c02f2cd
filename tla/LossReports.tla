---------------------------- MODULE LossReports ----------------------------
(***************************************************************************)
(* How ControlStream.c tells the host that video frames were lost.  The    *)
(* video threads report ranges of lost frames (connectionDetectedFrameLoss)*)
(* or ask for an IDR frame (LiRequestIdrFrame); a range is queued for the  *)
(* thread of invalidateRefFramesFunc, which merges what is queued into one *)
(* request, an IDR request sets an event the thread of requestIdrFrameFunc *)
(* waits for, and makes every queued range redundant.  stopControlStream   *)
(* stops both threads, after the video threads are joined.                 *)
(*                                                                         *)
(* The queue of ranges is a linked blocking queue (module BoundedFifo);    *)
(* the host acts on the requests it received when it encodes a frame.      *)
(***************************************************************************)
EXTENDS Naturals, Sequences

CONSTANTS MaxFrame,    \* bound of the model: frames are 1 .. MaxFrame
          RfiEnabled,  \* isReferenceFrameInvalidationEnabled()
          RfiBound     \* size of invalidReferenceFrameTuples (20)

ASSUME LossAssumption ==
  MaxFrame \in Nat \ {0} /\ RfiEnabled \in BOOLEAN /\ RfiBound \in Nat \ {0}

Frames == 1 .. MaxFrame

VARIABLES idrFrameRequired,             \* idrFrameRequiredEvent is signalled
          invalidReferenceFrameTuples,  \* ranges <<start, end>>, oldest first
          startFrameNumber, nextFrameNumber,  \* the depacketizer's window of loss
          idrThread, rfiThread,         \* where the two threads are
          range,                        \* startFrame and endFrame of the RFI thread
          stopping, stop,               \* the flag, and where stopControlStream is
          terminated,                   \* connectionTerminated was called
          hostIdr,                      \* the host received an IDR request
          hostRfi,                      \* the first frame it was told is invalid, or 0
          unanswered                    \* lost frames the host does not know of yet

requests == <<idrFrameRequired, invalidReferenceFrameTuples, unanswered>>
window == <<startFrameNumber, nextFrameNumber>>
threads == <<idrThread, rfiThread, range>>
stopper == <<stopping, stop>>
host == <<hostIdr, hostRfi>>
reports == <<requests, threads, stopper, terminated, host>>
lossVars == <<reports, window>>

LossTypeOK ==
  /\ idrFrameRequired \in BOOLEAN /\ terminated \in BOOLEAN /\ hostIdr \in BOOLEAN
  /\ invalidReferenceFrameTuples \in Seq((0 .. MaxFrame) \X Frames)
  /\ Len(invalidReferenceFrameTuples) <= RfiBound
  /\ startFrameNumber \in 0 .. MaxFrame + 1 /\ nextFrameNumber \in 1 .. MaxFrame + 1
  /\ idrThread \in {"wait", "clear", "test", "flush", "send", "exited"}
  /\ rfiThread \in {"wait", "merge", "send", "exited"}
  /\ range \in (0 .. MaxFrame) \X (0 .. MaxFrame)
  /\ stopping \in BOOLEAN /\ stop \in {"none", "shutdown", "event", "join", "done"}
  /\ hostRfi \in 0 .. MaxFrame
  /\ unanswered \subseteq Frames

\* initializeControlStream, startControlStream, initializeVideoDepacketizer.
LossInit ==
  /\ idrFrameRequired = FALSE /\ invalidReferenceFrameTuples = <<>>
  /\ startFrameNumber = 0 /\ nextFrameNumber = 1
  /\ idrThread = "wait" /\ rfiThread = (IF RfiEnabled THEN "wait" ELSE "exited")
  /\ range = <<0, 0>>
  /\ stopping = FALSE /\ stop = "none" /\ terminated = FALSE
  /\ hostIdr = TRUE /\ hostRfi = 0    \* a stream begins with an IDR frame
  /\ unanswered = {}

-----------------------------------------------------------------------------
\* Plausible slips, each the `as' of a mutant.
FlushOnly == invalidReferenceFrameTuples' = <<>> /\ UNCHANGED <<idrFrameRequired, unanswered>>
AtFront(s, e) == invalidReferenceFrameTuples' = <<<<s, e>>>> \o invalidReferenceFrameTuples
NoEventOnStop == UNCHANGED idrFrameRequired
OneMoreFits == Len(invalidReferenceFrameTuples) <= RfiBound

-----------------------------------------------------------------------------
\* The flush and the event are one step: only the caller's own later reports
\* could tell them apart, and no thread acts on the one without the other.
LiRequestIdrFrame ==
  /\ invalidReferenceFrameTuples' = <<>>
  /\ idrFrameRequired' = TRUE
  /\ UNCHANGED unanswered

TupleFits == Len(invalidReferenceFrameTuples) < RfiBound
QueueTuple(s, e) == invalidReferenceFrameTuples' = Append(invalidReferenceFrameTuples, <<s, e>>)

\* queueFrameInvalidationTuple: when there is no room, no memory or no RFI, the
\* host has to send an IDR frame.
connectionDetectedFrameLoss(s, e) ==
  LET lost == unanswered \union ((s .. e) \intersect Frames)
  IN  \/ /\ RfiEnabled /\ TupleFits
         /\ QueueTuple(s, e)
         /\ unanswered' = lost
         /\ UNCHANGED idrFrameRequired
      \/ /\ invalidReferenceFrameTuples' = <<>> /\ idrFrameRequired' = TRUE
         /\ unanswered' = lost

-----------------------------------------------------------------------------
IdrThreadAt(from, to) == idrThread = from /\ idrThread' = to
RfiThreadAt(from, to) == rfiThread = from /\ rfiThread' = to

PltWaitForEvent ==
  /\ IdrThreadAt("wait", "clear") /\ idrFrameRequired
  /\ UNCHANGED <<requests, rfiThread, range, stopper, terminated, host>>

\* PltClearEvent takes no lock.
PltClearEvent ==
  /\ IdrThreadAt("clear", "test")
  /\ idrFrameRequired' = FALSE
  /\ UNCHANGED <<invalidReferenceFrameTuples, unanswered, rfiThread, range, stopper, terminated, host>>

TestStopping ==
  /\ IdrThreadAt("test", IF stopping THEN "exited" ELSE "flush")
  /\ UNCHANGED <<requests, rfiThread, range, stopper, terminated, host>>

DropRedundantTuples ==
  /\ IdrThreadAt("flush", "send")
  /\ invalidReferenceFrameTuples' = <<>>
  /\ UNCHANGED <<idrFrameRequired, unanswered, rfiThread, range, stopper, terminated, host>>

\* The request is sent reliably, or the connection is reported lost.  After it
\* the thread leaves its loop if it was interrupted.
requestIdrFrame ==
  /\ IdrThreadAt("send", IF stop \in {"join", "done"} THEN "exited" ELSE "wait")
  /\ \/ hostIdr' = TRUE /\ unanswered' = {} /\ UNCHANGED terminated
     \/ terminated' = TRUE /\ UNCHANGED <<hostIdr, unanswered>>
  /\ UNCHANGED <<idrFrameRequired, invalidReferenceFrameTuples, rfiThread, range, stopper, hostRfi>>

TuplesShutDown == stop \notin {"none", "shutdown"}

\* LbqWaitForQueueElement: interrupted by the shutdown, or the oldest range.
WaitForTuple ==
  /\ \/ /\ RfiThreadAt("wait", "exited") /\ TuplesShutDown
        /\ UNCHANGED <<invalidReferenceFrameTuples, range>>
     \/ /\ RfiThreadAt("wait", "merge") /\ ~TuplesShutDown
        /\ invalidReferenceFrameTuples # <<>>
        /\ range' = Head(invalidReferenceFrameTuples)
        /\ invalidReferenceFrameTuples' = Tail(invalidReferenceFrameTuples)
  /\ UNCHANGED <<idrFrameRequired, unanswered, idrThread, stopper, terminated, host>>

\* The do loop: every range that is queued extends the end of the first one.
MergeTuples ==
  /\ \/ /\ RfiThreadAt("merge", "merge") /\ ~TuplesShutDown
        /\ invalidReferenceFrameTuples # <<>>
        /\ range' = <<range[1], Head(invalidReferenceFrameTuples)[2]>>
        /\ invalidReferenceFrameTuples' = Tail(invalidReferenceFrameTuples)
     \/ /\ RfiThreadAt("merge", "send")
        /\ invalidReferenceFrameTuples = <<>> \/ TuplesShutDown
        /\ UNCHANGED <<range, invalidReferenceFrameTuples>>
  /\ UNCHANGED <<idrFrameRequired, unanswered, idrThread, stopper, terminated, host>>

\* Of several requests the host has not acted on, the earliest frame counts.
requestInvalidateReferenceFrames ==
  /\ RfiThreadAt("send", IF stop = "done" THEN "exited" ELSE "wait")
  /\ \/ /\ hostRfi' = IF hostRfi = 0 \/ range[1] < hostRfi THEN range[1] ELSE hostRfi
        /\ unanswered' = unanswered \ (range[1] .. range[2])
        /\ UNCHANGED terminated
     \/ terminated' = TRUE /\ UNCHANGED <<hostRfi, unanswered>>
  /\ range' = <<0, 0>>
  /\ UNCHANGED <<idrFrameRequired, invalidReferenceFrameTuples, idrThread, stopper, hostIdr>>

IdrThreadStep == PltWaitForEvent \/ PltClearEvent \/ TestStopping \/ DropRedundantTuples \/ requestIdrFrame
RfiThreadStep == WaitForTuple \/ MergeTuples \/ requestInvalidateReferenceFrames

-----------------------------------------------------------------------------
StopSetsEvent == idrFrameRequired' = TRUE

\* stopControlStream: the flag, the shutdown of the queue, the event, the
\* interrupts; then it joins the IDR thread, and the RFI thread after it.
stopControlStream ==
  /\ \/ stop = "none" /\ stop' = "shutdown" /\ stopping' = TRUE /\ UNCHANGED idrFrameRequired
     \/ stop = "shutdown" /\ stop' = "event" /\ UNCHANGED <<stopping, idrFrameRequired>>
     \/ stop = "event" /\ stop' = "join" /\ StopSetsEvent /\ UNCHANGED stopping
     \/ stop = "join" /\ idrThread = "exited" /\ stop' = "done" /\ UNCHANGED <<stopping, idrFrameRequired>>
  /\ UNCHANGED <<invalidReferenceFrameTuples, unanswered, threads, terminated, host>>

\* The video threads, as VideoDepacketizer models them in detail: a frame is
\* lost after those that were seen, one is submitted, the decoder needs an IDR.
VideoThreads ==
  /\ stop = "none"
  /\ \/ \E f \in Frames : /\ f >= nextFrameNumber /\ nextFrameNumber' = f + 1
                          /\ \/ /\ startFrameNumber # 0
                                /\ connectionDetectedFrameLoss(startFrameNumber, f)
                                /\ UNCHANGED startFrameNumber
                             \/ startFrameNumber' = f + 1 /\ UNCHANGED requests
     \/ LiRequestIdrFrame /\ UNCHANGED window
  /\ UNCHANGED <<threads, stopper, terminated, host>>

HostEncodes ==
  /\ host # <<FALSE, 0>> /\ hostIdr' = FALSE /\ hostRfi' = 0
  /\ UNCHANGED <<requests, window, threads, stopper, terminated>>

LossNext == \/ VideoThreads
            \/ IdrThreadStep /\ UNCHANGED window
            \/ RfiThreadStep /\ UNCHANGED window
            \/ stopControlStream /\ UNCHANGED window
            \/ HostEncodes

LossSpec == LossInit /\ [][LossNext]_lossVars

\* The two threads run, and a stop that was begun continues.
LossFairness ==
  /\ WF_lossVars(IdrThreadStep /\ UNCHANGED window)
  /\ WF_lossVars(RfiThreadStep /\ UNCHANGED window)
  /\ WF_lossVars(stopControlStream /\ stop # "none" /\ UNCHANGED window)

FairLossSpec == LossSpec /\ LossFairness

-----------------------------------------------------------------------------
IdrOnItsWay == idrFrameRequired \/ idrThread \in {"clear", "test", "flush", "send"}

Covers(t, f) == t[1] <= f /\ f <= t[2]

(***************************************************************************)
(* No report of a lost frame is dropped: until the host is told of it, the *)
(* frame is in a queued range, in the range being merged, or an IDR        *)
(* request is on its way, which makes the report redundant.  Each flush of *)
(* the queue, and the clearing of an event that was set again, could break *)
(* it.                                                                     *)
(***************************************************************************)
LossAccounted ==
  ~terminated /\ ~stopping => \A f \in unanswered :
    \/ IdrOnItsWay
    \/ \E i \in DOMAIN invalidReferenceFrameTuples : Covers(invalidReferenceFrameTuples[i], f)
    \/ rfiThread # "wait" /\ Covers(range, f)

(***************************************************************************)
(* The assertion of invalidateRefFramesFunc: the ends of the ranges never  *)
(* decrease, so that the last one is the end of the merged range.          *)
(***************************************************************************)
RangesGrow ==
  LET q == invalidReferenceFrameTuples
  IN  /\ \A i, j \in DOMAIN q : i < j => q[i][2] <= q[j][2]
      /\ \A i \in DOMAIN q : range[2] <= q[i][2] /\ q[i][1] <= q[i][2]
      /\ range[1] <= range[2]

(***************************************************************************)
(* The host is told of every loss that was reported, by a range or by an   *)
(* IDR request, unless the connection ends first.                          *)
(***************************************************************************)
LossAnswered ==
  \A f \in Frames : f \in unanswered ~> (f \notin unanswered \/ terminated \/ stopping)

(***************************************************************************)
(* stopControlStream can join its threads: the event it sets last is not   *)
(* consumed by the IDR thread without the flag being seen.                 *)
(***************************************************************************)
ThreadsExit == stopping ~> (idrThread = "exited" /\ rfiThread = "exited" /\ stop = "done")
=============================================================================
