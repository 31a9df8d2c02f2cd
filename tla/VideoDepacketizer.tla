------------------------- MODULE VideoDepacketizer -------------------------
(***************************************************************************)
(* What becomes of the frames of a video stream in which frames are lost:  *)
(*   - the video receive thread: the frame level of RtpVideoQueue.c (which *)
(*     frame is current, when a loss is noticed) and VideoDepacketizer.c   *)
(*     (what is dropped, what is asked of the host, what is submitted);    *)
(*   - the decoder thread, which takes frames off decodeUnitQueue and may  *)
(*     answer DR_NEED_IDR; with directSubmit the receive thread decodes;   *)
(*   - the two threads of ControlStream.c: module LossReports;             *)
(*   - the host (external): a frame refers to the one before it, an IDR    *)
(*     frame to none, a frame after an invalidation to the last frame      *)
(*     before the invalid ones.                                            *)
(* A frame is one unit, except that the receive thread takes the steps of  *)
(* processRtpPayload one by one wherever the decoder thread shares what    *)
(* they read or write.  H.264 or HEVC, and a host whose frame header       *)
(* gives the frame's type (version 7.1.350 and later), are assumed.        *)
(***************************************************************************)
EXTENDS LossReports

CONSTANTS QueueBound,    \* size of decodeUnitQueue (15)
          DropLimit,     \* CONSECUTIVE_DROP_LIMIT (120)
          Modes,         \* pairs of: CAPABILITY_DIRECT_SUBMIT of the renderer, and
                         \* whether packets are reordered: a loss is predicted in error
          MaxFailures    \* bound of the model: how often the decoder fails

ASSUME VideoAssumption ==
  /\ Modes \subseteq BOOLEAN \X BOOLEAN /\ QueueBound \in Nat \ {0}
  /\ DropLimit \in Nat \ {0} /\ MaxFailures \in Nat

VARIABLES directSubmit, outOfOrder,
          waitingForNextSuccessfulFrame, waitingForIdrFrame, waitingForRefInvalFrame,
          dropStatePending, idrFrameProcessed, consecutiveFrameDrops,
          currentFrameNumber, reportedLostFrame,   \* of the RtpVideoQueue
          recv, frame,      \* where the receive thread is, and the frame it is at
          decodeUnitQueue,  \* frames, oldest first
          decoder,          \* where the decoder thread is
          hostFrame,        \* the number of the next frame the host sends
          lastIdr,          \* the number of the last IDR frame it sent
          intact,           \* frames the decoder has, of which later ones may refer
          broken,           \* it was given a frame that refers to another one
          failures          \* how often it failed

mode == <<directSubmit, outOfOrder>>
waiting == <<waitingForNextSuccessfulFrame, waitingForIdrFrame, waitingForRefInvalFrame>>
drops == <<dropStatePending, consecutiveFrameDrops>>
rtp == <<currentFrameNumber, reportedLostFrame>>
source == <<hostFrame, lastIdr>>
decoding == <<intact, broken, failures, idrFrameProcessed>>
videoVars == <<lossVars, mode, waiting, drops, rtp, recv, frame, decodeUnitQueue, decoder, source, decoding>>

\* The number of a frame, its kind and the frame it refers to (0: none).
FrameType == [n : Frames, kind : {"P", "IDR", "RFI"}, ref : 0 .. MaxFrame]
NoFrame == [n |-> 0, kind |-> "none", ref |-> 0]

TypeOK ==
  /\ LossTypeOK /\ mode \in Modes
  /\ waitingForNextSuccessfulFrame \in BOOLEAN
  /\ waitingForIdrFrame \in BOOLEAN /\ waitingForRefInvalFrame \in BOOLEAN
  /\ dropStatePending \in BOOLEAN /\ consecutiveFrameDrops \in 0 .. DropLimit - 1
  /\ currentFrameNumber \in 1 .. MaxFrame + 1 /\ reportedLostFrame \in BOOLEAN
  /\ recv \in {"idle", "gap", "open", "lost", "first", "header", "last", "drop",
               "pending", "submit", "full", "flush"}
  /\ frame \in [n : 0 .. MaxFrame, kind : {"P", "IDR", "RFI", "none"}, ref : 0 .. MaxFrame]
  /\ decodeUnitQueue \in Seq(FrameType) /\ Len(decodeUnitQueue) <= QueueBound
  /\ decoder \in {"wait", "decode", "flush", "pending", "request"}
  /\ hostFrame \in 1 .. MaxFrame + 1 /\ lastIdr \in 0 .. MaxFrame
  /\ intact \subseteq Frames /\ broken \in BOOLEAN
  /\ failures \in 0 .. MaxFailures /\ idrFrameProcessed \in BOOLEAN

\* initializeVideoDepacketizer leaves consecutiveFrameDrops as it was.
Init ==
  /\ LossInit
  /\ \E m \in Modes : directSubmit = m[1] /\ outOfOrder = m[2]
  /\ waitingForNextSuccessfulFrame = FALSE /\ waitingForIdrFrame = TRUE
  /\ waitingForRefInvalFrame = FALSE
  /\ dropStatePending = FALSE /\ idrFrameProcessed = FALSE
  /\ consecutiveFrameDrops \in 0 .. DropLimit - 1
  /\ currentFrameNumber = 1 /\ reportedLostFrame = FALSE
  /\ recv = "idle" /\ frame = NoFrame
  /\ decodeUnitQueue = <<>> /\ decoder = "wait"
  /\ hostFrame = 1 /\ lastIdr = 0
  /\ intact = {} /\ broken = FALSE /\ failures = 0

-----------------------------------------------------------------------------
\* Plausible slips, each the `as' of a mutant.
DropWithoutWaiting ==
  /\ dropStatePending' = FALSE
  /\ consecutiveFrameDrops' = (consecutiveFrameDrops + 1) % DropLimit
  /\ UNCHANGED <<waitingForIdrFrame, waitingForRefInvalFrame, requests>>
NeverNeedsIdr == ~RfiEnabled
SkipsAFrame == consecutiveFrameDrops' = 0 /\ startFrameNumber' = nextFrameNumber + 1
RequestsNothing == UNCHANGED requests
RestartTooLate(n) == IF n > DropLimit THEN 0 ELSE n

-----------------------------------------------------------------------------
strictIdrFrameWait == ~RfiEnabled

NeedsIdr == strictIdrFrameWait \/ ~idrFrameProcessed \/ waitingForIdrFrame

RestartAtLimit(n) == IF n = DropLimit THEN 0 ELSE n

\* waitingForIdrFrame, waitingForRefInvalFrame, drops and requests.
dropFrameState ==
  LET atLimit == consecutiveFrameDrops + 1 = DropLimit
  IN  /\ dropStatePending' = FALSE
      /\ waitingForIdrFrame' = (NeedsIdr \/ atLimit)
      /\ waitingForRefInvalFrame' = (waitingForRefInvalFrame \/ ~NeedsIdr)
      /\ consecutiveFrameDrops' = RestartAtLimit(consecutiveFrameDrops + 1)
      /\ IF atLimit THEN LiRequestIdrFrame ELSE UNCHANGED requests

RecvAt(from, to) == recv = from /\ recv' = to

NoteSubmitted == consecutiveFrameDrops' = 0 /\ startFrameNumber' = nextFrameNumber

-----------------------------------------------------------------------------
\* The host encodes its next frame.  It may or may not have acted on what it
\* was asked; a reference that an IDR frame made unusable takes an IDR frame.
Encoded(kind) ==
  [n |-> hostFrame, kind |-> kind,
   ref |-> IF kind = "IDR" THEN 0 ELSE IF kind = "RFI" THEN hostRfi - 1 ELSE hostFrame - 1]

HostSends(f) ==
  /\ hostFrame <= MaxFrame /\ hostFrame' = hostFrame + 1
  /\ \/ /\ f = Encoded("P") /\ hostFrame > 1
        /\ UNCHANGED <<host, lastIdr>>
     \/ /\ f = Encoded("RFI") /\ hostRfi > lastIdr
        /\ hostRfi' = 0 /\ UNCHANGED <<hostIdr, lastIdr>>
     \/ /\ f = Encoded("IDR") /\ (hostIdr \/ (hostRfi # 0 /\ hostRfi <= lastIdr))
        /\ hostIdr' = FALSE /\ hostRfi' = 0 /\ lastIdr' = hostFrame

\* Every packet of a frame is lost.
FrameLost ==
  /\ \E kind \in {"P", "IDR", "RFI"} : HostSends(Encoded(kind))
  /\ UNCHANGED <<requests, window, threads, stopper, terminated, waiting, drops, rtp,
                 recv, frame, decodeUnitQueue, decoder, decoding>>

\* RtpvAddPacket, first packet of a frame: the frames since the current one were
\* lost (their loss is reported), unless only one was and that was predicted.
FrameOpens ==
  /\ \E kind \in {"P", "IDR", "RFI"} : HostSends(Encoded(kind)) /\ frame' = Encoded(kind)
  /\ IF currentFrameNumber # hostFrame /\ (currentFrameNumber + 1 # hostFrame \/ ~reportedLostFrame)
     THEN RecvAt("idle", "gap") /\ dropFrameState
     ELSE /\ RecvAt("idle", "open")
          /\ UNCHANGED <<requests, drops, waitingForIdrFrame, waitingForRefInvalFrame>>
  /\ currentFrameNumber' = hostFrame /\ reportedLostFrame' = FALSE
  /\ UNCHANGED <<window, threads, stopper, terminated, waitingForNextSuccessfulFrame,
                 decodeUnitQueue, decoder, decoding>>

\* A frame whose first packets (those of a block before) were lost: only the
\* current frame is reported, and the queue goes on after this one.
FrameOpensLate ==
  /\ \E kind \in {"P", "IDR", "RFI"} : HostSends(Encoded(kind))
  /\ IF reportedLostFrame
     THEN UNCHANGED <<recv, requests, drops, waitingForIdrFrame, waitingForRefInvalFrame, frame>>
     ELSE /\ RecvAt("idle", "lost") /\ dropFrameState
          /\ frame' = [NoFrame EXCEPT !.n = currentFrameNumber]
  /\ recv = "idle"
  /\ currentFrameNumber' = hostFrame + 1 /\ reportedLostFrame' = TRUE
  /\ UNCHANGED <<window, threads, stopper, terminated, waitingForNextSuccessfulFrame,
                 decodeUnitQueue, decoder, decoding>>

\* The rest of notifyFrameLost, after dropFrameState.
NotifyLoss(n) ==
  IF waitingForIdrFrame
  THEN UNCHANGED <<requests, window>>
  ELSE /\ nextFrameNumber' = n + 1
       /\ connectionDetectedFrameLoss(startFrameNumber, n)
       /\ UNCHANGED startFrameNumber

NotifyFrameLost ==
  /\ \/ RecvAt("gap", "open") /\ NotifyLoss(frame.n - 1) /\ UNCHANGED frame
     \/ RecvAt("lost", IF frame.kind = "none" THEN "idle" ELSE "open")
        /\ NotifyLoss(frame.n) /\ UNCHANGED frame
  /\ UNCHANGED <<threads, stopper, terminated, host, waiting, drops, rtp,
                 decodeUnitQueue, decoder, source, decoding>>

\* Too many packets of the open frame are missing (a prediction, which the code
\* makes while it has seen no reordering for a time: receivedOosData, here either
\* choice), or a block of it ended short.
FrameUnrecoverable ==
  /\ reportedLostFrame' = TRUE
  /\ IF reportedLostFrame
     THEN /\ RecvAt("open", "idle") /\ currentFrameNumber' = frame.n + 1
          /\ UNCHANGED <<frame, requests, drops, waitingForIdrFrame, waitingForRefInvalFrame>>
     ELSE /\ RecvAt("open", "lost") /\ dropFrameState
          /\ \/ UNCHANGED <<currentFrameNumber, frame>>     \* predicted: it may yet complete
             \/ currentFrameNumber' = frame.n + 1 /\ frame' = [NoFrame EXCEPT !.n = frame.n]
  /\ UNCHANGED <<window, threads, stopper, terminated, host, waitingForNextSuccessfulFrame,
                 decodeUnitQueue, decoder, source, decoding>>

\* The rest of the open frame never arrives, or all of it is there.
FrameStalls ==
  /\ RecvAt("open", "idle")
  /\ UNCHANGED <<lossVars, waiting, drops, rtp, frame, decodeUnitQueue, decoder, source, decoding>>

FrameCompletes ==
  /\ RecvAt("open", "first") /\ (reportedLostFrame => outOfOrder)
  /\ UNCHANGED <<lossVars, waiting, drops, rtp, frame, decodeUnitQueue, decoder, source, decoding>>

-----------------------------------------------------------------------------
\* processRtpPayload: after the frame's packets the queue moves to the next.
FrameDone == currentFrameNumber' = frame.n + 1 /\ UNCHANGED reportedLostFrame

\* The sequence check on the first packet of the frame.
CheckSequence ==
  /\ \/ /\ frame.n < nextFrameNumber      \* already reported as lost
        /\ RecvAt("first", "idle") /\ FrameDone
        /\ UNCHANGED <<requests, nextFrameNumber, waiting, drops>>
     \/ /\ frame.n = nextFrameNumber
        /\ RecvAt("first", "header") /\ UNCHANGED <<requests, nextFrameNumber, waiting, drops, rtp>>
     \/ /\ frame.n > nextFrameNumber
        /\ RecvAt("first", "header") /\ UNCHANGED rtp
        /\ nextFrameNumber' = frame.n
        /\ waitingForNextSuccessfulFrame' = TRUE
        /\ dropFrameState
  /\ UNCHANGED <<startFrameNumber, threads, stopper, terminated, host, frame,
                 decodeUnitQueue, decoder, source, decoding>>

\* The frame header, and the IDR slices of the bitstream.
ReadHeader ==
  /\ RecvAt("header", "last")
  /\ \/ /\ frame.kind = "IDR"
        /\ waitingForIdrFrame' = FALSE /\ waitingForRefInvalFrame' = FALSE
        /\ waitingForNextSuccessfulFrame' = FALSE
     \/ /\ frame.kind = "RFI" /\ waitingForRefInvalFrame
        /\ waitingForRefInvalFrame' = FALSE /\ waitingForNextSuccessfulFrame' = FALSE
        /\ UNCHANGED waitingForIdrFrame
     \/ /\ frame.kind = "P" \/ (frame.kind = "RFI" /\ ~waitingForRefInvalFrame)
        /\ UNCHANGED waiting
  /\ UNCHANGED <<lossVars, drops, rtp, frame, decodeUnitQueue, decoder, source, decoding>>

\* The last packet: a frame that cannot be used is reported, then dropped.
ReportUnusable ==
  IF waitingForIdrFrame
  THEN IF waitingForNextSuccessfulFrame THEN LiRequestIdrFrame ELSE UNCHANGED requests
  ELSE connectionDetectedFrameLoss(startFrameNumber, frame.n)

LastPacket ==
  /\ nextFrameNumber' = frame.n + 1 /\ UNCHANGED startFrameNumber
  /\ IF waitingForIdrFrame \/ waitingForRefInvalFrame
     THEN /\ RecvAt("last", "drop") /\ ReportUnusable
          /\ waitingForNextSuccessfulFrame' = FALSE
     ELSE RecvAt("last", "pending") /\ UNCHANGED <<requests, waitingForNextSuccessfulFrame>>
  /\ UNCHANGED <<threads, stopper, terminated, host, waitingForIdrFrame, waitingForRefInvalFrame,
                 drops, rtp, frame, decodeUnitQueue, decoder, source, decoding>>

DropUnusable ==
  /\ RecvAt("drop", "idle") /\ dropFrameState /\ FrameDone
  /\ UNCHANGED <<window, threads, stopper, terminated, host, waitingForNextSuccessfulFrame,
                 frame, decodeUnitQueue, decoder, source, decoding>>

\* A drop the decoder asked for: an IDR frame is kept, another is dropped.
CheckPendingDrop ==
  /\ \/ /\ ~dropStatePending
        /\ RecvAt("pending", "submit")
        /\ UNCHANGED <<requests, drops, waitingForIdrFrame, waitingForRefInvalFrame, rtp>>
     \/ /\ dropStatePending /\ frame.kind = "IDR"
        /\ RecvAt("pending", "submit") /\ dropStatePending' = FALSE
        /\ UNCHANGED <<requests, consecutiveFrameDrops, waitingForIdrFrame, waitingForRefInvalFrame, rtp>>
     \/ /\ dropStatePending /\ frame.kind # "IDR"
        /\ RecvAt("pending", "idle") /\ dropFrameState /\ FrameDone
  /\ UNCHANGED <<window, threads, stopper, terminated, host, waitingForNextSuccessfulFrame,
                 frame, decodeUnitQueue, decoder, source, decoding>>

-----------------------------------------------------------------------------
\* The decoder is given frame f: it decodes it, or has lost its own state.
Decodes(f) ==
  /\ broken' = (broken \/ ~(f.kind = "IDR" \/ f.ref \in intact))
  /\ intact' = IF f.kind = "IDR" THEN {f.n} ELSE intact \union {f.n}
  /\ idrFrameProcessed' = (idrFrameProcessed \/ f.kind = "IDR")
  /\ UNCHANGED failures

Fails ==
  /\ failures < MaxFailures /\ failures' = failures + 1
  /\ intact' = {} /\ UNCHANGED <<broken, idrFrameProcessed>>

\* reassembleFrame, the receive thread decoding: DR_NEED_IDR makes it run
\* requestDecoderRefresh itself.
SubmitDirectly ==
  /\ directSubmit /\ RecvAt("submit", "idle") /\ FrameDone
  /\ NoteSubmitted
  /\ \/ Decodes(frame) /\ UNCHANGED <<requests, waitingForIdrFrame, dropStatePending>>
     \/ Fails /\ waitingForIdrFrame' = TRUE /\ dropStatePending' = TRUE /\ LiRequestIdrFrame
  /\ UNCHANGED <<nextFrameNumber, threads, stopper, terminated, host, waitingForNextSuccessfulFrame,
                 waitingForRefInvalFrame, frame, decodeUnitQueue, decoder, source>>

SubmitQueued ==
  /\ ~directSubmit
  /\ IF Len(decodeUnitQueue) < QueueBound
     THEN /\ RecvAt("submit", "idle") /\ FrameDone
          /\ decodeUnitQueue' = Append(decodeUnitQueue, frame)
          /\ NoteSubmitted /\ UNCHANGED waitingForIdrFrame
     ELSE /\ RecvAt("submit", "full") /\ waitingForIdrFrame' = TRUE
          /\ UNCHANGED <<decodeUnitQueue, startFrameNumber, consecutiveFrameDrops, rtp>>
  /\ UNCHANGED <<requests, nextFrameNumber, threads, stopper, terminated, host, dropStatePending,
                 waitingForNextSuccessfulFrame, waitingForRefInvalFrame, frame, decoder, source, decoding>>

\* decodeUnitQueue overflowed: everything is dropped and an IDR frame requested.
QueueOverflow ==
  /\ \/ RecvAt("full", "flush") /\ dropFrameState /\ UNCHANGED <<rtp, decodeUnitQueue>>
     \/ /\ RecvAt("flush", "idle") /\ FrameDone
        /\ decodeUnitQueue' = <<>> /\ LiRequestIdrFrame
        /\ UNCHANGED <<drops, waitingForIdrFrame, waitingForRefInvalFrame>>
  /\ UNCHANGED <<window, threads, stopper, terminated, host, waitingForNextSuccessfulFrame,
                 frame, decoder, source, decoding>>

-----------------------------------------------------------------------------
DecoderAt(from, to) == decoder = from /\ decoder' = to

\* VideoDecoderThreadProc: the next frame, and the decoder's answer.
DecoderTakes ==
  /\ ~directSubmit /\ decodeUnitQueue # <<>>
  /\ decodeUnitQueue' = Tail(decodeUnitQueue)
  /\ \/ DecoderAt("wait", "wait") /\ Decodes(Head(decodeUnitQueue))
     \/ DecoderAt("wait", "decode") /\ Fails
  /\ UNCHANGED <<lossVars, waiting, drops, rtp, recv, frame, source>>

\* requestDecoderRefresh, on the decoder thread.
RefreshWaits ==
  /\ DecoderAt("decode", "flush") /\ waitingForIdrFrame' = TRUE
  /\ UNCHANGED <<lossVars, waitingForNextSuccessfulFrame, waitingForRefInvalFrame, drops, rtp,
                 recv, frame, decodeUnitQueue, source, decoding>>

RefreshFlushes ==
  /\ DecoderAt("flush", "pending") /\ decodeUnitQueue' = <<>>
  /\ UNCHANGED <<lossVars, waiting, drops, rtp, recv, frame, source, decoding>>

RefreshDrops ==
  /\ DecoderAt("pending", "request") /\ dropStatePending' = TRUE
  /\ UNCHANGED <<lossVars, waiting, consecutiveFrameDrops, rtp, recv, frame, decodeUnitQueue,
                 source, decoding>>

RefreshRequests ==
  /\ DecoderAt("request", "wait") /\ LiRequestIdrFrame
  /\ UNCHANGED <<window, threads, stopper, terminated, host, waiting, drops, rtp, recv, frame,
                 decodeUnitQueue, source, decoding>>

-----------------------------------------------------------------------------
Receive ==
  \/ FrameLost \/ FrameOpens \/ FrameOpensLate \/ NotifyFrameLost \/ FrameUnrecoverable
  \/ FrameStalls \/ FrameCompletes \/ CheckSequence \/ ReadHeader \/ LastPacket \/ DropUnusable
  \/ CheckPendingDrop \/ SubmitDirectly \/ SubmitQueued \/ QueueOverflow
Decode == DecoderTakes \/ RefreshWaits \/ RefreshFlushes \/ RefreshDrops \/ RefreshRequests
Report ==
  /\ IdrThreadStep \/ RfiThreadStep
  /\ UNCHANGED <<window, waiting, drops, rtp, recv, frame, decodeUnitQueue, decoder, source, decoding>>

Next == (Receive \/ Decode \/ Report) /\ UNCHANGED mode

Spec == Init /\ [][Next]_videoVars

-----------------------------------------------------------------------------
(***************************************************************************)
(* The decoder is never given a frame that refers to one it does not have: *)
(* whatever is lost, predicted, dropped or requested, the three waiting    *)
(* flags of the depacketizer keep back every such frame.  With a decoder   *)
(* thread this is so until the decoder itself fails, since it refreshes    *)
(* behind the receive thread's back; until then no overflow of             *)
(* decodeUnitQueue does harm, and an IDR frame comes before any P frame    *)
(* (VideoDepacketizer.c:229-230, validateDecodeUnitForPlayback).           *)
(***************************************************************************)
NoBrokenReference ==
  directSubmit \/ failures = 0 =>
    /\ ~broken
    /\ decodeUnitQueue # <<>> /\ Head(decodeUnitQueue).kind # "IDR" => idrFrameProcessed

\* Neither video thread is in the middle of something.
Quiet == recv = "idle" /\ decoder = "wait"

\* The host has sent a frame the depacketizer will find missing.
GapAhead == nextFrameNumber < hostFrame

HostWillSendIdr == hostIdr \/ (hostRfi # 0 /\ hostRfi <= lastIdr)

(***************************************************************************)
(* The stream never waits for a frame nobody will send: while frames are   *)
(* kept back, a request is queued, under way or with the host, or the next *)
(* frame that arrives shows a loss, which makes the depacketizer ask again.*)
(* (DropLimit is the code's last resort should this fail.)                 *)
(***************************************************************************)
RecoveryPending ==
  Quiet /\ ~terminated /\ (waitingForIdrFrame \/ waitingForRefInvalFrame) =>
    \/ IdrOnItsWay \/ HostWillSendIdr \/ GapAhead
    \/ /\ ~waitingForIdrFrame
       /\ invalidReferenceFrameTuples # <<>> \/ rfiThread # "wait" \/ hostRfi # 0

(***************************************************************************)
(* The assertions of notifyFrameLost and processRtpPayload: a loss that is *)
(* reported is not of a frame already submitted, the flags agree, and a    *)
(* frame is not submitted while the next successful one is waited for.     *)
(***************************************************************************)
AssertionsHold ==
  /\ recv = "gap" => startFrameNumber <= frame.n - 1
  /\ recv = "lost" => startFrameNumber <= frame.n
  /\ recv \in {"gap", "lost"} /\ ~waitingForIdrFrame => waitingForRefInvalFrame
  /\ recv \in {"pending", "submit"} => ~waitingForNextSuccessfulFrame
=============================================================================
