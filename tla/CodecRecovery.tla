--------------------------- MODULE CodecRecovery ---------------------------
(***************************************************************************)
(* MediaCodecDecoderRenderer: a MediaCodec and the threads that use it.    *)
(* The input thread is the native thread that submits decode units, the    *)
(* renderer dequeues output, the choreographer, in the paced mode, renders *)
(* one buffer per frame.  When the codec fails, or the HDR metadata        *)
(* changes, each of them comes to rest in doCodecRecoveryIfRequired and    *)
(* the last to do so recovers the codec for all.  stop may come any time.  *)
(*                                                                         *)
(* Nothing in the code requests CR_RECOVERY_TYPE_FLUSH, which is left out. *)
(* The buffers of codec-specific data belong to the unit they precede.     *)
(***************************************************************************)
EXTENDS Naturals, FiniteSets

CONSTANTS MaxTries,    \* CR_MAX_TRIES
          QueueLimit,  \* OUTPUT_BUFFER_QUEUE_LIMIT
          HdrChanges   \* bound: how often the host changes the HDR metadata

ASSUME CodecAssumption == MaxTries \in Nat \ {0} /\ QueueLimit \in Nat \ {0} /\ HdrChanges \in Nat

Thread == {"input", "render", "choreographer"}
Required == {"restart", "reset"}

VARIABLES recoveryType,     \* codecRecoveryType: none, restart or reset
          quiesced,         \* codecRecoveryThreadQuiescedFlags
          attempts,         \* codecRecoveryAttempts
          monitor,          \* the holder of codecRecoveryMonitor, or none
          stopping,
          initialException,
          nextInputBuffer,  \* the input thread has a buffer of the codec
          outputBufferQueue,\* how many buffers of the codec it holds
          hdrChanges,       \* how often the HDR metadata has changed
          pc,               \* of each thread
          phase,            \* of submitDecodeUnit: what the input thread is about
          unit,             \* the decode unit it submits
          needIdr,          \* it has answered DR_NEED_IDR: the next unit is an IDR frame
          fresh,            \* nothing was decoded since the codec was configured
          stopper,          \* how far prepareForStop and stop have come
          hdrSetter,        \* the thread in setHdrMode
          crashed           \* a RendererException was thrown

codecVars == <<nextInputBuffer, outputBufferQueue, fresh>>
recoveryVars == <<recoveryType, quiesced, attempts, monitor, stopping, initialException>>
inputVars == <<phase, unit, needIdr>>
otherVars == <<hdrChanges, stopper, hdrSetter, crashed>>
vars == <<recoveryVars, codecVars, inputVars, otherVars, pc>>

Goto(t, l) == pc' = [pc EXCEPT ![t] = l]

\* The threads that are in a call of the codec, or about to make one.
UsesCodec == {t \in Thread : pc[t] \in {"fetch", "queue", "dequeue", "release"}}

-----------------------------------------------------------------------------
(* handleDecoderException, on any of the threads. *)

\* An exception that is fatal or not asks for a reset or a restart, up to MaxTries.
RequestsRecovery(t) ==
  \E l \in {"require restart", "require reset"} :
    /\ ~stopping /\ attempts < MaxTries
    /\ Goto(t, l)
    /\ UNCHANGED initialException

IgnoresException(t) ==
  /\ stopping
  /\ Goto(t, "check")
  /\ UNCHANGED initialException

\* After that the first exception is kept, and one much later is thrown.
KeepsException(t) ==
  /\ ~stopping /\ attempts >= MaxTries
  /\ initialException' = (initialException \/ recoveryType = "none")
  /\ Goto(t, "check")

ThrowsException(t) ==
  /\ ~stopping /\ attempts >= MaxTries
  /\ recoveryType = "none" /\ initialException
  /\ crashed' = TRUE
  /\ UNCHANGED <<recoveryVars, codecVars, inputVars, hdrChanges, stopper, hdrSetter, pc>>

handleDecoderException(t) ==
  /\ RequestsRecovery(t) \/ IgnoresException(t) \/ KeepsException(t)
  /\ UNCHANGED <<recoveryType, quiesced, attempts, monitor, stopping, hdrChanges, stopper, hdrSetter, crashed>>

\* compareAndSet from none; a reset also takes the place of a restart.
RequireRecovery(t) ==
  /\ pc[t] \in {"require restart", "require reset"}
  /\ IF recoveryType = "none"
     THEN /\ recoveryType' = IF pc[t] = "require reset" THEN "reset" ELSE "restart"
          /\ Goto(t, "check")
     ELSE /\ Goto(t, IF pc[t] = "require reset" THEN "promote" ELSE "verify restart")
          /\ UNCHANGED recoveryType
  /\ UNCHANGED <<quiesced, attempts, monitor, stopping, initialException>>
  /\ UNCHANGED <<codecVars, inputVars, otherVars>>

PromoteToReset(t) ==
  /\ pc[t] = "promote"
  /\ IF recoveryType = "restart"
     THEN recoveryType' = "reset" /\ Goto(t, "check")
     ELSE Goto(t, "verify reset") /\ UNCHANGED recoveryType
  /\ UNCHANGED <<quiesced, attempts, monitor, stopping, initialException>>
  /\ UNCHANGED <<codecVars, inputVars, otherVars>>

\* Where no compareAndSet succeeded, an IllegalStateException if the type is unexpected.
VerifyRecovery(t) ==
  /\ pc[t] \in {"verify restart", "verify reset"}
  /\ IF recoveryType \in (IF pc[t] = "verify reset" THEN {"reset"} ELSE Required)
     THEN Goto(t, "check") /\ UNCHANGED crashed
     ELSE crashed' = TRUE /\ UNCHANGED pc
  /\ UNCHANGED <<recoveryVars, codecVars, inputVars, hdrChanges, stopper, hdrSetter>>

-----------------------------------------------------------------------------
(* doCodecRecoveryIfRequired *)

\* Where a thread goes when it returns.
AfterCheck(t) == CASE t = "input" -> "return" [] t = "render" -> "loop" [] OTHER -> "post"

NothingRequired(t) ==
  /\ pc[t] = "check"
  /\ recoveryType = "none"
  /\ Goto(t, AfterCheck(t))
  /\ UNCHANGED <<recoveryVars, codecVars, inputVars, otherVars>>

MustQuiesce(t) ==
  /\ pc[t] = "check"
  /\ recoveryType # "none"
  /\ Goto(t, "enter")
  /\ UNCHANGED <<recoveryVars, codecVars, inputVars, otherVars>>

NoChoreographer == pc["choreographer"] = "none"

\* The choreographer is taken to be at rest although it runs.
QuiescedWithoutAsking(t) == quiesced \union {t, "choreographer"}

Quiesced(t) == quiesced \union {t} \union (IF NoChoreographer THEN {"choreographer"} ELSE {})

\* What fetching the next buffer returned is dropped.
NoteUnlessPrefetching(t) == phase' = IF t = "input" /\ phase # "prefetch" THEN "failed" ELSE phase

\* The input thread learns that there was a recovery and asks for an IDR frame.
NoteRecovery(t) == phase' = IF t = "input" THEN "failed" ELSE phase

Quiesce(t) ==
  /\ pc[t] = "enter" /\ monitor = "none"
  /\ quiesced' = Quiesced(t)
  /\ NoteRecovery(t)
  /\ IF Quiesced(t) = Thread
     THEN /\ Goto(t, "recover") /\ monitor' = t
          /\ nextInputBuffer' = FALSE /\ outputBufferQueue' = 0
          /\ attempts' = IF recoveryType = "none" THEN attempts ELSE attempts + 1
     ELSE Goto(t, "wait") /\ UNCHANGED <<monitor, nextInputBuffer, outputBufferQueue, attempts>>
  /\ UNCHANGED <<recoveryType, stopping, initialException, fresh, unit, needIdr, otherVars>>

\* A thread that waits looks at the type whenever it is woken, and every second;
\* the interrupt of the renderer ends its wait for good.
Wake(t) ==
  /\ pc[t] = "wait" /\ monitor = "none"
  /\ recoveryType = "none" \/ (t = "render" /\ stopper # "playing")
  /\ Goto(t, AfterCheck(t))
  /\ UNCHANGED <<recoveryVars, codecVars, inputVars, otherVars>>

\* A restart, a reset or a new decoder, with the metadata of this moment.
Configure(t) ==
  /\ pc[t] = "recover" /\ recoveryType # "none"
  /\ Goto(t, "configured")
  /\ fresh' = TRUE
  /\ UNCHANGED <<recoveryVars, nextInputBuffer, outputBufferQueue, inputVars, otherVars>>

\* The surface is gone: stop.
SurfaceGone(t) ==
  /\ pc[t] = "recover" /\ recoveryType # "none"
  /\ stopping' = TRUE
  /\ Goto(t, "configured")
  /\ UNCHANGED <<recoveryType, quiesced, attempts, monitor, initialException>>
  /\ UNCHANGED <<codecVars, inputVars, otherVars>>

RecoveryFails(t) ==
  /\ pc[t] = "recover" /\ recoveryType # "none"
  /\ crashed' = TRUE
  /\ UNCHANGED <<recoveryVars, codecVars, inputVars, hdrChanges, stopper, hdrSetter, pc>>

FinishRecovery(t) ==
  /\ pc[t] = "configured" \/ (pc[t] = "recover" /\ recoveryType = "none")
  /\ recoveryType' = "none" /\ quiesced' = {} /\ monitor' = "none"
  /\ Goto(t, AfterCheck(t))
  /\ UNCHANGED <<attempts, stopping, initialException, codecVars, inputVars, otherVars>>

doCodecRecoveryIfRequired(t) ==
  \/ NothingRequired(t) \/ MustQuiesce(t)
  \/ Quiesce(t) \/ Wake(t)
  \/ Configure(t) \/ SurfaceGone(t) \/ RecoveryFails(t) \/ FinishRecovery(t)

-----------------------------------------------------------------------------
(* submitDecodeUnit, with fetchNextInputBuffer and queueNextInputBuffer. *)

submitDecodeUnit ==
  /\ pc["input"] = "idle" /\ ~stopping /\ stopper # "released"
  /\ \E u \in IF needIdr THEN {"IDR"} ELSE {"IDR", "P"} : unit' = u
  /\ needIdr' = FALSE
  /\ IF nextInputBuffer
     THEN Goto("input", "queue") /\ phase' = "queue"
     ELSE Goto("input", "fetch") /\ phase' = "fetch"
  /\ UNCHANGED <<recoveryVars, codecVars, otherVars>>

FetchInputBuffer ==
  /\ pc["input"] = "fetch"
  /\ IF stopping
     THEN phase' = "empty" /\ UNCHANGED nextInputBuffer
     ELSE nextInputBuffer' = TRUE /\ UNCHANGED phase
  /\ Goto("input", "check")
  /\ UNCHANGED <<recoveryVars, outputBufferQueue, fresh, unit, needIdr, otherVars>>

QueueInputBuffer ==
  /\ pc["input"] = "queue"
  /\ nextInputBuffer' = FALSE
  /\ fresh' = FALSE
  /\ Goto("input", "check")
  /\ UNCHANGED <<recoveryVars, outputBufferQueue, inputVars, otherVars>>

\* An exception that is transient leaves the buffer, any other gives it up.
TransientException ==
  /\ pc["input"] \in {"fetch", "queue"} /\ ~stopping
  /\ phase' = "failed"
  /\ Goto("input", "check")
  /\ UNCHANGED <<recoveryVars, codecVars, unit, needIdr, otherVars>>

InputException ==
  /\ pc["input"] \in {"fetch", "queue"}
  /\ \/ /\ handleDecoderException("input")
        /\ phase' = "failed" /\ nextInputBuffer' = FALSE
        /\ UNCHANGED <<outputBufferQueue, fresh, unit, needIdr>>
     \/ ThrowsException("input")

\* The next buffer is fetched at once; what that returns is returned.
FetchNext ==
  /\ pc["input"] = "return" /\ phase \in {"fetch", "queue"}
  /\ IF phase = "fetch"
     THEN Goto("input", "queue") /\ phase' = "queue"
     ELSE Goto("input", "fetch") /\ phase' = "prefetch"
  /\ UNCHANGED <<recoveryVars, codecVars, unit, needIdr, otherVars>>

Answer ==
  /\ pc["input"] = "return" /\ phase \in {"prefetch", "empty", "failed"}
  /\ needIdr' = (phase # "prefetch")
  /\ phase' = "fetch"
  /\ Goto("input", "idle")
  /\ UNCHANGED <<recoveryVars, codecVars, unit, otherVars>>

\* No buffer for five seconds, and nothing else has failed.
DecoderHung ==
  /\ pc["input"] = "return" /\ phase = "empty" /\ ~initialException
  /\ crashed' = TRUE
  /\ UNCHANGED <<recoveryVars, codecVars, inputVars, hdrChanges, stopper, hdrSetter, pc>>

InputThread ==
  \/ submitDecodeUnit \/ FetchInputBuffer \/ QueueInputBuffer
  \/ TransientException \/ InputException \/ DecoderHung \/ FetchNext \/ Answer

-----------------------------------------------------------------------------
(* rendererThread *)

LoopTest ==
  /\ pc["render"] = "loop"
  /\ Goto("render", IF stopping THEN "exited" ELSE "dequeue")
  /\ UNCHANGED <<recoveryVars, codecVars, inputVars, otherVars>>

\* The oldest buffer is kept.
DequeueWithoutLimit ==
  /\ pc["render"] = "dequeue"
  /\ outputBufferQueue' \in IF NoChoreographer THEN {outputBufferQueue}
                            ELSE {outputBufferQueue, outputBufferQueue + 1}
  /\ Goto("render", "check")
  /\ UNCHANGED <<recoveryVars, nextInputBuffer, fresh, inputVars, otherVars>>

\* Without the choreographer a buffer is rendered at once; with it the oldest gives
\* way to a new one.
DequeueOutputBuffer ==
  /\ pc["render"] = "dequeue"
  /\ outputBufferQueue' \in IF NoChoreographer \/ outputBufferQueue = QueueLimit
                            THEN {outputBufferQueue}
                            ELSE {outputBufferQueue, outputBufferQueue + 1}
  /\ Goto("render", "check")
  /\ UNCHANGED <<recoveryVars, nextInputBuffer, fresh, inputVars, otherVars>>

RenderException ==
  /\ pc["render"] = "dequeue"
  /\ \/ handleDecoderException("render") /\ UNCHANGED <<codecVars, inputVars>>
     \/ ThrowsException("render")

Renderer == LoopTest \/ DequeueOutputBuffer \/ RenderException

-----------------------------------------------------------------------------
(* The choreographer's thread: a frame callback at a time, then the quit message. *)

doFrame ==
  /\ pc["choreographer"] = "idle"
  /\ IF stopping THEN Goto("choreographer", "silent") /\ UNCHANGED outputBufferQueue
     ELSE IF outputBufferQueue > 0
          THEN Goto("choreographer", "release") /\ outputBufferQueue' = outputBufferQueue - 1
          ELSE Goto("choreographer", "check") /\ UNCHANGED outputBufferQueue
  /\ UNCHANGED <<recoveryVars, nextInputBuffer, fresh, inputVars, otherVars>>

ReleaseOutputBuffer ==
  /\ pc["choreographer"] = "release"
  /\ Goto("choreographer", "check")
  /\ UNCHANGED <<recoveryVars, codecVars, inputVars, otherVars>>

ReleaseException ==
  /\ pc["choreographer"] = "release"
  /\ \/ handleDecoderException("choreographer") /\ UNCHANGED <<codecVars, inputVars>>
     \/ ThrowsException("choreographer")

PostFrameCallback ==
  /\ pc["choreographer"] = "post"
  /\ Goto("choreographer", "idle")
  /\ UNCHANGED <<recoveryVars, codecVars, inputVars, otherVars>>

Quit ==
  /\ pc["choreographer"] \in {"idle", "silent"}
  /\ stopper \notin {"playing", "preparing"}
  /\ Goto("choreographer", "exited")
  /\ UNCHANGED <<recoveryVars, codecVars, inputVars, otherVars>>

Choreographer ==
  doFrame \/ ReleaseOutputBuffer \/ ReleaseException \/ PostFrameCallback \/ Quit

-----------------------------------------------------------------------------
(* setHdrMode, on the thread of the control stream's callbacks. *)

SetMetadata ==
  /\ hdrSetter = "idle" /\ stopper # "released"
  /\ hdrChanges < HdrChanges
  /\ hdrChanges' = hdrChanges + 1
  /\ attempts' = 0
  /\ hdrSetter' = "require restart"
  /\ UNCHANGED <<recoveryType, quiesced, monitor, stopping, initialException>>
  /\ UNCHANGED <<codecVars, inputVars, stopper, crashed, pc>>

RequireRestart ==
  /\ hdrSetter = "require restart"
  /\ recoveryType' = IF recoveryType = "none" THEN "restart" ELSE recoveryType
  /\ hdrSetter' = "idle"
  /\ UNCHANGED <<quiesced, attempts, monitor, stopping, initialException>>
  /\ UNCHANGED <<codecVars, inputVars, hdrChanges, stopper, crashed, pc>>

-----------------------------------------------------------------------------
(* prepareForStop, on the UI thread, which stop calls once more. *)

BeginStop(from, to) ==
  /\ stopper = from /\ stopper' = to
  /\ stopping' = TRUE
  /\ UNCHANGED <<recoveryType, quiesced, attempts, monitor, initialException>>
  /\ UNCHANGED <<codecVars, inputVars, hdrChanges, hdrSetter, crashed, pc>>

\* Any recovery that is being waited for is called off.
EndRecovery(from, to) ==
  /\ stopper = from /\ monitor = "none"
  /\ stopper' = to
  /\ recoveryType' = "none"
  /\ UNCHANGED <<quiesced, attempts, monitor, stopping, initialException>>
  /\ UNCHANGED <<codecVars, inputVars, hdrChanges, hdrSetter, crashed, pc>>

prepareForStop == BeginStop("playing", "preparing") \/ EndRecovery("preparing", "prepared")

\* stop, and cleanup once the native threads are joined.
Stop ==
  \/ BeginStop("playing", "stopping") \/ BeginStop("prepared", "stopping")
  \/ EndRecovery("stopping", "joining")
  \/ /\ stopper = "joining"
     /\ pc["choreographer"] \in {"none", "exited"} /\ pc["render"] = "exited"
     /\ stopper' = "stopped"
     /\ UNCHANGED <<recoveryVars, codecVars, inputVars, hdrChanges, hdrSetter, crashed, pc>>
  \/ /\ stopper = "stopped" /\ pc["input"] = "idle"
     /\ stopper' = "released"
     /\ UNCHANGED <<recoveryVars, codecVars, inputVars, hdrChanges, hdrSetter, crashed, pc>>

-----------------------------------------------------------------------------
Init ==
  /\ recoveryType = "none" /\ quiesced = {} /\ attempts = 0 /\ monitor = "none"
  /\ stopping = FALSE /\ initialException = FALSE
  /\ nextInputBuffer = FALSE /\ outputBufferQueue = 0 /\ fresh = TRUE
  /\ hdrChanges = 0
  /\ \E c \in {"none", "idle"} : pc = [input |-> "idle", render |-> "loop", choreographer |-> c]
  /\ phase = "fetch" /\ unit = "IDR" /\ needIdr = TRUE
  /\ stopper = "playing" /\ hdrSetter = "idle" /\ crashed = FALSE

Step(t) ==
  \/ RequireRecovery(t) \/ PromoteToReset(t) \/ VerifyRecovery(t)
  \/ doCodecRecoveryIfRequired(t)
  \/ t = "input" /\ InputThread
  \/ t = "render" /\ Renderer
  \/ t = "choreographer" /\ Choreographer

Next ==
  /\ ~crashed
  /\ \/ \E t \in Thread : Step(t)
     \/ SetMetadata \/ RequireRestart
     \/ prepareForStop \/ Stop

\* Frames arrive and are displayed, a codec answers or fails, and what was begun is
\* finished; nobody has to stop.
Fairness ==
  /\ \A t \in Thread : WF_vars(~crashed /\ Step(t))
  /\ WF_vars(~crashed /\ RequireRestart)
  /\ WF_vars(~crashed /\ stopper # "playing" /\ (prepareForStop \/ Stop))

Spec == Init /\ [][Next]_vars /\ Fairness

-----------------------------------------------------------------------------
TypeOK ==
  /\ recoveryType \in Required \union {"none"} /\ quiesced \subseteq Thread
  /\ attempts \in 0 .. MaxTries + 1 /\ monitor \in Thread \union {"none"}
  /\ {stopping, initialException, nextInputBuffer, fresh, needIdr, crashed} \subseteq BOOLEAN
  /\ outputBufferQueue \in 0 .. QueueLimit
  /\ hdrChanges \in 0 .. HdrChanges
  /\ phase \in {"fetch", "queue", "prefetch", "empty", "failed"} /\ unit \in {"IDR", "P"}
  /\ stopper \in {"playing", "preparing", "prepared", "stopping", "joining", "stopped", "released"}
  /\ DOMAIN pc = Thread

(***************************************************************************)
(* The last thread to come to rest has the codec, and its buffers, for     *)
(* itself: while it recovers the codec no other thread is in a call of it, *)
(* whatever stop does meanwhile.                                           *)
(***************************************************************************)
ExclusiveRecovery ==
  \A t \in Thread : pc[t] \in {"recover", "configured"} => UsesCodec = {}

(***************************************************************************)
(* After a recovery, on whichever thread, the first frame the codec is     *)
(* given is an IDR frame: the input thread always learns of a recovery.    *)
(***************************************************************************)
IdrAfterRecovery ==
  pc["input"] = "queue" /\ unit = "P" => ~fresh

(***************************************************************************)
(* A recovery that is required takes place, or the stream is stopped: as a *)
(* comment in doCodecRecoveryIfRequired has it, ``the final thread to be   *)
(* quiesced will handle the codec recovery''.  The code does not: a thread *)
(* that still waits for the last recovery when another is required is not  *)
(* counted as quiesced again, and all of them wait.                        *)
(***************************************************************************)
RecoveryEnds ==
  recoveryType # "none" ~> recoveryType = "none" \/ stopping \/ crashed

=============================================================================
