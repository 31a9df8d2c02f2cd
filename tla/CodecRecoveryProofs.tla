------------------------ MODULE CodecRecoveryProofs ------------------------
(***************************************************************************)
(* For any number of tries, any queue limit and any number of changes of   *)
(* the HDR metadata: the thread that recovers the codec has it for itself  *)
(* (ExclusiveRecovery), and the codec is given an IDR frame first          *)
(* (IdrAfterRecovery).                                                     *)
(*                                                                         *)
(* The quiesced flags are cleared only by a recovery, not when             *)
(* prepareForStop calls one off, so that a flag may outlive its thread's   *)
(* rest; the proof is that this happens only when stopping is set, and     *)
(* that such a thread does not get near the codec again.                   *)
(***************************************************************************)
EXTENDS CodecRecovery, TLAPS

Labels == {"none", "idle", "check", "enter", "wait", "recover", "configured",
           "require restart", "require reset", "promote", "verify restart", "verify reset",
           "fetch", "queue", "return", "loop", "dequeue", "exited", "release", "post", "silent"}

Types ==
  /\ pc \in [Thread -> Labels] /\ quiesced \subseteq Thread
  /\ pc["input"] \notin {"none", "loop", "exited", "post", "silent"}
  /\ stopping \in BOOLEAN /\ fresh \in BOOLEAN /\ needIdr \in BOOLEAN

Resting == {"wait", "recover", "configured"}

\* A thread whose flag is set rests, does not exist, or will find that stopping is set
\* before it makes another call of the codec.
AtRest(t) ==
  \/ pc[t] \in Resting \union {"none"}
  \/ /\ stopping /\ pc[t] \in {"return", "idle", "loop", "exited", "post", "silent"}
     /\ t = "input" /\ pc[t] = "return" => phase = "failed"

Quiescent ==
  /\ \A t \in quiesced : AtRest(t)
  /\ \A t \in Thread : pc[t] \in {"recover", "configured"} => monitor = t /\ quiesced = Thread
  /\ pc["input"] \in Resting => phase = "failed"

\* Whoever waits, or is about to, for a recovery that is no longer required
\* has been called off by a stop.
CalledOff ==
  /\ stopper # "playing" => stopping
  /\ recoveryType = "none" =>
       \A t \in Thread : pc[t] = "enter" \/ (pc[t] = "wait" /\ t \in quiesced) => stopping

\* What the input thread is about when the codec has not decoded anything yet.
Refreshing ==
  /\ pc["input"] = "queue" => phase = "queue"
  /\ fresh => IF pc["input"] = "idle" THEN needIdr \/ stopping
              ELSE \/ phase \in {"failed", "empty"}
                   \/ unit = "IDR" /\ (phase = "fetch" \/ (phase = "queue" /\ pc["input"] = "queue"))

IInv == Types /\ Quiescent /\ CalledOff /\ Refreshing

-----------------------------------------------------------------------------
\* Initially nobody is at rest, and the input thread owes an IDR frame.
LEMMA InitIInv == Init => IInv
<1> SUFFICES ASSUME Init PROVE IInv
    OBVIOUS
<1> USE DEF Init
<1>1. PICK c \in {"none", "idle"} :
        pc = [input |-> "idle", render |-> "loop", choreographer |-> c]
  OBVIOUS
<1>2. pc = [t \in Thread |-> IF t = "input" THEN "idle" ELSE IF t = "render" THEN "loop" ELSE c]
  BY <1>1 DEF Thread
<1>3. Types BY <1>2 DEF Types, Labels, Thread
<1>4. Quiescent BY <1>2 DEF Quiescent, Resting, Thread
<1>5. CalledOff BY <1>2 DEF CalledOff, Thread
<1>6. Refreshing BY <1>2 DEF Refreshing, Thread
<1> QED BY <1>3, <1>4, <1>5, <1>6 DEF IInv

\* Requiring a recovery: a thread that is not at rest moves, and the type is set.
LEMMA ExceptionKeepsIInv ==
  ASSUME IInv, NEW t \in Thread,
         RequireRecovery(t) \/ PromoteToReset(t) \/ VerifyRecovery(t)
  PROVE  IInv'
<1> USE DEF IInv, Types, Labels, Thread, Required, Goto, recoveryVars, codecVars,
            inputVars, otherVars
<1>1. CASE RequireRecovery(t)
  <2>1. pc[t] \in {"require restart", "require reset"} BY <1>1 DEF RequireRecovery
  <2>2. t \notin quiesced BY <2>1 DEF Quiescent, AtRest, Resting
  <2>3. PICK l \in {"check", "promote", "verify restart"} : pc' = [pc EXCEPT ![t] = l]
    BY <1>1 DEF RequireRecovery
  <2>4. UNCHANGED <<quiesced, monitor, stopping, stopper, codecVars, inputVars>>
    BY <1>1 DEF RequireRecovery
  <2>5. recoveryType' = "none" => recoveryType = "none"
    BY <1>1 DEF RequireRecovery
  <2>6. Types' BY <2>1, <2>2, <2>3, <2>4, <2>5 DEF Resting, Quiescent
  <2>7. Quiescent' BY <2>1, <2>2, <2>3, <2>4, <2>5 DEF Quiescent, AtRest, Resting, CalledOff
  <2>8. CalledOff' BY <2>1, <2>2, <2>3, <2>4, <2>5 DEF CalledOff, Quiescent, AtRest, Resting
  <2>9. Refreshing' BY <2>1, <2>2, <2>3, <2>4, <2>5 DEF Refreshing, Quiescent, AtRest, Resting
  <2> QED BY <2>6, <2>7, <2>8, <2>9
<1>2. CASE PromoteToReset(t)
  <2>1. pc[t] \in {"promote"} BY <1>2 DEF PromoteToReset
  <2>2. t \notin quiesced BY <2>1 DEF Quiescent, AtRest, Resting
  <2>3. PICK l \in {"check", "verify reset"} : pc' = [pc EXCEPT ![t] = l]
    BY <1>2 DEF PromoteToReset
  <2>4. UNCHANGED <<quiesced, monitor, stopping, stopper, codecVars, inputVars>>
    BY <1>2 DEF PromoteToReset
  <2>5. recoveryType' = "none" => recoveryType = "none"
    BY <1>2 DEF PromoteToReset
  <2>6. Types' BY <2>1, <2>2, <2>3, <2>4, <2>5 DEF Resting, Quiescent
  <2>7. Quiescent' BY <2>1, <2>2, <2>3, <2>4, <2>5 DEF Quiescent, AtRest, Resting, CalledOff
  <2>8. CalledOff' BY <2>1, <2>2, <2>3, <2>4, <2>5 DEF CalledOff, Quiescent, AtRest, Resting
  <2>9. Refreshing' BY <2>1, <2>2, <2>3, <2>4, <2>5 DEF Refreshing, Quiescent, AtRest, Resting
  <2> QED BY <2>6, <2>7, <2>8, <2>9
<1>3. CASE VerifyRecovery(t)
  <2>1. CASE UNCHANGED pc
    <3>1. UNCHANGED <<pc, recoveryType, stopper, quiesced, monitor, stopping, codecVars, inputVars>>
      BY <1>3, <2>1 DEF VerifyRecovery
    <3>2. Types' BY <3>1 DEF Resting, Quiescent
    <3>3. Quiescent' BY <3>1 DEF Quiescent, AtRest, Resting, CalledOff
    <3>4. CalledOff' BY <3>1 DEF CalledOff, Quiescent, AtRest, Resting
    <3>5. Refreshing' BY <3>1 DEF Refreshing, Quiescent, AtRest, Resting
    <3> QED BY <3>2, <3>3, <3>4, <3>5
  <2>2. CASE Goto(t, "check")
    <3>1. pc[t] \in {"verify restart", "verify reset"} BY <1>3 DEF VerifyRecovery
    <3>2. t \notin quiesced BY <3>1 DEF Quiescent, AtRest, Resting
    <3>3. UNCHANGED <<recoveryType, quiesced, monitor, stopping, stopper, codecVars, inputVars>>
      BY <1>3 DEF VerifyRecovery
    <3>4. Types' BY <2>2, <3>1, <3>2, <3>3 DEF Resting, Quiescent
    <3>5. Quiescent' BY <2>2, <3>1, <3>2, <3>3 DEF Quiescent, AtRest, Resting, CalledOff
    <3>6. CalledOff' BY <2>2, <3>1, <3>2, <3>3 DEF CalledOff, Quiescent, AtRest, Resting
    <3>7. Refreshing' BY <2>2, <3>1, <3>2, <3>3 DEF Refreshing, Quiescent, AtRest, Resting
    <3> QED BY <3>4, <3>5, <3>6, <3>7
  <2> QED BY <1>3, <2>1, <2>2 DEF VerifyRecovery
<1> QED BY <1>1, <1>2, <1>3

\* doCodecRecoveryIfRequired: coming to rest, recovering and returning.
LEMMA CheckKeepsIInv ==
  ASSUME IInv, NEW t \in Thread, NothingRequired(t) \/ MustQuiesce(t) \/ Quiesce(t)
          \/ Wake(t) \/ Configure(t) \/ SurfaceGone(t) \/ RecoveryFails(t) \/ FinishRecovery(t)
  PROVE  IInv'
<1> USE DEF IInv, Types, Labels, Thread, Required, Goto, recoveryVars, codecVars,
            inputVars, otherVars
<1>1. CASE NothingRequired(t)
  <2> USE <1>1 DEF NothingRequired, AfterCheck
  <2>1. Types' BY DEF Resting, Quiescent
  <2>2. Quiescent' BY DEF Quiescent, AtRest, Resting, CalledOff
  <2>3. CalledOff' BY DEF CalledOff, Quiescent, AtRest, Resting
  <2>4. Refreshing' BY DEF Refreshing, Quiescent, AtRest, Resting
  <2> QED BY <2>1, <2>2, <2>3, <2>4
<1>2. CASE MustQuiesce(t)
  <2> USE <1>2 DEF MustQuiesce
  <2>1. Types' BY DEF Resting, Quiescent
  <2>2. Quiescent' BY DEF Quiescent, AtRest, Resting, CalledOff
  <2>3. CalledOff' BY DEF CalledOff, Quiescent, AtRest, Resting
  <2>4. Refreshing' BY DEF Refreshing, Quiescent, AtRest, Resting
  <2> QED BY <2>1, <2>2, <2>3, <2>4
<1>3. CASE Quiesce(t)
  <2>1. pc[t] = "enter" /\ monitor = "none" BY <1>3 DEF Quiesce
  <2>2. quiesced' = Quiesced(t) /\ phase' = (IF t = "input" THEN "failed" ELSE phase)
    BY <1>3 DEF Quiesce, NoteRecovery
  <2>3. UNCHANGED <<recoveryType, stopping, fresh, unit, needIdr, stopper>> BY <1>3 DEF Quiesce
  <2>4. \/ pc' = [pc EXCEPT ![t] = "recover"] /\ monitor' = t /\ Quiesced(t) = Thread
        \/ pc' = [pc EXCEPT ![t] = "wait"] /\ monitor' = monitor
    BY <1>3 DEF Quiesce
  <2>5. Types'
    <3>1. quiesced' \subseteq Thread BY <2>2 DEF Quiesced
    <3>2. PICK l \in Labels : pc' = [pc EXCEPT ![t] = l] BY <2>4
    <3>3. pc'["input"] \notin {"none", "loop", "exited", "post", "silent"} BY <2>4
    <3>4. pc' \in [Thread -> Labels] BY <3>2
    <3> QED BY <2>3, <3>1, <3>3, <3>4
  <2>6. Quiescent'
    <3>1. ASSUME NEW u \in quiesced' PROVE AtRest(u)'
      <4>1. CASE u = t BY <2>4, <4>1 DEF AtRest, Resting
      <4>2. CASE u # t /\ u \in quiesced
        BY <2>1, <2>2, <2>3, <2>4, <4>2 DEF Quiescent, AtRest, Resting
      <4>3. CASE u # t /\ u = "choreographer" /\ NoChoreographer
        BY <2>4, <4>3 DEF NoChoreographer, AtRest, Resting
      <4> QED BY <2>2, <3>1, <4>1, <4>2, <4>3 DEF Quiesced
    <3>2. ASSUME NEW u \in Thread, pc'[u] \in {"recover", "configured"}
          PROVE  monitor' = u /\ quiesced' = Thread
      <4>1. u = t BY <2>1, <2>4, <3>2 DEF Quiescent
      <4> QED BY <2>2, <2>4, <3>2, <4>1
    <3>3. pc'["input"] \in Resting => phase' = "failed" BY <2>2, <2>4 DEF Quiescent, Resting
    <3> QED BY <3>1, <3>2, <3>3 DEF Quiescent
  <2>7. CalledOff' BY <2>1, <2>2, <2>3, <2>4 DEF Quiesced, NoChoreographer, CalledOff
  <2>8. Refreshing' BY <2>1, <2>2, <2>3, <2>4 DEF Refreshing
  <2> QED BY <2>5, <2>6, <2>7, <2>8
<1>4. CASE Wake(t)
  <2> USE <1>4 DEF Wake, AfterCheck
  <2>1. Types' BY DEF Resting, Quiescent
  <2>2. Quiescent' BY DEF Quiescent, AtRest, Resting, CalledOff
  <2>3. CalledOff' BY DEF CalledOff, Quiescent, AtRest, Resting
  <2>4. Refreshing' BY DEF Refreshing, Quiescent, AtRest, Resting
  <2> QED BY <2>1, <2>2, <2>3, <2>4
<1>5. CASE Configure(t)
  <2> USE <1>5 DEF Configure
  <2>1. Types' BY DEF Resting, Quiescent
  <2>2. Quiescent' BY DEF Quiescent, AtRest, Resting, CalledOff
  <2>3. CalledOff' BY DEF CalledOff, Quiescent, AtRest, Resting
  <2>4. Refreshing' BY DEF Refreshing, Quiescent, AtRest, Resting
  <2> QED BY <2>1, <2>2, <2>3, <2>4
<1>6. CASE SurfaceGone(t)
  <2> USE <1>6 DEF SurfaceGone
  <2>1. Types' BY DEF Resting, Quiescent
  <2>2. Quiescent' BY DEF Quiescent, AtRest, Resting, CalledOff
  <2>3. CalledOff' BY DEF CalledOff, Quiescent, AtRest, Resting
  <2>4. Refreshing' BY DEF Refreshing, Quiescent, AtRest, Resting
  <2> QED BY <2>1, <2>2, <2>3, <2>4
<1>7. CASE RecoveryFails(t)
  <2> USE <1>7 DEF RecoveryFails
  <2>1. Types' BY DEF Resting, Quiescent
  <2>2. Quiescent' BY DEF Quiescent, AtRest, Resting, CalledOff
  <2>3. CalledOff' BY DEF CalledOff, Quiescent, AtRest, Resting
  <2>4. Refreshing' BY DEF Refreshing, Quiescent, AtRest, Resting
  <2> QED BY <2>1, <2>2, <2>3, <2>4
<1>8. CASE FinishRecovery(t)
  <2> USE <1>8 DEF FinishRecovery, AfterCheck
  <2>1. Types' BY DEF Resting, Quiescent
  <2>2. Quiescent' BY DEF Quiescent, AtRest, Resting, CalledOff
  <2>3. CalledOff' BY DEF CalledOff, Quiescent, AtRest, Resting
  <2>4. Refreshing' BY DEF Refreshing, Quiescent, AtRest, Resting
  <2> QED BY <2>1, <2>2, <2>3, <2>4
<1> QED BY <1>1, <1>2, <1>3, <1>4, <1>5, <1>6, <1>7, <1>8

\* submitDecodeUnit.
LEMMA InputKeepsIInv ==
  ASSUME IInv, submitDecodeUnit \/ FetchInputBuffer \/ QueueInputBuffer
          \/ TransientException \/ InputException \/ DecoderHung \/ FetchNext \/ Answer
  PROVE  IInv'
<1> USE DEF IInv, Types, Labels, Thread, Required, Goto, recoveryVars, codecVars,
            inputVars, otherVars
<1>1. CASE submitDecodeUnit
  <2> USE <1>1 DEF submitDecodeUnit
  <2>1. Types' BY DEF Resting, Quiescent
  <2>2. Quiescent' BY DEF Quiescent, AtRest, Resting, CalledOff
  <2>3. CalledOff' BY DEF CalledOff, Quiescent, AtRest, Resting
  <2>4. Refreshing' BY DEF Refreshing, Quiescent, AtRest, Resting
  <2> QED BY <2>1, <2>2, <2>3, <2>4
<1>2. CASE FetchInputBuffer
  <2> USE <1>2 DEF FetchInputBuffer
  <2>1. Types' BY DEF Resting, Quiescent
  <2>2. Quiescent' BY DEF Quiescent, AtRest, Resting, CalledOff
  <2>3. CalledOff' BY DEF CalledOff, Quiescent, AtRest, Resting
  <2>4. Refreshing' BY DEF Refreshing, Quiescent, AtRest, Resting
  <2> QED BY <2>1, <2>2, <2>3, <2>4
<1>3. CASE QueueInputBuffer
  <2> USE <1>3 DEF QueueInputBuffer
  <2>1. Types' BY DEF Resting, Quiescent
  <2>2. Quiescent' BY DEF Quiescent, AtRest, Resting, CalledOff
  <2>3. CalledOff' BY DEF CalledOff, Quiescent, AtRest, Resting
  <2>4. Refreshing' BY DEF Refreshing, Quiescent, AtRest, Resting
  <2> QED BY <2>1, <2>2, <2>3, <2>4
<1>4. CASE TransientException
  <2> USE <1>4 DEF TransientException
  <2>1. Types' BY DEF Resting, Quiescent
  <2>2. Quiescent' BY DEF Quiescent, AtRest, Resting, CalledOff
  <2>3. CalledOff' BY DEF CalledOff, Quiescent, AtRest, Resting
  <2>4. Refreshing' BY DEF Refreshing, Quiescent, AtRest, Resting
  <2> QED BY <2>1, <2>2, <2>3, <2>4
<1>5. CASE InputException
  <2>1. pc["input"] \in {"fetch", "queue"} BY <1>5 DEF InputException
  <2>2. CASE handleDecoderException("input") /\ phase' = "failed"
            /\ UNCHANGED <<fresh, unit, needIdr>>
    <3>1. PICK l \in {"check", "require restart", "require reset"}:
                  pc' = [pc EXCEPT !["input"] = l]
      BY <2>2 DEF handleDecoderException, RequestsRecovery, IgnoresException, KeepsException
    <3>2. UNCHANGED <<recoveryType, quiesced, monitor, stopping, stopper, crashed>>
      BY <2>2 DEF handleDecoderException
    <3>3. phase' = "failed" /\ UNCHANGED <<fresh, unit, needIdr>> BY <2>2
    <3>4. Types' BY <2>1, <3>1, <3>2, <3>3 DEF Resting, Quiescent
    <3>5. Quiescent' BY <2>1, <3>1, <3>2, <3>3 DEF Quiescent, AtRest, Resting, CalledOff
    <3>6. CalledOff' BY <2>1, <3>1, <3>2, <3>3 DEF CalledOff, Quiescent, AtRest, Resting
    <3>7. Refreshing' BY <2>1, <3>1, <3>2, <3>3 DEF Refreshing, Quiescent, AtRest, Resting
    <3> QED BY <3>4, <3>5, <3>6, <3>7
  <2>3. CASE ThrowsException("input")
    <3>1. UNCHANGED <<recoveryVars, codecVars, inputVars, stopper, pc>>
      BY <2>3 DEF ThrowsException
    <3>2. Types' BY <3>1 DEF Resting, Quiescent
    <3>3. Quiescent' BY <3>1 DEF Quiescent, AtRest, Resting, CalledOff
    <3>4. CalledOff' BY <3>1 DEF CalledOff, Quiescent, AtRest, Resting
    <3>5. Refreshing' BY <3>1 DEF Refreshing, Quiescent, AtRest, Resting
    <3> QED BY <3>2, <3>3, <3>4, <3>5
  <2> QED BY <1>5, <2>2, <2>3 DEF InputException
<1>6. CASE DecoderHung
  <2> USE <1>6 DEF DecoderHung
  <2>1. Types' BY DEF Resting, Quiescent
  <2>2. Quiescent' BY DEF Quiescent, AtRest, Resting, CalledOff
  <2>3. CalledOff' BY DEF CalledOff, Quiescent, AtRest, Resting
  <2>4. Refreshing' BY DEF Refreshing, Quiescent, AtRest, Resting
  <2> QED BY <2>1, <2>2, <2>3, <2>4
<1>7. CASE FetchNext
  <2> USE <1>7 DEF FetchNext
  <2>1. Types' BY DEF Resting, Quiescent
  <2>2. Quiescent' BY DEF Quiescent, AtRest, Resting, CalledOff
  <2>3. CalledOff' BY DEF CalledOff, Quiescent, AtRest, Resting
  <2>4. Refreshing' BY DEF Refreshing, Quiescent, AtRest, Resting
  <2> QED BY <2>1, <2>2, <2>3, <2>4
<1>8. CASE Answer
  <2> USE <1>8 DEF Answer
  <2>1. Types' BY DEF Resting, Quiescent
  <2>2. Quiescent' BY DEF Quiescent, AtRest, Resting, CalledOff
  <2>3. CalledOff' BY DEF CalledOff, Quiescent, AtRest, Resting
  <2>4. Refreshing' BY DEF Refreshing, Quiescent, AtRest, Resting
  <2> QED BY <2>1, <2>2, <2>3, <2>4
<1> QED BY <1>1, <1>2, <1>3, <1>4, <1>5, <1>6, <1>7, <1>8

\* rendererThread.
LEMMA RendererKeepsIInv ==
  ASSUME IInv, LoopTest \/ DequeueOutputBuffer \/ RenderException
  PROVE  IInv'
<1> USE DEF IInv, Types, Labels, Thread, Required, Goto, recoveryVars, codecVars,
            inputVars, otherVars
<1>1. CASE LoopTest
  <2> USE <1>1 DEF LoopTest
  <2>1. Types' BY DEF Resting, Quiescent
  <2>2. Quiescent' BY DEF Quiescent, AtRest, Resting, CalledOff
  <2>3. CalledOff' BY DEF CalledOff, Quiescent, AtRest, Resting
  <2>4. Refreshing' BY DEF Refreshing, Quiescent, AtRest, Resting
  <2> QED BY <2>1, <2>2, <2>3, <2>4
<1>2. CASE DequeueOutputBuffer
  <2> USE <1>2 DEF DequeueOutputBuffer, NoChoreographer
  <2>1. Types' BY DEF Resting, Quiescent
  <2>2. Quiescent' BY DEF Quiescent, AtRest, Resting, CalledOff
  <2>3. CalledOff' BY DEF CalledOff, Quiescent, AtRest, Resting
  <2>4. Refreshing' BY DEF Refreshing, Quiescent, AtRest, Resting
  <2> QED BY <2>1, <2>2, <2>3, <2>4
<1>3. CASE RenderException
  <2>1. pc["render"] \in {"dequeue"} BY <1>3 DEF RenderException
  <2>2. CASE handleDecoderException("render") /\ UNCHANGED <<codecVars, inputVars>>
    <3>1. PICK l \in {"check", "require restart", "require reset"}:
                  pc' = [pc EXCEPT !["render"] = l]
      BY <2>2 DEF handleDecoderException, RequestsRecovery, IgnoresException, KeepsException
    <3>2. UNCHANGED <<recoveryType, quiesced, monitor, stopping, stopper, crashed>>
      BY <2>2 DEF handleDecoderException
    <3>3. UNCHANGED <<codecVars, inputVars>> BY <2>2
    <3>4. Types' BY <2>1, <3>1, <3>2, <3>3 DEF Resting, Quiescent
    <3>5. Quiescent' BY <2>1, <3>1, <3>2, <3>3 DEF Quiescent, AtRest, Resting, CalledOff
    <3>6. CalledOff' BY <2>1, <3>1, <3>2, <3>3 DEF CalledOff, Quiescent, AtRest, Resting
    <3>7. Refreshing' BY <2>1, <3>1, <3>2, <3>3 DEF Refreshing, Quiescent, AtRest, Resting
    <3> QED BY <3>4, <3>5, <3>6, <3>7
  <2>3. CASE ThrowsException("render")
    <3>1. UNCHANGED <<recoveryVars, codecVars, inputVars, stopper, pc>>
      BY <2>3 DEF ThrowsException
    <3>2. Types' BY <3>1 DEF Resting, Quiescent
    <3>3. Quiescent' BY <3>1 DEF Quiescent, AtRest, Resting, CalledOff
    <3>4. CalledOff' BY <3>1 DEF CalledOff, Quiescent, AtRest, Resting
    <3>5. Refreshing' BY <3>1 DEF Refreshing, Quiescent, AtRest, Resting
    <3> QED BY <3>2, <3>3, <3>4, <3>5
  <2> QED BY <1>3, <2>2, <2>3 DEF RenderException
<1> QED BY <1>1, <1>2, <1>3

\* The choreographer's thread.
LEMMA ChoreographerKeepsIInv ==
  ASSUME IInv, doFrame \/ ReleaseOutputBuffer \/ ReleaseException \/ PostFrameCallback \/ Quit
  PROVE  IInv'
<1> USE DEF IInv, Types, Labels, Thread, Required, Goto, recoveryVars, codecVars,
            inputVars, otherVars
<1>1. CASE doFrame
  <2>1. pc["choreographer"] = "idle" BY <1>1 DEF doFrame
  <2>2. PICK l \in {"silent", "release", "check"} :
           pc' = [pc EXCEPT !["choreographer"] = l] /\ (stopping => l = "silent")
    BY <1>1 DEF doFrame
  <2>3. UNCHANGED <<recoveryVars, fresh, inputVars, otherVars>> BY <1>1 DEF doFrame
  <2>4. "choreographer" \in quiesced => l = "silent"
    BY <2>1, <2>2 DEF Quiescent, AtRest, Resting
  <2>5. Types' BY <2>1, <2>2, <2>3, <2>4 DEF Resting, Quiescent
  <2>6. Quiescent' BY <2>1, <2>2, <2>3, <2>4 DEF Quiescent, AtRest, Resting, CalledOff
  <2>7. CalledOff' BY <2>1, <2>2, <2>3, <2>4 DEF CalledOff, Quiescent, AtRest, Resting
  <2>8. Refreshing' BY <2>1, <2>2, <2>3, <2>4 DEF Refreshing, Quiescent, AtRest, Resting
  <2> QED BY <2>5, <2>6, <2>7, <2>8
<1>2. CASE ReleaseOutputBuffer
  <2> USE <1>2 DEF ReleaseOutputBuffer
  <2>1. Types' BY DEF Resting, Quiescent
  <2>2. Quiescent' BY DEF Quiescent, AtRest, Resting, CalledOff
  <2>3. CalledOff' BY DEF CalledOff, Quiescent, AtRest, Resting
  <2>4. Refreshing' BY DEF Refreshing, Quiescent, AtRest, Resting
  <2> QED BY <2>1, <2>2, <2>3, <2>4
<1>3. CASE ReleaseException
  <2>1. pc["choreographer"] \in {"release"} BY <1>3 DEF ReleaseException
  <2>2. CASE handleDecoderException("choreographer") /\ UNCHANGED <<codecVars, inputVars>>
    <3>1. PICK l \in {"check", "require restart", "require reset"}:
                  pc' = [pc EXCEPT !["choreographer"] = l]
      BY <2>2 DEF handleDecoderException, RequestsRecovery, IgnoresException, KeepsException
    <3>2. UNCHANGED <<recoveryType, quiesced, monitor, stopping, stopper, crashed>>
      BY <2>2 DEF handleDecoderException
    <3>3. UNCHANGED <<codecVars, inputVars>> BY <2>2
    <3>4. Types' BY <2>1, <3>1, <3>2, <3>3 DEF Resting, Quiescent
    <3>5. Quiescent' BY <2>1, <3>1, <3>2, <3>3 DEF Quiescent, AtRest, Resting, CalledOff
    <3>6. CalledOff' BY <2>1, <3>1, <3>2, <3>3 DEF CalledOff, Quiescent, AtRest, Resting
    <3>7. Refreshing' BY <2>1, <3>1, <3>2, <3>3 DEF Refreshing, Quiescent, AtRest, Resting
    <3> QED BY <3>4, <3>5, <3>6, <3>7
  <2>3. CASE ThrowsException("choreographer")
    <3>1. UNCHANGED <<recoveryVars, codecVars, inputVars, stopper, pc>>
      BY <2>3 DEF ThrowsException
    <3>2. Types' BY <3>1 DEF Resting, Quiescent
    <3>3. Quiescent' BY <3>1 DEF Quiescent, AtRest, Resting, CalledOff
    <3>4. CalledOff' BY <3>1 DEF CalledOff, Quiescent, AtRest, Resting
    <3>5. Refreshing' BY <3>1 DEF Refreshing, Quiescent, AtRest, Resting
    <3> QED BY <3>2, <3>3, <3>4, <3>5
  <2> QED BY <1>3, <2>2, <2>3 DEF ReleaseException
<1>4. CASE PostFrameCallback
  <2> USE <1>4 DEF PostFrameCallback
  <2>1. Types' BY DEF Resting, Quiescent
  <2>2. Quiescent' BY DEF Quiescent, AtRest, Resting, CalledOff
  <2>3. CalledOff' BY DEF CalledOff, Quiescent, AtRest, Resting
  <2>4. Refreshing' BY DEF Refreshing, Quiescent, AtRest, Resting
  <2> QED BY <2>1, <2>2, <2>3, <2>4
<1>5. CASE Quit
  <2> USE <1>5 DEF Quit
  <2>1. Types' BY DEF Resting, Quiescent
  <2>2. Quiescent' BY DEF Quiescent, AtRest, Resting, CalledOff
  <2>3. CalledOff' BY DEF CalledOff, Quiescent, AtRest, Resting
  <2>4. Refreshing' BY DEF Refreshing, Quiescent, AtRest, Resting
  <2> QED BY <2>1, <2>2, <2>3, <2>4
<1> QED BY <1>1, <1>2, <1>3, <1>4, <1>5

\* setHdrMode, prepareForStop and stop.
LEMMA StopKeepsIInv ==
  ASSUME IInv, SetMetadata \/ RequireRestart \/ prepareForStop \/ Stop
  PROVE  IInv'
<1> USE DEF IInv, Types, Labels, Thread, Required, Goto, recoveryVars, codecVars,
            inputVars, otherVars
<1>1. CASE SetMetadata
  <2> USE <1>1 DEF SetMetadata
  <2>1. Types' BY DEF Resting, Quiescent
  <2>2. Quiescent' BY DEF Quiescent, AtRest, Resting, CalledOff
  <2>3. CalledOff' BY DEF CalledOff, Quiescent, AtRest, Resting
  <2>4. Refreshing' BY DEF Refreshing, Quiescent, AtRest, Resting
  <2> QED BY <2>1, <2>2, <2>3, <2>4
<1>2. CASE RequireRestart
  <2> USE <1>2 DEF RequireRestart
  <2>1. Types' BY DEF Resting, Quiescent
  <2>2. Quiescent' BY DEF Quiescent, AtRest, Resting, CalledOff
  <2>3. CalledOff' BY DEF CalledOff, Quiescent, AtRest, Resting
  <2>4. Refreshing' BY DEF Refreshing, Quiescent, AtRest, Resting
  <2> QED BY <2>1, <2>2, <2>3, <2>4
<1>3. CASE prepareForStop
  <2> USE <1>3 DEF prepareForStop, BeginStop, EndRecovery
  <2>1. CASE BeginStop("playing", "preparing")
    <3> USE <2>1
    <3>1. Types' BY DEF Resting, Quiescent
    <3>2. Quiescent' BY DEF Quiescent, AtRest, Resting, CalledOff
    <3>3. CalledOff' BY DEF CalledOff, Quiescent, AtRest, Resting
    <3>4. Refreshing' BY DEF Refreshing, Quiescent, AtRest, Resting
    <3> QED BY <3>1, <3>2, <3>3, <3>4
  <2>2. CASE EndRecovery("preparing", "prepared")
    <3> USE <2>2
    <3>1. Types' BY DEF Resting, Quiescent
    <3>2. Quiescent' BY DEF Quiescent, AtRest, Resting, CalledOff
    <3>3. CalledOff' BY DEF CalledOff, Quiescent, AtRest, Resting
    <3>4. Refreshing' BY DEF Refreshing, Quiescent, AtRest, Resting
    <3> QED BY <3>1, <3>2, <3>3, <3>4
  <2> QED BY <2>1, <2>2
<1>4. CASE Stop
  <2>1. CASE BeginStop("playing", "stopping") \/ BeginStop("prepared", "stopping")
    <3>1. stopping' = TRUE /\ recoveryType' = recoveryType
            /\ UNCHANGED <<quiesced, monitor, codecVars, inputVars, pc>>
      BY <1>4, <2>1 DEF Stop, BeginStop, EndRecovery
    <3>2. Types' BY <3>1 DEF Resting, Quiescent
    <3>3. Quiescent' BY <3>1 DEF Quiescent, AtRest, Resting, CalledOff
    <3>4. CalledOff' BY <3>1 DEF CalledOff, Quiescent, AtRest, Resting
    <3>5. Refreshing' BY <3>1 DEF Refreshing, Quiescent, AtRest, Resting
    <3> QED BY <3>2, <3>3, <3>4, <3>5
  <2>2. CASE EndRecovery("stopping", "joining")
    <3>1. stopper = "stopping" /\ stopping' = stopping /\ recoveryType' = "none"
            /\ UNCHANGED <<quiesced, monitor, codecVars, inputVars, pc>>
      BY <1>4, <2>2 DEF Stop, BeginStop, EndRecovery
    <3>2. Types' BY <3>1 DEF Resting, Quiescent
    <3>3. Quiescent' BY <3>1 DEF Quiescent, AtRest, Resting, CalledOff
    <3>4. CalledOff' BY <3>1 DEF CalledOff, Quiescent, AtRest, Resting
    <3>5. Refreshing' BY <3>1 DEF Refreshing, Quiescent, AtRest, Resting
    <3> QED BY <3>2, <3>3, <3>4, <3>5
  <2>3. CASE stopper \in {"joining", "stopped"}
    <3>1. stopper # "playing" /\ UNCHANGED <<recoveryType, stopping>>
            /\ UNCHANGED <<quiesced, monitor, codecVars, inputVars, pc>>
      BY <1>4, <2>3 DEF Stop, BeginStop, EndRecovery
    <3>2. Types' BY <3>1 DEF Resting, Quiescent
    <3>3. Quiescent' BY <3>1 DEF Quiescent, AtRest, Resting, CalledOff
    <3>4. CalledOff' BY <3>1 DEF CalledOff, Quiescent, AtRest, Resting
    <3>5. Refreshing' BY <3>1 DEF Refreshing, Quiescent, AtRest, Resting
    <3> QED BY <3>2, <3>3, <3>4, <3>5
  <2> QED BY <1>4, <2>1, <2>2, <2>3 DEF Stop
<1> QED BY <1>1, <1>2, <1>3, <1>4

-----------------------------------------------------------------------------
\* A step of any thread keeps the invariant, and so does a step of none.
LEMMA NextKeepsIInv == IInv /\ [Next]_vars => IInv'
<1> SUFFICES ASSUME IInv, [Next]_vars PROVE IInv'
    OBVIOUS
<1>1. ASSUME NEW t \in Thread, Step(t) PROVE IInv'
  <2>1. CASE RequireRecovery(t) \/ PromoteToReset(t) \/ VerifyRecovery(t)
    BY <2>1, ExceptionKeepsIInv
  <2>2. CASE doCodecRecoveryIfRequired(t)
    BY <2>2, CheckKeepsIInv DEF doCodecRecoveryIfRequired
  <2>3. CASE InputThread BY <2>3, InputKeepsIInv DEF InputThread
  <2>4. CASE Renderer BY <2>4, RendererKeepsIInv DEF Renderer
  <2>5. CASE Choreographer BY <2>5, ChoreographerKeepsIInv DEF Choreographer
  <2> QED BY <1>1, <2>1, <2>2, <2>3, <2>4, <2>5 DEF Step
<1>2. CASE SetMetadata \/ RequireRestart \/ prepareForStop \/ Stop
  BY <1>2, StopKeepsIInv
<1>3. CASE UNCHANGED vars
  BY <1>3 DEF vars, recoveryVars, codecVars, inputVars, otherVars, IInv, Types, Quiescent,
              AtRest, CalledOff, Refreshing
<1> QED BY <1>1, <1>2, <1>3 DEF Next

\* The invariant the two theorems below follow from holds for every value of the constants.
THEOREM IInvHolds == Spec => []IInv
BY InitIInv, NextKeepsIInv, PTL DEF Spec

(***************************************************************************)
(* However often the codec fails, whichever threads find out and whenever  *)
(* stop comes: while one thread recovers the codec none is in a call of it.*)
(***************************************************************************)
THEOREM RecoveryIsExclusive == Spec => []ExclusiveRecovery
<1>1. IInv => ExclusiveRecovery
  <2> SUFFICES ASSUME IInv, NEW t \in Thread, pc[t] \in {"recover", "configured"},
                      NEW u \in Thread
               PROVE  u \notin UsesCodec
      BY DEF ExclusiveRecovery, UsesCodec
  <2>1. AtRest(u) BY DEF IInv, Quiescent
  <2> QED BY <2>1 DEF AtRest, Resting, UsesCodec
<1> QED BY <1>1, IInvHolds, PTL

(***************************************************************************)
(* Whichever thread recovered the codec, and whatever the input thread was *)
(* doing when it came to rest: the codec is never given a frame that       *)
(* refers to one it was not given since.                                   *)
(***************************************************************************)
THEOREM RecoveryIsFollowedByIdr == Spec => []IdrAfterRecovery
<1>1. IInv => IdrAfterRecovery
  BY DEF IInv, Refreshing, IdrAfterRecovery, Types
<1> QED BY <1>1, IInvHolds, PTL

-----------------------------------------------------------------------------
(* The type invariant: that attempts does not pass MaxTries by more than one needs an     *)
(* argument, since the test of it and the recovery that counts are far apart.             *)

\* Whoever requires a recovery for an exception has found tries left, and keeps the others
\* from using them up as long as he has not come to rest; the one try too many is that of
\* setHdrMode, which resets the count before it requires a restart.
TriesLeft ==
  /\ \A t \in Thread : pc[t] \in {"require restart", "require reset"} => attempts < MaxTries
  /\ recoveryType # "none" /\ monitor = "none" =>
       attempts <= MaxTries /\ (hdrSetter = "require restart" => attempts < MaxTries)
  /\ hdrSetter = "require restart" => attempts <= MaxTries

TypeInv == TypeOK /\ TriesLeft

\* What is known of the counts, and nothing else of the types.
LEMMA TriesFacts ==
  ASSUME TypeInv
  PROVE  /\ attempts \in Nat /\ MaxTries \in Nat \ {0} /\ TriesLeft
         /\ HdrChanges \in Nat /\ hdrChanges \in 0 .. HdrChanges
         /\ attempts \in 0 .. MaxTries + 1
BY CodecAssumption DEF TypeInv, TypeOK

\* One more than a count below the maximum does not pass it.
LEMMA OneMore ==
  \A a, m \in Nat : /\ a < m => a <= m /\ a + 1 <= m
                    /\ a <= m => a + 1 \in 0 .. m + 1
OBVIOUS

\* The three steps after which the count matters.
LEMMA TriesWhenRequired ==
  ASSUME TypeInv, attempts < MaxTries, attempts' = attempts, monitor' = monitor,
         hdrSetter' = hdrSetter,
         \A t \in Thread : pc'[t] \in {"require restart", "require reset"} => pc'[t] = pc[t]
  PROVE  TriesLeft'
<1>1. attempts \in Nat /\ MaxTries \in Nat BY TriesFacts
<1>2. attempts <= MaxTries BY <1>1, OneMore
<1> QED BY <1>1, <1>2 DEF TriesLeft

\* The last thread to come to rest counts a try that was left.
LEMMA TriesWhenAtRest ==
  ASSUME TypeInv, NEW t \in Thread, monitor = "none", monitor' = t,
         attempts' = (IF recoveryType = "none" THEN attempts ELSE attempts + 1),
         hdrSetter' = hdrSetter,
         \A u \in Thread : pc'[u] \notin {"require restart", "require reset"}
  PROVE  TriesLeft' /\ attempts' \in 0 .. MaxTries + 1
<1>1. attempts \in Nat /\ MaxTries \in Nat /\ attempts \in 0 .. MaxTries + 1 BY TriesFacts
<1>2. TriesLeft BY TriesFacts
<1>3. recoveryType # "none" =>
        attempts <= MaxTries /\ (hdrSetter = "require restart" => attempts < MaxTries)
  BY <1>2 DEF TriesLeft
<1>4. hdrSetter = "require restart" => attempts <= MaxTries BY <1>2 DEF TriesLeft
<1>5. CASE recoveryType = "none"
  <2>1. attempts' = attempts BY <1>5
  <2>2. monitor' # "none" BY DEF Thread
  <2> QED BY <1>1, <1>4, <2>1, <2>2 DEF TriesLeft
<1>6. CASE recoveryType # "none"
  <2>1. attempts' = attempts + 1 BY <1>6
  <2>2. monitor' # "none" BY DEF Thread
  <2>3. attempts + 1 \in 0 .. MaxTries + 1 BY <1>1, <1>3, <1>6, OneMore
  <2>4. hdrSetter = "require restart" => attempts + 1 <= MaxTries
    BY <1>1, <1>3, <1>6, OneMore
  <2> QED BY <2>1, <2>2, <2>3, <2>4 DEF TriesLeft
<1> QED BY <1>5, <1>6

\* setHdrMode starts to count from zero.
LEMMA TriesFromZero ==
  ASSUME TypeInv, attempts' = 0
  PROVE  TriesLeft' /\ attempts' \in 0 .. MaxTries + 1
<1>1. 0 < MaxTries /\ 0 <= MaxTries /\ 0 \in 0 .. MaxTries + 1 BY TriesFacts
<1> QED BY <1>1 DEF TriesLeft

\* A step that leaves the count, the type and the monitor alone, and requires nothing.
LEMMA OtherTries ==
  ASSUME TypeInv, UNCHANGED <<attempts, recoveryType, monitor, hdrSetter>>,
         \A t \in Thread : pc'[t] \in {"require restart", "require reset"} => pc'[t] = pc[t]
  PROVE  TriesLeft'
BY DEF TypeInv, TriesLeft

\* A recovery is required for an exception only while tries are left.
LEMMA ExceptionTypes ==
  ASSUME IInv, TypeInv, NEW t \in Thread, handleDecoderException(t)
  PROVE  TriesLeft' /\ DOMAIN pc' = Thread /\ initialException' \in BOOLEAN
BY DEF IInv, Types, TypeInv, TypeOK, TriesLeft, handleDecoderException, RequestsRecovery,
       IgnoresException, KeepsException, Goto

\* Requiring a recovery leaves the count alone.
LEMMA RequireTypes ==
  ASSUME IInv, TypeInv, NEW t \in Thread,
         RequireRecovery(t) \/ PromoteToReset(t) \/ VerifyRecovery(t)
  PROVE  TypeInv'
<1> USE CodecAssumption DEF TypeInv, TypeOK, Goto, Required, codecVars, inputVars, otherVars,
      recoveryVars
<1>1. pc \in [Thread -> Labels] BY DEF IInv, Types
<1>2. CASE RequireRecovery(t)
  <2>1. attempts < MaxTries BY <1>2 DEF RequireRecovery, TriesLeft
  <2>2. UNCHANGED <<attempts, monitor, hdrSetter>> BY <1>2 DEF RequireRecovery
  <2>3. \A u \in Thread : pc'[u] \in {"require restart", "require reset"} => pc'[u] = pc[u]
    BY <1>1, <1>2 DEF RequireRecovery
  <2>4. TriesLeft' BY <2>1, <2>2, <2>3, TriesWhenRequired
  <2> QED BY <1>1, <1>2, <2>4 DEF RequireRecovery
<1>3. CASE PromoteToReset(t) BY <1>1, <1>3, ZenonT(60) DEF PromoteToReset, TriesLeft
<1>4. CASE VerifyRecovery(t) BY <1>1, <1>4, ZenonT(60) DEF VerifyRecovery, TriesLeft
<1> QED BY <1>2, <1>3, <1>4

\* doCodecRecoveryIfRequired counts one try per recovery.
LEMMA CheckTypes ==
  ASSUME IInv, TypeInv, NEW t \in Thread, doCodecRecoveryIfRequired(t)
  PROVE  TypeInv'
<1> USE CodecAssumption DEF TypeInv, TypeOK, Goto, Required, codecVars, inputVars, otherVars,
      recoveryVars, AfterCheck
<1>1. pc \in [Thread -> Labels] /\ t \in Thread BY DEF IInv, Types
<1>2. CASE NothingRequired(t) \/ MustQuiesce(t) \/ Wake(t)
  BY <1>1, <1>2, OtherTries, ZenonT(60) DEF NothingRequired, MustQuiesce, Wake
<1>3. CASE Quiesce(t) /\ Quiesced(t) = Thread
  <2>1. \A u \in Thread : pc[u] \notin {"require restart", "require reset"}
    BY <1>1, <1>3 DEF Quiesce, Quiesced, NoChoreographer, IInv, Quiescent, AtRest, Resting, Thread
  <2>2. /\ monitor = "none" /\ monitor' = t /\ pc' = [pc EXCEPT ![t] = "recover"]
        /\ attempts' = (IF recoveryType = "none" THEN attempts ELSE attempts + 1)
        /\ UNCHANGED <<recoveryType, hdrSetter>>
    BY <1>3 DEF Quiesce
  <2>3. t # "none" BY DEF Thread
  <2>4. \A u \in Thread : pc'[u] \notin {"require restart", "require reset"} BY <1>1, <2>1, <2>2
  <2>5. TriesLeft' /\ attempts' \in 0 .. MaxTries + 1
    BY <2>2, <2>3, <2>4, TriesWhenAtRest
  <2>7. /\ phase' \in {"fetch", "queue", "prefetch", "empty", "failed"}
        /\ outputBufferQueue' \in 0 .. QueueLimit
    BY <1>3 DEF Quiesce, NoteRecovery
  <2>8. quiesced' = Thread /\ nextInputBuffer' = FALSE BY <1>3 DEF Quiesce
  <2>9. UNCHANGED <<stopping, initialException, fresh, unit, needIdr, hdrChanges, stopper, crashed>>
    BY <1>3 DEF Quiesce
  <2> QED BY <2>2, <2>5, <2>7, <2>8, <2>9
<1>4. CASE Quiesce(t) /\ Quiesced(t) # Thread
  <2>1. TriesLeft' BY <1>1, <1>4, OtherTries DEF Quiesce
  <2>2. quiesced' \subseteq Thread BY <1>1, <1>4 DEF Quiesce, Quiesced, Thread
  <2> QED BY <1>1, <1>4, <2>1, <2>2 DEF Quiesce, NoteRecovery
<1>5. CASE Configure(t) \/ SurfaceGone(t) \/ RecoveryFails(t)
  BY <1>1, <1>5, OtherTries, ZenonT(60) DEF Configure, SurfaceGone, RecoveryFails
<1>6. CASE FinishRecovery(t)
  <2>1. TriesLeft' BY <1>1, <1>6 DEF FinishRecovery, TriesLeft
  <2> QED BY <1>1, <1>6, <2>1 DEF FinishRecovery
<1> QED BY <1>2, <1>3, <1>4, <1>5, <1>6 DEF doCodecRecoveryIfRequired

\* The threads that use the codec do not count.
LEMMA ThreadTypes ==
  ASSUME IInv, TypeInv, InputThread \/ Renderer \/ Choreographer
  PROVE  TypeInv'
<1> USE CodecAssumption DEF TypeInv, TypeOK, codecVars, inputVars, otherVars, recoveryVars
<1>1. pc \in [Thread -> Labels] BY DEF IInv, Types
<1>2. ASSUME NEW t \in Thread, ThrowsException(t) PROVE TypeInv'
  BY <1>1, <1>2, OtherTries DEF ThrowsException
<1>3. CASE submitDecodeUnit \/ FetchInputBuffer \/ QueueInputBuffer
           \/ TransientException \/ DecoderHung \/ FetchNext \/ Answer
  BY <1>1, <1>3, OtherTries, ZenonT(60) DEF submitDecodeUnit, FetchInputBuffer, QueueInputBuffer,
     TransientException, DecoderHung, FetchNext, Answer, Goto
<1>4. CASE InputException
  BY <1>1, <1>2, <1>4, ExceptionTypes DEF InputException, handleDecoderException, Thread
<1>5. CASE LoopTest \/ DequeueOutputBuffer
  <2>1. TriesLeft' BY <1>1, <1>5, OtherTries DEF LoopTest, DequeueOutputBuffer, Goto
  <2>2. outputBufferQueue' \in 0 .. QueueLimit BY <1>5 DEF LoopTest, DequeueOutputBuffer
  <2> QED BY <1>1, <1>5, <2>1, <2>2 DEF LoopTest, DequeueOutputBuffer, Goto
<1>6. CASE RenderException
  BY <1>1, <1>2, <1>6, ExceptionTypes, ZenonT(60) DEF RenderException, handleDecoderException, Thread
<1>7. CASE doFrame \/ ReleaseOutputBuffer \/ PostFrameCallback \/ Quit
  <2>1. TriesLeft'
    BY <1>1, <1>7, OtherTries DEF doFrame, ReleaseOutputBuffer, PostFrameCallback, Quit, Goto
  <2>2. outputBufferQueue' \in 0 .. QueueLimit
    BY <1>7 DEF doFrame, ReleaseOutputBuffer, PostFrameCallback, Quit
  <2> QED BY <1>1, <1>7, <2>1, <2>2
     DEF doFrame, ReleaseOutputBuffer, PostFrameCallback, Quit, Goto
<1>8. CASE ReleaseException
  BY <1>1, <1>2, <1>8, ExceptionTypes, ZenonT(60) DEF ReleaseException, handleDecoderException, Thread
<1> QED BY <1>3, <1>4, <1>5, <1>6, <1>7, <1>8 DEF InputThread, Renderer, Choreographer

\* Neither does setHdrMode, which resets the count, nor a stop, which calls a recovery off.
LEMMA OtherTypes ==
  ASSUME IInv, TypeInv, SetMetadata \/ RequireRestart \/ prepareForStop \/ Stop
  PROVE  TypeInv'
<1> USE CodecAssumption DEF TypeInv, TypeOK, codecVars, inputVars, recoveryVars, Required
<1>1. CASE SetMetadata
  <2>1. attempts' = 0 /\ UNCHANGED <<recoveryType, monitor, pc>> BY <1>1 DEF SetMetadata
  <2>2. hdrChanges < HdrChanges /\ hdrChanges' = hdrChanges + 1 BY <1>1 DEF SetMetadata
  <2>3. TriesLeft' /\ attempts' \in 0 .. MaxTries + 1 BY <2>1, TriesFromZero
  <2>4. hdrChanges' \in 0 .. HdrChanges BY TriesFacts, <2>2
  <2> QED BY <1>1, <2>3, <2>4 DEF SetMetadata
<1>2. CASE RequireRestart BY <1>2 DEF RequireRestart, TriesLeft
<1>3. CASE prepareForStop BY <1>3 DEF prepareForStop, BeginStop, EndRecovery, TriesLeft
<1>4. CASE Stop BY <1>4, ZenonT(60) DEF Stop, BeginStop, EndRecovery, TriesLeft
<1> QED BY <1>1, <1>2, <1>3, <1>4

(***************************************************************************)
(* Every variable has its type; in particular at most MaxTries recoveries  *)
(* are counted for exceptions, and one more for a change of the metadata.  *)
(***************************************************************************)
THEOREM TypeCorrect == Spec => []TypeOK
<1>1. Init => TypeInv
  <2> SUFFICES ASSUME Init PROVE TypeInv OBVIOUS
  <2>1. pc \in [Thread -> Labels] BY InitIInv DEF IInv, Types
  <2>2. \A t \in Thread : pc[t] \in {"idle", "loop", "none"} BY DEF Init, Thread
  <2>3. TriesLeft BY <2>2 DEF Init, TriesLeft
  <2>4. /\ attempts \in 0 .. MaxTries + 1 /\ outputBufferQueue \in 0 .. QueueLimit
        /\ hdrChanges \in 0 .. HdrChanges
    BY CodecAssumption DEF Init
  <2> QED BY <2>1, <2>3, <2>4 DEF Init, TypeInv, TypeOK
<1>2. IInv /\ TypeInv /\ [Next]_vars => TypeInv'
  <2> SUFFICES ASSUME IInv, TypeInv, [Next]_vars PROVE TypeInv' OBVIOUS
  <2>1. CASE UNCHANGED vars
    BY <2>1 DEF vars, recoveryVars, codecVars, inputVars, otherVars, TypeInv, TypeOK, TriesLeft
  <2> QED BY <2>1, RequireTypes, CheckTypes, ThreadTypes, OtherTypes DEF Next, Step
<1>3. TypeInv => TypeOK BY DEF TypeInv
<1> QED BY <1>1, <1>2, <1>3, IInvHolds, PTL DEF Spec

=============================================================================
