------------------------ MODULE StreamSessionProofs ------------------------
(***************************************************************************)
(* Theorems about StreamSession, for any sessions, stages and streams: its *)
(* type invariant, the accounting of the permit, the state a start finds,  *)
(* the owner of the callbacks, and that it implements ExclusiveSession.    *)
(***************************************************************************)
EXTENDS StreamSession, FiniteSetTheorems, TLAPS

\* The native connection of g is up, or is being undone.
Up(g) == \/ starter[g] \in {"started", "leave"}
         \/ starter[g] = "done" /\ stopper[g] \in {"none", "interrupt", "enter"}
Unwinding(g) == starter[g] = "unwind" \/ stopper[g] = "unwind"

\* The stages or the threads of the core are those of g.
Busy(g) == starter[g] \in {"begin", "outcome", "failing", "stopping"} \/ Up(g) \/ Unwinding(g)

OffAbove(n) == \A k \in Reporting : k > n => thread[k] = "off"

-----------------------------------------------------------------------------
\* At most one session holds the permit, and it is free when none does.
SoleHolder ==
  \/ connectionAllowed = 1 /\ \A h \in Owners : ~Holds(h)
  \/ connectionAllowed = 0 /\ \E g \in Owners : \A h \in Owners : Holds(h) <=> h = g

MonitorHeld ==
  \A g \in Owners : monitor = g <=> starter[g] \in StartedCore \/ stopper[g] = "unwind"

\* Where the reports that g has started are in the queue of the UI thread.
Reports(g) == {i \in 1 .. Len(uiQueue) : uiQueue[i] = <<g, "started">>}

\* A connection is stopped at most once, and not before it has been reported as started:
\* of the report in the queue, the flag it sets and the stop there is only one.
StopsOnce ==
  \A g \in Owners :
    /\ stopper[g] \in {"unwind", "release", "done"} => starter[g] = "done"
    /\ connected[g] \/ stopper[g] # "none" => starter[g] \in {"leave", "done"}
    /\ connected[g] => stopper[g] = "none"
    /\ Reports(g) # {} => starter[g] \in {"leave", "done"} /\ ~connected[g] /\ stopper[g] = "none"
    /\ \A i, j \in Reports(g) : i = j

ListenerSet ==
  \A g \in Owners : (starter[g] \in StartedCore \/ Up(g) \/ Unwinding(g)) => connectionListener = g

\* The state of the core where the session g is, and without a session.
ShapeOf(g) ==
  /\ starter[g] = "begin" => stage < LastStage
  /\ starter[g] \in {"begin", "stopping"} => joining = STAGE_NONE /\ OffAbove(stage)
  /\ starter[g] = "outcome" => stage < LastStage /\ joining = STAGE_NONE /\ OffAbove(stage + 1)
  /\ starter[g] = "failing" => stage < LastStage /\ joining = stage + 1 /\ OffAbove(stage + 1)
  /\ Up(g) => stage = LastStage /\ joining = STAGE_NONE
  /\ Unwinding(g) => joining \in {STAGE_NONE, stage} /\ OffAbove(stage)

Idle == stage = STAGE_NONE /\ joining = STAGE_NONE /\ OffAbove(STAGE_NONE)

CoreShape ==
  /\ \A g \in Owners : ShapeOf(g)
  /\ (\A g \in Owners : ~Busy(g)) => Idle

SInv == TypeOK /\ SoleHolder /\ MonitorHeld /\ StopsOnce /\ ListenerSet /\ CoreShape

-----------------------------------------------------------------------------
\* Before the first start there is no session in the core.
LEMMA InitSInv == Init => SInv
<1> SUFFICES ASSUME Init PROVE SInv OBVIOUS
<1> USE DEF Init, CoreInit
<1>1. LastStage \in Nat /\ 0 \in 0 .. LastStage
  BY StagesAssumption DEF LastStage
<1>2. CoreTypeOK
  BY <1>1 DEF CoreTypeOK, AsyncStates, STAGE_NONE
<1>3. TypeOK
  <2>1. uiQueue \in Seq(Owners \X {"started", "failed", "terminated"})
    <3>1. \A S : <<>> \in Seq(S) OBVIOUS
    <3> QED BY <3>1, Zenon
  <2>2. connectionAllowed = 1 /\ 1 \in 0 .. 1 /\ crashed \in BOOLEAN
    <3>1. 1 \in 0 .. 1 BY SMT
    <3> QED BY <3>1, Zenon
  <2>3. /\ monitor \in Owners \union {NULL} /\ connectionListener \in Owners \union {NULL}
        /\ starter \in [Owners -> StarterStates] /\ stopper \in [Owners -> StopperStates]
        /\ activity \in [Owners -> {"new", "shown", "gone", "detached"}]
    BY DEF StarterStates, StopperStates
  <2>4. /\ connected \in [Owners -> BOOLEAN]
        /\ displayedFailureDialog \in [Owners -> BOOLEAN] /\ finishing \in [Owners -> BOOLEAN]
    OBVIOUS
  <2> QED BY <1>2, <2>1, <2>2, <2>3, <2>4, Zenon DEF TypeOK
<1>4. SoleHolder BY DEF SoleHolder, Holds, StartedCore
<1>5. MonitorHeld BY OwnersAssumption DEF MonitorHeld, StartedCore
<1>6. StopsOnce BY DEF StopsOnce, Reports
<1>7. ListenerSet BY DEF ListenerSet, StartedCore, Up, Unwinding
<1>8. CoreShape
  BY StagesAssumption DEF CoreShape, ShapeOf, Idle, Busy, Up, Unwinding, OffAbove, STAGE_NONE
<1> QED BY <1>3, <1>4, <1>5, <1>6, <1>7, <1>8 DEF SInv

\* A runnable that is posted comes last, one that is run was first.
LEMMA PostEffect ==
  ASSUME TypeOK, NEW g \in Owners, NEW what \in {"started", "failed", "terminated"}, Post(g, what)
  PROVE  /\ uiQueue' \in Seq(Owners \X {"started", "failed", "terminated"})
         /\ Len(uiQueue) \in Nat /\ Len(uiQueue') = Len(uiQueue) + 1
         /\ uiQueue'[Len(uiQueue) + 1] = <<g, what>>
         /\ \A i \in 1 .. Len(uiQueue) : uiQueue'[i] = uiQueue[i]
BY DEF TypeOK, Post

\* A runnable that is run was first in the queue of the UI thread, and leaves it.
LEMMA RunEffect ==
  ASSUME TypeOK, NEW g \in Owners, NEW what, UiRuns(g, what)
  PROVE  /\ uiQueue' \in Seq(Owners \X {"started", "failed", "terminated"})
         /\ Len(uiQueue) \in Nat \ {0} /\ Len(uiQueue') = Len(uiQueue) - 1
         /\ uiQueue[1] = <<g, what>>
         /\ \A i \in 1 .. Len(uiQueue) - 1 : uiQueue'[i] = uiQueue[i + 1]
BY DEF TypeOK, UiRuns

\* What a callback of the UI thread may ask of the threads of stop(): a connected session
\* is stopped, and is then no longer connected.
StopRequested(g) ==
  /\ connected[g] /\ connected' = [connected EXCEPT ![g] = FALSE]
  /\ stopper' = [stopper EXCEPT ![g] = "interrupt"]

\* stopConnection stops a connected session, or does nothing to it.
LEMMA StopConnectionEffect ==
  ASSUME NEW g \in Owners, StopConnection(g)
  PROVE  StopRequested(g) \/ UNCHANGED <<connected, stopper>>
BY DEF StopConnection, Connecting, NoLongerConnected, StopRequested

\* Leaving the activity or losing its surface stops the session at most.
LEMMA UserEffect ==
  ASSUME NEW g \in Owners, Leave(g) \/ LoseSurface(g)
  PROVE  /\ StopRequested(g) \/ UNCHANGED <<connected, stopper>>
         /\ UNCHANGED <<core, bridge, starter, uiQueue>>
BY StopConnectionEffect DEF Leave, LoseSurface, OnStop, SurfaceDestroyed

\* A callback of the UI thread marks the session connected, or stops it at most.
LEMMA UiEffect ==
  ASSUME Ui
  PROVE  /\ UNCHANGED <<core, bridge, starter>>
         /\ \E g \in Owners :
              \/ UiRuns(g, "started") /\ connected' = [connected EXCEPT ![g] = TRUE]
                 /\ UNCHANGED stopper
              \/ UiRuns(g, "failed") /\ UNCHANGED <<connected, stopper>>
              \/ UiRuns(g, "terminated")
                 /\ (StopRequested(g) \/ UNCHANGED <<connected, stopper>>)
BY StopConnectionEffect DEF Ui, RunStarted, RunFailed, RunTerminated, UiRuns

\* In LiStartConnection, the thread of start() has the permit and the monitor, and keeps them.
LEMMA LiStartEffect ==
  ASSUME NEW g \in Owners, LiStartConnection(g)
  PROVE  /\ starter[g] \in StartedCore \ {"leave"}
         /\ \E l \in StartedCore \ {"reset"} : starter' = [starter EXCEPT ![g] = l]
         /\ UNCHANGED <<bridge, stopper, game>>
BY DEF LiStartConnection, Starter, StartedCore

-----------------------------------------------------------------------------
\* start() takes the permit and the monitor when they are free, and gives back its own.
LEMMA StartSole ==
  ASSUME SInv, NEW g \in Owners, Start(g)
  PROVE  SoleHolder' /\ MonitorHeld'
<1> USE DEF SoleHolder, Holds, MonitorHeld, StartedCore, Starter
<1>1. /\ SoleHolder /\ MonitorHeld
      /\ \A h \in Owners : stopper[h] \in {"unwind", "release", "done"} => starter[h] = "done"
  BY DEF SInv, StopsOnce
<1>2. starter \in [Owners -> StarterStates] /\ connectionAllowed \in Nat
  BY DEF SInv, TypeOK
<1>3. CASE StartApp(g)
  <2>1. /\ starter[g] = "startApp"
        /\ \E l \in {"acquire", "failed"} : starter' = [starter EXCEPT ![g] = l]
    BY <1>3 DEF StartApp
  <2>2. UNCHANGED <<connectionAllowed, monitor, stopper>> BY <1>3 DEF StartApp, bridge
  <2> QED BY <1>1, <1>2, <2>1, <2>2
<1>4. CASE Acquire(g)
  BY <1>1, <1>2, <1>4 DEF Acquire, AcquirePermit
<1>5. CASE EnterStart(g)
  BY <1>1, <1>2, <1>5, OwnersAssumption DEF EnterStart, EnterMonitor
<1>6. CASE LiStartConnection(g)
  BY <1>1, <1>2, <1>6, LiStartEffect DEF bridge
<1>7. CASE LeaveStart(g) /\ Starter(g, "leave", "done") /\ UNCHANGED connectionAllowed
  BY <1>1, <1>2, <1>7, OwnersAssumption DEF LeaveStart, LeaveMonitor
<1>8. CASE LeaveStart(g) /\ Starter(g, "unwind", "failed") /\ ReleasePermit
  BY <1>1, <1>2, <1>8, OwnersAssumption DEF LeaveStart, LeaveMonitor, ReleasePermit
<1> QED BY <1>3, <1>4, <1>5, <1>6, <1>7, <1>8 DEF Start, LeaveStart

\* stop() is run by the session that has the permit; it takes the free monitor.
LEMMA StopSole ==
  ASSUME SInv, NEW g \in Owners, Stop(g)
  PROVE  SoleHolder' /\ MonitorHeld'
<1> USE DEF SoleHolder, Holds, MonitorHeld, StartedCore, Stopper
<1>1. /\ SoleHolder /\ MonitorHeld
      /\ \A h \in Owners : /\ stopper[h] \in {"unwind", "release", "done"} => starter[h] = "done"
                           /\ stopper[h] # "none" => starter[h] \in {"leave", "done"}
  BY DEF SInv, StopsOnce
<1>2. stopper \in [Owners -> StopperStates] /\ connectionAllowed \in Nat
  BY DEF SInv, TypeOK
<1>3. CASE Interrupt(g) BY <1>1, <1>2, <1>3 DEF Interrupt, bridge
<1>4. CASE EnterStop(g)
  BY <1>1, <1>2, <1>4, OwnersAssumption DEF EnterStop, EnterMonitor
<1>5. CASE LiStopConnection(g) BY <1>1, <1>2, <1>5 DEF LiStopConnection, bridge
<1>6. CASE LeaveStop(g)
  BY <1>1, <1>2, <1>6, OwnersAssumption DEF LeaveStop, LeaveMonitor
<1>7. CASE Release(g) BY <1>1, <1>2, <1>7 DEF Release, ReleasePermit
<1> QED BY <1>3, <1>4, <1>5, <1>6, <1>7 DEF Stop

\* Asking for a stop changes neither who has the permit nor who has the monitor.
LEMMA RequestSole ==
  ASSUME SInv, NEW g \in Owners, StopRequested(g), UNCHANGED <<connectionAllowed, monitor, starter>>
  PROVE  SoleHolder' /\ MonitorHeld'
BY DEF SInv, TypeOK, StopsOnce, StopRequested, SoleHolder, Holds, MonitorHeld, StartedCore

\* Nor does a step that leaves the permit, the monitor and both threads alone.
LEMMA FrameSole ==
  ASSUME SInv, UNCHANGED <<connectionAllowed, monitor, starter, stopper>>
  PROVE  SoleHolder' /\ MonitorHeld'
BY DEF SInv, SoleHolder, Holds, MonitorHeld

\* Every step keeps the permit and the monitor with one session.
LEMMA NextSole ==
  ASSUME SInv, [Next]_vars
  PROVE  SoleHolder' /\ MonitorHeld'
<1>1. ASSUME NEW g \in Owners, Open(g) PROVE SoleHolder' /\ MonitorHeld'
  BY <1>1 DEF SInv, TypeOK, Open, SurfaceChanged, Starter, bridge, SoleHolder, Holds,
     MonitorHeld, StartedCore
<1>2. ASSUME NEW g \in Owners, Leave(g) \/ LoseSurface(g) PROVE SoleHolder' /\ MonitorHeld'
  BY <1>2, UserEffect, RequestSole, FrameSole DEF bridge
<1>3. ASSUME Ui PROVE SoleHolder' /\ MonitorHeld'
  BY <1>3, UiEffect, RequestSole, FrameSole DEF bridge
<1>4. ASSUME NEW g \in Owners, NEW k \in Reporting, AsyncTerm(g, k)
      PROVE  SoleHolder' /\ MonitorHeld'
  BY <1>4, FrameSole DEF AsyncTerm, bridge
<1>5. ASSUME NEW k \in Reporting, Stream(k) PROVE SoleHolder' /\ MonitorHeld'
  BY <1>5, FrameSole DEF Stream, StreamThread, bridge
<1>6. CASE UNCHANGED vars BY <1>6, FrameSole DEF vars, bridge
<1> QED BY <1>1, <1>2, <1>3, <1>4, <1>5, <1>6, StartSole, StopSole DEF Next

-----------------------------------------------------------------------------
\* The report of a start is posted once, when the session that made it is up.
LEMMA OtherPost ==
  ASSUME TypeOK, NEW g \in Owners, NEW what \in {"failed", "terminated"}, Post(g, what)
  PROVE  \A h \in Owners : Reports(h)' \subseteq Reports(h)
BY PostEffect DEF Reports

\* A session that reports its start adds one report to the queue, at the end.
LEMMA StartedPost ==
  ASSUME TypeOK, NEW g \in Owners, Post(g, "started")
  PROVE  /\ Reports(g)' \subseteq Reports(g) \union {Len(uiQueue) + 1}
         /\ \A h \in Owners \ {g} : Reports(h)' \subseteq Reports(h)
BY PostEffect DEF Reports

\* Running a runnable moves the reports up by one; that of a start is the one at the head.
LEMMA RunMovesReports ==
  ASSUME TypeOK, NEW g \in Owners, NEW what \in {"started", "failed", "terminated"},
         UiRuns(g, what)
  PROVE  /\ \A h \in Owners : \A i \in Reports(h)' : i \in Nat /\ i + 1 \in Reports(h)
         /\ what = "started" => 1 \in Reports(g) /\ \A i \in Reports(g)' : i + 1 # 1
BY RunEffect DEF Reports

\* A start that has not succeeded yet, or fails, leaves the session without any report.
LEMMA PostedFailedOnce ==
  ASSUME SInv, NEW g \in Owners, NEW l \in StarterStates \ {"leave", "done"},
         starter[g] \notin {"leave", "done"}, starter' = [starter EXCEPT ![g] = l],
         UNCHANGED <<stopper, connected>>,
         UNCHANGED uiQueue \/ Post(g, "failed")
  PROVE  StopsOnce'
<1>1. /\ StopsOnce /\ starter \in [Owners -> StarterStates] /\ TypeOK
  BY DEF SInv, TypeOK
<1>2. \A h \in Owners : Reports(h)' \subseteq Reports(h)
  BY <1>1, OtherPost DEF Reports
<1> QED BY <1>1, <1>2 DEF StopsOnce

\* start() reports once, when it has left the native code.
LEMMA StartStopsOnce ==
  ASSUME SInv, NEW g \in Owners, Start(g)
  PROVE  StopsOnce'
<1> USE DEF Starter, game
<1>1. /\ StopsOnce /\ starter \in [Owners -> StarterStates]
  BY DEF SInv, TypeOK
<1>2. CASE StartApp(g)
  BY <1>2, PostedFailedOnce DEF StartApp, StarterStates
<1>3. CASE Acquire(g)
  BY <1>3, PostedFailedOnce DEF Acquire, StarterStates
<1>4. CASE EnterStart(g)
  BY <1>4, PostedFailedOnce DEF EnterStart, StarterStates
<1>5. CASE LiStartConnection(g) /\ starter[g] # "started"
  <2>1. connectionListener = g BY <1>5, LiStartEffect DEF SInv, ListenerSet
  <2>2. UNCHANGED uiQueue \/ Post(g, "failed") BY <1>5, <2>1 DEF LiStartConnection
  <2>3. \E l \in StartedCore \ {"leave"} : starter' = [starter EXCEPT ![g] = l]
    BY <1>5 DEF LiStartConnection, StartedCore
  <2> QED BY <1>5, <2>2, <2>3, LiStartEffect, PostedFailedOnce DEF StartedCore, StarterStates
<1>6. CASE LiStartConnection(g) /\ starter[g] = "started"
  <2>1. connectionListener = g BY <1>6, LiStartEffect DEF SInv, ListenerSet
  <2>2. Post(g, "started") /\ starter' = [starter EXCEPT ![g] = "leave"]
    BY <1>6, <2>1 DEF LiStartConnection
  <2>3. UNCHANGED <<stopper, connected>> BY <1>6, LiStartEffect
  <2>4. stopper[g] = "none" /\ ~connected[g] /\ Reports(g) = {} BY <1>1, <1>6 DEF StopsOnce
  <2>5. /\ Reports(g)' \subseteq {Len(uiQueue) + 1}
        /\ \A h \in Owners \ {g} : Reports(h)' \subseteq Reports(h)
    BY <2>2, <2>4, StartedPost DEF SInv
  <2> QED BY <1>1, <2>2, <2>3, <2>4, <2>5 DEF StopsOnce
<1>7. CASE LeaveStart(g) /\ Starter(g, "leave", "done")
  BY <1>1, <1>7 DEF LeaveStart, StopsOnce, Reports, game
<1>8. CASE LeaveStart(g) /\ Starter(g, "unwind", "failed")
  BY <1>8, PostedFailedOnce DEF LeaveStart, StarterStates
<1> QED BY <1>2, <1>3, <1>4, <1>5, <1>6, <1>7, <1>8 DEF Start, LeaveStart

\* stop() goes on with the one stop of a session that is no longer connected.
LEMMA StopStopsOnce ==
  ASSUME SInv, NEW g \in Owners, Stop(g)
  PROVE  StopsOnce'
<1>1. /\ StopsOnce /\ MonitorHeld /\ stopper \in [Owners -> StopperStates]
  BY DEF SInv, TypeOK
<1>2. PICK l \in {"enter", "unwind", "release", "done"} : stopper' = [stopper EXCEPT ![g] = l]
  BY DEF Stop, Interrupt, EnterStop, LiStopConnection, LeaveStop, Release, Stopper
<1>3. UNCHANGED <<starter, connected, uiQueue>>
  BY DEF Stop, Interrupt, EnterStop, LiStopConnection, LeaveStop, Release, game
<1>4. stopper[g] # "none"
  BY DEF Stop, Interrupt, EnterStop, LiStopConnection, LeaveStop, Release, Stopper
<1>5. l # "enter" => stopper[g] \in {"unwind", "release"} \/ monitor = NULL
  BY <1>1, <1>2 DEF Stop, Interrupt, EnterStop, EnterMonitor, LiStopConnection, LeaveStop,
     Release, Stopper
<1>6. monitor = NULL => starter[g] # "leave"
  BY <1>1, OwnersAssumption DEF MonitorHeld, StartedCore
<1>7. l # "enter" => starter[g] = "done"
  BY <1>1, <1>4, <1>5, <1>6 DEF StopsOnce
<1> QED BY <1>1, <1>2, <1>3, <1>4, <1>7 DEF StopsOnce, Reports

\* A stop is asked for when the session is connected, which it then no longer is.
LEMMA RequestStopsOnce ==
  ASSUME SInv, NEW g \in Owners, StopRequested(g), UNCHANGED <<starter, uiQueue>>
  PROVE  StopsOnce'
<1>1. /\ StopsOnce /\ stopper \in [Owners -> StopperStates] /\ connected \in [Owners -> BOOLEAN]
  BY DEF SInv, TypeOK
<1>2. \A h \in Owners : Reports(h)' = Reports(h) BY DEF Reports
<1> QED BY <1>1, <1>2 DEF StopsOnce, StopRequested

\* A runnable leaves the queue.
LEMMA RunStopsOnce ==
  ASSUME SInv, NEW g \in Owners, NEW what \in {"started", "failed", "terminated"},
         UiRuns(g, what), UNCHANGED starter,
         \/ what = "started" /\ connected' = [connected EXCEPT ![g] = TRUE] /\ UNCHANGED stopper
         \/ UNCHANGED <<stopper, connected>> /\ what # "started"
         \/ StopRequested(g)
  PROVE  StopsOnce'
<1>1. /\ StopsOnce /\ stopper \in [Owners -> StopperStates] /\ connected \in [Owners -> BOOLEAN]
  BY DEF SInv, TypeOK
<1>2. /\ \A h \in Owners : \A i \in Reports(h)' : i \in Nat /\ i + 1 \in Reports(h)
      /\ what = "started" => 1 \in Reports(g) /\ \A i \in Reports(g)' : i + 1 # 1
  BY RunMovesReports DEF SInv
<1>3. \A h \in Owners : /\ Reports(h)' # {} => Reports(h) # {}
                        /\ \A i, j \in Reports(h)' : i = j
  BY <1>1, <1>2 DEF StopsOnce
<1>4. CASE what = "started" /\ connected' = [connected EXCEPT ![g] = TRUE] /\ UNCHANGED stopper
  <2>1. Reports(g) # {} /\ Reports(g)' = {}
    BY <1>1, <1>2, <1>4 DEF StopsOnce
  <2> QED BY <1>1, <1>3, <1>4, <2>1 DEF StopsOnce
<1>5. CASE UNCHANGED <<stopper, connected>>
  BY <1>1, <1>3, <1>5 DEF StopsOnce
<1>6. CASE StopRequested(g)
  BY <1>1, <1>3, <1>6 DEF StopsOnce, StopRequested
<1> QED BY <1>4, <1>5, <1>6

\* A step that leaves the queue, the flag and both threads alone.
LEMMA FrameStopsOnce ==
  ASSUME SInv, UNCHANGED <<starter, stopper, connected, uiQueue>>
  PROVE  StopsOnce'
BY DEF SInv, StopsOnce, Reports

\* No step stops a session twice.
LEMMA NextStopsOnce ==
  ASSUME SInv, [Next]_vars
  PROVE  StopsOnce'
<1>1. ASSUME NEW g \in Owners, Open(g) PROVE StopsOnce'
  <2>1. starter[g] = "none" /\ starter' = [starter EXCEPT ![g] = "startApp"]
    BY <1>1 DEF Open, SurfaceChanged, Starter
  <2> QED BY <1>1, <2>1, PostedFailedOnce DEF Open, SurfaceChanged, StarterStates
<1>2. ASSUME NEW g \in Owners, Leave(g) \/ LoseSurface(g) PROVE StopsOnce'
  BY <1>2, UserEffect, RequestStopsOnce, FrameStopsOnce
<1>3. ASSUME Ui PROVE StopsOnce'
  BY <1>3, UiEffect, RunStopsOnce
<1>4. ASSUME NEW g \in Owners, NEW k \in Reporting, AsyncTerm(g, k) PROVE StopsOnce'
  <2>1. CASE UNCHANGED uiQueue BY <1>4, <2>1, FrameStopsOnce DEF AsyncTerm, game
  <2>2. CASE Post(async[<<g, k>>], "terminated") /\ async[<<g, k>>] \in Owners
    <3> DEFINE h == async[<<g, k>>]
    <3>1. h \in Owners /\ Post(h, "terminated") BY <2>2
    <3> HIDE DEF h
    <3>2. \A o \in Owners : Reports(o)' \subseteq Reports(o)
      BY <3>1, OtherPost DEF SInv
    <3>3. UNCHANGED <<starter, stopper, connected>> BY <1>4 DEF AsyncTerm, game
    <3> QED BY <3>2, <3>3 DEF SInv, StopsOnce
  <2> QED BY <1>4, <2>1, <2>2 DEF AsyncTerm
<1>5. ASSUME NEW k \in Reporting, Stream(k) PROVE StopsOnce'
  BY <1>5, FrameStopsOnce DEF Stream, StreamThread, game
<1>6. CASE UNCHANGED vars BY <1>6, FrameStopsOnce DEF vars, game
<1> QED BY <1>1, <1>2, <1>3, <1>4, <1>5, <1>6, StartStopsOnce, StopStopsOnce DEF Next

-----------------------------------------------------------------------------
\* The listener is that of the session that entered the monitor, until it is stopped.
LEMMA NextListener ==
  ASSUME SInv, [Next]_vars
  PROVE  ListenerSet'
<1> USE DEF ListenerSet, Up, Unwinding, StartedCore
<1>1. /\ ListenerSet /\ starter \in [Owners -> StarterStates]
      /\ stopper \in [Owners -> StopperStates]
      /\ \A h \in Owners : stopper[h] \in {"unwind", "release", "done"} => starter[h] = "done"
      /\ \A h \in Owners : connected[h] => stopper[h] = "none"
  BY DEF SInv, TypeOK, StopsOnce
<1>2. \A f, h \in Owners : Holds(f) /\ Holds(h) => f = h
  BY DEF SInv, SoleHolder
<1>3. UNCHANGED <<connectionListener, starter, stopper>> => ListenerSet' BY <1>1
<1>4. ASSUME NEW g \in Owners, Open(g) PROVE ListenerSet'
  BY <1>1, <1>4 DEF Open, SurfaceChanged, Starter, bridge
<1>5. ASSUME NEW g \in Owners, StopRequested(g), UNCHANGED <<connectionListener, starter>>
      PROVE  ListenerSet'
  BY <1>1, <1>5 DEF StopRequested
<1>6. ASSUME NEW g \in Owners, Leave(g) \/ LoseSurface(g) PROVE ListenerSet'
  BY <1>3, <1>5, <1>6, UserEffect DEF bridge
<1>7. ASSUME Ui PROVE ListenerSet'
  BY <1>3, <1>5, <1>7, UiEffect DEF bridge
<1>8. ASSUME NEW g \in Owners, Start(g) PROVE ListenerSet'
  <2> USE DEF Starter
  <2>1. CASE StartApp(g) BY <1>1, <2>1 DEF StartApp, bridge
  <2>2. CASE Acquire(g) BY <1>1, <2>2 DEF Acquire
  <2>3. CASE EnterStart(g) BY <1>1, <1>2, <2>3 DEF EnterStart, Holds
  <2>4. CASE LiStartConnection(g)
    <3>1. PICK l \in StartedCore \ {"reset"} : starter' = [starter EXCEPT ![g] = l]
      BY <2>4, LiStartEffect
    <3> QED BY <1>1, <2>4, <3>1, LiStartEffect DEF bridge
  <2>5. CASE LeaveStart(g) BY <1>1, <2>5 DEF LeaveStart
  <2> QED BY <1>8, <2>1, <2>2, <2>3, <2>4, <2>5 DEF Start
<1>9. ASSUME NEW g \in Owners, Stop(g) PROVE ListenerSet'
  <2> USE DEF Stopper
  <2>1. CASE Interrupt(g) BY <1>1, <2>1 DEF Interrupt, bridge
  <2>2. CASE EnterStop(g)
    <3>1. starter[g] = "done"
      BY <2>2, OwnersAssumption DEF EnterStop, EnterMonitor, SInv, MonitorHeld, StopsOnce
    <3> QED BY <1>1, <2>2, <3>1 DEF EnterStop, KeepListener
  <2>3. CASE LiStopConnection(g) BY <1>1, <2>3 DEF LiStopConnection, bridge
  <2>4. CASE LeaveStop(g) BY <1>1, <1>2, <2>4 DEF LeaveStop, Holds
  <2>5. CASE Release(g) BY <1>1, <2>5 DEF Release
  <2> QED BY <1>9, <2>1, <2>2, <2>3, <2>4, <2>5 DEF Stop
<1>10. ASSUME NEW g \in Owners, NEW k \in Reporting, AsyncTerm(g, k) PROVE ListenerSet'
  BY <1>3, <1>10 DEF AsyncTerm, bridge
<1>11. ASSUME NEW k \in Reporting, Stream(k) PROVE ListenerSet'
  BY <1>3, <1>11 DEF Stream, StreamThread, bridge
<1>12. CASE UNCHANGED vars BY <1>3, <1>12 DEF vars, bridge
<1> QED BY <1>4, <1>6, <1>7, <1>8, <1>9, <1>10, <1>11, <1>12 DEF Next

-----------------------------------------------------------------------------
\* The stages and the threads have the values they may have.
LEMMA StageNumbers ==
  /\ LastStage \in Nat /\ \A k \in Reporting : k \in 1 .. LastStage /\ k \in Nat
BY StagesAssumption DEF LastStage

\* Making or joining a thread leaves the others.
LEMMA SetThreadType ==
  ASSUME CoreTypeOK, NEW k, NEW s \in {"off", "running", "checked", "exited"}, SetThread(k, s)
  PROVE  thread' \in [Reporting -> {"off", "running", "checked", "exited"}]
BY DEF CoreTypeOK, SetThread

\* Going on to the join of a stage keeps the types of the core.
LEMMA TellToStopType ==
  ASSUME CoreTypeOK, NEW k \in 0 .. LastStage, TellToStop(k)
  PROVE  CoreTypeOK'
<1>1. ConnectionInterrupted' \in BOOLEAN BY Zenon DEF TellToStop, CoreTypeOK
<1>2. joining' = k /\ UNCHANGED <<stage, thread, alreadyTerminated, async>> BY DEF TellToStop
<1> QED BY <1>1, <1>2 DEF CoreTypeOK

\* Undoing a stage keeps the types of the core.
LEMMA UnwindStageType ==
  ASSUME CoreTypeOK, UnwindStage
  PROVE  CoreTypeOK'
<1>1. CASE TellToStop(stage) BY <1>1, TellToStopType DEF CoreTypeOK
<1>2. CASE /\ SetThread(stage, "off") /\ joining' = STAGE_NONE /\ stage' = stage - 1
           /\ UNCHANGED <<alreadyTerminated, ConnectionInterrupted, async>>
  <2>1. stage - 1 \in 0 .. LastStage /\ STAGE_NONE \in 0 .. LastStage
    BY StageNumbers DEF UnwindStage, CoreTypeOK, STAGE_NONE
  <2> QED BY <1>2, <2>1, SetThreadType DEF CoreTypeOK
<1> QED BY <1>1, <1>2 DEF UnwindStage

\* LiStartConnection keeps the types of the core and of the queue.
LEMMA LiStartType ==
  ASSUME SInv, NEW g \in Owners, LiStartConnection(g)
  PROVE  CoreTypeOK' /\ uiQueue' \in Seq(Owners \X {"started", "failed", "terminated"})
<1> USE StageNumbers DEF STAGE_NONE
<1>1. CoreTypeOK /\ TypeOK /\ uiQueue \in Seq(Owners \X {"started", "failed", "terminated"})
  BY DEF SInv, TypeOK
<1>2. connectionListener = g /\ starter \in [Owners -> StarterStates]
  BY LiStartEffect DEF SInv, ListenerSet, TypeOK
<1>3. CASE Starter(g, "reset", "begin") /\ ResetForStart /\ UNCHANGED uiQueue
  BY <1>1, <1>3 DEF ResetForStart, CoreTypeOK
<1>4. CASE Starter(g, "begin", "outcome") /\ BeginStage /\ UNCHANGED uiQueue
  BY <1>1, <1>4, SetThreadType DEF BeginStage, CoreTypeOK
<1>5. CASE starter[g] = "outcome" /\ CompleteStage /\ UNCHANGED uiQueue
  <2>1. stage < LastStage BY <1>5 DEF SInv, CoreShape, ShapeOf
  <2> QED BY <1>1, <1>5, <2>1 DEF CompleteStage, CoreTypeOK
<1>6. CASE starter[g] = "outcome" /\ TellToStop(stage + 1) /\ UNCHANGED uiQueue
  <2>1. stage < LastStage BY <1>6 DEF SInv, CoreShape, ShapeOf
  <2> QED BY <1>1, <1>6, <2>1, TellToStopType DEF CoreTypeOK
<1>7. CASE FailStage /\ Post(connectionListener, "failed")
  BY <1>1, <1>2, <1>7, SetThreadType, PostEffect DEF FailStage, CoreTypeOK
<1>8. CASE BeginStop /\ UNCHANGED uiQueue
  BY <1>1, <1>8 DEF BeginStop, DisableCallbacks, LiInterruptConnection, CoreTypeOK
<1>9. CASE UnwindStage /\ UNCHANGED uiQueue
  BY <1>1, <1>9, UnwindStageType
<1>10. CASE Post(connectionListener, "started") /\ UNCHANGED core
  BY <1>1, <1>2, <1>10, PostEffect DEF core, CoreTypeOK
<1> QED BY <1>3, <1>4, <1>5, <1>6, <1>7, <1>8, <1>9, <1>10 DEF LiStartConnection, Starter

\* Every step of start() keeps the types.
LEMMA StartType ==
  ASSUME SInv, NEW g \in Owners, Start(g)
  PROVE  TypeOK'
<1> USE DEF Starter, bridge, game
<1>1. TypeOK /\ starter \in [Owners -> StarterStates] BY DEF SInv, TypeOK
<1>2. CASE StartApp(g)
  <2>1. starter' \in [Owners -> StarterStates] BY <1>1, <1>2 DEF StartApp, StarterStates
  <2>2. uiQueue' \in Seq(Owners \X {"started", "failed", "terminated"})
    BY <1>1, <1>2, PostEffect DEF StartApp, TypeOK
  <2> QED BY <1>1, <1>2, <2>1, <2>2 DEF StartApp, TypeOK, Alive, Start, core, CoreTypeOK
<1>3. CASE Acquire(g)
  BY <1>1, <1>3 DEF Acquire, AcquirePermit, TypeOK, StarterStates, Alive, Start, core, CoreTypeOK
<1>4. CASE EnterStart(g)
  BY <1>1, <1>4 DEF EnterStart, EnterMonitor, TypeOK, StarterStates, Alive, Start, core,
     CoreTypeOK
<1>5. CASE LiStartConnection(g)
  <2>1. CoreTypeOK' /\ uiQueue' \in Seq(Owners \X {"started", "failed", "terminated"})
    BY <1>5, LiStartType
  <2>2. starter' \in [Owners -> StarterStates]
    BY <1>1, <1>5, LiStartEffect DEF StarterStates, StartedCore
  <2> QED BY <1>1, <1>5, <2>1, <2>2, LiStartEffect DEF TypeOK, Alive, Start
<1>6. CASE LeaveStart(g)
  <2>1. connectionAllowed' \in 0 .. 1
    BY <1>6 DEF LeaveStart, ReleasePermit, SInv, TypeOK, SoleHolder, Holds, StartedCore
  <2> QED BY <1>1, <1>6, <2>1
    DEF LeaveStart, LeaveMonitor, TypeOK, StarterStates, Alive, Start, core, CoreTypeOK
<1> QED BY <1>2, <1>3, <1>4, <1>5, <1>6 DEF Start

\* Every step of stop() keeps the types.
LEMMA StopType ==
  ASSUME SInv, NEW g \in Owners, Stop(g)
  PROVE  TypeOK'
<1> USE DEF Stopper, bridge, game
<1>1. TypeOK /\ CoreTypeOK BY DEF SInv, TypeOK
<1>2. CoreTypeOK'
  BY <1>1, UnwindStageType DEF Stop, Interrupt, LiInterruptConnection, EnterStop, BeginStop,
     DisableCallbacks, LiStopConnection, LeaveStop, Release, core, CoreTypeOK
<1>3. stopper' \in [Owners -> StopperStates]
  BY <1>1 DEF Stop, Interrupt, EnterStop, LiStopConnection, LeaveStop, Release, TypeOK,
     StopperStates
<1>4. connectionAllowed' \in 0 .. 1
  BY <1>1 DEF Stop, Interrupt, EnterStop, LiStopConnection, LeaveStop, Release, ReleasePermit,
     SInv, TypeOK, SoleHolder, Holds, StopsOnce
<1>5. /\ monitor' \in Owners \union {NULL} /\ connectionListener' \in Owners \union {NULL}
      /\ UNCHANGED <<starter, uiQueue, game, crashed>>
  BY <1>1 DEF Stop, Alive, Interrupt, EnterStop, EnterMonitor, KeepListener, LiStopConnection,
     LeaveStop, ClearListener, LeaveMonitor, Release, TypeOK
<1> QED BY <1>1, <1>2, <1>3, <1>4, <1>5 DEF TypeOK

\* So does a step that leaves the core alone.
LEMMA CoreUnchanged == CoreTypeOK /\ UNCHANGED core => CoreTypeOK'
BY DEF core, CoreTypeOK

\* A step of a stream thread keeps the types.
LEMMA StreamType ==
  ASSUME SInv, NEW k \in Reporting, Stream(k)
  PROVE  TypeOK'
<1>1. TypeOK /\ CoreTypeOK BY DEF SInv, TypeOK
<1>2. CoreTypeOK'
  BY <1>1, SetThreadType DEF Stream, StreamThread, ThreadReturns, TerminationTest,
     TerminationReport, CoreTypeOK, AsyncStates
<1> QED BY <1>1, <1>2 DEF Stream, StreamThread, Alive, TypeOK, bridge, game

\* A step of the thread that reports a termination keeps the types.
LEMMA AsyncTermType ==
  ASSUME SInv, NEW g \in Owners, NEW k \in Reporting, AsyncTerm(g, k)
  PROVE  TypeOK'
<1>1. TypeOK /\ CoreTypeOK BY DEF SInv, TypeOK
<1>2. async' \in [Owners \X Reporting -> AsyncStates]
  <2>1. connectionListener \in Owners \union {NULL} BY <1>1 DEF TypeOK
  <2>2. async' = async \/ \E s \in AsyncStates : async' = [async EXCEPT ![<<g, k>>] = s]
    BY <2>1 DEF AsyncTerm, AsyncStates
  <2> QED BY <1>1, <2>2 DEF CoreTypeOK
<1>3. CoreTypeOK' BY <1>1, <1>2 DEF AsyncTerm, CoreTypeOK
<1>4. uiQueue' \in Seq(Owners \X {"started", "failed", "terminated"}) /\ crashed' \in BOOLEAN
  BY <1>1, PostEffect DEF AsyncTerm, TypeOK
<1> QED BY <1>1, <1>3, <1>4 DEF AsyncTerm, TypeOK, bridge, game

\* Every step keeps the types.
LEMMA NextType ==
  ASSUME SInv, [Next]_vars
  PROVE  TypeOK'
<1>1. TypeOK /\ CoreTypeOK BY DEF SInv, TypeOK
<1>2. ASSUME NEW g \in Owners, Open(g) PROVE TypeOK'
  BY <1>1, <1>2, CoreUnchanged
     DEF Open, SurfaceChanged, Starter, Alive, TypeOK, StarterStates, bridge
<1>3. ASSUME NEW g \in Owners, StopRequested(g)
      PROVE  connected' \in [Owners -> BOOLEAN] /\ stopper' \in [Owners -> StopperStates]
  BY <1>1, <1>3 DEF StopRequested, TypeOK, StopperStates
<1>4. ASSUME NEW g \in Owners, Leave(g) PROVE TypeOK'
  <2>1. connected' \in [Owners -> BOOLEAN] /\ stopper' \in [Owners -> StopperStates]
    BY <1>1, <1>3, <1>4, UserEffect DEF TypeOK
  <2> QED BY <1>1, <1>4, <2>1, CoreUnchanged DEF Leave, OnStop, Alive, TypeOK, bridge
<1>5. ASSUME NEW g \in Owners, LoseSurface(g) PROVE TypeOK'
  <2>1. connected' \in [Owners -> BOOLEAN] /\ stopper' \in [Owners -> StopperStates]
    BY <1>1, <1>3, <1>5, UserEffect DEF TypeOK
  <2> QED BY <1>1, <1>5, <2>1, CoreUnchanged DEF LoseSurface, SurfaceDestroyed, Alive, TypeOK,
        bridge
<1>6. ASSUME Ui PROVE TypeOK'
  <2>1. connected' \in [Owners -> BOOLEAN] /\ stopper' \in [Owners -> StopperStates]
    BY <1>1, <1>3, <1>6, UiEffect DEF TypeOK
  <2>2. uiQueue' \in Seq(Owners \X {"started", "failed", "terminated"})
    BY <1>1, <1>6, UiEffect, RunEffect
  <2>3. /\ displayedFailureDialog' \in [Owners -> BOOLEAN] /\ finishing' \in [Owners -> BOOLEAN]
        /\ UNCHANGED <<activity, crashed>>
    BY <1>1, <1>6 DEF Ui, RunStarted, RunFailed, RunTerminated, UiRuns, Alive, TypeOK
  <2> QED BY <1>1, <1>6, <2>1, <2>2, <2>3, UiEffect, CoreUnchanged DEF TypeOK, bridge
<1>7. CASE UNCHANGED vars BY <1>1, <1>7, CoreUnchanged DEF vars, TypeOK, bridge, game
<1> QED BY <1>2, <1>4, <1>5, <1>6, <1>7, StartType, StopType, StreamType, AsyncTermType DEF Next

-----------------------------------------------------------------------------
\* Only the session that has the permit is busy in the core.
LEMMA OneHolder ==
  ASSUME SInv
  PROVE  /\ \A f, h \in Owners : Holds(f) /\ Holds(h) => f = h
         /\ \A h \in Owners : Busy(h) => Holds(h)
BY DEF SInv, SoleHolder, StopsOnce, Busy, Up, Unwinding, Holds, StartedCore

\* A step of the session that has the permit: the other sessions have no say.
LEMMA HolderShape ==
  ASSUME SInv, NEW g \in Owners, Holds(g),
         \A h \in Owners \ {g} : starter'[h] = starter[h] /\ stopper'[h] = stopper[h],
         ShapeOf(g)', Busy(g)' \/ Idle'
  PROVE  CoreShape'
<1>1. \A h \in Owners \ {g} : ~Busy(h) BY OneHolder
<1>2. \A h \in Owners \ {g} : ~Busy(h)' BY <1>1 DEF Busy, Up, Unwinding
<1>3. \A h \in Owners : ~Busy(h)' => ShapeOf(h)' BY DEF Busy, ShapeOf, Up, Unwinding
<1> QED BY <1>2, <1>3 DEF CoreShape

\* A step that neither touches the core nor changes who is busy in it.
LEMMA FrameShape ==
  ASSUME SInv, UNCHANGED <<stage, joining, thread>>,
         \A h \in Owners : \/ starter'[h] = starter[h] /\ stopper'[h] = stopper[h]
                           \/ ~Busy(h) /\ ~Busy(h)'
                           \/ /\ Up(h) /\ Up(h)'
                               /\ starter'[h] \in {"leave", "done"} /\ stopper'[h] # "unwind"
  PROVE  CoreShape'
<1>1. CoreShape BY DEF SInv
<1>2. \A h \in Owners : Busy(h)' <=> Busy(h) BY DEF Busy, Up, Unwinding
<1>3. ASSUME NEW h \in Owners PROVE ShapeOf(h)'
  <2>1. CASE starter'[h] = starter[h] /\ stopper'[h] = stopper[h]
    BY <1>1, <2>1 DEF CoreShape, ShapeOf, Up, Unwinding, OffAbove
  <2>2. CASE ~Busy(h)' BY <2>2 DEF Busy, ShapeOf, Up, Unwinding
  <2>3. CASE Up(h) /\ Up(h)' /\ starter'[h] \in {"leave", "done"} /\ stopper'[h] # "unwind"
    <3>1. stage' = LastStage /\ joining' = STAGE_NONE BY <1>1, <2>3 DEF CoreShape, ShapeOf
    <3>2. ~Unwinding(h)' BY <2>3 DEF Up, Unwinding
    <3> QED BY <2>3, <3>1, <3>2 DEF ShapeOf
  <2> QED BY <2>1, <2>2, <2>3
<1>4. Idle => Idle' BY DEF Idle, OffAbove, STAGE_NONE
<1> QED BY <1>1, <1>2, <1>3, <1>4 DEF CoreShape

\* Stages are undone from the last to the first, each after its thread is joined.
LEMMA UnwindShape ==
  ASSUME SInv, NEW g \in Owners, Unwinding(g), Unwinding(g)', UnwindStage,
         starter'[g] = starter[g]
  PROVE  ShapeOf(g)'
<1> USE StageNumbers DEF STAGE_NONE
<1>1. stage \in Nat /\ joining \in {STAGE_NONE, stage} /\ OffAbove(stage)
  BY DEF SInv, TypeOK, CoreTypeOK, CoreShape, ShapeOf
<1>2. ~Up(g)' /\ starter'[g] \notin {"begin", "outcome", "failing", "stopping"}
  BY DEF Up, Unwinding, SInv, StopsOnce
<1>3. CASE TellToStop(stage)
  <2>1. joining' = stage' /\ OffAbove(stage)' BY <1>1, <1>3 DEF TellToStop, OffAbove
  <2> QED BY <1>2, <2>1 DEF ShapeOf
<1>4. CASE SetThread(stage, "off") /\ joining' = STAGE_NONE /\ stage' = stage - 1
  <2>1. stage - 1 \in Nat BY <1>1 DEF UnwindStage
  <2>2. \A k \in Reporting : k > stage - 1 => thread'[k] = "off"
    BY <1>1, <1>4, <2>1 DEF SetThread, OffAbove
  <2> QED BY <1>2, <1>4, <2>2 DEF ShapeOf, OffAbove
<1> QED BY <1>3, <1>4 DEF UnwindStage

\* LiStartConnection makes one stage after the other, or undoes those it has made.
LEMMA LiStartShape ==
  ASSUME SInv, NEW g \in Owners, LiStartConnection(g)
  PROVE  CoreShape'
<1> USE StageNumbers DEF STAGE_NONE, Starter
<1>1. /\ stage \in Nat /\ starter \in [Owners -> StarterStates]
      /\ starter[g] \in StartedCore \ {"leave"}
      /\ ShapeOf(g) /\ stopper[g] \notin {"unwind", "release", "done"}
      /\ UNCHANGED stopper
  BY LiStartEffect DEF SInv, TypeOK, CoreTypeOK, CoreShape, StopsOnce, StartedCore
<1>2. Holds(g) BY <1>1 DEF Holds
<1>3. \A h \in Owners \ {g} : starter'[h] = starter[h] /\ stopper'[h] = stopper[h]
  BY <1>1, LiStartEffect
<1>4. ShapeOf(g)' /\ Busy(g)'
  <2>1. CASE Starter(g, "reset", "begin") /\ ResetForStart
    <3>1. \A h \in Owners : ~Busy(h)
      BY <1>1, <1>2, <2>1, OneHolder DEF Busy, Up, Unwinding
    <3>2. stage = 0 /\ joining = 0 /\ OffAbove(0) BY <3>1 DEF SInv, CoreShape, Idle
    <3>3. stage' = 0 /\ joining' = 0 /\ OffAbove(0)' BY <2>1, <3>2 DEF ResetForStart, OffAbove
    <3>4. 0 < LastStage BY StagesAssumption DEF LastStage
    <3> QED BY <1>1, <2>1, <3>3, <3>4 DEF ShapeOf, Busy, Up, Unwinding
  <2>2. CASE Starter(g, "begin", "outcome") /\ BeginStage
    <3>1. stage < LastStage /\ joining = 0 /\ OffAbove(stage) BY <1>1, <2>2 DEF ShapeOf
    <3>2. OffAbove(stage + 1) BY <1>1, <3>1 DEF OffAbove
    <3>3. OffAbove(stage + 1)' BY <1>1, <2>2, <3>2 DEF BeginStage, OffAbove, SetThread
    <3> QED BY <1>1, <2>2, <3>1, <3>3 DEF BeginStage, ShapeOf, Busy, Up, Unwinding
  <2>3. CASE /\ Starter(g, "outcome", IF stage + 1 = LastStage THEN "started" ELSE "begin")
             /\ CompleteStage
    <3>1. stage < LastStage /\ joining = 0 /\ OffAbove(stage + 1) BY <1>1, <2>3 DEF ShapeOf
    <3>2. stage' = stage + 1 /\ joining' = 0 /\ OffAbove(stage)'
      BY <2>3, <3>1 DEF CompleteStage, OffAbove
    <3>3. CASE stage + 1 = LastStage
      BY <1>1, <2>3, <3>2, <3>3 DEF ShapeOf, Busy, Up, Unwinding
    <3>4. CASE stage + 1 # LastStage
      BY <1>1, <2>3, <3>1, <3>2, <3>4 DEF ShapeOf, Busy, Up, Unwinding
    <3> QED BY <3>3, <3>4
  <2>4. CASE Starter(g, "outcome", "failing") /\ TellToStop(stage + 1)
    <3>1. stage < LastStage /\ OffAbove(stage + 1) BY <1>1, <2>4 DEF ShapeOf
    <3>2. stage' = stage /\ joining' = stage + 1 /\ OffAbove(stage + 1)'
      BY <2>4, <3>1 DEF TellToStop, OffAbove
    <3> QED BY <1>1, <2>4, <3>1, <3>2 DEF ShapeOf, Busy, Up, Unwinding
  <2>5. CASE Starter(g, "failing", "stopping") /\ FailStage
    <3>1. joining = stage + 1 /\ OffAbove(stage + 1) BY <1>1, <2>5 DEF ShapeOf
    <3>2. stage' = stage /\ joining' = 0 /\ OffAbove(stage)'
      BY <1>1, <2>5, <3>1 DEF FailStage, SetThread, OffAbove
    <3> QED BY <1>1, <2>5, <3>2 DEF ShapeOf, Busy, Up, Unwinding
  <2>6. CASE Starter(g, "stopping", "unwind") /\ BeginStop
    <3>1. joining = 0 /\ OffAbove(stage) BY <1>1, <2>6 DEF ShapeOf
    <3>2. stage' = stage /\ joining' = 0 /\ OffAbove(stage)'
      BY <2>6, <3>1 DEF BeginStop, OffAbove
    <3> QED BY <1>1, <2>6, <3>2 DEF ShapeOf, Busy, Up, Unwinding
  <2>7. CASE Starter(g, "unwind", "unwind") /\ UnwindStage
    BY <1>1, <2>7, UnwindShape DEF Unwinding, Busy
  <2>8. CASE Starter(g, "started", "leave") /\ UNCHANGED core
    <3>1. stage' = LastStage /\ joining' = 0 BY <1>1, <2>8 DEF ShapeOf, Up, core
    <3> QED BY <1>1, <2>8, <3>1 DEF ShapeOf, Busy, Up, Unwinding
  <2> QED BY <2>1, <2>2, <2>3, <2>4, <2>5, <2>6, <2>7, <2>8 DEF LiStartConnection
<1> QED BY <1>2, <1>3, <1>4, HolderShape

\* start() keeps the shape of the core.
LEMMA StartShape ==
  ASSUME SInv, NEW g \in Owners, Start(g)
  PROVE  CoreShape'
<1> USE DEF Starter
<1>1. /\ starter \in [Owners -> StarterStates] /\ ShapeOf(g)
      /\ stopper[g] \in {"unwind", "release", "done"} => starter[g] = "done"
  BY DEF SInv, TypeOK, CoreShape, StopsOnce
<1>2. CASE StartApp(g)
  BY <1>1, <1>2, FrameShape DEF StartApp, core, Busy, Up, Unwinding
<1>3. CASE Acquire(g)
  BY <1>1, <1>3, FrameShape DEF Acquire, core, Busy, Up, Unwinding
<1>4. CASE EnterStart(g)
  BY <1>1, <1>4, FrameShape DEF EnterStart, core, Busy, Up, Unwinding
<1>5. CASE LiStartConnection(g) BY <1>5, LiStartShape
<1>6. CASE LeaveStart(g) /\ Starter(g, "leave", "done")
  BY <1>1, <1>6, FrameShape DEF LeaveStart, core, Up, SInv, TypeOK, StopperStates
<1>7. CASE LeaveStart(g) /\ Starter(g, "unwind", "failed") /\ stage = STAGE_NONE
  <2>1. joining = STAGE_NONE /\ OffAbove(STAGE_NONE) BY <1>1, <1>7 DEF ShapeOf, Unwinding
  <2>2. Idle' BY <1>7, <2>1 DEF LeaveStart, core, Idle, OffAbove, STAGE_NONE
  <2>3. ShapeOf(g)' BY <1>1, <1>7 DEF LeaveStart, ShapeOf, Up, Unwinding
  <2> QED BY <1>1, <1>7, <2>2, <2>3, HolderShape DEF LeaveStart, Holds, StartedCore
<1> QED BY <1>2, <1>3, <1>4, <1>5, <1>6, <1>7 DEF Start, LeaveStart

\* stop() undoes a connection that is up, and ends with an idle core.
LEMMA StopShape ==
  ASSUME SInv, NEW g \in Owners, Stop(g)
  PROVE  CoreShape'
<1> USE DEF Stopper
<1>1. /\ stopper \in [Owners -> StopperStates] /\ ShapeOf(g)
      /\ stopper[g] # "none" => starter[g] \in {"leave", "done"}
      /\ stopper[g] \in {"unwind", "release", "done"} => starter[g] = "done"
  BY DEF SInv, TypeOK, CoreShape, StopsOnce
<1>2. CASE Interrupt(g)
  BY <1>1, <1>2, FrameShape DEF Interrupt, Up
<1>3. CASE EnterStop(g)
  <2>1. starter[g] = "done"
    BY <1>1, <1>3, OwnersAssumption DEF EnterStop, EnterMonitor, SInv, MonitorHeld, StartedCore
  <2>2. stage = LastStage /\ joining = STAGE_NONE BY <1>1, <1>3, <2>1 DEF EnterStop, ShapeOf, Up
  <2>3. OffAbove(stage)' BY <1>3, <2>2, StageNumbers DEF EnterStop, BeginStop, OffAbove
  <2>4. ShapeOf(g)' /\ Busy(g)'
    BY <1>1, <1>3, <2>1, <2>2, <2>3 DEF EnterStop, BeginStop, ShapeOf, Busy, Up, Unwinding
  <2> QED BY <1>1, <1>3, <2>1, <2>4, HolderShape DEF EnterStop, Holds
<1>4. CASE LiStopConnection(g)
  BY <1>1, <1>4, UnwindShape, HolderShape DEF LiStopConnection, Unwinding, Busy, Holds
<1>5. CASE LeaveStop(g)
  <2>1. joining = STAGE_NONE /\ OffAbove(STAGE_NONE)
    BY <1>1, <1>5 DEF LeaveStop, ShapeOf, Unwinding
  <2>2. Idle' BY <1>5, <2>1 DEF LeaveStop, core, Idle, OffAbove, STAGE_NONE
  <2>3. ShapeOf(g)' BY <1>1, <1>5 DEF LeaveStop, ShapeOf, Up, Unwinding
  <2> QED BY <1>1, <1>5, <2>2, <2>3, HolderShape DEF LeaveStop, Holds
<1>6. CASE Release(g)
  BY <1>1, <1>6, FrameShape DEF Release, core, Busy, Up, Unwinding
<1> QED BY <1>2, <1>3, <1>4, <1>5, <1>6 DEF Stop

\* Asking for a stop is not seen by the core.
LEMMA RequestShape ==
  ASSUME SInv, NEW g \in Owners, StopRequested(g), UNCHANGED <<core, starter>>
  PROVE  CoreShape'
BY FrameShape DEF StopRequested, SInv, TypeOK, StopsOnce, Up, core

\* A thread of a stream runs only while it is not joined.
LEMMA StreamShape ==
  ASSUME SInv, NEW k \in Reporting, Stream(k)
  PROVE  CoreShape'
<1>1. UNCHANGED <<stage, joining, starter, stopper>>
  BY DEF Stream, StreamThread, ThreadReturns, TerminationTest, TerminationReport
<1>2. \A j \in Reporting : thread[j] = "off" => thread'[j] = "off"
  BY DEF Stream, StreamThread, ThreadReturns, TerminationTest, TerminationReport, SetThread
<1>3. \A n : OffAbove(n) => OffAbove(n)' BY <1>2 DEF OffAbove
<1> QED BY <1>1, <1>3 DEF SInv, CoreShape, ShapeOf, Idle, Busy, Up, Unwinding, STAGE_NONE

\* Every step keeps the shape of the core.
LEMMA NextShape ==
  ASSUME SInv, [Next]_vars
  PROVE  CoreShape'
<1>1. ASSUME UNCHANGED <<stage, joining, thread, starter, stopper>> PROVE CoreShape'
  BY <1>1, FrameShape
<1>2. ASSUME NEW g \in Owners, Open(g) PROVE CoreShape'
  BY <1>2, FrameShape DEF Open, SurfaceChanged, Starter, core, Busy, Up, Unwinding,
     SInv, TypeOK, StopsOnce
<1>3. ASSUME NEW g \in Owners, Leave(g) \/ LoseSurface(g) PROVE CoreShape'
  BY <1>1, <1>3, UserEffect, RequestShape DEF core
<1>4. ASSUME Ui PROVE CoreShape'
  BY <1>1, <1>4, UiEffect, RequestShape DEF core
<1>5. ASSUME NEW g \in Owners, NEW k \in Reporting, AsyncTerm(g, k) PROVE CoreShape'
  BY <1>1, <1>5 DEF AsyncTerm
<1>6. CASE UNCHANGED vars BY <1>1, <1>6 DEF vars, core
<1> QED BY <1>2, <1>3, <1>4, <1>5, <1>6, StartShape, StopShape, StreamShape DEF Next

-----------------------------------------------------------------------------
\* The invariant is inductive.
LEMMA NextSInv == SInv /\ [Next]_vars => SInv'
BY NextType, NextSole, NextStopsOnce, NextListener, NextShape DEF SInv

\* It holds in every state the program reaches.
LEMMA Inductive == Spec => []SInv
<1>1. Init => SInv BY InitSInv
<1>2. SInv /\ [Next]_vars => SInv' BY NextSInv
<1> QED BY <1>1, <1>2, PTL DEF Spec

-----------------------------------------------------------------------------
\* Every variable has its type, in every state the program reaches.
THEOREM TypeCorrect == Spec => []TypeOK
BY Inductive, PTL DEF SInv

\* The permits and the sessions that hold one always make one: start() and stop(), on
\* their threads, take the semaphore and give it back one to one.
LEMMA HoldersCounted ==
  ASSUME SInv
  PROVE  PermitAccounting
<1>1. CASE connectionAllowed = 1 /\ \A h \in Owners : ~Holds(h)
  <2>1. {g \in Owners : Holds(g)} = {} BY <1>1
  <2> QED BY <1>1, <2>1, FS_EmptySet DEF PermitAccounting
<1>2. CASE connectionAllowed = 0 /\ \E g \in Owners : \A h \in Owners : Holds(h) <=> h = g
  <2>1. PICK g \in Owners : {h \in Owners : Holds(h)} = {g} BY <1>2
  <2> QED BY <1>2, <2>1, FS_Singleton DEF PermitAccounting
<1> QED BY <1>1, <1>2 DEF SInv, SoleHolder

\* The permits and the sessions that hold one make one, in every state.
THEOREM PermitAccounted == Spec => []PermitAccounting
BY Inductive, HoldersCounted, PTL

\* A start finds no stage and no thread of an earlier connection, however that one ended.
LEMMA StartFindsIdle ==
  ASSUME SInv
  PROVE  CleanStart
<1> SUFFICES ASSUME NEW g \in Owners, starter[g] \in {"enter", "reset"}
             PROVE  Idle
  BY StageNumbers DEF CleanStart, Idle, OffAbove, STAGE_NONE
<1>1. Holds(g) /\ ~Busy(g)
  BY DEF Holds, StartedCore, Busy, Up, Unwinding, SInv, StopsOnce
<1>2. \A h \in Owners : ~Busy(h) BY <1>1, OneHolder
<1> QED BY <1>2 DEF SInv, CoreShape

\* Every start finds the native code as no connection had left it (CleanStart).
THEOREM StartsClean == Spec => []CleanStart
BY Inductive, StartFindsIdle, PTL

\* As long as there are stages or threads, the callbacks go to the session that made them.
LEMMA ListenerOwns ==
  ASSUME SInv
  PROVE  ListenerIsOwner
<1> SUFFICES ASSUME stage # STAGE_NONE \/ \E k \in Reporting : thread[k] # "off"
             PROVE  connectionListener \in Owners /\ Holds(connectionListener)
  BY DEF ListenerIsOwner
<1>1. ~Idle BY StageNumbers DEF Idle, OffAbove, STAGE_NONE
<1>2. PICK g \in Owners : Busy(g) BY <1>1 DEF SInv, CoreShape
<1>3. connectionListener = g
  BY <1>2 DEF SInv, ListenerSet, Busy, StartedCore
<1> QED BY <1>2, <1>3, OneHolder

\* The callbacks of the native code go to the session it works for (ListenerIsOwner).
THEOREM CallbacksToOwner == Spec => []ListenerIsOwner
BY Inductive, ListenerOwns, PTL

-----------------------------------------------------------------------------
(* StreamSession implements ExclusiveSession: owner is the session that has the permit,   *)
(* running are the streams whose threads have not been joined.                            *)

Running == {k \in Reporting : thread[k] # "off"}

\* What the refinement mapping gives, now and in the next state.
LEMMA HolderValue ==
  ASSUME SInv
  PROVE  /\ \A g \in Owners : Holds(g) => HolderOf = g
         /\ (\A g \in Owners : ~Holds(g)) => HolderOf = NULL
BY OneHolder DEF HolderOf

\* The same of the next state.
LEMMA NextHolderValue ==
  ASSUME SInv'
  PROVE  /\ \A g \in Owners : Holds(g)' => HolderOf' = g
         /\ (\A g \in Owners : ~Holds(g)') => HolderOf' = NULL
<1>1. \A f, h \in Owners : Holds(f)' /\ Holds(h)' => f = h BY DEF SInv, SoleHolder
<1> QED BY <1>1 DEF HolderOf

\* The phase of a session depends on the places of its two threads.
LEMMA Phases ==
  /\ PhaseOf(NULL) = "idle" /\ PhaseOf(NULL)' = "idle"
  /\ \A g \in Owners :
       /\ PhaseOf(g) = IF starter[g] = "unwind" \/ stopper[g] \in {"unwind", "release"}
                       THEN "stopping"
                       ELSE IF starter[g] \in {"leave", "done"} THEN "streaming" ELSE "starting"
       /\ PhaseOf(g)' = IF starter'[g] = "unwind" \/ stopper'[g] \in {"unwind", "release"}
                        THEN "stopping"
                        ELSE IF starter'[g] \in {"leave", "done"} THEN "streaming" ELSE "starting"
BY OwnersAssumption DEF PhaseOf

\* The steps that the abstract specification does not see.
LEMMA Stutters ==
  ASSUME SInv, SInv', Running' = Running,
         \A h \in Owners : /\ Holds(h)' <=> Holds(h)
                           /\ Holds(h) => PhaseOf(h)' = PhaseOf(h)
  PROVE  UNCHANGED Exclusive!vars
<1>1. CASE \A h \in Owners : ~Holds(h)
  <2>1. HolderOf = NULL /\ HolderOf' = NULL BY <1>1, HolderValue, NextHolderValue
  <2> QED BY <2>1, Phases DEF Exclusive!vars, Running
<1>2. ASSUME NEW g \in Owners, Holds(g) PROVE UNCHANGED Exclusive!vars
  <2>1. HolderOf = g /\ HolderOf' = g /\ PhaseOf(g)' = PhaseOf(g)
    BY <1>2, HolderValue, NextHolderValue
  <2> QED BY <2>1 DEF Exclusive!vars, Running
<1> QED BY <1>1, <1>2

\* What a step of the session g that has the permit, and keeps it, is abstractly.
LEMMA HolderStep ==
  ASSUME SInv, SInv', NEW g \in Owners, Holds(g), Holds(g)'
  PROVE  HolderOf = g /\ HolderOf' = g
BY HolderValue, NextHolderValue

\* Threads are made, or joined, one stream at a time.
LEMMA SetThreadRunning ==
  ASSUME SInv, NEW k, NEW s, SetThread(k, s)
  PROVE  /\ k \notin Reporting => Running' = Running
         /\ k \in Reporting /\ s # "off" => Running' = Running \union {k}
         /\ k \in Reporting /\ s = "off" => Running' = Running \ {k}
<1>1. \A j \in Reporting : thread'[j] = IF j = k THEN s ELSE thread[j] BY DEF SetThread
<1> QED BY <1>1 DEF Running

\* Undoing a stage joins the thread of one stream, or of none.
LEMMA Joins ==
  ASSUME SInv, SInv', NEW g \in Owners, Holds(g), Holds(g)',
         PhaseOf(g) = "stopping", PhaseOf(g)' = "stopping", UnwindStage
  PROVE  [Exclusive!Next]_Exclusive!vars
<1>1. HolderOf = g /\ HolderOf' = g BY HolderStep
<1>2. \/ Running' = Running
      \/ stage \in Reporting /\ stage \in Running /\ Running' = Running \ {stage}
  <2>1. CASE TellToStop(stage) BY <2>1 DEF TellToStop, Running
  <2>2. CASE SetThread(stage, "off") /\ Joined(stage)
    BY <2>2, SetThreadRunning DEF Joined, Running
  <2> QED BY <2>1, <2>2 DEF UnwindStage
<1>3. CASE Running' = Running BY <1>1, <1>3 DEF Exclusive!vars, Running
<1>4. CASE stage \in Running /\ Running' = Running \ {stage}
  <2>1. Exclusive!StopStream BY <1>1, <1>4 DEF Exclusive!StopStream, Running
  <2> QED BY <2>1 DEF Exclusive!Next
<1> QED BY <1>2, <1>3, <1>4

\* The permit is given back when every thread has been joined.
LEMMA GivesUp ==
  ASSUME SInv, SInv', NEW g \in Owners, Holds(g), ~Holds(g)',
         \A h \in Owners \ {g} : starter'[h] = starter[h] /\ stopper'[h] = stopper[h],
         PhaseOf(g) = "stopping", UNCHANGED thread, OffAbove(STAGE_NONE)
  PROVE  [Exclusive!Next]_Exclusive!vars
<1>1. HolderOf = g BY HolderValue
<1>2. \A h \in Owners : ~Holds(h)' BY OneHolder DEF Holds
<1>3. HolderOf' = NULL BY <1>2, NextHolderValue
<1>4. Running = {} /\ Running' = {}
  BY StageNumbers DEF Running, OffAbove, STAGE_NONE
<1>5. Exclusive!GiveUp BY <1>1, <1>3, <1>4, Phases DEF Exclusive!GiveUp, Running
<1> QED BY <1>5 DEF Exclusive!Next

\* LiStartConnection makes threads while starting, and joins them while stopping.
LEMMA LiStartRefines ==
  ASSUME SInv, SInv', NEW g \in Owners, LiStartConnection(g)
  PROVE  [Exclusive!Next]_Exclusive!vars
<1> USE DEF Starter
<1>1. /\ starter \in [Owners -> StarterStates]
      /\ starter[g] \in StartedCore \ {"leave"}
      /\ stopper[g] \notin {"unwind", "release", "done"} /\ stopper' = stopper
      /\ \E l \in StartedCore : starter' = [starter EXCEPT ![g] = l]
  BY LiStartEffect DEF SInv, TypeOK, StopsOnce, StartedCore
<1>2. Holds(g) /\ Holds(g)' BY <1>1 DEF Holds, StartedCore
<1>3. HolderOf = g /\ HolderOf' = g BY <1>2, HolderStep
<1>4. ASSUME Running' = Running, PhaseOf(g)' = PhaseOf(g)
      PROVE  [Exclusive!Next]_Exclusive!vars
  BY <1>3, <1>4 DEF Exclusive!vars, Running
<1>5. ASSUME NEW k, NEW s, SetThread(k, s), PhaseOf(g) = "starting", PhaseOf(g)' = "starting"
      PROVE  [Exclusive!Next]_Exclusive!vars
  <2>1. \/ Running' = Running
        \/ k \in Reporting /\ (Running' = Running \union {k} \/ Running' = Running \ {k})
    BY <1>5, SetThreadRunning
  <2>2. CASE Running' = Running BY <1>4, <1>5, <2>2
  <2>3. CASE k \in Reporting /\ (Running' = Running \union {k} \/ Running' = Running \ {k})
    <3>1. Exclusive!StartStream BY <1>3, <1>5, <2>3 DEF Exclusive!StartStream, Running
    <3> QED BY <3>1 DEF Exclusive!Next
  <2> QED BY <2>1, <2>2, <2>3
<1>6. CASE Starter(g, "reset", "begin") /\ ResetForStart
  BY <1>1, <1>4, <1>6, Phases DEF ResetForStart, Running
<1>7. CASE Starter(g, "begin", "outcome") /\ BeginStage
  BY <1>1, <1>5, <1>7, Phases DEF BeginStage
<1>8. CASE /\ Starter(g, "outcome", IF stage + 1 = LastStage THEN "started" ELSE "begin")
           /\ CompleteStage
  BY <1>1, <1>4, <1>8, Phases DEF CompleteStage, Running
<1>9. CASE Starter(g, "outcome", "failing") /\ TellToStop(stage + 1)
  BY <1>1, <1>4, <1>9, Phases DEF TellToStop, Running
<1>10. CASE Starter(g, "failing", "stopping") /\ FailStage
  BY <1>1, <1>5, <1>10, Phases DEF FailStage
<1>11. CASE Starter(g, "stopping", "unwind") /\ BeginStop
  <2>1. PhaseOf(g) = "starting" /\ PhaseOf(g)' = "stopping" /\ Running' = Running
    BY <1>1, <1>11, Phases DEF BeginStop, Running
  <2>2. Exclusive!BeginStop BY <1>3, <2>1 DEF Exclusive!BeginStop, Running
  <2> QED BY <2>2 DEF Exclusive!Next
<1>12. CASE Starter(g, "unwind", "unwind") /\ UnwindStage
  BY <1>1, <1>2, <1>12, Joins, Phases
<1>13. CASE Starter(g, "started", "leave") /\ UNCHANGED core
  <2>1. PhaseOf(g) = "starting" /\ PhaseOf(g)' = "streaming" /\ Running' = Running
    BY <1>1, <1>13, Phases DEF core, Running
  <2>2. Exclusive!Streaming BY <1>3, <2>1 DEF Exclusive!Streaming, Running
  <2> QED BY <2>2 DEF Exclusive!Next
<1> QED BY <1>6, <1>7, <1>8, <1>9, <1>10, <1>11, <1>12, <1>13 DEF LiStartConnection

\* The thread of start() takes the permit, reports the stream, and may give the permit back.
LEMMA StartRefines ==
  ASSUME SInv, SInv', NEW g \in Owners, Start(g)
  PROVE  [Exclusive!Next]_Exclusive!vars
<1> USE DEF Starter, Holds, StartedCore
<1>1. /\ starter \in [Owners -> StarterStates]
      /\ stopper[g] \in {"unwind", "release", "done"} => starter[g] = "done"
  BY DEF SInv, TypeOK, StopsOnce
<1>2. CASE StartApp(g)
  BY <1>1, <1>2, Stutters, Phases DEF StartApp, core, Running
<1>3. CASE Acquire(g)
  <2>1. \A h \in Owners : ~Holds(h) BY <1>3 DEF Acquire, AcquirePermit, SInv, SoleHolder
  <2>2. Holds(g)' /\ PhaseOf(g)' = "starting" /\ Running' = Running
    BY <1>1, <1>3, Phases DEF Acquire, core, Running
  <2>3. HolderOf = NULL /\ HolderOf' = g BY <2>1, <2>2, HolderValue, NextHolderValue
  <2>4. Exclusive!Take(g) BY <2>2, <2>3, Phases DEF Exclusive!Take, Running
  <2> QED BY <2>4 DEF Exclusive!Next
<1>4. CASE EnterStart(g)
  BY <1>1, <1>4, Stutters, Phases DEF EnterStart, core, Running
<1>5. CASE LiStartConnection(g) BY <1>5, LiStartRefines
<1>6. CASE LeaveStart(g) /\ Starter(g, "leave", "done")
  BY <1>1, <1>6, Stutters, Phases DEF LeaveStart, core, Running
<1>7. CASE LeaveStart(g) /\ Starter(g, "unwind", "failed") /\ stage = STAGE_NONE
  <2>1. OffAbove(STAGE_NONE) BY <1>7 DEF SInv, CoreShape, ShapeOf, Unwinding
  <2>2. PhaseOf(g) = "stopping" /\ Holds(g) /\ ~Holds(g)'
    BY <1>1, <1>7, Phases
  <2> QED BY <1>7, <2>1, <2>2, GivesUp DEF LeaveStart, core
<1> QED BY <1>2, <1>3, <1>4, <1>5, <1>6, <1>7 DEF Start, LeaveStart

\* The thread of stop() ends the stream, and gives the permit back.
LEMMA StopRefines ==
  ASSUME SInv, SInv', NEW g \in Owners, Stop(g)
  PROVE  [Exclusive!Next]_Exclusive!vars
<1> USE DEF Stopper, Holds, StartedCore
<1>1. /\ stopper \in [Owners -> StopperStates]
      /\ stopper[g] # "none" => starter[g] \in {"leave", "done"}
      /\ stopper[g] \in {"unwind", "release", "done"} => starter[g] = "done"
  BY DEF SInv, TypeOK, StopsOnce
<1>2. CASE Interrupt(g)
  BY <1>1, <1>2, Stutters, Phases DEF Interrupt, Running
<1>3. CASE EnterStop(g)
  <2>1. starter[g] = "done"
    BY <1>1, <1>3, OwnersAssumption DEF EnterStop, EnterMonitor, SInv, MonitorHeld
  <2>2. PhaseOf(g) = "streaming" /\ PhaseOf(g)' = "stopping" /\ Running' = Running
    BY <1>1, <1>3, <2>1, Phases DEF EnterStop, BeginStop, Running
  <2>3. HolderOf = g /\ HolderOf' = g BY <1>1, <1>3, <2>1, HolderStep DEF EnterStop
  <2>4. Exclusive!BeginStop BY <2>2, <2>3 DEF Exclusive!BeginStop, Running
  <2> QED BY <2>4 DEF Exclusive!Next
<1>4. CASE LiStopConnection(g)
  BY <1>1, <1>4, Joins, Phases DEF LiStopConnection
<1>5. CASE LeaveStop(g)
  BY <1>1, <1>5, Stutters, Phases DEF LeaveStop, core, Running
<1>6. CASE Release(g)
  <2>1. Holds(g) /\ ~Busy(g) /\ ~Holds(g)' /\ PhaseOf(g) = "stopping"
    BY <1>1, <1>6, Phases DEF Release, Busy, Up, Unwinding
  <2>2. \A h \in Owners : ~Busy(h) BY <2>1, OneHolder
  <2>3. OffAbove(STAGE_NONE) BY <2>2 DEF SInv, CoreShape, Idle
  <2> QED BY <1>6, <2>1, <2>3, GivesUp DEF Release, core
<1> QED BY <1>2, <1>3, <1>4, <1>5, <1>6 DEF Stop

\* The stream threads run or return, and nothing is joined by it.
LEMMA StreamRefines ==
  ASSUME SInv, SInv', NEW k \in Reporting, Stream(k)
  PROVE  [Exclusive!Next]_Exclusive!vars
<1>1. thread[k] # "off" /\ \E s \in {"exited", "checked"} : SetThread(k, s)
  BY DEF Stream, StreamThread, ThreadReturns, TerminationTest, TerminationReport
<1>2. Running' = Running BY <1>1, SetThreadRunning DEF Running
<1>3. UNCHANGED <<starter, stopper>> BY DEF Stream, StreamThread
<1> QED BY <1>2, <1>3, Stutters, Phases DEF Holds

\* A step of the user or of the UI thread is not seen: it asks for a stop at most.
LEMMA RequestRefines ==
  ASSUME SInv, SInv', NEW g \in Owners, UNCHANGED <<thread, starter>>,
         StopRequested(g) \/ UNCHANGED stopper
  PROVE  [Exclusive!Next]_Exclusive!vars
<1>1. StopRequested(g) => stopper[g] = "none" BY DEF StopRequested, SInv, StopsOnce
<1>2. \A h \in Owners : /\ Holds(h)' <=> Holds(h)
                        /\ PhaseOf(h)' = PhaseOf(h)
  BY <1>1, Phases, ZenonT(60) DEF StopRequested, Holds, SInv, TypeOK
<1> QED BY <1>2, Stutters DEF Running

\* Every step is one of the abstract specification, or is not seen by it.
LEMMA NextRefines ==
  ASSUME SInv, SInv', [Next]_vars
  PROVE  [Exclusive!Next]_Exclusive!vars
<1>1. ASSUME UNCHANGED <<thread, starter, stopper>> PROVE [Exclusive!Next]_Exclusive!vars
  BY <1>1, Stutters, Phases DEF Holds, Running
<1>2. ASSUME NEW g \in Owners, Open(g) PROVE [Exclusive!Next]_Exclusive!vars
  <2>1. starter[g] = "none" /\ starter' = [starter EXCEPT ![g] = "startApp"]
    BY <1>2 DEF Open, SurfaceChanged, Starter
  <2>2. stopper' = stopper /\ Running' = Running
    BY <1>2 DEF Open, SurfaceChanged, Running, core
  <2> QED BY <2>1, <2>2, Stutters, Phases DEF Holds, StartedCore, SInv, TypeOK
<1>3. ASSUME NEW g \in Owners, Leave(g) \/ LoseSurface(g) PROVE [Exclusive!Next]_Exclusive!vars
  BY <1>3, UserEffect, RequestRefines DEF core
<1>4. ASSUME Ui PROVE [Exclusive!Next]_Exclusive!vars
  BY <1>4, UiEffect, RequestRefines DEF core
<1>5. ASSUME NEW g \in Owners, NEW k \in Reporting, AsyncTerm(g, k)
      PROVE  [Exclusive!Next]_Exclusive!vars
  BY <1>1, <1>5 DEF AsyncTerm
<1>6. CASE UNCHANGED vars BY <1>1, <1>6 DEF vars, core
<1> QED BY <1>2, <1>3, <1>4, <1>5, <1>6, StartRefines, StopRefines, StreamRefines DEF Next

\* The core is owned by one session at a time, stream threads exist only while it is, and it
\* is given up when all of them have been joined.
THEOREM Implements == Spec => ImplementsExclusive
<1>1. Init => Exclusive!Init
  <2> SUFFICES ASSUME Init PROVE Exclusive!Init OBVIOUS
  <2>1. \A g \in Owners : ~Holds(g) BY DEF Init, Holds, StartedCore
  <2>2. HolderOf = NULL BY <2>1 DEF HolderOf
  <2>3. Running = {} BY DEF Init, CoreInit, Running
  <2> QED BY <2>2, <2>3, Phases DEF Exclusive!Init, Running
<1>2. SInv /\ SInv' /\ [Next]_vars => [Exclusive!Next]_Exclusive!vars BY NextRefines
<1> QED BY <1>1, <1>2, Inductive, PTL DEF Spec, ImplementsExclusive, Exclusive!Spec
=============================================================================
