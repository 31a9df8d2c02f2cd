--------------------------- MODULE StreamSession ---------------------------
(***************************************************************************)
(* Starting and stopping a stream, from the Game activity to Connection.c: *)
(*   - Game.java: an activity per session, with its flags; the listener    *)
(*     callbacks post runnables to the UI thread, in one FIFO;             *)
(*   - NvConnection.java: start() runs on a thread of its own, stop() on   *)
(*     another, with the semaphore connectionAllowed and the monitor of    *)
(*     MoonBridge.class;                                                   *)
(*   - MoonBridge.java: the static connectionListener, set and cleared     *)
(*     under the monitor, read without it by the AsyncTerm threads;        *)
(*   - Connection.c: module Connection.                                    *)
(* An activity is an element of Owners: each makes at most one connection. *)
(***************************************************************************)
EXTENDS Connection

CONSTANT NULL
ASSUME OwnersAssumption == NULL \notin Owners /\ Owners \intersect {"none", "spawned", "checked"} = {}

VARIABLES connectionAllowed,   \* permits of the semaphore
          monitor,             \* the activity whose thread holds MoonBridge.class
          connectionListener,  \* MoonBridge.connectionListener
          starter, stopper,    \* where the threads of start() and stop() are
          uiQueue,             \* runnables posted to the UI thread
          activity,            \* new, shown, gone (stopped), detached (surface gone too)
          connected, displayedFailureDialog, finishing,
          crashed              \* an uncaught exception ended the process

bridge == <<connectionAllowed, monitor, connectionListener>>
game == <<activity, connected, displayedFailureDialog, finishing>>
vars == <<core, bridge, starter, stopper, uiQueue, game, crashed>>

StarterStates == {"none", "startApp", "acquire", "enter", "reset", "begin", "outcome", "failing",
                  "started", "leave", "done", "stopping", "unwind", "failed"}
StopperStates == {"none", "interrupt", "enter", "unwind", "release", "done"}

TypeOK ==
  /\ CoreTypeOK
  /\ connectionAllowed \in 0 .. 1
  /\ monitor \in Owners \union {NULL} /\ connectionListener \in Owners \union {NULL}
  /\ starter \in [Owners -> StarterStates] /\ stopper \in [Owners -> StopperStates]
  /\ uiQueue \in Seq(Owners \X {"started", "failed", "terminated"})
  /\ activity \in [Owners -> {"new", "shown", "gone", "detached"}]
  /\ connected \in [Owners -> BOOLEAN]
  /\ displayedFailureDialog \in [Owners -> BOOLEAN] /\ finishing \in [Owners -> BOOLEAN]
  /\ crashed \in BOOLEAN

Init ==
  /\ CoreInit
  /\ connectionAllowed = 1 /\ monitor = NULL /\ connectionListener = NULL
  /\ starter = [g \in Owners |-> "none"] /\ stopper = [g \in Owners |-> "none"]
  /\ uiQueue = <<>>
  /\ activity = [g \in Owners |-> "new"]
  /\ connected = [g \in Owners |-> FALSE]
  /\ displayedFailureDialog = [g \in Owners |-> FALSE] /\ finishing = [g \in Owners |-> FALSE]
  /\ crashed = FALSE

-----------------------------------------------------------------------------
\* Plausible slips, each the `as' of a mutant.
TryAcquire == connectionAllowed' = IF connectionAllowed > 0 THEN connectionAllowed - 1 ELSE 0
ClearedFirst == connectionListener' = NULL
StillConnected(g) == connected' = connected

-----------------------------------------------------------------------------
Starter(g, from, to) == starter[g] = from /\ starter' = [starter EXCEPT ![g] = to]
Stopper(g, from, to) == stopper[g] = from /\ stopper' = [stopper EXCEPT ![g] = to]
Post(g, what) == uiQueue' = Append(uiQueue, <<g, what>>)

EnterMonitor(g) == monitor = NULL /\ monitor' = g
LeaveMonitor == monitor' = NULL
AcquirePermit == connectionAllowed > 0 /\ connectionAllowed' = connectionAllowed - 1
ReleasePermit == connectionAllowed' = connectionAllowed + 1

\* NvConnection.start: the request to the host, which may fail.
StartApp(g) ==
  /\ \/ Starter(g, "startApp", "acquire") /\ UNCHANGED uiQueue
     \/ Starter(g, "startApp", "failed") /\ Post(g, "failed")
  /\ UNCHANGED <<core, bridge, stopper, game>>

Acquire(g) ==
  /\ Starter(g, "acquire", "enter") /\ AcquirePermit
  /\ UNCHANGED <<core, monitor, connectionListener, stopper, uiQueue, game>>

\* synchronized (MoonBridge.class) { setupBridge; startConnection ...
EnterStart(g) ==
  /\ Starter(g, "enter", "reset") /\ EnterMonitor(g)
  /\ connectionListener' = g
  /\ UNCHANGED <<core, connectionAllowed, stopper, uiQueue, game>>

\* LiStartConnection: the stages in order, each begun and then completed or
\* failed; a failed one is reported and everything before it is stopped.
LiStartConnection(g) ==
  /\ \/ Starter(g, "reset", "begin") /\ ResetForStart /\ UNCHANGED uiQueue
     \/ Starter(g, "begin", "outcome") /\ BeginStage /\ UNCHANGED uiQueue
     \/ /\ Starter(g, "outcome", IF stage + 1 = LastStage THEN "started" ELSE "begin")
        /\ CompleteStage /\ UNCHANGED uiQueue
     \/ /\ stage + 1 \notin CannotFail
        /\ Starter(g, "outcome", "failing") /\ TellToStop(stage + 1) /\ UNCHANGED uiQueue
     \/ Starter(g, "failing", "stopping") /\ FailStage /\ Post(connectionListener, "failed")
     \/ Starter(g, "stopping", "unwind") /\ BeginStop /\ UNCHANGED uiQueue
     \/ Starter(g, "unwind", "unwind") /\ UnwindStage /\ UNCHANGED uiQueue
     \/ Starter(g, "started", "leave") /\ Post(connectionListener, "started") /\ UNCHANGED core
  /\ UNCHANGED <<bridge, stopper, game>>

\* ... if (ret != 0) release the permit }
LeaveStart(g) ==
  /\ \/ Starter(g, "leave", "done") /\ UNCHANGED connectionAllowed
     \/ stage = STAGE_NONE /\ Starter(g, "unwind", "failed") /\ ReleasePermit
  /\ LeaveMonitor
  /\ UNCHANGED <<core, connectionListener, stopper, uiQueue, game>>

\* NvConnection.stop
Interrupt(g) ==
  /\ Stopper(g, "interrupt", "enter") /\ LiInterruptConnection
  /\ UNCHANGED <<stage, alreadyTerminated, thread, joining, async, bridge, starter, uiQueue, game>>

\* The bridge is cleaned up after the connection is stopped.
KeepListener == UNCHANGED connectionListener
EnterStop(g) ==
  /\ Stopper(g, "enter", "unwind") /\ EnterMonitor(g) /\ BeginStop /\ KeepListener
  /\ UNCHANGED <<connectionAllowed, starter, uiQueue, game>>

LiStopConnection(g) ==
  /\ Stopper(g, "unwind", "unwind") /\ UnwindStage
  /\ UNCHANGED <<bridge, starter, uiQueue, game>>

ClearListener == connectionListener' = NULL
LeaveStop(g) ==
  /\ stage = STAGE_NONE /\ Stopper(g, "unwind", "release")
  /\ ClearListener /\ LeaveMonitor
  /\ UNCHANGED <<core, connectionAllowed, starter, uiQueue, game>>

Release(g) ==
  /\ Stopper(g, "release", "done") /\ ReleasePermit
  /\ UNCHANGED <<core, monitor, connectionListener, starter, uiQueue, game>>

\* A stream thread meets an error, or returns because it is told to.
StreamThread(k) ==
  /\ ThreadReturns(k) \/ TerminationTest(k) \/ TerminationReport(k, connectionListener)
  /\ UNCHANGED <<bridge, starter, stopper, uiQueue, game>>

\* bridgeClConnectionTerminated: connectionListener is tested, then read again;
\* cleared in between, it is a NullPointerException that nothing catches.
AsyncTerm(g, k) ==
  /\ ~crashed
  /\ \/ /\ async[<<g, k>>] = "spawned"
        /\ async' = [async EXCEPT ![<<g, k>>] = IF connectionListener = NULL THEN "none" ELSE "checked"]
        /\ UNCHANGED <<uiQueue, crashed>>
     \/ /\ async[<<g, k>>] = "checked" /\ connectionListener # NULL
        /\ async' = [async EXCEPT ![<<g, k>>] = connectionListener]
        /\ UNCHANGED <<uiQueue, crashed>>
     \/ /\ async[<<g, k>>] = "checked" /\ connectionListener = NULL
        /\ crashed' = TRUE
        /\ UNCHANGED <<async, uiQueue>>
     \/ /\ async[<<g, k>>] \in Owners      \* Game.connectionTerminated, after its network test
        /\ async' = [async EXCEPT ![<<g, k>>] = "none"]
        /\ Post(async[<<g, k>>], "terminated") /\ UNCHANGED crashed
  /\ UNCHANGED <<stage, alreadyTerminated, ConnectionInterrupted, thread, joining,
                 bridge, starter, stopper, game>>

-----------------------------------------------------------------------------
\* Game.stopConnection.  The field connecting is never assigned true.
Connecting(g) == FALSE
NoLongerConnected(g) == connected' = [connected EXCEPT ![g] = FALSE]
StopConnection(g) ==
  IF Connecting(g) \/ connected[g]
  THEN /\ NoLongerConnected(g)
       /\ stopper' = [stopper EXCEPT ![g] = "interrupt"]
  ELSE UNCHANGED <<connected, stopper>>

\* The surface of a new activity is ready; the previous one is not shown.
SurfaceChanged(g) ==
  /\ activity[g] = "new" /\ \A h \in Owners : activity[h] # "shown"
  /\ activity' = [activity EXCEPT ![g] = "shown"]
  /\ Starter(g, "none", "startApp")
  /\ UNCHANGED <<core, bridge, stopper, uiQueue, connected, displayedFailureDialog, finishing>>

\* May happen while the activity is shown, and does after it is stopped.
SurfaceDestroyed(g) ==
  /\ \/ activity[g] = "shown" /\ UNCHANGED activity
     \/ activity[g] = "gone" /\ activity' = [activity EXCEPT ![g] = "detached"]
  /\ IF connected[g] THEN StopConnection(g) ELSE UNCHANGED <<connected, stopper>>
  /\ UNCHANGED <<core, bridge, starter, uiQueue, displayedFailureDialog, finishing>>

\* The user leaves, or the activity was asked to finish.
OnStop(g) ==
  /\ activity[g] = "shown" /\ activity' = [activity EXCEPT ![g] = "gone"]
  /\ displayedFailureDialog' = [displayedFailureDialog EXCEPT ![g] = TRUE]
  /\ StopConnection(g)
  /\ UNCHANGED <<core, bridge, starter, uiQueue, finishing>>

UiRuns(g, what) == /\ uiQueue # <<>> /\ Head(uiQueue) = <<g, what>>
                   /\ uiQueue' = Tail(uiQueue)
                   /\ UNCHANGED <<core, bridge, starter, activity>>

RunStarted(g) ==
  /\ UiRuns(g, "started")
  /\ connected' = [connected EXCEPT ![g] = TRUE]
  /\ UNCHANGED <<stopper, displayedFailureDialog, finishing>>

RunFailed(g) ==
  /\ UiRuns(g, "failed")
  /\ displayedFailureDialog' = [displayedFailureDialog EXCEPT ![g] = TRUE]
  /\ UNCHANGED <<stopper, connected, finishing>>

\* Only a graceful termination finishes the activity without the user.
RunTerminated(g) ==
  /\ UiRuns(g, "terminated")
  /\ displayedFailureDialog' = [displayedFailureDialog EXCEPT ![g] = TRUE]
  /\ IF displayedFailureDialog[g]
     THEN UNCHANGED <<connected, stopper, finishing>>
     ELSE /\ StopConnection(g)
          /\ \E graceful \in BOOLEAN : finishing' = [finishing EXCEPT ![g] = graceful]

\* Everything but AsyncTerm leaves the process alone.
Alive == ~crashed /\ UNCHANGED crashed

Ui == Alive /\ uiQueue # <<>> /\ \E g \in Owners : RunStarted(g) \/ RunFailed(g) \/ RunTerminated(g)
Start(g) == Alive /\ (StartApp(g) \/ Acquire(g) \/ EnterStart(g) \/ LiStartConnection(g) \/ LeaveStart(g))
Stop(g) == Alive /\ (Interrupt(g) \/ EnterStop(g) \/ LiStopConnection(g) \/ LeaveStop(g) \/ Release(g))
Open(g) == Alive /\ SurfaceChanged(g)
Leave(g) == Alive /\ OnStop(g)
LoseSurface(g) == Alive /\ SurfaceDestroyed(g)
Stream(k) == Alive /\ StreamThread(k)

Next ==
  \/ \E g \in Owners : \/ Open(g) \/ LoseSurface(g) \/ Leave(g)
                       \/ Start(g) \/ Stop(g)
                       \/ \E k \in Reporting : AsyncTerm(g, k)
  \/ \E k \in Reporting : Stream(k)
  \/ Ui

Spec == Init /\ [][Next]_vars

\* Threads run, a stage ends one way or the other (its waits are bounded or
\* interruptible), the UI thread drains its queue, a finished activity is
\* stopped and a stopped one loses its surface.  Nothing makes the user leave
\* or a stream fail.
Fairness ==
  /\ \A g \in Owners :
       /\ WF_vars(Start(g)) /\ WF_vars(Stop(g))
       /\ WF_vars(Leave(g) /\ finishing[g])
       /\ WF_vars(LoseSurface(g) /\ activity[g] = "gone")
       /\ \A k \in Reporting : WF_vars(AsyncTerm(g, k))
  /\ \A k \in Reporting : /\ WF_vars(Stream(k) /\ joining = k)
                          /\ WF_vars(Stream(k) /\ thread[k] = "checked")
  /\ WF_vars(Ui)

FairSpec == Spec /\ Fairness

-----------------------------------------------------------------------------
StartedCore == {"reset", "begin", "outcome", "failing", "started", "leave", "stopping", "unwind"}

\* g has the permit: its connection is being made, is up, or is being stopped.
Holds(g) == \/ starter[g] = "enter" \/ starter[g] \in StartedCore
            \/ starter[g] = "done" /\ stopper[g] # "done"

(***************************************************************************)
(* The permit is neither lost nor doubled: releases of start (on failure)  *)
(* and of stop (run on another thread, for whichever session the UI still  *)
(* believes connected) match the acquires one to one.                      *)
(***************************************************************************)
PermitAccounting == connectionAllowed + Cardinality({g \in Owners : Holds(g)}) = 1

(***************************************************************************)
(* The core, which is not thread-safe, is left as a start expects it: a    *)
(* connection begins with no stage made and no thread of an earlier one,   *)
(* however that one ended.                                                 *)
(***************************************************************************)
CleanStart ==
  \A g \in Owners : starter[g] \in {"enter", "reset"} =>
    /\ stage = STAGE_NONE /\ joining = STAGE_NONE
    /\ \A k \in Reporting : thread[k] = "off"

(***************************************************************************)
(* While stages or threads exist, MoonBridge points at the listener of the *)
(* session that made them, so callbacks of a running stream find it.       *)
(***************************************************************************)
ListenerIsOwner ==
  (stage # STAGE_NONE \/ \E k \in Reporting : thread[k] # "off") =>
    connectionListener \in Owners /\ Holds(connectionListener)

(***************************************************************************)
(* A stop that was begun is finished: the stream threads are joined, even  *)
(* those in the middle of reporting a termination, and the permit is back. *)
(* A start that has the permit ends: connected, or with everything undone. *)
(***************************************************************************)
StartsAndStopsEnd ==
  \A g \in Owners :
    /\ stopper[g] = "interrupt" ~> (stopper[g] = "done" \/ crashed)
    /\ starter[g] = "enter" ~> (starter[g] \in {"done", "failed"} \/ crashed)

HolderOf == IF \E g \in Owners : Holds(g) THEN CHOOSE g \in Owners : Holds(g) ELSE NULL
PhaseOf(g) ==
  IF g = NULL THEN "idle"
  ELSE IF starter[g] = "unwind" \/ stopper[g] \in {"unwind", "release"} THEN "stopping"
  ELSE IF starter[g] \in {"leave", "done"} THEN "streaming" ELSE "starting"

Exclusive == INSTANCE ExclusiveSession
  WITH Sessions <- Owners, Streams <- Reporting, Nobody <- NULL,
       owner <- HolderOf, phase <- PhaseOf(HolderOf),
       running <- {k \in Reporting : thread[k] # "off"}

(***************************************************************************)
(* The sessions share the native core exclusively, whatever the order of   *)
(* user actions, stage outcomes, reports and late runnables.               *)
(***************************************************************************)
ImplementsExclusive == Exclusive!Spec

-----------------------------------------------------------------------------
(***************************************************************************)
(* Connection.c:254-255 no termination callback after LiStopConnection: in *)
(* particular none that the listener of the next connection receives.      *)
(***************************************************************************)
TerminationReachesItsSession ==
  \A g \in Owners, k \in Reporting : async[<<g, k>>] \in Owners => async[<<g, k>>] = g
=============================================================================
