----------------------------- MODULE Connection -----------------------------
(***************************************************************************)
(* The state Connection.c keeps about the one connection of the process,   *)
(* and the steps LiStartConnection, LiStopConnection, the stream threads   *)
(* and the AsyncTerm threads take on it.  Who calls them, and from which   *)
(* thread, is in StreamSession.                                            *)
(*                                                                         *)
(* The eleven stages of Limelight.h are InitStages (7) that create state   *)
(* and StreamStages (4: control, video, audio, input) that start threads;  *)
(* a stream's thread is named by its stage, Reporting are those that may   *)
(* call connectionTerminated.  CannotFail ({6, 7}) are the stages whose    *)
(* function returns nothing: initializeVideoStream, initializeInputStream. *)
(***************************************************************************)
EXTENDS Naturals, Sequences, FiniteSets

CONSTANTS Owners,       \* the connections that are made, one after the other
          InitStages, StreamStages, CannotFail, Reporting

STAGE_NONE == 0
LastStage == InitStages + StreamStages

ASSUME StagesAssumption ==
  /\ InitStages \in Nat \ {0} /\ StreamStages \in Nat \ {0}
  /\ CannotFail \subseteq 1 .. InitStages
  /\ Reporting \subseteq InitStages + 1 .. LastStage

VARIABLES stage, alreadyTerminated, ConnectionInterrupted,
          thread,   \* per stream: off, running, checked (past the test of
                    \* ClInternalConnectionTerminated), exited (not joined)
          joining,  \* the stage whose threads are told to stop, or STAGE_NONE
          async     \* AsyncTerm threads, by the connection and thread they report

core == <<stage, alreadyTerminated, ConnectionInterrupted, thread, joining, async>>

AsyncStates == {"none", "spawned", "checked"} \union Owners

CoreTypeOK ==
  /\ stage \in 0 .. LastStage /\ joining \in 0 .. LastStage
  /\ alreadyTerminated \in BOOLEAN /\ ConnectionInterrupted \in BOOLEAN
  /\ thread \in [Reporting -> {"off", "running", "checked", "exited"}]
  /\ async \in [Owners \X Reporting -> AsyncStates]

CoreInit ==
  /\ stage = STAGE_NONE /\ joining = STAGE_NONE
  /\ alreadyTerminated = FALSE /\ ConnectionInterrupted = FALSE
  /\ thread = [k \in Reporting |-> "off"]
  /\ async = [x \in Owners \X Reporting |-> "none"]

SetThread(k, s) == thread' = [j \in Reporting |-> IF j = k THEN s ELSE thread[j]]

-----------------------------------------------------------------------------
\* Plausible slips, each the `as' of a mutant.
NeverTold(k) == joining # k /\ UNCHANGED core
FailWithoutJoining ==
  /\ joining = stage + 1 /\ joining' = STAGE_NONE
  /\ UNCHANGED <<stage, thread, alreadyTerminated, ConnectionInterrupted, async>>

-----------------------------------------------------------------------------
LiInterruptConnection == ConnectionInterrupted' = TRUE

\* LiStartConnection, once the parameters are copied.
ResetForStart ==
  /\ alreadyTerminated' = FALSE /\ ConnectionInterrupted' = FALSE
  /\ UNCHANGED <<stage, thread, joining, async>>

\* The stage at hand creates its threads, if it has any.
BeginStage ==
  /\ SetThread(stage + 1, "running")
  /\ UNCHANGED <<stage, alreadyTerminated, ConnectionInterrupted, joining, async>>

CompleteStage ==
  /\ stage' = stage + 1
  /\ UNCHANGED <<thread, alreadyTerminated, ConnectionInterrupted, joining, async>>

\* What waits for the threads of stage k to return before going on.
Joined(k) == k \in Reporting => thread[k] = "exited"

\* A control stream that fails to start may raise ConnectionInterrupted to get its
\* receive thread out of ENet (over TCP it shuts the socket down instead).
TellToStop(k) ==
  /\ joining' = k
  /\ ConnectionInterrupted' \in {ConnectionInterrupted, ConnectionInterrupted \/ k = InitStages + 1}
  /\ UNCHANGED <<stage, thread, alreadyTerminated, async>>

\* A stage that fails has already stopped and joined the threads it created.
FailStage ==
  /\ joining = stage + 1 /\ Joined(joining)
  /\ SetThread(joining, "off") /\ joining' = STAGE_NONE
  /\ UNCHANGED <<stage, alreadyTerminated, ConnectionInterrupted, async>>

\* The first two lines of LiStopConnection.
DisableCallbacks == alreadyTerminated' = TRUE
BeginStop ==
  /\ DisableCallbacks /\ LiInterruptConnection
  /\ UNCHANGED <<stage, thread, joining, async>>

\* One of the ifs that follow: stop (join) or destroy what the stage made.
UnwindStage ==
  /\ stage # STAGE_NONE
  /\ \/ /\ stage \in Reporting /\ joining # stage
        /\ TellToStop(stage)
     \/ /\ stage \in Reporting => joining = stage
        /\ Joined(stage)
        /\ SetThread(stage, "off") /\ joining' = STAGE_NONE
        /\ stage' = stage - 1
        /\ UNCHANGED <<alreadyTerminated, ConnectionInterrupted, async>>

\* The thread of stream k was told to stop and returns.
ThreadReturns(k) ==
  /\ thread[k] = "running" /\ joining = k
  /\ SetThread(k, "exited")
  /\ UNCHANGED <<stage, alreadyTerminated, ConnectionInterrupted, joining, async>>

\* ClInternalConnectionTerminated: the test, and later the rest of it.
TerminationTest(k) ==
  /\ thread[k] = "running"
  /\ SetThread(k, IF alreadyTerminated \/ ConnectionInterrupted THEN "exited" ELSE "checked")
  /\ UNCHANGED <<stage, alreadyTerminated, ConnectionInterrupted, joining, async>>

TerminationReport(k, owner) ==
  /\ thread[k] = "checked"
  /\ alreadyTerminated' = TRUE
  /\ async' = [async EXCEPT ![<<owner, k>>] = "spawned"]
  /\ SetThread(k, "exited")
  /\ UNCHANGED <<stage, ConnectionInterrupted, joining>>
=============================================================================
