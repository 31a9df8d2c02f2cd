-------------------------- MODULE ConnectFlowProofs --------------------------
(***************************************************************************)
(* Theorems about ConnectFlow, for any catalog, game and number of         *)
(* sessions: its type invariant, that the heartbeat runs for what is used, *)
(* that the screen waits for nothing only behind an attempt that was       *)
(* abandoned, and that a session is ended by choice only.                  *)
(*                                                                         *)
(* The session connected to, the one whose host is waited for and the one  *)
(* the connect job works with may all differ: the job outlives the screen. *)
(* What relates them is that sessions follow one another, and that each of *)
(* the three is only ever replaced by a later one.                         *)
(***************************************************************************)
EXTENDS ConnectFlow, FiniteSetTheorems, TLAPS

\* One session is created after the other, when that has stopped.
SessionsInOrder ==
  \A s, t \in Sessions : s < t /\ status[t] # "unused" => status[s] = "stopped"

\* The sessions the flow knows of, the older first.
TargetsInOrder ==
  /\ warmUp <= connectedTo /\ opened <= connectedTo /\ connectedTo <= target
  /\ target # None => status[target] # "unused"

\* The heartbeat runs for the session connected to, and stops with a failure.
HeartbeatRuns ==
  /\ stage = "Connected" /\ life # "gone" => heartbeats = {connectedTo}
  /\ stage \in {"Failed", "FailedForGood"} \/ life = "gone" => heartbeats = {}

\* A stage between the failures and the success has its job.
JobsRun ==
  /\ life # "gone" /\ stage = "Resolving" => resolveJob /\ connectJob = "none"
  /\ life # "gone" /\ stage \in {"Creating", "Conflicting", "Waiting", "Authorizing"} =>
       connectJob # "none"
  /\ life = "gone" => ~resolveJob /\ connectJob = "none" /\ warmUp = None

\* The screen that shows progress after the last stages waits for the host.
HostAwaited ==
  /\ life = "shown" => ~finishOnReturn
  /\ life # "gone" /\ ~finishOnReturn /\ streamLaunched => warmUp # None
  /\ life = "shown" /\ panel = "progress"
       /\ rendered[1] \in {"Connected", "Failed", "FailedForGood"} => warmUp # None

\* The session that is being ended has no other game, or was chosen.
Asked ==
  connectJob = "end" /\ MustAsk(game[target]) => target \in chosen

\* Nothing takes the stage away from a job that began alone: no heartbeat and no
\* resolve job begins beside it.
KeptAlone ==
  connectJob # "none" /\ alone =>
    /\ ~resolveJob /\ heartbeats = {}
    /\ connectJob = "decide" => stage = "Conflicting"

CInv == /\ TypeOK /\ SessionsInOrder /\ TargetsInOrder /\ HeartbeatRuns
        /\ JobsRun /\ KeptAlone /\ HostAwaited /\ Asked

-----------------------------------------------------------------------------
(* The backend: what happens to the sessions. *)

\* The steps that the sessions see.
LEMMA BackendSteps ==
  ASSUME CInv, [Next]_vars
  PROVE  \/ UNCHANGED backend
         \/ \E s \in Sessions, g \in Games : Creates(s, g)
         \/ \E s \in Sessions : /\ status[s] # "unused" /\ UNCHANGED game
                                /\ status' = [status EXCEPT ![s] = "stopped"]
<1> USE DEF backend
<1>1. CASE requestNewSession \/ requestNewSessionAgain
  BY <1>1, ConnectAssumption DEF requestNewSession, requestNewSessionAgain, SessionAnswered
<1>2. CASE endOldAndStartNew
  <2>1. target \in Sessions /\ status[target] # "unused"
    BY <1>2 DEF endOldAndStartNew, CInv, TypeOK, TargetsInOrder
  <2> QED BY <1>2, <2>1 DEF endOldAndStartNew
<1>3. CASE SessionStops BY <1>3 DEF SessionStops, Active
<1>4. CASE SessionElsewhere BY <1>4 DEF SessionElsewhere
<1>5. CASE SubscriptionsAnswered \/ resolveActiveSession \/ TokenAnswered \/ RateLimited
           \/ PollAgain \/ tokenAuth \/ DeadlinePasses \/ HeartbeatStopped
  BY <1>5 DEF SubscriptionsAnswered, resolveActiveSession, TokenAnswered, RateLimited,
     PollAgain, tokenAuth, DeadlinePasses, HeartbeatStopped
<1>6. CASE onSubscriptionChosen \/ retry \/ onSessionConflictResolved \/ render
           \/ WarmUpAttempt \/ WarmUpSucceeds \/ WarmUpGivesUp
           \/ Finish \/ GoBehind \/ onResume \/ onCreate
  BY <1>6 DEF onSubscriptionChosen, retry, onSessionConflictResolved, render, WarmUpAttempt,
     WarmUpSucceeds, WarmUpGivesUp, Finish, Cleared, GoBehind, onResume, onCreate
<1>7. CASE UNCHANGED vars BY <1>7 DEF vars
<1> QED BY <1>1, <1>2, <1>3, <1>4, <1>5, <1>6, <1>7 DEF Next, Answers

\* A session that was created stays so, with its game, and a stopped one is not started again.
LEMMA SessionsMove ==
  ASSUME CInv, [Next]_vars
  PROVE  /\ status' \in [Sessions -> {"unused", "running", "stopped"}]
         /\ game' \in [Sessions -> Games]
         /\ SessionsInOrder'
         /\ \A s \in Sessions : status[s] # "unused" => status'[s] # "unused" /\ game'[s] = game[s]
<1> USE DEF backend
<1>1. /\ status \in [Sessions -> {"unused", "running", "stopped"}]
      /\ game \in [Sessions -> Games]
      /\ \A s, t \in Sessions : s < t /\ status[t] # "unused" => status[s] = "stopped"
  BY DEF CInv, TypeOK, SessionsInOrder
<1>2. CASE UNCHANGED backend BY <1>1, <1>2 DEF SessionsInOrder
<1>3. ASSUME NEW s \in Sessions, NEW g \in Games, Creates(s, g)
      PROVE  /\ status' \in [Sessions -> {"unused", "running", "stopped"}]
             /\ game' \in [Sessions -> Games]
             /\ SessionsInOrder'
             /\ \A t \in Sessions : status[t] # "unused" =>
                  status'[t] # "unused" /\ game'[t] = game[t]
  <2>1. /\ status[s] = "unused" /\ \A t \in Sessions : status[t] # "running"
        /\ \A t \in Sessions : status[t] = "unused" => s <= t
        /\ status' = [status EXCEPT ![s] = "running"] /\ game' = [game EXCEPT ![s] = g]
    BY <1>3 DEF Creates, Active, Unused
  <2>2. ASSUME NEW r \in Sessions, NEW t \in Sessions, r < t, status'[t] # "unused"
        PROVE  status'[r] = "stopped"
    <3>1. CASE t = s
      <4>1. ~(s <= r) /\ r # s BY <2>2, <3>1 DEF Sessions
      <4>2. status[r] = "stopped" BY <1>1, <2>1, <4>1
      <4> QED BY <1>1, <2>1, <4>1, <4>2
    <3>2. CASE t # s
      <4>1. status[t] # "unused" BY <1>1, <2>1, <2>2, <3>2
      <4>2. status[r] = "stopped" BY <1>1, <2>2, <4>1
      <4> QED BY <1>1, <2>1, <4>2
    <3> QED BY <3>1, <3>2
  <2> QED BY <1>1, <2>1, <2>2 DEF SessionsInOrder
<1>4. ASSUME NEW s \in Sessions, status[s] # "unused", UNCHANGED game,
             status' = [status EXCEPT ![s] = "stopped"]
      PROVE  /\ status' \in [Sessions -> {"unused", "running", "stopped"}]
             /\ game' \in [Sessions -> Games]
             /\ SessionsInOrder'
             /\ \A t \in Sessions : status[t] # "unused" =>
                  status'[t] # "unused" /\ game'[t] = game[t]
  BY <1>1, <1>4 DEF SessionsInOrder
<1> QED BY <1>2, <1>3, <1>4, BackendSteps

\* A set whose elements are all the same has one at most.
LEMMA AtMostOne ==
  ASSUME NEW S, \A s, t \in S : s = t
  PROVE  Cardinality(S) <= 1
<1>1. CASE S = {}
  <2>1. Cardinality(S) = 0 BY <1>1, FS_EmptySet
  <2> QED BY <2>1
<1>2. CASE S # {}
  <2>1. PICK s \in S : S = {s} BY <1>2
  <2>2. Cardinality(S) = 1 BY <2>1, FS_Singleton
  <2> QED BY <2>2
<1> QED BY <1>1, <1>2

-----------------------------------------------------------------------------
(* The jobs and the screen: which sessions they come to know. *)

\* The connect job turns to a session that has been created, and not to an earlier one.
LEMMA TargetMoves ==
  ASSUME CInv, [Next]_vars
  PROVE  \/ target' = target
         \/ target' \in Sessions /\ status'[target'] # "unused" /\ target <= target'
<1>1. /\ status \in [Sessions -> {"unused", "running", "stopped"}]
      /\ target \in Sessions \union {None}
      /\ target # None => status[target] # "unused"
      /\ SessionsInOrder
  BY DEF CInv, TypeOK, TargetsInOrder
<1>2. ASSUME NEW s \in Sessions, status[s] = "running"
      PROVE  target <= s
  <2>1. CASE target = None BY <2>1 DEF None, Sessions
  <2>2. CASE target # None BY <1>1, <1>2, <2>2 DEF SessionsInOrder, Sessions
  <2> QED BY <2>1, <2>2
<1>3. ASSUME NEW s \in Sessions, NEW g, Creates(s, g)
      PROVE  status'[s] # "unused" /\ target <= s
  <2>1. status'[s] = "running" /\ \A t \in Sessions : status[t] = "unused" => s <= t
    BY <1>1, <1>3 DEF Creates, Unused
  <2>2. status[s] = "unused" BY <1>3 DEF Creates, Unused
  <2>3. CASE target = None BY <2>1, <2>3 DEF None, Sessions
  <2>4. CASE target # None
    <3>1. status[target] # "unused" /\ target \in Sessions BY <1>1, <2>4
    <3>2. ~(s < target) BY <1>1, <2>2, <3>1 DEF SessionsInOrder
    <3> QED BY <2>1, <3>1, <3>2 DEF Sessions
  <2> QED BY <2>3, <2>4
<1>4. CASE requestNewSession \/ requestNewSessionAgain
  BY <1>3, <1>4 DEF requestNewSession, requestNewSessionAgain, SessionAnswered, Poll, Fails
<1>5. CASE resolveActiveSession
  <2>1. target' = target \/ \E s \in Active : target' = s
    BY <1>5 DEF resolveActiveSession, Fails, Poll, EndOld
  <2>2. UNCHANGED status BY <1>5 DEF resolveActiveSession, backend
  <2> QED BY <1>2, <2>1, <2>2 DEF Active
<1>6. CASE onSessionConflictResolved
  BY <1>6 DEF onSessionConflictResolved, Poll, EndOld
<1>7. CASE endOldAndStartNew \/ TokenAnswered \/ tokenAuth
  BY <1>7 DEF endOldAndStartNew, TokenAnswered, tokenAuth, Fails
<1>8. CASE SubscriptionsAnswered \/ RateLimited \/ PollAgain \/ DeadlinePasses
           \/ HeartbeatStopped \/ SessionStops \/ SessionElsewhere
  BY <1>8 DEF SubscriptionsAnswered, RateLimited, PollAgain, DeadlinePasses, HeartbeatStopped,
     SessionStops, SessionElsewhere, jobs
<1>9. CASE onSubscriptionChosen \/ retry \/ render \/ WarmUpAttempt \/ WarmUpSucceeds
           \/ WarmUpGivesUp \/ Finish \/ GoBehind \/ onResume \/ onCreate
  BY <1>9 DEF onSubscriptionChosen, retry, render, WarmUpAttempt, WarmUpSucceeds, WarmUpGivesUp,
     Finish, Cleared, GoBehind, onResume, onCreate, jobs
<1>10. CASE UNCHANGED vars BY <1>10 DEF vars, jobs
<1> QED BY <1>4, <1>5, <1>6, <1>7, <1>8, <1>9, <1>10 DEF Next, Answers

\* The others follow: connected to is what the job worked with, the host is that of the
\* session connected to, and what is opened is what was waited for.
LEMMA FollowersMove ==
  ASSUME CInv, [Next]_vars
  PROVE  /\ connectedTo' = connectedTo \/ (connectedTo' = target /\ target' = target)
         /\ warmUp' \in {warmUp, None} \/ (warmUp' = connectedTo /\ connectedTo' = connectedTo)
         /\ opened' \in {opened, None} \/ (opened' = warmUp /\ connectedTo' = connectedTo)
<1>1. CASE requestNewSession \/ requestNewSessionAgain
  BY <1>1 DEF requestNewSession, requestNewSessionAgain, SessionAnswered, Poll, Fails, screen
<1>2. CASE resolveActiveSession \/ onSessionConflictResolved
  BY <1>2 DEF resolveActiveSession, onSessionConflictResolved, Poll, EndOld, Fails, screen
<1>3. CASE endOldAndStartNew \/ TokenAnswered \/ tokenAuth
  BY <1>3 DEF endOldAndStartNew, TokenAnswered, tokenAuth, Fails, screen
<1>4. CASE SubscriptionsAnswered \/ RateLimited \/ PollAgain \/ DeadlinePasses
           \/ HeartbeatStopped \/ SessionStops \/ SessionElsewhere
  BY <1>4 DEF SubscriptionsAnswered, RateLimited, PollAgain, DeadlinePasses, HeartbeatStopped,
     SessionStops, SessionElsewhere, model, screen
<1>5. CASE onSubscriptionChosen \/ retry \/ render \/ WarmUpAttempt \/ WarmUpSucceeds
           \/ WarmUpGivesUp \/ Finish \/ GoBehind \/ onResume \/ onCreate
  BY <1>5 DEF onSubscriptionChosen, retry, render, streamDesktopOnce, WarmUpAttempt,
     WarmUpSucceeds, WarmUpGivesUp, Finish, Cleared, GoBehind, onResume, onCreate, model, screen
<1>6. CASE UNCHANGED vars BY <1>6 DEF vars, model, screen
<1> QED BY <1>1, <1>2, <1>3, <1>4, <1>5, <1>6 DEF Next, Answers

\* Each of the four is replaced by a later one only.
LEMMA NextTargets ==
  ASSUME CInv, [Next]_vars
  PROVE  TargetsInOrder'
<1>1. /\ {warmUp, opened, connectedTo, target} \subseteq Nat /\ None \in Nat
      /\ \A s \in Sessions : s \in Nat /\ s # None
      /\ \A n \in Nat : None <= n
      /\ warmUp <= connectedTo /\ opened <= connectedTo /\ connectedTo <= target
      /\ target # None => target \in Sessions /\ status[target] # "unused"
  BY DEF CInv, TypeOK, TargetsInOrder, Sessions, None
<1>2. /\ \A s \in Sessions : status[s] # "unused" => status'[s] # "unused"
      /\ target' = target \/ (target' \in Sessions /\ status'[target'] # "unused" /\ target <= target')
  BY SessionsMove, TargetMoves
<1>3. /\ target' \in Nat /\ target <= target'
      /\ target' # None => status'[target'] # "unused"
  BY <1>1, <1>2
<1>4. connectedTo' \in Nat /\ connectedTo <= connectedTo' /\ connectedTo' <= target'
  BY <1>1, <1>3, FollowersMove
<1>5. warmUp' <= connectedTo' /\ opened' <= connectedTo'
  BY <1>1, <1>4, FollowersMove
<1> QED BY <1>3, <1>4, <1>5 DEF TargetsInOrder

-----------------------------------------------------------------------------
(* The heartbeat, the jobs and the screen, step by step. *)

\* Only a job that goes on to the stage Connected starts a heartbeat, and every failure ends it.
LEMMA NextHeartbeat ==
  ASSUME CInv, [Next]_vars
  PROVE  HeartbeatRuns'
<1> USE DEF HeartbeatRuns
<1>1. HeartbeatRuns /\ (life = "gone" => connectJob = "none" /\ ~resolveJob /\ warmUp = None)
  BY DEF CInv, JobsRun
<1>2. CASE requestNewSession \/ requestNewSessionAgain
  BY <1>1, <1>2 DEF requestNewSession, requestNewSessionAgain, SessionAnswered, Poll, Fails, fail,
     screen
<1>3. CASE resolveActiveSession \/ onSessionConflictResolved
  BY <1>1, <1>3 DEF resolveActiveSession, onSessionConflictResolved, Poll, EndOld, Fails, fail,
     screen
<1>4. CASE endOldAndStartNew \/ TokenAnswered \/ tokenAuth
  BY <1>1, <1>4 DEF endOldAndStartNew, TokenAnswered, tokenAuth, startHeartbeat, Fails, fail, screen
<1>5. CASE SubscriptionsAnswered \/ onSubscriptionChosen \/ retry \/ onCreate
  BY <1>1, <1>5 DEF SubscriptionsAnswered, onSubscriptionChosen, retry, onCreate, connect, start,
     fail, screen
<1>6. CASE RateLimited \/ PollAgain \/ DeadlinePasses \/ HeartbeatStopped
           \/ SessionStops \/ SessionElsewhere
  BY <1>1, <1>6 DEF RateLimited, PollAgain, DeadlinePasses, HeartbeatStopped, SessionStops,
     SessionElsewhere, fail, model, screen
<1>7. CASE render \/ WarmUpAttempt \/ WarmUpSucceeds \/ WarmUpGivesUp
           \/ Finish \/ GoBehind \/ onResume
  BY <1>1, <1>7 DEF render, streamDesktopOnce, WarmUpAttempt, WarmUpSucceeds, WarmUpGivesUp,
     Finish, Cleared, GoBehind, onResume, model
<1>8. CASE UNCHANGED vars BY <1>1, <1>8 DEF vars, model, screen
<1> QED BY <1>2, <1>3, <1>4, <1>5, <1>6, <1>7, <1>8 DEF Next, Answers

\* A job that ends leaves a stage that needs none.
LEMMA NextJobs ==
  ASSUME CInv, [Next]_vars
  PROVE  JobsRun'
<1> USE DEF JobsRun
<1>1. JobsRun /\ stage \in Stages BY DEF CInv, TypeOK
<1>2. CASE requestNewSession \/ requestNewSessionAgain
  BY <1>1, <1>2 DEF requestNewSession, requestNewSessionAgain, SessionAnswered, Poll, Fails, fail,
     screen
<1>3. CASE resolveActiveSession \/ onSessionConflictResolved
  BY <1>1, <1>3 DEF resolveActiveSession, onSessionConflictResolved, Poll, EndOld, Fails, fail,
     screen
<1>4. CASE endOldAndStartNew \/ TokenAnswered \/ tokenAuth
  BY <1>1, <1>4 DEF endOldAndStartNew, TokenAnswered, tokenAuth, Fails, fail, screen
<1>5. CASE SubscriptionsAnswered \/ onSubscriptionChosen \/ retry \/ onCreate
  BY <1>1, <1>5 DEF SubscriptionsAnswered, onSubscriptionChosen, retry, onCreate, connect, start,
     fail, screen
<1>6. CASE RateLimited \/ PollAgain \/ DeadlinePasses \/ HeartbeatStopped
           \/ SessionStops \/ SessionElsewhere
  BY <1>1, <1>6 DEF RateLimited, PollAgain, DeadlinePasses, HeartbeatStopped, SessionStops,
     SessionElsewhere, fail, jobs, model, screen
<1>7. CASE render \/ WarmUpAttempt \/ WarmUpSucceeds \/ WarmUpGivesUp
           \/ Finish \/ GoBehind \/ onResume
  BY <1>1, <1>7 DEF render, streamDesktopOnce, WarmUpAttempt, WarmUpSucceeds, WarmUpGivesUp,
     Finish, Cleared, GoBehind, onResume, model, jobs
<1>8. CASE UNCHANGED vars BY <1>1, <1>8 DEF vars, model, screen, jobs
<1> QED BY <1>2, <1>3, <1>4, <1>5, <1>6, <1>7, <1>8 DEF Next, Answers

\* A job that begins alone stays so, and keeps its dialog: only a heartbeat, a resolve job
\* and the job itself change the stage.
LEMMA NextAlone ==
  ASSUME CInv, [Next]_vars
  PROVE  KeptAlone'
<1> USE DEF KeptAlone
<1>1. KeptAlone /\ alone \in BOOLEAN /\ resolveJob \in BOOLEAN BY DEF CInv, TypeOK
<1>2. CASE requestNewSession \/ requestNewSessionAgain
  BY <1>1, <1>2 DEF requestNewSession, requestNewSessionAgain, SessionAnswered, Poll, Fails, fail
<1>3. CASE resolveActiveSession \/ onSessionConflictResolved
  BY <1>1, <1>3 DEF resolveActiveSession, onSessionConflictResolved, Poll, EndOld, Fails, fail
<1>4. CASE endOldAndStartNew \/ TokenAnswered \/ tokenAuth
  BY <1>1, <1>4 DEF endOldAndStartNew, TokenAnswered, tokenAuth, Fails, fail
<1>5. CASE SubscriptionsAnswered
  BY <1>1, <1>5 DEF SubscriptionsAnswered, connect, fail
<1>6. CASE onSubscriptionChosen \/ retry \/ onCreate
  BY <1>1, <1>6 DEF onSubscriptionChosen, retry, onCreate, connect, start
<1>7. CASE HeartbeatStopped
  BY <1>1, <1>7 DEF HeartbeatStopped, fail, jobs
<1>8. CASE RateLimited \/ PollAgain \/ DeadlinePasses \/ SessionStops \/ SessionElsewhere
  BY <1>1, <1>8 DEF RateLimited, PollAgain, DeadlinePasses, SessionStops, SessionElsewhere,
     jobs, model
<1>9. CASE render \/ WarmUpAttempt \/ WarmUpSucceeds \/ WarmUpGivesUp
           \/ Finish \/ GoBehind \/ onResume
  BY <1>1, <1>9 DEF render, WarmUpAttempt, WarmUpSucceeds, WarmUpGivesUp, Finish, Cleared,
     GoBehind, onResume, jobs, model
<1>10. CASE UNCHANGED vars BY <1>1, <1>10 DEF vars, jobs, model
<1> QED BY <1>2, <1>3, <1>4, <1>5, <1>6, <1>7, <1>8, <1>9, <1>10 DEF Next, Answers

\* The activity launches the stream only with a host to wait for, and shows something else
\* when it no longer does.
LEMMA NextScreen ==
  ASSUME CInv, [Next]_vars
  PROVE  HostAwaited'
<1> USE DEF HostAwaited
<1>1. /\ HostAwaited /\ life \in {"shown", "behind", "gone"} /\ stage \in Stages
      /\ life = "gone" => warmUp = None
  BY DEF CInv, TypeOK, JobsRun
<1>2. CASE UNCHANGED screen BY <1>1, <1>2 DEF screen
<1>3. CASE render
  <2>1. /\ life = "shown" /\ rendered' = Shows /\ UNCHANGED <<life, finishOnReturn>>
        /\ \/ stage = "Connected" /\ streamDesktopOnce
           \/ /\ stage # "Connected" /\ UNCHANGED <<warmUp, streamLaunched>>
              /\ panel' = CASE stage = "Failed" -> "retry" [] stage = "FailedForGood" -> "result"
                            [] stage \in {"Choosing", "Conflicting"} -> panel [] OTHER -> "progress"
    BY <1>3 DEF render
  <2>2. CASE stage = "Connected"
    <3>1. connectedTo # None
      <4>1. heartbeats = {connectedTo} /\ heartbeats \subseteq Sessions
        BY <2>1, <2>2 DEF CInv, TypeOK, HeartbeatRuns
      <4> QED BY <4>1 DEF Sessions, None
    <3> QED BY <1>1, <2>1, <2>2, <3>1 DEF streamDesktopOnce
  <2>3. CASE stage # "Connected"
    <3>1. rendered'[1] = stage BY <2>1 DEF Shows
    <3>2. stage = "Failed" => panel' = "retry" BY <2>1, <2>3
    <3>3. stage = "FailedForGood" => panel' = "result" BY <2>1, <2>3
    <3> QED BY <1>1, <2>1, <2>3, <3>1, <3>2, <3>3
  <2> QED BY <2>2, <2>3
<1>4. CASE WarmUpAttempt \/ WarmUpSucceeds \/ WarmUpGivesUp
  BY <1>1, <1>4 DEF WarmUpAttempt, WarmUpSucceeds, WarmUpGivesUp
<1>5. CASE Finish \/ GoBehind
  BY <1>1, <1>5 DEF Finish, Cleared, GoBehind
<1>6. CASE onResume \/ onCreate
  <2>1. <<"nothing", None>>[1] = "nothing" OBVIOUS
  <2> QED BY <1>1, <1>6, <2>1 DEF onResume, onCreate, Cleared
<1>7. CASE requestNewSession \/ requestNewSessionAgain \/ resolveActiveSession
           \/ onSessionConflictResolved \/ endOldAndStartNew \/ TokenAnswered \/ tokenAuth
           \/ SubscriptionsAnswered \/ onSubscriptionChosen \/ retry
  BY <1>2, <1>7 DEF requestNewSession, requestNewSessionAgain, resolveActiveSession,
     onSessionConflictResolved, endOldAndStartNew, TokenAnswered, tokenAuth,
     SubscriptionsAnswered, onSubscriptionChosen, retry
<1>8. CASE RateLimited \/ PollAgain \/ DeadlinePasses \/ HeartbeatStopped
           \/ SessionStops \/ SessionElsewhere \/ UNCHANGED vars
  BY <1>2, <1>8 DEF RateLimited, PollAgain, DeadlinePasses, HeartbeatStopped, SessionStops,
     SessionElsewhere, vars
<1> QED BY <1>3, <1>4, <1>5, <1>6, <1>7, <1>8 DEF Next, Answers

\* A session is about to be ended only where no dialog is due, or it was answered.
LEMMA NextAsked ==
  ASSUME CInv, [Next]_vars
  PROVE  Asked'
<1> USE DEF Asked
<1>1. Asked /\ (connectJob = "end" => target \in Sessions /\ status[target] # "unused")
  BY DEF CInv, TypeOK, TargetsInOrder
<1>2. connectJob = "end" => game'[target] = game[target]
  BY <1>1, SessionsMove
<1>3. CASE resolveActiveSession
  <2>1. ASSUME connectJob' = "end"
        PROVE  target' \in Active /\ ~MustAsk(game[target'])
    BY <1>3, <2>1 DEF resolveActiveSession, Poll, EndOld, Fails, MustAsk
  <2>2. UNCHANGED game BY <1>3 DEF resolveActiveSession, backend
  <2> QED BY <2>1, <2>2 DEF MustAsk
<1>4. CASE onSessionConflictResolved
  BY <1>4 DEF onSessionConflictResolved, Poll, EndOld
<1>5. CASE requestNewSession \/ requestNewSessionAgain
  BY <1>5 DEF requestNewSession, requestNewSessionAgain, SessionAnswered, Poll, Fails
<1>6. CASE endOldAndStartNew \/ TokenAnswered \/ tokenAuth \/ RateLimited \/ PollAgain
           \/ Finish \/ (onResume /\ finishOnReturn)
  BY <1>6 DEF endOldAndStartNew, TokenAnswered, tokenAuth, Fails, RateLimited, PollAgain,
     Finish, onResume, Cleared
<1>7. CASE SubscriptionsAnswered \/ onSubscriptionChosen \/ retry \/ onCreate
  <2>1. UNCHANGED <<target, chosen>> /\ (connectJob' = connectJob \/ connectJob' = "post")
    BY <1>7 DEF SubscriptionsAnswered, onSubscriptionChosen, retry, onCreate, connect
  <2> QED BY <1>1, <1>2, <2>1 DEF MustAsk
<1>8. CASE DeadlinePasses \/ HeartbeatStopped \/ SessionStops \/ SessionElsewhere \/ render
           \/ WarmUpAttempt \/ WarmUpSucceeds \/ WarmUpGivesUp \/ GoBehind
           \/ (onResume /\ ~finishOnReturn) \/ UNCHANGED vars
  <2>1. UNCHANGED <<target, connectJob, chosen>>
    BY <1>8 DEF DeadlinePasses, HeartbeatStopped, SessionStops, SessionElsewhere, render,
       WarmUpAttempt, WarmUpSucceeds, WarmUpGivesUp, GoBehind, onResume, vars, jobs
  <2> QED BY <1>1, <1>2, <2>1 DEF MustAsk
<1> QED BY <1>3, <1>4, <1>5, <1>6, <1>7, <1>8 DEF Next, Answers

-----------------------------------------------------------------------------
(* The types, and the theorems. *)

\* There is one heartbeat job at most, and it runs for a session.
LEMMA HeartbeatType ==
  ASSUME CInv, [Next]_vars
  PROVE  heartbeats' \subseteq Sessions /\ Cardinality(heartbeats') <= 1
<1>1. /\ heartbeats \subseteq Sessions /\ Cardinality(heartbeats) <= 1
      /\ connectJob = "auth" => target \in Sessions
  BY DEF CInv, TypeOK
<1>2. \/ heartbeats' \in {heartbeats, {}}
      \/ connectJob = "auth" /\ heartbeats' = {target}
  <2>1. CASE requestNewSession \/ requestNewSessionAgain
    BY <2>1 DEF requestNewSession, requestNewSessionAgain, SessionAnswered, Poll, Fails, fail
  <2>2. CASE resolveActiveSession \/ onSessionConflictResolved
    BY <2>2 DEF resolveActiveSession, onSessionConflictResolved, Poll, EndOld, Fails, fail
  <2>3. CASE endOldAndStartNew \/ TokenAnswered \/ tokenAuth
    BY <2>3 DEF endOldAndStartNew, TokenAnswered, tokenAuth, startHeartbeat, Fails, fail
  <2>4. CASE SubscriptionsAnswered \/ onSubscriptionChosen \/ retry \/ onCreate
    BY <2>4 DEF SubscriptionsAnswered, onSubscriptionChosen, retry, onCreate, fail
  <2>5. CASE RateLimited \/ PollAgain \/ DeadlinePasses \/ HeartbeatStopped
             \/ SessionStops \/ SessionElsewhere \/ UNCHANGED vars
    BY <2>5 DEF RateLimited, PollAgain, DeadlinePasses, HeartbeatStopped, SessionStops,
       SessionElsewhere, fail, model, vars
  <2>6. CASE render \/ WarmUpAttempt \/ WarmUpSucceeds \/ WarmUpGivesUp
             \/ Finish \/ GoBehind \/ onResume
    BY <2>6 DEF render, WarmUpAttempt, WarmUpSucceeds, WarmUpGivesUp, Finish, Cleared,
       GoBehind, onResume, model
  <2> QED BY <2>1, <2>2, <2>3, <2>4, <2>5, <2>6 DEF Next, Answers
<1>3. CASE heartbeats' = heartbeats BY <1>1, <1>3
<1>4. CASE heartbeats' = {}
  <2>1. Cardinality(heartbeats') = 0 BY <1>4, FS_EmptySet
  <2> QED BY <1>4, <2>1
<1>5. CASE connectJob = "auth" /\ heartbeats' = {target}
  <2>1. Cardinality(heartbeats') = 1 BY <1>5, FS_Singleton
  <2> QED BY <1>1, <1>5, <2>1
<1> QED BY <1>2, <1>3, <1>4, <1>5

\* The types of the jobs and of the stage.
JobTypes ==
  /\ stage \in Stages /\ resolved \in BOOLEAN /\ resolveJob \in BOOLEAN
  /\ late \in BOOLEAN /\ alone \in BOOLEAN
  /\ connectJob \in {"none", "post", "active", "decide", "end", "postAgain",
                    "poll", "pause", "backoff", "auth"}
  /\ connectJob \in {"decide", "end", "poll", "pause", "backoff", "auth"} => target # None
  /\ chosen \subseteq Sessions

\* Those of the screen.
ScreenTypes ==
  /\ life \in {"shown", "behind", "gone"} /\ panel \in {"progress", "retry", "result"}
  /\ rendered \in (Stages \union {"nothing"}) \X (Sessions \union {None})
  /\ streamLaunched \in BOOLEAN /\ finishOnReturn \in BOOLEAN

\* The types are kept by a step that begins or ends the connect job, or leaves it.
LEMMA JobTypesKept ==
  ASSUME JobTypes, connectJob' \in {connectJob, "none", "post"}, UNCHANGED <<target, chosen>>,
         stage' \in Stages, {resolved', resolveJob', late', alone'} \subseteq BOOLEAN
  PROVE  JobTypes'
<1>1. connectJob' \in {"none", "post", "active", "decide", "end", "postAgain",
                      "poll", "pause", "backoff", "auth"}
  BY DEF JobTypes
<1>2. connectJob' \in {"decide", "end", "poll", "pause", "backoff", "auth"} => connectJob' = connectJob
  OBVIOUS
<1>3. connectJob' \in {"decide", "end", "poll", "pause", "backoff", "auth"} => target' # None
  BY <1>2 DEF JobTypes
<1>4. chosen' \subseteq Sessions BY DEF JobTypes
<1> QED BY <1>1, <1>3, <1>4 DEF JobTypes

\* The jobs go from one request to the next.
LEMMA NextJobTypes ==
  ASSUME CInv, [Next]_vars
  PROVE  JobTypes'
<1> USE DEF JobTypes, Stages
<1>1. /\ JobTypes /\ target \in Sessions \union {None}
      /\ \A s \in Sessions : s # None
  BY DEF CInv, TypeOK, Sessions, None
<1>2. CASE requestNewSession \/ requestNewSessionAgain
  BY <1>1, <1>2 DEF requestNewSession, requestNewSessionAgain, SessionAnswered, Poll, Fails, fail
<1>3. CASE resolveActiveSession
  <2>1. \A s \in Active : s # None BY <1>1 DEF Active
  <2> QED BY <1>1, <1>3, <2>1 DEF resolveActiveSession, Poll, EndOld, Fails, fail
<1>4. CASE onSessionConflictResolved
  BY <1>1, <1>4 DEF onSessionConflictResolved, Poll, EndOld
<1>5. CASE endOldAndStartNew \/ TokenAnswered \/ tokenAuth
  BY <1>1, <1>5 DEF endOldAndStartNew, TokenAnswered, tokenAuth, Fails, fail
<1>6. CASE SubscriptionsAnswered \/ onSubscriptionChosen \/ retry \/ onCreate
  <2>1. connectJob' \in {connectJob, "post"} /\ UNCHANGED <<target, late, chosen>>
    BY <1>6 DEF SubscriptionsAnswered, onSubscriptionChosen, retry, onCreate, connect
  <2>2. stage' \in {stage, "Failed", "FailedForGood", "Choosing", "Creating", "Resolving"}
    BY <1>6 DEF SubscriptionsAnswered, onSubscriptionChosen, retry, onCreate, connect, start, fail
  <2>3. resolved' \in {resolved, TRUE} /\ resolveJob' \in {resolveJob, TRUE, FALSE}
    BY <1>6 DEF SubscriptionsAnswered, onSubscriptionChosen, retry, onCreate, connect, start
  <2>4. alone' = alone \/ alone' = (~resolveJob' /\ heartbeats = {})
    BY <1>6 DEF SubscriptionsAnswered, onSubscriptionChosen, retry, onCreate, connect
  <2>5. alone' \in BOOLEAN BY <1>1, <2>4
  <2>6. stage' \in Stages BY <1>1, <2>2
  <2>7. {resolved', resolveJob', late', alone'} \subseteq BOOLEAN BY <1>1, <2>1, <2>3, <2>5
  <2> HIDE DEF JobTypes, Stages
  <2> QED BY <1>1, <2>1, <2>6, <2>7, JobTypesKept
<1>7. CASE RateLimited \/ PollAgain
  BY <1>1, <1>7 DEF RateLimited, PollAgain, model
<1>8. CASE DeadlinePasses \/ HeartbeatStopped \/ SessionStops \/ SessionElsewhere \/ UNCHANGED vars
  <2>1. /\ UNCHANGED <<connectJob, target, alone, chosen, resolved, resolveJob>>
        /\ stage' \in {stage, "Failed"} /\ late' \in {late, TRUE}
    BY <1>8 DEF DeadlinePasses, HeartbeatStopped, SessionStops, SessionElsewhere, fail, jobs, model,
       vars
  <2>2. stage' \in Stages /\ {resolved', resolveJob', late', alone'} \subseteq BOOLEAN
    BY <1>1, <2>1
  <2> HIDE DEF JobTypes, Stages
  <2> QED BY <1>1, <2>1, <2>2, JobTypesKept
<1>9. CASE render \/ WarmUpAttempt \/ WarmUpSucceeds \/ WarmUpGivesUp
           \/ Finish \/ GoBehind \/ onResume
  <2>1. /\ connectJob' \in {connectJob, "none"} /\ resolveJob' \in {resolveJob, FALSE}
        /\ UNCHANGED <<target, late, alone, stage, resolved, chosen>>
    BY <1>9 DEF render, WarmUpAttempt, WarmUpSucceeds, WarmUpGivesUp, Finish, Cleared,
       GoBehind, onResume, jobs, model
  <2>2. stage' \in Stages /\ {resolved', resolveJob', late', alone'} \subseteq BOOLEAN
    BY <1>1, <2>1
  <2> HIDE DEF JobTypes, Stages
  <2> QED BY <1>1, <2>1, <2>2, JobTypesKept
<1> QED BY <1>2, <1>3, <1>4, <1>5, <1>6, <1>7, <1>8, <1>9 DEF Next, Answers

\* The screen shows a stage there is, or nothing.
LEMMA NextScreenTypes ==
  ASSUME CInv, [Next]_vars
  PROVE  ScreenTypes'
<1> USE DEF ScreenTypes
<1>1. ScreenTypes /\ stage \in Stages /\ connectedTo \in Sessions \union {None}
  BY DEF CInv, TypeOK
<1>2. CASE UNCHANGED screen BY <1>1, <1>2 DEF screen
<1>3. CASE render
  <2>1. Shows \in (Stages \union {"nothing"}) \X (Sessions \union {None})
    BY <1>1 DEF Shows
  <2>2. panel' \in {"progress", "retry", "result"} /\ streamLaunched' \in BOOLEAN
    <3>1. CASE stage = "Connected" BY <1>1, <1>3, <3>1 DEF render, streamDesktopOnce
    <3>2. CASE stage # "Connected" BY <1>1, <1>3, <3>2 DEF render
    <3> QED BY <3>1, <3>2
  <2> QED BY <1>1, <1>3, <2>1, <2>2 DEF render
<1>4. CASE WarmUpAttempt \/ WarmUpSucceeds \/ WarmUpGivesUp \/ Finish \/ GoBehind
  BY <1>1, <1>4 DEF WarmUpAttempt, WarmUpSucceeds, WarmUpGivesUp, Finish, Cleared,
     GoBehind
<1>5. CASE onResume \/ onCreate
  <2>1. <<"nothing", None>> \in (Stages \union {"nothing"}) \X (Sessions \union {None})
    OBVIOUS
  <2> QED BY <1>1, <1>5, <2>1 DEF onResume, onCreate, Cleared
<1>6. CASE requestNewSession \/ requestNewSessionAgain \/ resolveActiveSession
           \/ onSessionConflictResolved \/ endOldAndStartNew \/ TokenAnswered \/ tokenAuth
           \/ SubscriptionsAnswered \/ onSubscriptionChosen \/ retry
  BY <1>2, <1>6 DEF requestNewSession, requestNewSessionAgain, resolveActiveSession,
     onSessionConflictResolved, endOldAndStartNew, TokenAnswered, tokenAuth,
     SubscriptionsAnswered, onSubscriptionChosen, retry
<1>7. CASE RateLimited \/ PollAgain \/ DeadlinePasses \/ HeartbeatStopped
           \/ SessionStops \/ SessionElsewhere \/ UNCHANGED vars
  BY <1>2, <1>7 DEF RateLimited, PollAgain, DeadlinePasses, HeartbeatStopped, SessionStops,
     SessionElsewhere, vars
<1> QED BY <1>3, <1>4, <1>5, <1>6, <1>7 DEF Next, Answers

\* All types together.
LEMMA NextTypeOK ==
  ASSUME CInv, [Next]_vars
  PROVE  TypeOK'
<1>1. JobTypes' /\ ScreenTypes' BY NextJobTypes, NextScreenTypes
<1>2. heartbeats' \subseteq Sessions /\ Cardinality(heartbeats') <= 1
  BY HeartbeatType
<1>3. /\ status' \in [Sessions -> {"unused", "running", "stopped"}]
      /\ game' \in [Sessions -> Games] /\ SessionsInOrder'
  BY SessionsMove
<1>4. Cardinality(Active') <= 1
  <2>1. Active' = {s \in Sessions : status'[s] = "running"} BY DEF Active
  <2>2. \A s, t \in Active' : s = t
    BY <1>3, <2>1 DEF SessionsInOrder, Sessions
  <2> QED BY <2>2, AtMostOne
<1>5. /\ target' \in Sessions \union {None} /\ connectedTo' \in Sessions \union {None}
      /\ warmUp' \in Sessions \union {None} /\ opened' \in Sessions \union {None}
  <2>1. {target, connectedTo, warmUp, opened} \subseteq Sessions \union {None}
    BY DEF CInv, TypeOK
  <2> QED BY <2>1, TargetMoves, FollowersMove
<1> QED BY <1>1, <1>2, <1>3, <1>4, <1>5 DEF TypeOK, JobTypes, ScreenTypes

\* The screen is opened with one job, and with one session at most.
LEMMA InitCInv == Init => CInv
<1> SUFFICES ASSUME Init PROVE CInv OBVIOUS
<1>1. /\ stage = "Resolving" /\ resolved = FALSE /\ resolveJob = TRUE
      /\ connectJob = "none" /\ target = None /\ late = FALSE /\ alone = FALSE
      /\ heartbeats = {} /\ connectedTo = None
      /\ life = "shown" /\ panel = "progress" /\ rendered = <<"nothing", None>>
      /\ warmUp = None /\ streamLaunched = FALSE /\ finishOnReturn = FALSE /\ opened = None
      /\ chosen = {}
  BY DEF Init
<1>2. /\ 1 \in Sessions /\ \A s \in Sessions : s # None /\ ~(s < 1)
      /\ None \in Games /\ None <= None
  BY ConnectAssumption DEF Sessions, None
<1>3. /\ status \in [Sessions -> {"unused", "running", "stopped"}]
      /\ \A s \in Sessions : status[s] # "unused" => s = 1
  BY <1>2 DEF Init
<1>4. game \in [Sessions -> Games]
  <2>1. CASE status[1] = "unused" BY <1>2, <2>1 DEF Init
  <2>2. CASE status[1] # "unused"
    <3>1. PICK g \in Games : game = [s \in Sessions |-> IF s = 1 THEN g ELSE None]
      BY <2>2 DEF Init
    <3> QED BY <1>2, <3>1
  <2> QED BY <2>1, <2>2
<1>5. SessionsInOrder BY <1>2, <1>3 DEF SessionsInOrder
<1>6. Cardinality(heartbeats) <= 1 BY <1>1, AtMostOne
<1>7. Cardinality(Active) <= 1 BY <1>3, AtMostOne DEF Active
<1>8. TypeOK BY <1>1, <1>3, <1>4, <1>6, <1>7 DEF TypeOK, Stages
<1>9. TargetsInOrder BY <1>1, <1>2 DEF TargetsInOrder
<1>10. HeartbeatRuns /\ JobsRun /\ KeptAlone /\ Asked
  BY <1>1 DEF HeartbeatRuns, JobsRun, KeptAlone, Asked
<1>11. HostAwaited BY <1>1 DEF HostAwaited
<1> QED BY <1>5, <1>8, <1>9, <1>10, <1>11 DEF CInv

\* The invariant is inductive, and holds in every state the program reaches.
LEMMA Inductive == Spec => []CInv
<1>1. CInv /\ [Next]_vars => CInv'
  BY NextTypeOK, SessionsMove, NextTargets, NextHeartbeat, NextJobs, NextAlone, NextScreen,
     NextAsked
  DEF CInv
<1> QED BY <1>1, InitCInv, PTL DEF Spec

\* Every variable has its type: there is one heartbeat job, and one running session, at most.
THEOREM TypeCorrect == Spec => []TypeOK
BY Inductive, PTL DEF CInv

\* Of the sessions the flow knows of, only the one connected to can be running.
LEMMA OnlyConnectedRuns ==
  ASSUME CInv
  PROVE  HeartbeatFollowsUse
<1>1. ASSUME NEW s \in {warmUp, opened}, stage = "Connected", s # None, status[s] = "running"
      PROVE  s = connectedTo
  <2>1. /\ s \in Sessions /\ s <= connectedTo /\ connectedTo \in Sessions \union {None}
        /\ target \in Sessions \union {None} /\ connectedTo <= target
        /\ target # None => status[target] # "unused"
        /\ SessionsInOrder
    BY <1>1 DEF CInv, TypeOK, TargetsInOrder
  <2>2. target # None /\ target \in Nat /\ s \in Nat /\ connectedTo \in Nat
    BY <2>1 DEF Sessions, None
  <2>3. ~(s < target) BY <1>1, <2>1, <2>2 DEF SessionsInOrder
  <2> QED BY <2>1, <2>2, <2>3
<1>2. HeartbeatRuns BY DEF CInv
<1> QED BY <1>1, <1>2 DEF HeartbeatFollowsUse, HeartbeatRuns

\* The heartbeat runs for the session that is used, and for no other (HeartbeatFollowsUse),
\* after any retries, recreations of the screen and sessions created elsewhere.
THEOREM HeartbeatFollows == Spec => []HeartbeatFollowsUse
BY Inductive, OnlyConnectedRuns, PTL

\* A stage without a job is one at which the screen asks, offers to retry or waits for the host;
\* a job that waits for an answer has its dialog, if it began alone.
LEMMA SomethingAwaited ==
  ASSUME CInv
  PROVE  NeverWaitsForNothing
<1> SUFFICES ASSUME life = "shown", rendered = Shows, panel # "result", ~Abandoned,
                    ~resolveJob, connectJob \in {"none", "decide"}, warmUp = None,
                    ~ConflictAsked, ~PackageAsked
             PROVE  panel = "retry" /\ connectJob = "none" /\ stage \notin {"Choosing", "Conflicting"}
  BY DEF NeverWaitsForNothing
<1>1. rendered[1] = stage BY DEF Shows
<1>2. stage \in Stages /\ panel \in {"progress", "retry", "result"} BY DEF CInv, TypeOK
<1>3. connectJob = "none"
  <2>1. CASE connectJob = "decide"
    <3>1. stage = "Conflicting" BY <2>1 DEF CInv, KeptAlone, Abandoned
    <3> QED BY <2>1, <3>1 DEF ConflictAsked
  <2> QED BY <2>1
<1>4. stage \in {"Connected", "Failed", "FailedForGood"}
  BY <1>2, <1>3 DEF CInv, JobsRun, PackageAsked, Stages
<1>5. panel # "progress" BY <1>1, <1>4 DEF CInv, HostAwaited
<1> QED BY <1>2, <1>3, <1>4, <1>5

\* The screen never waits for nothing, but for an attempt that was begun beside another job
\* and lost its dialog to that (NeverWaitsForNothing): the buttons it shows are obeyed.
THEOREM ScreenIsNeverStuck == Spec => []NeverWaitsForNothing
BY Inductive, SomethingAwaited, PTL

\* A session with another game is ended only after the user was asked (EndsOnlyByChoice).
THEOREM EndedByChoice == Spec => EndsOnlyByChoice
<1>1. ASSUME CInv, [Next]_vars, NEW s \in Sessions, connectJob = "end", connectJob' # "end",
             status[s] = "running", status'[s] = "stopped",
             MyGame # None, game[s] \notin {None, MyGame}
      PROVE  s \in chosen
  <2>1. endOldAndStartNew
    <3>1. CASE onSessionConflictResolved \/ requestNewSession \/ requestNewSessionAgain
               \/ resolveActiveSession \/ TokenAnswered \/ RateLimited \/ PollAgain \/ tokenAuth
      BY <1>1, <3>1 DEF onSessionConflictResolved, requestNewSession, requestNewSessionAgain,
         resolveActiveSession, TokenAnswered, RateLimited, PollAgain, tokenAuth
    <3>2. CASE SubscriptionsAnswered \/ onSubscriptionChosen \/ retry \/ onCreate
      BY <1>1, <3>2 DEF SubscriptionsAnswered, onSubscriptionChosen, retry, onCreate, connect
    <3>3. CASE DeadlinePasses \/ HeartbeatStopped \/ SessionStops \/ SessionElsewhere \/ render
               \/ WarmUpAttempt \/ WarmUpSucceeds \/ WarmUpGivesUp \/ GoBehind
               \/ (onResume /\ ~finishOnReturn) \/ UNCHANGED vars
      BY <1>1, <3>3 DEF DeadlinePasses, HeartbeatStopped, SessionStops, SessionElsewhere, render,
         WarmUpAttempt, WarmUpSucceeds, WarmUpGivesUp, GoBehind, onResume, vars, jobs
    <3>4. CASE Finish \/ (onResume /\ finishOnReturn)
      BY <1>1, <3>4 DEF Finish, onResume, Cleared, backend
    <3> QED BY <1>1, <3>1, <3>2, <3>3, <3>4 DEF Next, Answers
  <2>2. s = target
    <3>1. /\ status \in [Sessions -> {"unused", "running", "stopped"}] /\ s \in Sessions
          /\ status' = [status EXCEPT ![target] = "stopped"] \/ status' = status
      BY <1>1, <2>1 DEF CInv, TypeOK, endOldAndStartNew
    <3> QED BY <1>1, <3>1
  <2> QED BY <1>1, <2>2 DEF CInv, Asked, MustAsk
<1>2. CInv /\ [Next]_vars =>
        [\A s \in Sessions :
           /\ connectJob = "end" /\ connectJob' # "end"
           /\ status[s] = "running" /\ status'[s] = "stopped"
           /\ MyGame # None /\ game[s] \notin {None, MyGame}
           => s \in chosen]_vars
  BY <1>1
<1> QED BY <1>2, Inductive, PTL DEF Spec, EndsOnlyByChoice

=============================================================================
