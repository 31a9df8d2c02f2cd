---------------------------- MODULE ConnectFlow ----------------------------
(***************************************************************************)
(* The connect flow to a Windows machine: WindowsConnectViewModel and its  *)
(* activity.  The view model's jobs (one resolves the subscription, one    *)
(* connects, one sends heartbeats) outlive an activity that is recreated,  *)
(* and all run on the main thread: an action is what happens between two   *)
(* suspensions, most of them the answer to a request.                      *)
(***************************************************************************)
EXTENDS Naturals, FiniteSets

CONSTANTS Games,       \* of the catalog, and 0 for none
          MyGame,      \* the game to play
          MaxSession   \* bound of the model: sessions the backend creates

ASSUME ConnectAssumption ==
  Games \subseteq Nat /\ {0, MyGame} \subseteq Games /\ MaxSession \in Nat \ {0}

VARIABLES stage, resolved,     \* ConnectStage; resolvedSubscriptionId is set
          resolveJob,          \* is active
          connectJob, target,  \* what it waits for, the session it works with
          late,                \* POLL_BUDGET_MS have passed since it began to poll
          alone,               \* history: no other job ran when it began
          heartbeats,          \* the sessions that heartbeat jobs run for
          connectedTo,         \* the session of the last Connected
          life, panel,         \* of the activity: where it is, what it shows
          rendered,            \* the last stage it rendered
          warmUp,              \* the session whose host it waits for
          streamLaunched, finishOnReturn, opened,
          status, game,        \* the backend's sessions
          chosen               \* history: the sessions the user chose to end

jobs == <<resolveJob, connectJob, target, late, alone>>
model == <<stage, resolved, heartbeats, connectedTo>>
screen == <<life, panel, rendered, warmUp, streamLaunched, finishOnReturn, opened>>
backend == <<status, game>>
vars == <<jobs, model, screen, backend, chosen>>

None == 0
Sessions == 1 .. MaxSession
Stages == {"Resolving", "Choosing", "Creating", "Conflicting", "Waiting", "Authorizing",
           "Connected", "Failed", "FailedForGood"}
Active == {s \in Sessions : status[s] = "running"}
Unused == {s \in Sessions : status[s] = "unused"}

TypeOK ==
  /\ stage \in Stages /\ resolved \in BOOLEAN /\ resolveJob \in BOOLEAN
  /\ late \in BOOLEAN /\ alone \in BOOLEAN
  /\ connectJob \in {"none", "post", "active", "decide", "end", "postAgain",
                    "poll", "pause", "backoff", "auth"}
  /\ target \in Sessions \union {None} /\ connectedTo \in Sessions \union {None}
  /\ connectJob \in {"decide", "end", "poll", "pause", "backoff", "auth"} => target # None
  /\ heartbeats \subseteq Sessions /\ Cardinality(heartbeats) <= 1
  /\ life \in {"shown", "behind", "gone"} /\ panel \in {"progress", "retry", "result"}
  /\ rendered \in (Stages \union {"nothing"}) \X (Sessions \union {None})
  /\ warmUp \in Sessions \union {None} /\ opened \in Sessions \union {None}
  /\ streamLaunched \in BOOLEAN /\ finishOnReturn \in BOOLEAN
  /\ status \in [Sessions -> {"unused", "running", "stopped"}] /\ game \in [Sessions -> Games]
  /\ Cardinality(Active) <= 1 /\ chosen \subseteq Sessions

\* A session may be running when the screen is opened.
Init ==
  /\ stage = "Resolving" /\ resolved = FALSE /\ resolveJob = TRUE
  /\ connectJob = "none" /\ target = None /\ late = FALSE /\ alone = FALSE
  /\ heartbeats = {} /\ connectedTo = None
  /\ life = "shown" /\ panel = "progress" /\ rendered = <<"nothing", None>>
  /\ warmUp = None /\ streamLaunched = FALSE /\ finishOnReturn = FALSE /\ opened = None
  /\ status \in {[s \in Sessions |-> "unused"], [s \in Sessions |-> IF s = 1 THEN "running" ELSE "unused"]}
  /\ game \in IF status[1] = "unused" THEN {[s \in Sessions |-> None]}
              ELSE {[s \in Sessions |-> IF s = 1 THEN g ELSE None] : g \in Games}
  /\ chosen = {}

-----------------------------------------------------------------------------
\* Plausible slips, each the `as' of a mutant.
WithoutCancel(s) == heartbeats' = heartbeats \union {s}
OnlyIfNone(s) == heartbeats' = IF heartbeats = {} THEN {s} ELSE heartbeats
FailOnly(how) == stage' = how /\ UNCHANGED heartbeats
NeverAsk(old) == old # old
NoBudget == late /\ ~late
StartsBeside ==
  IF resolveJob THEN UNCHANGED <<stage, resolveJob>>
  ELSE stage' = "Resolving" /\ resolveJob' = TRUE

-----------------------------------------------------------------------------
fail(how) == stage' = how /\ heartbeats' = {}

startHeartbeat(s) == heartbeats' = {s}

\* The connect job ends with a failure.
Fails(how) == fail(how) /\ connectJob' = "none" /\ UNCHANGED <<target, late, alone, connectedTo>>

\* start: nothing while a job is active.
start ==
  IF connectJob # "none" \/ resolveJob THEN UNCHANGED <<stage, resolveJob>>
  ELSE stage' = "Resolving" /\ resolveJob' = TRUE

\* connect: nothing while one is under way.
connect ==
  IF connectJob # "none" THEN UNCHANGED <<stage, resolved, connectJob, alone>>
  ELSE /\ stage' = "Creating" /\ resolved' = TRUE /\ connectJob' = "post"
       /\ alone' = (~resolveJob' /\ heartbeats = {})

SubscriptionsAnswered ==
  /\ resolveJob /\ resolveJob' = FALSE
  /\ \/ /\ \E how \in {"Failed", "FailedForGood"} : fail(how)
        /\ UNCHANGED <<resolved, connectJob, alone>>
     \/ connect /\ UNCHANGED heartbeats
     \/ stage' = "Choosing" /\ UNCHANGED <<resolved, connectJob, alone, heartbeats>>
  /\ UNCHANGED <<target, late, connectedTo, screen, backend, chosen>>

onSubscriptionChosen ==
  /\ life = "shown" /\ rendered[1] = "Choosing"
  /\ UNCHANGED resolveJob /\ connect
  /\ UNCHANGED <<target, late, heartbeats, connectedTo, screen, backend, chosen>>

\* The button is not in reach behind a dialog.
retry ==
  /\ life = "shown" /\ panel = "retry" /\ rendered[1] \notin {"Choosing", "Conflicting"}
  /\ \/ resolved /\ UNCHANGED resolveJob /\ connect
     \/ ~resolved /\ start /\ UNCHANGED <<resolved, connectJob, alone>>
  /\ UNCHANGED <<target, late, heartbeats, connectedTo, screen, backend, chosen>>

-----------------------------------------------------------------------------
\* pollConnectionTokenOrNull begins.
Poll(s) ==
  /\ target' = s /\ connectJob' = "poll" /\ late' = FALSE
  /\ stage' = "Waiting" /\ UNCHANGED <<heartbeats, connectedTo, alone>>

\* The backend creates a session if there is none (external).
Creates(s, g) ==
  /\ Active = {} /\ s \in Unused /\ \A t \in Unused : s <= t
  /\ status' = [status EXCEPT ![s] = "running"] /\ game' = [game EXCEPT ![s] = g]

\* POST /sessions is answered: a session, a conflict with an active one (then
\* onConflict), or an error, after which the session may have been created.
SessionAnswered(onConflict) ==
  \/ \E s \in Sessions : Creates(s, MyGame) /\ (Poll(s) \/ Fails("Failed"))
  \/ Active # {} /\ onConflict /\ UNCHANGED backend
  \/ Fails("Failed") /\ UNCHANGED backend

requestNewSession ==
  /\ connectJob = "post"
  /\ SessionAnswered(connectJob' = "active" /\ UNCHANGED <<stage, heartbeats, target, late, alone, connectedTo>>)
  /\ UNCHANGED <<resolveJob, resolved, screen, chosen>>

\* Both games are given, and differ.
MustAsk(old) == old # None /\ MyGame # None /\ old # MyGame

EndOld(s) ==
  /\ target' = s /\ connectJob' = "end" /\ stage' = "Creating"
  /\ UNCHANGED <<late, alone, heartbeats, connectedTo>>

resolveActiveSession ==
  /\ connectJob = "active"
  /\ \/ Fails("Failed")
     \/ \E s \in Active :
          \/ game[s] = MyGame /\ Poll(s)
          \/ /\ game[s] # MyGame /\ MustAsk(game[s])
             /\ target' = s /\ connectJob' = "decide" /\ stage' = "Conflicting"
             /\ UNCHANGED <<late, alone, heartbeats, connectedTo>>
          \/ game[s] # MyGame /\ ~MustAsk(game[s]) /\ EndOld(s)
  /\ UNCHANGED <<resolveJob, resolved, screen, backend, chosen>>

\* The dialog is answered, and the connect job goes on.
onSessionConflictResolved ==
  /\ life = "shown" /\ rendered[1] = "Conflicting" /\ connectJob = "decide"
  /\ \/ Poll(target) /\ UNCHANGED chosen
     \/ EndOld(target) /\ chosen' = chosen \union {target}
  /\ UNCHANGED <<resolveJob, resolved, screen, backend>>

\* The old session is ended; an error may be the loss of the answer.
endOldAndStartNew ==
  /\ connectJob = "end"
  /\ \/ /\ status' = [status EXCEPT ![target] = "stopped"]
        /\ \/ connectJob' = "postAgain" /\ UNCHANGED <<stage, heartbeats, target, late, alone, connectedTo>>
           \/ Fails("Failed")
     \/ Fails("Failed") /\ UNCHANGED status
  /\ UNCHANGED <<resolveJob, resolved, game, screen, chosen>>

requestNewSessionAgain ==
  /\ connectJob = "postAgain"
  /\ SessionAnswered(Fails("Failed"))
  /\ UNCHANGED <<resolveJob, resolved, screen, chosen>>

-----------------------------------------------------------------------------
BudgetOver == late

\* The connection token is there, not yet, or not to be had.
TokenAnswered ==
  /\ connectJob = "poll"
  /\ \/ /\ status[target] = "running"
        /\ stage' = "Authorizing" /\ connectJob' = "auth"
        /\ UNCHANGED <<target, late, alone, heartbeats, connectedTo>>
     \/ ~BudgetOver /\ connectJob' = "pause" /\ UNCHANGED <<stage, heartbeats, target, late, alone, connectedTo>>
     \/ BudgetOver /\ Fails("Failed")
     \/ Fails("Failed")
  /\ UNCHANGED <<resolveJob, resolved, screen, backend, chosen>>

\* RATE_LIMITED is waited out whatever the budget.
RateLimited ==
  /\ connectJob = "poll" /\ connectJob' = "backoff"
  /\ UNCHANGED <<resolveJob, target, late, alone, model, screen, backend, chosen>>

PollAgain ==
  /\ connectJob \in {"pause", "backoff"} /\ connectJob' = "poll" /\ stage' = "Waiting"
  /\ UNCHANGED <<resolveJob, target, late, alone, resolved, heartbeats, connectedTo, screen, backend, chosen>>

DeadlinePasses ==
  /\ connectJob \in {"poll", "pause", "backoff"} /\ ~late /\ late' = TRUE
  /\ UNCHANGED <<resolveJob, connectJob, target, alone, model, screen, backend, chosen>>

tokenAuth ==
  /\ connectJob = "auth"
  /\ \/ /\ startHeartbeat(target)
        /\ stage' = "Connected" /\ connectedTo' = target /\ connectJob' = "none"
        /\ UNCHANGED <<target, late, alone>>
     \/ Fails("Failed")
  /\ UNCHANGED <<resolveJob, resolved, screen, backend, chosen>>

\* A heartbeat is told that its session has stopped.
HeartbeatStopped ==
  /\ \E s \in heartbeats : status[s] = "stopped"
  /\ fail("Failed")
  /\ UNCHANGED <<jobs, resolved, connectedTo, screen, backend, chosen>>

\* The backend (external): a session ends for want of heartbeats, of hours or
\* from elsewhere, where another one may be created.
SessionStops ==
  /\ \E s \in Active : status' = [status EXCEPT ![s] = "stopped"]
  /\ UNCHANGED <<jobs, model, screen, game, chosen>>

SessionElsewhere ==
  /\ \E s \in Sessions, g \in Games : Creates(s, g)
  /\ UNCHANGED <<jobs, model, screen, chosen>>

-----------------------------------------------------------------------------
\* The activity collects the stage: it sees the latest, and each only once.
Shows == <<stage, IF stage = "Connected" THEN connectedTo ELSE None>>

\* streamDesktopOnce: with the certificate of the host, its warm-up begins.
streamDesktopOnce ==
  \/ streamLaunched /\ UNCHANGED <<panel, warmUp, streamLaunched>>
  \/ ~streamLaunched /\ panel' = "retry" /\ UNCHANGED <<warmUp, streamLaunched>>
  \/ /\ ~streamLaunched /\ streamLaunched' = TRUE
     /\ warmUp' = connectedTo /\ panel' = "progress"

render ==
  /\ life = "shown" /\ rendered # Shows /\ rendered' = Shows
  /\ \/ stage = "Connected" /\ streamDesktopOnce
     \/ /\ stage # "Connected" /\ UNCHANGED <<warmUp, streamLaunched>>
        /\ panel' = CASE stage = "Failed" -> "retry" [] stage = "FailedForGood" -> "result"
                      [] stage \in {"Choosing", "Conflicting"} -> panel [] OTHER -> "progress"
  /\ UNCHANGED <<jobs, model, life, finishOnReturn, opened, backend, chosen>>

\* Another attempt to register the host.
WarmUpAttempt ==
  /\ warmUp # None /\ panel # "progress" /\ panel' = "progress"
  /\ UNCHANGED <<jobs, model, life, rendered, warmUp, streamLaunched, finishOnReturn, opened, backend, chosen>>

\* The host answers: the stream is put in front of the activity.
WarmUpSucceeds ==
  /\ warmUp # None /\ warmUp' = None
  /\ opened' = warmUp /\ finishOnReturn' = TRUE /\ life' = "behind"
  /\ UNCHANGED <<jobs, model, panel, rendered, streamLaunched, backend, chosen>>

WarmUpGivesUp ==
  /\ warmUp # None /\ warmUp' = None
  /\ streamLaunched' = FALSE /\ panel' = "retry"
  /\ UNCHANGED <<jobs, model, life, rendered, finishOnReturn, opened, backend, chosen>>

\* onCleared: cancelAndRelease.
Cleared ==
  /\ life' = "gone" /\ warmUp' = None /\ heartbeats' = {}
  /\ resolveJob' = FALSE /\ connectJob' = "none"
  /\ UNCHANGED <<target, late, alone, stage, resolved, connectedTo, panel, rendered, streamLaunched,
                 finishOnReturn, opened, backend, chosen>>

Finish == life = "shown" /\ Cleared

GoBehind ==
  /\ life = "shown" /\ life' = "behind"
  /\ UNCHANGED <<jobs, model, panel, rendered, warmUp, streamLaunched, finishOnReturn, opened, backend, chosen>>

\* A screen that is started again collects anew.
onResume ==
  /\ life = "behind"
  /\ \/ finishOnReturn /\ Cleared
     \/ /\ ~finishOnReturn /\ life' = "shown" /\ rendered' = <<"nothing", None>>
        /\ UNCHANGED <<jobs, model, panel, warmUp, streamLaunched, finishOnReturn, opened, backend, chosen>>

\* The activity is recreated, for a change of the configuration.
onCreate ==
  /\ life # "gone" /\ life' = "shown" /\ panel' = "progress" /\ rendered' = <<"nothing", None>>
  /\ warmUp' = None /\ streamLaunched' = FALSE /\ finishOnReturn' = FALSE /\ opened' = None
  /\ start
  /\ UNCHANGED <<connectJob, target, late, alone, resolved, heartbeats, connectedTo, backend, chosen>>

-----------------------------------------------------------------------------
Answers == \/ SubscriptionsAnswered \/ requestNewSession \/ resolveActiveSession
           \/ endOldAndStartNew \/ requestNewSessionAgain \/ TokenAnswered \/ RateLimited
           \/ PollAgain \/ tokenAuth

Next == \/ Answers \/ DeadlinePasses \/ HeartbeatStopped
        \/ onSubscriptionChosen \/ retry \/ onSessionConflictResolved
        \/ render \/ WarmUpAttempt \/ WarmUpSucceeds \/ WarmUpGivesUp
        \/ Finish \/ GoBehind \/ onResume \/ onCreate
        \/ SessionStops \/ SessionElsewhere

Spec == Init /\ [][Next]_vars

\* Requests are answered, delays and time pass, and what is on the screen is rendered.
Fairness == WF_vars(Answers) /\ WF_vars(DeadlinePasses) /\ WF_vars(render)

FairSpec == Spec /\ Fairness

-----------------------------------------------------------------------------
(***************************************************************************)
(* The heartbeat "keeps the VM alive" for what is used: while the stage is *)
(* Connected, after any retries and recreations, it runs for the session   *)
(* connected to, and that is the one whose host is waited for or that is   *)
(* streamed, if it runs still; after a failure or when the screen is left  *)
(* ("above all the heartbeat" is stopped) there is none.                   *)
(***************************************************************************)
HeartbeatFollowsUse ==
  /\ \A s \in {warmUp} \union (IF finishOnReturn THEN {opened} ELSE {}) :
       stage = "Connected" /\ s # None /\ status[s] = "running" => s = connectedTo
  /\ stage = "Connected" /\ life # "gone" => heartbeats = {connectedTo}
  /\ stage \in {"Failed", "FailedForGood"} \/ life = "gone" => heartbeats = {}

(***************************************************************************)
(* A session with another game is ended only if the user was shown the     *)
(* conflict and chose to: "continue the old game" or "play the new one".   *)
(***************************************************************************)
EndsOnlyByChoice ==
  [][\A s \in Sessions :
       /\ connectJob = "end" /\ connectJob' # "end"
       /\ status[s] = "running" /\ status'[s] = "stopped"
       /\ MyGame # None /\ game[s] \notin {None, MyGame}
       => s \in chosen]_vars

\* A dialog whose buttons are obeyed: it is up, and its job waits for it, or none runs.
ConflictAsked == stage = "Conflicting" /\ connectJob = "decide"
PackageAsked == stage = "Choosing" /\ connectJob = "none"

\* A job that waits for an answer nobody is asked for.  The one of an attempt that was
\* begun beside a heartbeat or a resolve job can be left so: their end takes the dialog away.
Abandoned == connectJob = "decide" /\ stage # "Conflicting" /\ ~alone

(***************************************************************************)
(* The screen never waits for nothing.  One that has rendered the latest   *)
(* stage, and shows neither the final failure nor an attempt that is       *)
(* Abandoned, waits for the answer to a request, for the host, for a       *)
(* dialog whose buttons are obeyed, or for the button Retry in reach of    *)
(* the user and with no job in its way.                                    *)
(***************************************************************************)
NeverWaitsForNothing ==
  life = "shown" /\ rendered = Shows /\ panel # "result" /\ ~Abandoned
    => \/ resolveJob \/ connectJob \notin {"none", "decide"} \/ warmUp # None
       \/ ConflictAsked \/ PackageAsked
       \/ panel = "retry" /\ connectJob = "none" /\ stage \notin {"Choosing", "Conflicting"}

(***************************************************************************)
(* "Poll until the VM is ready, or the budget is over, or an error": an    *)
(* attempt to connect ends, or waits for the user with the conflict dialog *)
(* up (or behind another screen), or is Abandoned; unless the backend      *)
(* limits the rate of its polls again and again, which has no deadline.    *)
(***************************************************************************)
ConnectEnds ==
  \/ []<>(connectJob = "backoff")
  \/ connectJob # "none" ~>
       \/ connectJob = "none" \/ Abandoned
       \/ ConflictAsked /\ (life = "shown" => rendered = Shows)
=============================================================================
