-------------------------- MODULE ExclusiveSession --------------------------
(***************************************************************************)
(* What the semaphore, the monitor and the stages of a connection are for: *)
(* the native core, which can hold one connection, is owned by at most one *)
(* session; stream threads exist only while it is owned; and it is given   *)
(* up only when they are all gone.  StreamSession implements this module.  *)
(***************************************************************************)
CONSTANTS Sessions, Streams, Nobody

VARIABLES owner,    \* the session that has the core, or Nobody
          phase,    \* idle, starting, streaming, stopping
          running   \* the streams that have threads

vars == <<owner, phase, running>>

Init == owner = Nobody /\ phase = "idle" /\ running = {}

Take(g) ==
  /\ phase = "idle" /\ owner' = g /\ phase' = "starting"
  /\ UNCHANGED running

\* While it starts, a session creates threads, and joins those of a stage
\* that failed.
StartStream ==
  /\ phase = "starting"
  /\ \E k \in Streams : running' = running \union {k} \/ running' = running \ {k}
  /\ UNCHANGED <<owner, phase>>

Streaming ==
  /\ phase = "starting" /\ phase' = "streaming"
  /\ UNCHANGED <<owner, running>>

BeginStop ==
  /\ phase \in {"starting", "streaming"} /\ phase' = "stopping"
  /\ UNCHANGED <<owner, running>>

StopStream ==
  /\ phase = "stopping" /\ \E k \in running : running' = running \ {k}
  /\ UNCHANGED <<owner, phase>>

GiveUp ==
  /\ phase = "stopping" /\ running = {}
  /\ phase' = "idle" /\ owner' = Nobody
  /\ UNCHANGED running

Next == \/ \E g \in Sessions : Take(g)
        \/ StartStream \/ Streaming \/ BeginStop \/ StopStream \/ GiveUp

Spec == Init /\ [][Next]_vars
=============================================================================
