------------------------------ MODULE JobQueue ------------------------------
(***************************************************************************)
(* What Queue v2 promises of each job, whatever the backend does to keep   *)
(* it: an accepted job is delivered until one delivery of it is processed  *)
(* and acknowledged, or until it has been delivered MaxAttempts times and  *)
(* is dead-lettered.  A single transition of a backend may settle, requeue *)
(* and deliver many jobs, so a step moves every job along one edge of its  *)
(* own life cycle or leaves it where it is.                                *)
(***************************************************************************)
EXTENDS Naturals

CONSTANTS Ids, MaxAttempts

VARIABLES phase,  \* the job's place in its life cycle
          tries   \* deliveries since it was accepted or replayed

vars == <<phase, tries>>

Phases == {"absent", "waiting", "running", "succeeded", "done", "dead"}

Delivered == {"running", "succeeded"}
Settled == {"absent", "done", "dead"}

(* Every job has a phase and a bounded number of deliveries.               *)
TypeOK == /\ phase \in [Ids -> Phases]
          /\ tries \in [Ids -> 0..MaxAttempts]

Init == /\ phase = [i \in Ids |-> "absent"]
        /\ tries = [i \in Ids |-> 0]

(* Phase f with t deliveries may become phase g with u deliveries.         *)
Accepted(f, t, g, u) == f = "absent" /\ g = "waiting" /\ u = 0

Started(f, t, g, u) ==
  /\ f \in {"waiting"} \union Delivered
  /\ g = "running"
  /\ t < MaxAttempts
  /\ u = t + 1

Processed(f, t, g, u) == f = "running" /\ g = "succeeded" /\ u = t

(* The worker that processed the job dies before it can acknowledge it.    *)
Forgotten(f, t, g, u) == f = "succeeded" /\ g = "running" /\ u = t

Acknowledged(f, t, g, u) ==
  \/ f = "succeeded" /\ g = "done" /\ u = t
  \/ f = "succeeded" /\ g = "absent" /\ u = 0

Returned(f, t, g, u) ==
  /\ f \in Delivered
  /\ g = "waiting"
  /\ t < MaxAttempts
  /\ u = t

Exhausted(f, t, g, u) ==
  /\ f \in Delivered
  /\ t = MaxAttempts
  /\ \/ g = "dead" /\ u = t
     \/ g = "absent" /\ u = 0

Evicted(f, t, g, u) == f \in {"done", "dead"} /\ g = "absent" /\ u = 0

Replayed(f, t, g, u) == f = "dead" /\ g = "waiting" /\ u = 0

Move(f, t, g, u) ==
  \/ Accepted(f, t, g, u)
  \/ Started(f, t, g, u)
  \/ Processed(f, t, g, u)
  \/ Forgotten(f, t, g, u)
  \/ Acknowledged(f, t, g, u)
  \/ Returned(f, t, g, u)
  \/ Exhausted(f, t, g, u)
  \/ Evicted(f, t, g, u)
  \/ Replayed(f, t, g, u)

Next ==
  /\ phase' \in [Ids -> Phases]
  /\ tries' \in [Ids -> 0..MaxAttempts]
  /\ \A i \in Ids :
       \/ phase'[i] = phase[i] /\ tries'[i] = tries[i]
       \/ Move(phase[i], tries[i], phase'[i], tries'[i])

Spec == Init /\ [][Next]_vars

=============================================================================
