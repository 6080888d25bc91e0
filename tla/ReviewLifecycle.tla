---------------------------- MODULE ReviewLifecycle ----------------------------
(***************************************************************************)
(* What the orchestrator promises the gateway about review jobs, with no   *)
(* store, no background run and no clock: the states of                    *)
(* docs/design/diagrams/mermaid/state_review.mmd and the idempotency rule  *)
(* of docs/design/openapi/orchestrator.yaml.  A job moves forward only, a  *)
(* finished job never changes, a job is forgotten only once it finished,   *)
(* and a key names at most one remembered job.  ReviewJobs implements it.  *)
(***************************************************************************)
CONSTANTS JobIds, Keys, None

VARIABLES
  status,   \* status[j]: where job j is in its life
  owner     \* owner[k]: the remembered job accepted under key k, or None

lifeVars == <<status, owner>>

Closed   == {"completed", "partial", "failed"}
Finished == Closed \cup {"cancelled"}
Live     == {"queued", "running"}

LifeInit ==
  /\ status = [j \in JobIds |-> "unborn"]
  /\ owner = [k \in Keys |-> None]

(* A job is accepted under a free key (or none).  Accepting may forget any *)
(* finished jobs, whose keys become free.  It may start at once.           *)
Accept(j, k, F) ==
  /\ status[j] = "unborn"
  /\ k # None => owner[k] = None
  /\ \A f \in F : status[f] \in Finished
  /\ \E first \in Live :
       status' = [i \in JobIds |-> IF i = j THEN first
                                   ELSE IF i \in F THEN "forgotten"
                                   ELSE status[i]]
  /\ owner' = [n \in Keys |-> IF n = k THEN j
                              ELSE IF owner[n] \in F THEN None
                              ELSE owner[n]]

Move(j, from, to) ==
  /\ status[j] \in from
  /\ \E s \in to : status' = [status EXCEPT ![j] = s]
  /\ UNCHANGED owner

Start(j)  == Move(j, {"queued"}, {"running"})
Close(j)  == Move(j, {"running"}, Closed)
Cancel(j) == Move(j, Live, {"cancelled"})

LifeNext ==
  \E j \in JobIds :
    \/ \E k \in Keys \cup {None}, F \in SUBSET JobIds : Accept(j, k, F)
    \/ Start(j) \/ Close(j) \/ Cancel(j)

LifeSafety == LifeInit /\ [][LifeNext]_lifeVars

LifeSpec ==
  /\ LifeSafety
  /\ \A j \in JobIds : WF_lifeVars(Start(j)) /\ WF_lifeVars(Close(j))
================================================================================
