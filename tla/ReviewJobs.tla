------------------------------- MODULE ReviewJobs -------------------------------
(***************************************************************************)
(* ReviewJobController (services/orchestrator/src/jobs/                    *)
(* review-job-controller.ts) over the in-memory store: create, cancel, and *)
(* the background execute() of every accepted job.  JavaScript runs one    *)
(* synchronous piece at a time, so an action is the code between two       *)
(* awaits: createJob with execute() up to `await this.run(...)`, a cancel, *)
(* the settling of the run promise, and the rest of execute().  Between    *)
(* any two of them other requests and other jobs' continuations may run.   *)
(***************************************************************************)
EXTENDS JobStore

CONSTANT MaxNow   \* bound on the clock, for model checking

VARIABLES
  now,        \* the clock both the store and the controller read
  issued,     \* job ids newId() has returned (a UUID is never repeated)
  inFlight,   \* Map<jobId, AbortController>: absent, live or aborted
  run,        \* the promise execute() awaits
  startedFor  \* history: the key each job was created with

vars == <<jobs, byKey, keyOf, now, issued, inFlight, run, startedFor>>

Outcome  == ReportStatus \cup {"rejected"}
RunState == Outcome \cup {"none", "pending", "done"}

TypeOK ==
  /\ StoreTypeOK
  /\ now \in Nat
  /\ issued \subseteq JobIds
  /\ inFlight \in [JobIds -> {"absent", "live", "aborted"}]
  /\ run \in [JobIds -> RunState]
  /\ startedFor \in [JobIds -> Keys \cup {None}]

Init ==
  /\ StoreInit
  /\ now = 0
  /\ issued = {}
  /\ inFlight = [j \in JobIds |-> "absent"]
  /\ run = [j \in JobIds |-> "none"]
  /\ startedFor = [j \in JobIds |-> None]

(* createJob for a request with key k (None: no key).  A key that still    *)
(* finds a job returns it and changes nothing, an empty enabledAgents list *)
(* throws 422 and changes nothing: neither is a step.  execute() runs      *)
(* synchronously up to its first await, so the stored job is already       *)
(* `running` when createJob returns.                                       *)
CreateJob(j, k) ==
  /\ j \notin issued
  /\ k # None => FindByIdempotencyKey(k) = None
  /\ issued' = issued \cup {j}
  /\ Insert(j, [NoJob EXCEPT !.status = "running"], k, now)
  /\ inFlight' = [inFlight EXCEPT ![j] = "live"]
  /\ run' = [run EXCEPT ![j] = "pending"]
  /\ startedFor' = [startedFor EXCEPT ![j] = k]
  /\ UNCHANGED now

(* Mutants: the controller is not aborted; completedAt is not set.         *)
MCancelNoAbort(j) ==
  /\ Stored(j) /\ ~IsTerminal(j)
  /\ Update(j, [status |-> "cancelled", completedAt |-> now, result |-> jobs[j].result])
  /\ UNCHANGED <<now, issued, inFlight, run, startedFor>>

MCancelUntimed(j) ==
  /\ Stored(j) /\ ~IsTerminal(j)
  /\ Update(j, [status |-> "cancelled", completedAt |-> None, result |-> jobs[j].result])
  /\ inFlight' = [inFlight EXCEPT ![j] = IF @ = "live" THEN "aborted" ELSE @]
  /\ UNCHANGED <<now, issued, run, startedFor>>

(* cancelJob: a missing or finished job is returned as is (no step).       *)
CancelJob(j) ==
  /\ Stored(j) /\ ~IsTerminal(j)
  /\ Update(j, [status |-> "cancelled", completedAt |-> now, result |-> jobs[j].result])
  /\ inFlight' = [inFlight EXCEPT ![j] = IF @ = "live" THEN "aborted" ELSE @]
  /\ UNCHANGED <<now, issued, run, startedFor>>

(* The review graph settles: a report, or a rejection (an abort, or any    *)
(* error).  An aborted run may still answer with a report.                 *)
RunSettles(j) ==
  /\ run[j] = "pending"
  /\ \E o \in Outcome : run' = [run EXCEPT ![j] = o]
  /\ UNCHANGED <<jobs, byKey, keyOf, now, issued, inFlight, startedFor>>

(* Mutant: no check that the job is still unfinished.                      *)
MFinishAlways(j, status, result) ==
  IF Stored(j)
  THEN Update(j, [status |-> status, completedAt |-> now, result |-> result])
  ELSE UNCHANGED storeVars

(* finish: writes the final state unless the job is gone or finished.      *)
Finish(j, status, result) ==
  IF Stored(j) /\ ~IsTerminal(j)
  THEN Update(j, [status |-> status, completedAt |-> now, result |-> result])
  ELSE UNCHANGED storeVars

(* Mutant: no `finally`.                                                   *)
MSettledHeld(j) == run' = [run EXCEPT ![j] = "done"] /\ UNCHANGED <<now, issued, inFlight, startedFor>>

(* The rest of execute() after the await, with its `finally`.              *)
Settled(j) ==
  /\ inFlight' = [inFlight EXCEPT ![j] = "absent"]
  /\ run' = [run EXCEPT ![j] = "done"]
  /\ UNCHANGED <<now, issued, startedFor>>

ExecuteReported(j) ==
  /\ run[j] \in ReportStatus
  /\ Finish(j, run[j], "report")
  /\ Settled(j)

(* Mutant: the catch block returns whatever the cause.                     *)
MRejectedSwallowed(j) == run[j] = "rejected" /\ UNCHANGED storeVars /\ Settled(j)

(* The catch block: nothing is written when the abort caused it.           *)
ExecuteRejected(j) ==
  /\ run[j] = "rejected"
  /\ IF inFlight[j] = "aborted" THEN UNCHANGED storeVars
     ELSE Finish(j, "failed", "error")
  /\ Settled(j)

(* MaxNow bounds the clock.                                                *)
Tick ==
  /\ now < MaxNow
  /\ now' = now + 1
  /\ UNCHANGED <<jobs, byKey, keyOf, issued, inFlight, run, startedFor>>

Next ==
  \/ \E j \in JobIds :
       \/ \E k \in Keys \cup {None} : CreateJob(j, k)
       \/ CancelJob(j)
       \/ RunSettles(j)
       \/ ExecuteReported(j)
       \/ ExecuteRejected(j)
  \/ Tick

Spec == Init /\ [][Next]_vars

(* Agent calls carry timeouts, so a run settles, and a settled promise     *)
(* resumes its awaiter.  Nothing obliges a client to act.                  *)
FairSpec ==
  /\ Spec
  /\ \A j \in JobIds : /\ WF_vars(RunSettles(j))
                       /\ WF_vars(ExecuteReported(j) \/ ExecuteRejected(j))
---------------------------------------------------------------------------------
(* Every stored job is its key's job and every filed key names a stored    *)
(* job that is filed under it, so one key never has two remembered jobs    *)
(* and a sweep never frees a key that has moved on to another job          *)
(* (job-store.ts insert and sweep keep byKey and keyOf inverse).           *)
KeyIndexExact ==
  \A j \in JobIds, k \in Keys : (byKey[k] = j) <=> (keyOf[j] = k /\ Stored(j))

(* An unfinished job is always held by a live, unsettled execute(): no     *)
(* interleaving of cancel, sweep and late answers leaves a job `running`   *)
(* with nothing left to finish it (execute's early return on abort).       *)
NoOrphanedJob ==
  \A j \in JobIds : Stored(j) /\ ~IsTerminal(j) =>
    inFlight[j] = "live" /\ run[j] \notin {"none", "done"}

(* The run of a job that is over, whether cancelled or already swept,      *)
(* has been told to stop: no cancelled review keeps calling agents with a  *)
(* live signal (cancelJob: "Stops the run and its agent calls").           *)
OnlyLiveJobsRun ==
  \A j \in JobIds : inFlight[j] = "live" => jobs[j].status = "running"

(* What a finished job carries: a report exactly when its run reported,    *)
(* an error only on a failed job, nothing on a cancelled one, even when    *)
(* the cancelled run reports afterwards (finish and the catch block).      *)
ResultMatchesStatus ==
  \A j \in JobIds :
    /\ jobs[j].status \in {"completed", "partial"} => jobs[j].result = "report"
    /\ jobs[j].status \in {"running", "cancelled"} => jobs[j].result = "none"
    /\ jobs[j].status = "failed" => jobs[j].result # "none"

(* One delivery never has two reviews working for it: of the jobs ever     *)
(* started for a key, still stored or swept since, at most one run has a   *)
(* live signal (createJob with FindByIdempotencyKey; sweep frees a key     *)
(* only with a finished job).                                              *)
OneLiveRunPerKey ==
  \A i, j \in JobIds :
    /\ inFlight[i] = "live" /\ inFlight[j] = "live"
    /\ startedFor[i] = startedFor[j] /\ startedFor[i] # None
    => i = j

(* A finished job is never rewritten: a late report, a late failure and a  *)
(* second cancel leave it alone; it can only be swept (finish, cancelJob). *)
TerminalIsFinal ==
  [][\A j \in JobIds : IsTerminal(j) => jobs'[j] \in {jobs[j], NoJob}]_vars

(* A job disappears only once it finished and stayed readable for the      *)
(* whole retention window, and the first insert after that removes it      *)
(* (sweep: "Sweeping on insert keeps memory bounded without a timer").     *)
SweptOnlyWhenExpired ==
  [][\A j \in JobIds :
       LET old == IsTerminal(j) /\ now - jobs[j].completedAt >= RetentionMs
       IN  /\ Stored(j) /\ ~Stored(j)' => old
           /\ issued' # issued /\ old => ~Stored(j)']_vars

(* Every execute() ends and gives its AbortController back (`finally`).    *)
RunsEnd == \A j \in JobIds : inFlight[j] # "absent" ~> inFlight[j] = "absent"

(* The promise to the gateway: mapped onto what a poll can observe, the    *)
(* jobs and keys live as ReviewLifecycle says.                             *)
observed ==
  [j \in JobIds |-> IF Stored(j) THEN jobs[j].status
                    ELSE IF j \in issued THEN "forgotten" ELSE "unborn"]

Life == INSTANCE ReviewLifecycle WITH status <- observed, owner <- byKey

ImplementsLifecycle == Life!LifeSpec
=================================================================================
