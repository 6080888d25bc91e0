-------------------------------- MODULE JobStore --------------------------------
(***************************************************************************)
(* InMemoryJobStore (services/orchestrator/src/jobs/job-store.ts): the     *)
(* jobs, the idempotency key of each and the inverse index.  A job that is *)
(* not in the `jobs` map has status "absent".  Every method body is one    *)
(* synchronous piece of JavaScript, hence one operator of one step.        *)
(***************************************************************************)
EXTENDS Integers

CONSTANTS
  JobIds,       \* the UUIDs newId() can return
  Keys,         \* idempotency keys clients send (GitHub delivery ids)
  None,         \* `undefined`
  RetentionMs   \* how long a finished job stays readable

ASSUME StoreAssumption ==
  /\ None \notin JobIds
  /\ None \notin Keys
  /\ RetentionMs \in Nat

VARIABLES
  jobs,    \* Map<jobId, ReviewJob>
  byKey,   \* Map<key, jobId>
  keyOf    \* Map<jobId, key>

storeVars == <<jobs, byKey, keyOf>>

ReportStatus == {"completed", "partial", "failed"}
Terminal     == ReportStatus \cup {"cancelled"}
JobStatus    == Terminal \cup {"queued", "running"}

(* The fields the store and the controller look at; `result` is which of   *)
(* the optional fields report / error the job carries.                     *)
Job == [status : JobStatus \cup {"absent"},
        completedAt : Nat,
        result : {"none", "report", "error"}]

NoJob == [status |-> "absent", completedAt |-> 0, result |-> "none"]

Stored(j)     == jobs[j].status # "absent"
IsTerminal(j) == jobs[j].status \in Terminal

StoreTypeOK ==
  /\ jobs \in [JobIds -> Job]
  /\ byKey \in [Keys -> JobIds \cup {None}]
  /\ keyOf \in [JobIds -> Keys \cup {None}]

StoreInit ==
  /\ jobs = [j \in JobIds |-> NoJob]
  /\ byKey = [k \in Keys |-> None]
  /\ keyOf = [j \in JobIds |-> None]

(* Mutant: the index lookup is forgotten.                                  *)
MFindNothing(k) == None

(* findByIdempotencyKey: None when the key is unknown or its job is gone.  *)
FindByIdempotencyKey(k) ==
  IF byKey[k] # None /\ Stored(byKey[k]) THEN byKey[k] ELSE None

(* Mutant: unfinished jobs are swept with the finished ones.               *)
MExpiredByAge(j, t) == Stored(j) /\ jobs[j].completedAt <= t - RetentionMs

(* The jobs sweep() deletes at time t.                                     *)
Expired(j, t) == IsTerminal(j) /\ jobs[j].completedAt <= t - RetentionMs

(* The key under which a swept job was filed, if any, is freed with it.    *)
SweptKey(k, t) == \E j \in JobIds : Expired(j, t) /\ keyOf[j] = k

(* insert: sweep, then file the job and, when it has one, its key.         *)
Insert(j, job, k, t) ==
  /\ jobs' = [i \in JobIds |-> IF i = j THEN job
                               ELSE IF Expired(i, t) THEN NoJob ELSE jobs[i]]
  /\ byKey' = [n \in Keys |-> IF n = k THEN j
                              ELSE IF SweptKey(n, t) THEN None ELSE byKey[n]]
  /\ keyOf' = [i \in JobIds |-> IF i = j THEN k
                                ELSE IF Expired(i, t) THEN None ELSE keyOf[i]]

(* update: replaces a stored job; an unknown one throws (never a step).    *)
Update(j, job) ==
  /\ Stored(j)
  /\ jobs' = [jobs EXCEPT ![j] = job]
  /\ UNCHANGED <<byKey, keyOf>>
=================================================================================
