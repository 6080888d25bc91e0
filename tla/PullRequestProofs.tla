--------------------------- MODULE PullRequestProofs ----------------------------
(***************************************************************************)
(* The review jobs, for every set of job ids and keys and every retention: *)
(* the invariants of ReviewJobs, the finality of finished jobs, and the    *)
(* implementation of ReviewLifecycle (its safety part).  And a pull        *)
(* request end to end, for every set of handlers, deliveries and jobs,     *)
(* with lost and late answers, failures of GitHub and restarts of both     *)
(* services: the safety invariants of PullRequestReview.                   *)
(***************************************************************************)
EXTENDS PullRequestReview, TLAPS

(* An id newId() has not returned yet left no trace anywhere.              *)
FreshIds ==
  \A j \in JobIds : j \notin issued =>
    jobs[j] = NoJob /\ inFlight[j] = "absent" /\ run[j] = "none"

(* Only stored jobs are filed under a key.                                 *)
FiledIsStored == \A j \in JobIds : keyOf[j] # None => Stored(j)

(* A stored job is filed under the key it was started for.                 *)
FiledAsStarted == \A j \in JobIds : Stored(j) => keyOf[j] = startedFor[j]

(* An AbortController is held exactly while execute() has not ended.       *)
HeldWhileRunning ==
  \A j \in JobIds : (inFlight[j] = "absent") <=> (run[j] \in {"none", "done"})

(* The strengthening that is inductive.                                    *)
IInv ==
  /\ TypeOK
  /\ FreshIds
  /\ FiledIsStored /\ FiledAsStarted
  /\ HeldWhileRunning
  /\ KeyIndexExact
  /\ NoOrphanedJob
  /\ OnlyLiveJobsRun
  /\ ResultMatchesStatus

---------------------------------------------------------------------------------
(* The empty store has it.                                                 *)
LEMMA InitIInv == Init => IInv
<1>1. SUFFICES ASSUME Init PROVE IInv
  OBVIOUS
<1>2. TypeOK
  BY <1>1 DEF Init, StoreInit, TypeOK, StoreTypeOK, NoJob, Job, JobStatus, RunState
<1>3. FreshIds /\ FiledIsStored /\ FiledAsStarted /\ HeldWhileRunning /\ KeyIndexExact
  BY StoreAssumption, <1>1
  DEF Init, StoreInit, FreshIds, FiledIsStored, FiledAsStarted, HeldWhileRunning, KeyIndexExact,
      Stored, NoJob
<1>4. NoOrphanedJob /\ OnlyLiveJobsRun /\ ResultMatchesStatus
  BY <1>1 DEF Init, StoreInit, NoOrphanedJob, OnlyLiveJobsRun, ResultMatchesStatus, Stored, NoJob
<1>5. QED
  BY <1>2, <1>3, <1>4 DEF IInv

(* What a create leaves in the maps, entry by entry.                       *)
LEMMA CreateJobEffect ==
  ASSUME NEW j \in JobIds, NEW k \in Keys \cup {None}, IInv, CreateJob(j, k)
  PROVE  /\ TypeOK'
         /\ jobs'[j] = [status |-> "running", completedAt |-> 0, result |-> "none"]
         /\ \A i \in JobIds : i # j => jobs'[i] = IF Expired(i, now) THEN NoJob ELSE jobs[i]
         /\ keyOf'[j] = k
         /\ \A i \in JobIds : i # j => keyOf'[i] = IF Expired(i, now) THEN None ELSE keyOf[i]
         /\ startedFor' = [startedFor EXCEPT ![j] = k]
<1>1. [NoJob EXCEPT !.status = "running"]
        = [status |-> "running", completedAt |-> 0, result |-> "none"]
  BY DEF NoJob
<1>2. [status |-> "running", completedAt |-> 0, result |-> "none"] \in Job /\ NoJob \in Job
  BY DEF Job, NoJob, JobStatus
<1>3. StoreTypeOK'
  BY <1>1, <1>2 DEF CreateJob, Insert, IInv, TypeOK, StoreTypeOK
<1>4. TypeOK'
  BY <1>3 DEF CreateJob, IInv, TypeOK, RunState
<1>5. QED
  BY <1>1, <1>4 DEF CreateJob, Insert, IInv, TypeOK, StoreTypeOK

(* A new job, with the sweep its insert does.                              *)
LEMMA CreateJobKeepsIInv ==
  ASSUME NEW j \in JobIds, NEW k \in Keys \cup {None}, IInv, CreateJob(j, k)
  PROVE  IInv'
<1> USE CreateJobEffect
<1>1. j \notin issued /\ issued' = issued \cup {j} /\ jobs[j] = NoJob
  BY DEF CreateJob, IInv, FreshIds
<1>2. inFlight'[j] = "live" /\ run'[j] = "pending"
  BY DEF CreateJob, IInv, TypeOK
<1>3. \A i \in JobIds : i # j => inFlight'[i] = inFlight[i] /\ run'[i] = run[i]
  BY DEF CreateJob, IInv, TypeOK
<1>4. \A i \in JobIds : Expired(i, now) => Stored(i) /\ jobs[i].status # "running" /\ IsTerminal(i)
  BY DEF Expired, IsTerminal, Terminal, ReportStatus, Stored
<1>5. FreshIds'
  BY <1>1, <1>3, <1>4 DEF IInv, FreshIds, NoJob, Stored
<1>6. FiledIsStored' /\ FiledAsStarted'
  <2>1. startedFor'[j] = k /\ \A i \in JobIds : i # j => startedFor'[i] = startedFor[i]
    BY DEF IInv, TypeOK
  <2>2. FiledAsStarted'
    BY <1>4, <2>1 DEF IInv, FiledAsStarted, Stored, NoJob
  <2>3. QED
    BY <1>4, <2>2 DEF IInv, FiledIsStored, Stored
<1>7. HeldWhileRunning'
  BY <1>2, <1>3 DEF IInv, HeldWhileRunning
<1>8. NoOrphanedJob'
  BY <1>1, <1>2, <1>3, <1>4 DEF IInv, NoOrphanedJob, Stored, IsTerminal, NoJob
<1>9. OnlyLiveJobsRun'
  BY <1>1, <1>2, <1>3, <1>4 DEF IInv, OnlyLiveJobsRun
<1>10. ResultMatchesStatus'
  BY <1>1, <1>4 DEF IInv, ResultMatchesStatus, NoJob
<1>11. KeyIndexExact'
  <2>1. SUFFICES ASSUME NEW i \in JobIds, NEW n \in Keys
                 PROVE  (byKey'[n] = i) <=> (keyOf'[i] = n /\ Stored(i)')
    BY DEF KeyIndexExact
  <2>2. byKey'[n] = IF n = k THEN j ELSE IF SweptKey(n, now) THEN None ELSE byKey[n]
    BY DEF CreateJob, Insert
  <2>3. Stored(j)' /\ ~Stored(j)
    BY <1>1 DEF Stored, NoJob
  <2>4. \A m \in Keys : byKey[m] # j
    BY <2>3 DEF IInv, KeyIndexExact
  <2>5. CASE n = k
    <3>1. byKey[n] = None
      <4>1. FindByIdempotencyKey(n) = None
        BY StoreAssumption, <2>5 DEF CreateJob
      <4>2. byKey[n] \in JobIds \cup {None}
        BY DEF IInv, TypeOK, StoreTypeOK
      <4>3. byKey[n] # None => Stored(byKey[n])
        BY <4>2 DEF IInv, KeyIndexExact
      <4>4. QED
        BY <4>1, <4>2, <4>3 DEF FindByIdempotencyKey
    <3>2. \A m \in JobIds : keyOf[m] # n
      BY StoreAssumption, <3>1 DEF IInv, KeyIndexExact, FiledIsStored
    <3>3. QED
      BY StoreAssumption, <2>2, <2>3, <2>5, <3>2
  <2>6. CASE n # k /\ i = j
    BY StoreAssumption, <2>2, <2>4, <2>6
  <2>7. CASE n # k /\ i # j /\ SweptKey(n, now)
    <3>1. PICK m \in JobIds : Expired(m, now) /\ keyOf[m] = n
      BY <2>7 DEF SweptKey
    <3>2. byKey[n] = m
      BY <3>1, <1>4 DEF IInv, KeyIndexExact
    <3>3. byKey'[n] = None
      BY <2>2, <2>7
    <3>4. ~(keyOf'[i] = n)
      <4>1. CASE i = m
        BY StoreAssumption, <4>1, <3>1, <2>7
      <4>2. CASE i # m
        <5>1. ~(keyOf[i] = n /\ Stored(i))
          BY <4>2, <3>2 DEF IInv, KeyIndexExact
        <5>2. keyOf[i] # n
          BY StoreAssumption, <5>1 DEF IInv, FiledIsStored
        <5>3. QED
          BY StoreAssumption, <5>2, <2>7
      <4>3. QED
        BY <4>1, <4>2
    <3>5. QED
      BY StoreAssumption, <3>3, <3>4
  <2>8. CASE n # k /\ i # j /\ ~SweptKey(n, now)
    <3>1. byKey'[n] = byKey[n]
      BY <2>2, <2>8
    <3>2. keyOf[i] = n => ~Expired(i, now)
      BY <2>8 DEF SweptKey
    <3>3. CASE Expired(i, now)
      <4>1. keyOf'[i] # n /\ keyOf[i] # n
        BY StoreAssumption, <3>2, <3>3, <2>8
      <4>2. QED
        BY <4>1, <3>1 DEF IInv, KeyIndexExact
    <3>4. CASE ~Expired(i, now)
      <4>1. keyOf'[i] = keyOf[i] /\ jobs'[i] = jobs[i]
        BY <3>4, <2>8
      <4>2. QED
        BY <4>1, <3>1 DEF IInv, KeyIndexExact, Stored
    <3>5. QED
      BY <3>3, <3>4
  <2>9. QED
    BY <2>5, <2>6, <2>7, <2>8
<1>12. QED
  BY <1>5, <1>6, <1>7, <1>8, <1>9, <1>10, <1>11 DEF IInv

(* Replacing a stored job by a present one leaves the two indexes exact.   *)
LEMMA UpdateKeepsStore ==
  ASSUME NEW j \in JobIds, NEW job \in Job, job.status # "absent", IInv, Update(j, job)
  PROVE  /\ StoreTypeOK' /\ FiledIsStored' /\ KeyIndexExact'
         /\ jobs'[j] = job /\ Stored(j)
         /\ \A i \in JobIds : i # j => jobs'[i] = jobs[i]
         /\ UNCHANGED startedFor => FiledAsStarted'
<1>1. jobs' = [jobs EXCEPT ![j] = job] /\ UNCHANGED <<byKey, keyOf>> /\ Stored(j)
  BY DEF Update
<1>2. jobs'[j] = job /\ \A i \in JobIds : i # j => jobs'[i] = jobs[i]
  BY <1>1 DEF IInv, TypeOK, StoreTypeOK
<1>3. StoreTypeOK'
  BY <1>1 DEF IInv, TypeOK, StoreTypeOK
<1>4. \A i \in JobIds : Stored(i)' <=> Stored(i)
  BY <1>1, <1>2 DEF Stored
<1>5. FiledIsStored' /\ KeyIndexExact' /\ (UNCHANGED startedFor => FiledAsStarted')
  BY <1>1, <1>4 DEF IInv, FiledIsStored, FiledAsStarted, KeyIndexExact
<1>6. QED
  BY <1>1, <1>2, <1>3, <1>5

(* A cancelled job is final, and its run is told to stop.                  *)
LEMMA CancelJobKeepsIInv ==
  ASSUME NEW j \in JobIds, IInv, CancelJob(j)
  PROVE  IInv'
<1> DEFINE job == [status |-> "cancelled", completedAt |-> now, result |-> jobs[j].result]
<1>1. Stored(j) /\ ~IsTerminal(j) /\ Update(j, job)
  BY DEF CancelJob
<1>2. jobs[j] \in Job /\ now \in Nat
  BY DEF IInv, TypeOK, StoreTypeOK
<1>3. jobs[j].status = "running" /\ jobs[j].result = "none" /\ inFlight[j] = "live"
  BY <1>1 DEF IInv, NoOrphanedJob, OnlyLiveJobsRun, ResultMatchesStatus
<1>4. job.status = "cancelled" /\ job.result = "none" /\ job.status # "absent"
  BY <1>3
<1>5. job \in Job
  BY <1>2 DEF Job, JobStatus, Terminal
<1> HIDE DEF job
<1>6. /\ StoreTypeOK' /\ FiledIsStored' /\ KeyIndexExact' /\ jobs'[j] = job
      /\ \A i \in JobIds : i # j => jobs'[i] = jobs[i]
      /\ UNCHANGED startedFor => FiledAsStarted'
  BY <1>1, <1>4, <1>5, UpdateKeepsStore
<1>7. /\ inFlight'[j] = "aborted" /\ UNCHANGED <<now, issued, run, startedFor>>
      /\ \A i \in JobIds : i # j => inFlight'[i] = inFlight[i]
  BY <1>3 DEF CancelJob, IInv, TypeOK
<1>8. TypeOK'
  BY <1>6, <1>7 DEF CancelJob, IInv, TypeOK
<1>9. FreshIds'
  BY <1>1, <1>6, <1>7 DEF IInv, FreshIds, Stored, NoJob
<1>10. HeldWhileRunning'
  BY <1>3, <1>7 DEF IInv, HeldWhileRunning
<1>11. NoOrphanedJob' /\ OnlyLiveJobsRun' /\ ResultMatchesStatus'
  BY <1>4, <1>6, <1>7
  DEF IInv, NoOrphanedJob, OnlyLiveJobsRun, ResultMatchesStatus, Stored, IsTerminal, Terminal
<1>12. QED
  BY <1>6, <1>7, <1>8, <1>9, <1>10, <1>11 DEF IInv

(* A run that settles changes no job yet.                                  *)
LEMMA RunSettlesKeepsIInv ==
  ASSUME NEW j \in JobIds, IInv, RunSettles(j)
  PROVE  IInv'
<1>1. PICK o \in Outcome : run' = [run EXCEPT ![j] = o]
  BY DEF RunSettles
<1>2. run[j] = "pending" /\ UNCHANGED <<jobs, byKey, keyOf, now, issued, inFlight, startedFor>>
  BY DEF RunSettles
<1>3. TypeOK'
  BY <1>1, <1>2 DEF IInv, TypeOK, StoreTypeOK, RunState
<1>4. o \notin {"none", "done"}
  BY DEF Outcome, ReportStatus
<1>5. FreshIds' /\ HeldWhileRunning' /\ NoOrphanedJob'
  BY <1>1, <1>2, <1>4
  DEF IInv, TypeOK, FreshIds, HeldWhileRunning, NoOrphanedJob, Stored, IsTerminal
<1>6. FiledIsStored' /\ FiledAsStarted' /\ KeyIndexExact' /\ OnlyLiveJobsRun' /\ ResultMatchesStatus'
  BY <1>2
  DEF IInv, FiledIsStored, FiledAsStarted, KeyIndexExact, OnlyLiveJobsRun, ResultMatchesStatus, Stored
<1>7. QED
  BY <1>3, <1>5, <1>6 DEF IInv

(* The end of execute(): either the job is unfinished and is written, or   *)
(* nothing is written because it is finished or gone.                      *)
LEMMA ExecuteEndKeepsIInv ==
  ASSUME NEW j \in JobIds, IInv, Settled(j), run[j] \in Outcome,
         NEW status \in ReportStatus, NEW result \in {"report", "error"},
         result = "error" => status = "failed",
         \/ Finish(j, status, result)
         \/ UNCHANGED storeVars /\ inFlight[j] = "aborted"
  PROVE  IInv'
<1>1. /\ inFlight'[j] = "absent" /\ run'[j] = "done" /\ UNCHANGED <<now, issued, startedFor>>
      /\ \A i \in JobIds : i # j => inFlight'[i] = inFlight[i] /\ run'[i] = run[i]
  BY DEF Settled, IInv, TypeOK
<1>2. run[j] \notin {"none", "done"}
  BY DEF Outcome, ReportStatus
<1>3. inFlight' \in [JobIds -> {"absent", "live", "aborted"}] /\ run' \in [JobIds -> RunState]
  BY DEF Settled, IInv, TypeOK, RunState
<1>4. HeldWhileRunning'
  BY <1>1 DEF IInv, HeldWhileRunning
<1>5. CASE Stored(j) /\ ~IsTerminal(j)
  <2> DEFINE job == [status |-> status, completedAt |-> now, result |-> result]
  <2>1. inFlight[j] = "live"
    BY <1>5 DEF IInv, NoOrphanedJob
  <2>2. Update(j, job)
    BY <1>5, <2>1 DEF Finish
  <2>3. job \in Job /\ job.status # "absent" /\ job.status \in Terminal
    BY DEF IInv, TypeOK, Job, JobStatus, Terminal, ReportStatus
  <2>4. /\ job.status \in {"completed", "partial"} => job.result = "report"
        /\ job.status \notin {"running", "cancelled"} /\ job.result # "none"
    BY DEF ReportStatus
  <2> HIDE DEF job
  <2>5. /\ StoreTypeOK' /\ FiledIsStored' /\ KeyIndexExact' /\ jobs'[j] = job
        /\ \A i \in JobIds : i # j => jobs'[i] = jobs[i]
        /\ FiledAsStarted'
    BY <1>1, <2>2, <2>3, UpdateKeepsStore
  <2>6. TypeOK'
    BY <1>1, <1>3, <2>5 DEF IInv, TypeOK
  <2>7. FreshIds'
    BY <1>1, <1>2, <2>5 DEF IInv, FreshIds
  <2>8. NoOrphanedJob' /\ OnlyLiveJobsRun' /\ ResultMatchesStatus'
    BY <1>1, <2>3, <2>4, <2>5
    DEF IInv, NoOrphanedJob, OnlyLiveJobsRun, ResultMatchesStatus, Stored, IsTerminal
  <2>9. QED
    BY <1>4, <2>5, <2>6, <2>7, <2>8 DEF IInv
<1>6. CASE ~(Stored(j) /\ ~IsTerminal(j))
  <2>1. UNCHANGED storeVars
    BY <1>6 DEF Finish
  <2>2. UNCHANGED <<jobs, byKey, keyOf>>
    BY <2>1 DEF storeVars
  <2>3. TypeOK'
    BY <1>1, <1>3, <2>2 DEF IInv, TypeOK, StoreTypeOK
  <2>4. FreshIds' /\ FiledIsStored' /\ FiledAsStarted' /\ KeyIndexExact' /\ ResultMatchesStatus'
    BY <1>1, <1>2, <2>2
    DEF IInv, FreshIds, FiledIsStored, FiledAsStarted, KeyIndexExact, ResultMatchesStatus, Stored
  <2>5. NoOrphanedJob' /\ OnlyLiveJobsRun'
    BY <1>1, <1>6, <2>2 DEF IInv, NoOrphanedJob, OnlyLiveJobsRun, Stored, IsTerminal
  <2>6. QED
    BY <1>4, <2>3, <2>4, <2>5 DEF IInv
<1>7. QED
  BY <1>5, <1>6

(* A report, also a late one of a cancelled job.                           *)
LEMMA ExecuteReportedKeepsIInv ==
  ASSUME NEW j \in JobIds, IInv, ExecuteReported(j)
  PROVE  IInv'
<1>1. run[j] \in ReportStatus /\ run[j] \in Outcome /\ Finish(j, run[j], "report") /\ Settled(j)
  BY DEF ExecuteReported, Outcome
<1>2. QED
  BY <1>1, ExecuteEndKeepsIInv

(* A rejection, also one the cancellation caused.                          *)
LEMMA ExecuteRejectedKeepsIInv ==
  ASSUME NEW j \in JobIds, IInv, ExecuteRejected(j)
  PROVE  IInv'
<1>1. run[j] \in Outcome /\ Settled(j)
  BY DEF ExecuteRejected, Outcome
<1>2. \/ Finish(j, "failed", "error")
      \/ UNCHANGED storeVars /\ inFlight[j] = "aborted"
  BY DEF ExecuteRejected
<1>3. "failed" \in ReportStatus
  BY DEF ReportStatus
<1>4. QED
  BY <1>1, <1>2, <1>3, ExecuteEndKeepsIInv

(* Time changes no job.                                                    *)
LEMMA QuietStepKeepsIInv ==
  ASSUME IInv, Tick \/ UNCHANGED vars
  PROVE  IInv'
<1>1. UNCHANGED <<jobs, byKey, keyOf, issued, inFlight, run, startedFor>> /\ now' \in Nat
  BY DEF Tick, vars, IInv, TypeOK
<1>2. QED
  BY <1>1
  DEF IInv, TypeOK, StoreTypeOK, FreshIds, FiledIsStored, FiledAsStarted, HeldWhileRunning,
      KeyIndexExact, NoOrphanedJob, OnlyLiveJobsRun, ResultMatchesStatus, Stored, IsTerminal

(* Every step keeps it.                                                    *)
LEMMA NextKeepsIInv == IInv /\ [Next]_vars => IInv'
<1>1. SUFFICES ASSUME IInv, [Next]_vars PROVE IInv'
  OBVIOUS
<1>2. ASSUME NEW j \in JobIds, NEW k \in Keys \cup {None}, CreateJob(j, k) PROVE IInv'
  BY <1>1, <1>2, CreateJobKeepsIInv
<1>3. ASSUME NEW j \in JobIds, CancelJob(j) PROVE IInv'
  BY <1>1, <1>3, CancelJobKeepsIInv
<1>4. ASSUME NEW j \in JobIds, RunSettles(j) PROVE IInv'
  BY <1>1, <1>4, RunSettlesKeepsIInv
<1>5. ASSUME NEW j \in JobIds, ExecuteReported(j) PROVE IInv'
  BY <1>1, <1>5, ExecuteReportedKeepsIInv
<1>6. ASSUME NEW j \in JobIds, ExecuteRejected(j) PROVE IInv'
  BY <1>1, <1>6, ExecuteRejectedKeepsIInv
<1>7. CASE Tick \/ UNCHANGED vars
  BY <1>1, <1>7, QuietStepKeepsIInv
<1>8. QED
  BY <1>1, <1>2, <1>3, <1>4, <1>5, <1>6, <1>7 DEF Next

(* Every reachable state has it.                                           *)
LEMMA SpecIInv == Spec => []IInv
BY InitIInv, NextKeepsIInv, PTL DEF Spec
---------------------------------------------------------------------------------
(* The store is well typed in every reachable state.                       *)
THEOREM TypeCorrect == Spec => []TypeOK
<1>1. IInv => TypeOK
  BY DEF IInv
<1>2. QED
  BY <1>1, SpecIInv, PTL

(* One key never names two remembered jobs, whatever the sweeps did.       *)
THEOREM KeyIndexAlwaysExact == Spec => []KeyIndexExact
<1>1. IInv => KeyIndexExact
  BY DEF IInv
<1>2. QED
  BY <1>1, SpecIInv, PTL

(* No unfinished job is ever left without an execute() to finish it.       *)
THEOREM NeverOrphaned == Spec => []NoOrphanedJob
<1>1. IInv => NoOrphanedJob
  BY DEF IInv
<1>2. QED
  BY <1>1, SpecIInv, PTL

(* A run whose job is over has been told to stop.                          *)
THEOREM CancelledRunsAreStopped == Spec => []OnlyLiveJobsRun
<1>1. IInv => OnlyLiveJobsRun
  BY DEF IInv
<1>2. QED
  BY <1>1, SpecIInv, PTL

(* A job carries the result its final status announces.                    *)
THEOREM ResultsMatch == Spec => []ResultMatchesStatus
<1>1. IInv => ResultMatchesStatus
  BY DEF IInv
<1>2. QED
  BY <1>1, SpecIInv, PTL

(* Of the runs ever started for one delivery, of jobs still stored or      *)
(* swept since, at most one is still live.                                 *)
THEOREM OneReviewPerDelivery == Spec => []OneLiveRunPerKey
<1>1. ASSUME IInv PROVE OneLiveRunPerKey
  <2>1. SUFFICES ASSUME NEW i \in JobIds, NEW j \in JobIds,
                        inFlight[i] = "live", inFlight[j] = "live",
                        startedFor[i] = startedFor[j], startedFor[i] # None
                 PROVE  i = j
    BY DEF OneLiveRunPerKey
  <2>2. Stored(i) /\ Stored(j) /\ startedFor[i] \in Keys
    BY <1>1, <2>1 DEF IInv, TypeOK, OnlyLiveJobsRun, Stored
  <2>3. keyOf[i] = startedFor[i] /\ keyOf[j] = startedFor[i]
    BY <1>1, <2>1, <2>2 DEF IInv, FiledAsStarted
  <2>4. byKey[startedFor[i]] = i /\ byKey[startedFor[i]] = j
    BY <1>1, <2>2, <2>3 DEF IInv, KeyIndexExact
  <2>5. QED
    BY <2>4
<1>2. QED
  BY <1>1, SpecIInv, PTL

(* What one step may do to one job, action by action.                      *)
LEMMA JobStep ==
  ASSUME IInv, [Next]_vars, NEW j \in JobIds
  PROVE  \/ jobs'[j] = jobs[j]
         \/ Expired(j, now) /\ jobs'[j] = NoJob
         \/ ~IsTerminal(j) /\ Stored(j)'
<1>1. ASSUME NEW i \in JobIds, NEW k \in Keys \cup {None}, CreateJob(i, k)
      PROVE  \/ jobs'[j] = jobs[j]
             \/ Expired(j, now) /\ jobs'[j] = NoJob
             \/ ~IsTerminal(j) /\ Stored(j)'
  <2>1. CASE i = j
    <3>1. jobs[j] = NoJob
      BY <1>1, <2>1 DEF CreateJob, IInv, FreshIds
    <3>2. jobs'[j].status = "running"
      BY <1>1, <2>1, CreateJobEffect
    <3>3. ~IsTerminal(j)
      BY <3>1 DEF NoJob, IsTerminal, Terminal, ReportStatus
    <3>4. QED
      BY <3>2, <3>3 DEF Stored
  <2>2. CASE i # j
    BY <1>1, <2>2, CreateJobEffect
  <2>3. QED
    BY <2>1, <2>2
<1>2. ASSUME NEW i \in JobIds, NEW job \in Job, job.status # "absent",
             Update(i, job), ~IsTerminal(i)
      PROVE  \/ jobs'[j] = jobs[j]
             \/ ~IsTerminal(j) /\ Stored(j)'
  <2>1. jobs'[i] = job /\ \A m \in JobIds : m # i => jobs'[m] = jobs[m]
    BY <1>2, UpdateKeepsStore
  <2>2. QED
    BY <1>2, <2>1 DEF Stored
<1>3. ASSUME NEW i \in JobIds, CancelJob(i)
      PROVE  jobs'[j] = jobs[j] \/ (~IsTerminal(j) /\ Stored(j)')
  <2> DEFINE job == [status |-> "cancelled", completedAt |-> now, result |-> jobs[i].result]
  <2>1. job \in Job /\ job.status # "absent"
    BY DEF IInv, TypeOK, StoreTypeOK, Job, JobStatus, Terminal
  <2>2. Update(i, job) /\ ~IsTerminal(i)
    BY <1>3 DEF CancelJob
  <2> HIDE DEF job
  <2>3. QED
    BY <1>2, <2>1, <2>2
<1>4. ASSUME NEW i \in JobIds, NEW status \in ReportStatus, NEW result \in {"report", "error"},
             Finish(i, status, result)
      PROVE  jobs'[j] = jobs[j] \/ (~IsTerminal(j) /\ Stored(j)')
  <2> DEFINE job == [status |-> status, completedAt |-> now, result |-> result]
  <2>1. job \in Job /\ job.status # "absent"
    BY DEF IInv, TypeOK, Job, JobStatus, Terminal, ReportStatus
  <2>2. \/ Update(i, job) /\ ~IsTerminal(i)
        \/ UNCHANGED storeVars
    BY <1>4 DEF Finish
  <2> HIDE DEF job
  <2>3. QED
    BY <1>2, <2>1, <2>2 DEF storeVars
<1>5. ASSUME NEW i \in JobIds, ExecuteReported(i) \/ ExecuteRejected(i)
      PROVE  jobs'[j] = jobs[j] \/ (~IsTerminal(j) /\ Stored(j)')
  BY <1>4, <1>5 DEF ExecuteReported, ExecuteRejected, storeVars, ReportStatus
<1>6. CASE \/ \E i \in JobIds : RunSettles(i)
           \/ Tick
           \/ UNCHANGED vars
  BY <1>6 DEF RunSettles, Tick, vars
<1>7. QED
  BY <1>1, <1>3, <1>5, <1>6 DEF Next

(* A finished job is never rewritten, only swept.                          *)
THEOREM FinishedJobsNeverChange == Spec => TerminalIsFinal
<1>1. IInv /\ [Next]_vars =>
        [\A j \in JobIds : IsTerminal(j) => jobs'[j] \in {jobs[j], NoJob}]_vars
  BY JobStep
<1>2. QED
  BY <1>1, SpecIInv, PTL DEF Spec, TerminalIsFinal

(* A job disappears only after its retention, and then at the next insert. *)
THEOREM RetentionHonoured == Spec => SweptOnlyWhenExpired
<1>1. ASSUME IInv, [Next]_vars, NEW j \in JobIds
      PROVE  /\ Stored(j) /\ ~Stored(j)' => Expired(j, now)
             /\ issued' # issued /\ Expired(j, now) => ~Stored(j)'
  <2>1. Stored(j) /\ ~Stored(j)' => Expired(j, now)
    BY <1>1, JobStep DEF Stored
  <2>2. ASSUME issued' # issued, Expired(j, now) PROVE ~Stored(j)'
    <3>1. PICK i \in JobIds, k \in Keys \cup {None} : CreateJob(i, k)
      BY <1>1, <2>2
      DEF Next, CancelJob, RunSettles, ExecuteReported, ExecuteRejected, Settled, Tick, vars
    <3>2. i # j
      BY <1>1, <2>2, <3>1
      DEF CreateJob, IInv, FreshIds, Expired, IsTerminal, Terminal, ReportStatus, NoJob
    <3>3. QED
      BY <1>1, <2>2, <3>1, <3>2, CreateJobEffect DEF Stored, NoJob
  <2>3. QED
    BY <2>1, <2>2
<1>2. ASSUME IInv, NEW j \in JobIds
      PROVE  Expired(j, now) <=> IsTerminal(j) /\ now - jobs[j].completedAt >= RetentionMs
  <2>1. jobs[j].completedAt \in Nat /\ now \in Nat
    BY <1>2 DEF IInv, TypeOK, StoreTypeOK, Job
  <2>2. QED
    BY <2>1, StoreAssumption DEF Expired
<1>3. IInv /\ [Next]_vars =>
        [\A j \in JobIds :
           LET old == IsTerminal(j) /\ now - jobs[j].completedAt >= RetentionMs
           IN  /\ Stored(j) /\ ~Stored(j)' => old
               /\ issued' # issued /\ old => ~Stored(j)']_vars
  BY <1>1, <1>2
<1>4. QED
  BY <1>3, SpecIInv, PTL DEF Spec, SweptOnlyWhenExpired
---------------------------------------------------------------------------------
(* An empty store shows no job.                                            *)
LEMMA InitImplementsLife == Init => Life!LifeInit
BY DEF Init, StoreInit, Life!LifeInit, observed, Stored, NoJob

(* A new job is an Accept that drops the expired ones.                     *)
LEMMA CreateJobIsAccept ==
  ASSUME NEW j \in JobIds, NEW k \in Keys \cup {None}, IInv, CreateJob(j, k)
  PROVE  Life!Accept(j, k, {i \in JobIds : Expired(i, now)})
<1> DEFINE F == {i \in JobIds : Expired(i, now)}
<1>1. jobs[j] = NoJob /\ j \notin issued /\ issued' = issued \cup {j}
  BY DEF CreateJob, IInv, FreshIds
<1>2. observed[j] = "unborn"
  BY <1>1 DEF observed, Stored, NoJob
<1>3. \A f \in F : observed[f] \in Life!Finished
  BY DEF observed, Expired, IsTerminal, Stored, Terminal, ReportStatus, Life!Finished, Life!Closed
<1>4. \A i \in F : Stored(i) /\ i # j
  BY <1>1 DEF Expired, IsTerminal, Stored, Terminal, ReportStatus, NoJob
<1>5. observed' = [i \in JobIds |-> IF i = j THEN "running"
                                    ELSE IF i \in F THEN "forgotten" ELSE observed[i]]
  <2>1. SUFFICES ASSUME NEW i \in JobIds
                 PROVE  observed'[i] = IF i = j THEN "running"
                                       ELSE IF i \in F THEN "forgotten" ELSE observed[i]
    BY DEF observed
  <2>2. CASE i = j
    BY <2>2, CreateJobEffect DEF observed, Stored
  <2>3. CASE i # j /\ i \in F
    <3>1. i \in issued
      BY <1>4, <2>3 DEF IInv, FreshIds, Stored, NoJob
    <3>2. ~Stored(i)'
      BY <2>3, CreateJobEffect DEF Stored, NoJob
    <3>3. QED
      BY <1>1, <2>3, <3>1, <3>2 DEF observed
  <2>4. CASE i # j /\ i \notin F
    <3>1. jobs'[i] = jobs[i]
      BY <2>4, CreateJobEffect
    <3>2. QED
      BY <1>1, <2>4, <3>1 DEF observed, Stored
  <2>5. QED
    BY <2>2, <2>3, <2>4
<1>6. k # None => byKey[k] = None
  <2>1. ASSUME k # None PROVE byKey[k] = None
    <3>1. FindByIdempotencyKey(k) = None /\ byKey[k] \in JobIds \cup {None}
      BY <2>1 DEF CreateJob, IInv, TypeOK, StoreTypeOK
    <3>2. byKey[k] # None => Stored(byKey[k])
      BY <2>1, <3>1 DEF IInv, KeyIndexExact
    <3>3. QED
      BY <3>1, <3>2 DEF FindByIdempotencyKey
  <2>2. QED
    BY <2>1
<1>7. \A n \in Keys : SweptKey(n, now) <=> byKey[n] \in F
  <2>1. SUFFICES ASSUME NEW n \in Keys PROVE SweptKey(n, now) <=> byKey[n] \in F
    OBVIOUS
  <2>2. \A i \in JobIds : byKey[n] = i <=> (keyOf[i] = n /\ Stored(i))
    BY DEF IInv, KeyIndexExact
  <2>3. QED
    BY <1>4, <2>2 DEF SweptKey
<1>8. byKey' = [n \in Keys |-> IF n = k THEN j ELSE IF byKey[n] \in F THEN None ELSE byKey[n]]
  BY <1>7 DEF CreateJob, Insert
<1>9. "running" \in Life!Live
  BY DEF Life!Live
<1> HIDE DEF F
<1>10. Life!Accept(j, k, F)
  BY <1>2, <1>3, <1>5, <1>6, <1>8, <1>9 DEF Life!Accept
<1>11. QED
  BY <1>10 DEF F

(* Writing a stored job is one move of its observed status.                *)
LEMMA UpdateIsMove ==
  ASSUME NEW j \in JobIds, NEW job \in Job, job.status # "absent", IInv, Update(j, job),
         UNCHANGED issued
  PROVE  observed' = [observed EXCEPT ![j] = job.status] /\ observed[j] = jobs[j].status
<1>1. jobs'[j] = job /\ Stored(j) /\ \A i \in JobIds : i # j => jobs'[i] = jobs[i]
  BY UpdateKeepsStore
<1>2. QED
  BY <1>1 DEF observed, Stored

(* Finishing closes a live job, and leaves a finished one.                 *)
LEMMA FinishIsClose ==
  ASSUME NEW j \in JobIds, IInv, UNCHANGED issued,
         NEW status \in ReportStatus, NEW result \in {"report", "error"},
         Finish(j, status, result)
  PROVE  Life!Close(j) \/ UNCHANGED <<observed, byKey>>
<1>1. CASE Stored(j) /\ ~IsTerminal(j)
  <2> DEFINE job == [status |-> status, completedAt |-> now, result |-> result]
  <2>1. Update(j, job) /\ jobs[j].status = "running"
    BY <1>1 DEF Finish, IInv, NoOrphanedJob, OnlyLiveJobsRun
  <2>2. job \in Job /\ job.status # "absent" /\ job.status \in ReportStatus
    BY DEF IInv, TypeOK, Job, JobStatus, Terminal, ReportStatus
  <2> HIDE DEF job
  <2>3. observed' = [observed EXCEPT ![j] = job.status] /\ observed[j] = "running"
    BY <2>1, <2>2, UpdateIsMove
  <2>4. Life!Close(j)
    BY <2>1, <2>2, <2>3 DEF Update, ReportStatus, Life!Close, Life!Move, Life!Closed
  <2>5. QED
    BY <2>4
<1>2. CASE ~(Stored(j) /\ ~IsTerminal(j))
  BY <1>2 DEF Finish, storeVars, observed, Stored
<1>3. QED
  BY <1>1, <1>2

(* A cancel is one, or changes nothing that is seen.                       *)
LEMMA CancelJobIsCancel ==
  ASSUME NEW j \in JobIds, IInv, CancelJob(j)
  PROVE  Life!Cancel(j)
<1> DEFINE job == [status |-> "cancelled", completedAt |-> now, result |-> jobs[j].result]
<1>1. Update(j, job) /\ jobs[j].status = "running" /\ UNCHANGED issued
  BY DEF CancelJob, IInv, NoOrphanedJob, OnlyLiveJobsRun
<1>2. job \in Job /\ job.status = "cancelled"
  BY DEF IInv, TypeOK, StoreTypeOK, Job, JobStatus, Terminal
<1> HIDE DEF job
<1>3. observed' = [observed EXCEPT ![j] = "cancelled"] /\ observed[j] = "running"
  BY <1>1, <1>2, UpdateIsMove
<1>4. QED
  BY <1>1, <1>3 DEF Update, Life!Cancel, Life!Move, Life!Live

(* Every step is a step of the life cycle, or shows nothing.               *)
LEMMA NextImplementsLife == IInv /\ [Next]_vars => [Life!LifeNext]_<<observed, byKey>>
<1>1. SUFFICES ASSUME IInv, [Next]_vars PROVE [Life!LifeNext]_<<observed, byKey>>
  OBVIOUS
<1>2. ASSUME NEW j \in JobIds, NEW k \in Keys \cup {None}, CreateJob(j, k) PROVE Life!LifeNext
  <2>1. {i \in JobIds : Expired(i, now)} \in SUBSET JobIds
    OBVIOUS
  <2>2. QED
    BY <1>1, <1>2, <2>1, CreateJobIsAccept DEF Life!LifeNext
<1>3. ASSUME NEW j \in JobIds, CancelJob(j) PROVE Life!LifeNext
  BY <1>1, <1>3, CancelJobIsCancel DEF Life!LifeNext
<1>4. ASSUME NEW j \in JobIds, ExecuteReported(j) \/ ExecuteRejected(j)
      PROVE  Life!LifeNext \/ UNCHANGED <<observed, byKey>>
  <2>1. UNCHANGED issued
    BY <1>4 DEF ExecuteReported, ExecuteRejected, Settled
  <2>2. \/ \E s \in ReportStatus, r \in {"report", "error"} : Finish(j, s, r)
        \/ UNCHANGED storeVars
    BY <1>4 DEF ExecuteReported, ExecuteRejected, ReportStatus
  <2>3. Life!Close(j) \/ UNCHANGED <<observed, byKey>>
    BY <1>1, <2>1, <2>2, FinishIsClose DEF storeVars, observed, Stored
  <2>4. QED
    BY <2>3 DEF Life!LifeNext
<1>5. CASE \/ \E j \in JobIds : RunSettles(j)
           \/ Tick
           \/ UNCHANGED vars
  BY <1>5 DEF RunSettles, Tick, vars, observed, Stored
<1>6. QED
  BY <1>1, <1>2, <1>3, <1>4, <1>5 DEF Next

(* Whatever the clients, the runs and the clock do, a poll observes the    *)
(* life the design promises (the safety part of ImplementsLifecycle).      *)
THEOREM ImplementsLifecycleSafety == Spec => Life!LifeSafety
<1>1. QED
  BY InitImplementsLife, NextImplementsLife, SpecIInv, PTL
  DEF Spec, Life!LifeSafety, Life!lifeVars
---------------------------------------------------------------------------------

(* A handler that has not listed the files has made no call.               *)
NoCallYet == \A h \in Handlers : hook[h] \in {"idle", "listing"} => call[h] = NoCall

(* An answer names a job the orchestrator issued.                          *)
AnswersNameJobs ==
  \A h \in Handlers : /\ call[h].created => call[h].at = "answered"
                      /\ call[h].at = "answered" => call[h].job \in issued

(* One answer at most says that a job is new.                              *)
OneCreator ==
  \A g, h \in Handlers :
    call[g].created /\ call[h].created /\ call[g].job = call[h].job => g = h

(* A publisher follows a job its own request created.                      *)
PublishersCreated == \A h \in Handlers : pub[h] # "none" => call[h].created

(* What a poll learnt of a completed job stays true.                       *)
SeenIsFinal ==
  \A h \in Handlers : seen[h] = "completed" =>
    pub[h] # "none" /\ jobs[call[h].job].status \in {"completed", "absent"}

(* Until the last step the Check Run is open; a green one is a completed   *)
(* review's.                                                               *)
Commenting == {"posting", "one_by_one"}
Following  == {"none", "creating", "polling", "completing"} \cup Commenting
OpenUntilSeen ==
  \A h \in Handlers :
    /\ check[h] = "success" => seen[h] = "completed"
    /\ pub[h] \in Following => check[h] \notin Concluded

(* Comments are posted in two states, for a job with a report.             *)
PostedBy ==
  \A h \in Handlers :
    /\ pub[h] \in {"none", "creating", "polling"} \cup Commenting => comments[h] = 0
    /\ pub[h] \in Commenting => seen[h] \in ReportStatus

(* A publisher posts once, for a job with a report.                        *)
PostedOnce ==
  \A h \in Handlers : comments[h] <= 1 /\ (comments[h] > 0 => seen[h] \in ReportStatus)

(* The strengthening that is inductive.                                    *)
PRIInv ==
  /\ IInv /\ PRTypeOK
  /\ NoCallYet /\ AnswersNameJobs /\ OneCreator /\ PublishersCreated
  /\ SeenIsFinal /\ OpenUntilSeen
  /\ PostedBy /\ PostedOnce
---------------------------------------------------------------------------------
(* Nothing has been asked or published yet.                                *)
LEMMA PRInitInv == PRInit => PRIInv
<1>1. SUFFICES ASSUME PRInit PROVE PRIInv
  OBVIOUS
<1>2. IInv
  BY <1>1, InitIInv DEF PRInit
<1>3. NoCall \in [at : {"none", "in_flight", "answered"},
                  job : JobIds \cup {None}, created : BOOLEAN]
  BY DEF NoCall
<1>4. PRTypeOK
  BY <1>1, <1>2, <1>3, GatewayAssumption DEF PRInit, PRTypeOK, IInv, HookState, PubState
<1>5. NoCallYet /\ AnswersNameJobs /\ OneCreator /\ PublishersCreated
  BY <1>1 DEF PRInit, NoCallYet, AnswersNameJobs, OneCreator, PublishersCreated, NoCall
<1>6. SeenIsFinal /\ OpenUntilSeen /\ PostedBy /\ PostedOnce
  BY <1>1
  DEF PRInit, SeenIsFinal, OpenUntilSeen, PostedBy, PostedOnce, Concluded, Commenting
<1>7. QED
  BY <1>2, <1>4, <1>5, <1>6 DEF PRIInv

(* The orchestrator's part of a step: jobs advance as ReviewJobs says, or  *)
(* are all forgotten; what a poll learnt of a finished job stays true.     *)
Remembered ==
  /\ IInv' /\ issued \subseteq issued'
  /\ \A j \in issued : jobs[j].status \in {"completed", "absent"}
                         => jobs'[j].status \in {"completed", "absent"}

(* A job that was swept does not come back under its id.                   *)
LEMMA GoneStaysGone ==
  ASSUME IInv, [Next]_vars, NEW j \in issued, ~Stored(j)
  PROVE  ~Stored(j)'
<1>1. j \in JobIds /\ jobs[j].status = "absent"
  BY DEF IInv, TypeOK, Stored
<1>2. ASSUME NEW i \in JobIds, NEW k \in Keys \cup {None}, CreateJob(i, k) PROVE ~Stored(j)'
  <2>1. i # j
    BY <1>2 DEF CreateJob
  <2>2. jobs'[j] = IF Expired(j, now) THEN NoJob ELSE jobs[j]
    BY <1>1, <1>2, <2>1, CreateJobEffect
  <2>3. QED
    BY <1>1, <2>2 DEF Stored, NoJob
<1>3. ASSUME NEW i \in JobIds, CancelJob(i) \/ ExecuteReported(i) \/ ExecuteRejected(i)
      PROVE  ~Stored(j)'
  <2>1. \/ UNCHANGED jobs
        \/ Stored(i) /\ \E job : jobs' = [jobs EXCEPT ![i] = job]
    BY <1>3 DEF CancelJob, ExecuteReported, ExecuteRejected, Finish, Update, storeVars
  <2>2. jobs'[j] = jobs[j]
    BY <1>1, <2>1 DEF IInv, TypeOK, StoreTypeOK, Stored
  <2>3. QED
    BY <2>2 DEF Stored
<1>4. CASE (\E i \in JobIds : RunSettles(i)) \/ Tick \/ UNCHANGED vars
  BY <1>4 DEF RunSettles, Tick, vars, Stored
<1>5. QED
  BY <1>2, <1>3, <1>4 DEF Next

(* A step of the controller shows a finished job as it was, or no more.    *)
LEMMA NextRemembers ==
  ASSUME IInv, [Next]_vars
  PROVE  Remembered
<1>1. IInv'
  BY NextKeepsIInv
<1>2. issued \subseteq issued'
  BY DEF Next, CreateJob, CancelJob, RunSettles, ExecuteReported, ExecuteRejected, Settled, Tick, vars
<1>3. ASSUME NEW j \in issued, jobs[j].status \in {"completed", "absent"}
      PROVE  jobs'[j].status \in {"completed", "absent"}
  <2>1. j \in JobIds
    BY DEF IInv, TypeOK
  <2>2. CASE jobs[j].status = "completed"
    BY <2>1, <2>2, JobStep DEF IsTerminal, Terminal, ReportStatus, NoJob
  <2>3. CASE jobs[j].status = "absent"
    BY <2>3, GoneStaysGone DEF Stored
  <2>4. QED
    BY <1>3, <2>2, <2>3
<1>4. QED
  BY <1>1, <1>2, <1>3 DEF Remembered

(* After a restart every job is gone, and none is another.                 *)
LEMMA RestartRemembers ==
  ASSUME IInv, OrchestratorRestart
  PROVE  Remembered
<1>1. /\ jobs' = [j \in JobIds |-> NoJob]
      /\ byKey' = [k \in Keys |-> None]
      /\ keyOf' = [j \in JobIds |-> None]
      /\ inFlight' = [j \in JobIds |-> "absent"]
      /\ run' = [j \in JobIds |-> "none"]
      /\ now' = now /\ issued' = issued /\ startedFor' = startedFor
  BY DEF OrchestratorRestart
<1>2. TypeOK'
  BY <1>1 DEF IInv, TypeOK, StoreTypeOK, NoJob, Job, JobStatus, RunState
<1>3. FreshIds' /\ FiledIsStored' /\ FiledAsStarted' /\ HeldWhileRunning' /\ KeyIndexExact'
  BY StoreAssumption, <1>1
  DEF FreshIds, FiledIsStored, FiledAsStarted, HeldWhileRunning, KeyIndexExact, Stored, NoJob
<1>4. NoOrphanedJob' /\ OnlyLiveJobsRun' /\ ResultMatchesStatus'
  BY <1>1 DEF NoOrphanedJob, OnlyLiveJobsRun, ResultMatchesStatus, Stored, NoJob
<1>5. IInv'
  BY <1>2, <1>3, <1>4 DEF IInv
<1>6. \A j \in issued : jobs'[j].status = "absent"
  BY <1>1 DEF IInv, TypeOK, NoJob
<1>7. QED
  BY <1>1, <1>5, <1>6 DEF Remembered

(* While the orchestrator moves alone, the gateway's invariants hold on.   *)
LEMMA OrchestratorKeepsInv ==
  ASSUME PRIInv, Remembered, UNCHANGED gatewayVars
  PROVE  PRIInv'
<1>1. UNCHANGED <<hook, call, pub, polls, seen, check, known, comments>>
  BY DEF gatewayVars
<1>2. IInv' /\ TypeOK'
  BY DEF Remembered, IInv
<1>3. PRTypeOK'
  BY <1>1, <1>2 DEF PRIInv, PRTypeOK
<1>4. NoCallYet' /\ AnswersNameJobs' /\ OneCreator' /\ PublishersCreated'
  BY <1>1 DEF PRIInv, Remembered, NoCallYet, AnswersNameJobs, OneCreator, PublishersCreated
<1>5. SeenIsFinal'
  BY <1>1 DEF PRIInv, Remembered, SeenIsFinal, AnswersNameJobs, PublishersCreated
<1>6. OpenUntilSeen' /\ PostedBy' /\ PostedOnce'
  BY <1>1 DEF PRIInv, OpenUntilSeen, PostedBy, PostedOnce
<1>7. QED
  BY <1>2, <1>3, <1>4, <1>5, <1>6 DEF PRIInv
---------------------------------------------------------------------------------
(* Steps of a webhook handler.                                             *)
LEMMA UnchangedKeepsIInv ==
  ASSUME IInv, UNCHANGED vars
  PROVE  Remembered
BY NextRemembers

(* A handler's own steps tell no job, and publish nothing.                 *)
LEMMA HookStepsKeepInv ==
  ASSUME PRIInv, NEW h \in Handlers,
         Receive(h) \/ FilesListed(h) \/ ResponseArrives(h) \/ CallFails(h)
  PROVE  PRIInv'
<1>1. UNCHANGED vars /\ UNCHANGED <<polls, seen, check, known, comments>>
  BY DEF Receive, FilesListed, ResponseArrives, CallFails
<1>2. IInv' /\ TypeOK' /\ UNCHANGED <<jobs, issued>>
  BY <1>1, UnchangedKeepsIInv DEF PRIInv, Remembered, IInv, vars
<1>3. CASE Receive(h)
  <2>1. UNCHANGED <<call, pub>> /\ hook[h] = "idle"
        /\ \E s \in {"listing", "ignored"} : hook' = [hook EXCEPT ![h] = s]
    BY <1>3 DEF Receive, Hook
  <2>2. PRTypeOK'
    BY <1>1, <1>2, <2>1 DEF PRIInv, PRTypeOK, HookState, Answered
  <2>3. NoCallYet'
    BY <2>1 DEF PRIInv, PRTypeOK, NoCallYet
  <2>4. QED
    BY <1>1, <1>2, <2>1, <2>2, <2>3
    DEF PRIInv, AnswersNameJobs, OneCreator, PublishersCreated, SeenIsFinal, OpenUntilSeen,
        PostedBy, PostedOnce
<1>4. CASE FilesListed(h)
  <2>1. UNCHANGED pub /\ hook[h] = "listing"
        /\ \E s \in {"calling", "ignored", "failed"} : hook' = [hook EXCEPT ![h] = s]
    BY <1>4 DEF FilesListed, Hook
  <2>2. UNCHANGED call \/ call' = [call EXCEPT ![h].at = "in_flight"]
    BY <1>4 DEF FilesListed
  <2>3. call[h] = NoCall
    BY <2>1 DEF PRIInv, NoCallYet
  <2> DEFINE c == [call[h] EXCEPT !.at = "in_flight"]
  <2>4. UNCHANGED call \/ call' = [call EXCEPT ![h] = c]
    BY <2>2
  <2>5. /\ c \in [at : {"none", "in_flight", "answered"},
                 job : JobIds \cup {None}, created : BOOLEAN]
        /\ c.at = "in_flight" /\ c.created = call[h].created
    BY DEF PRIInv, PRTypeOK
  <2> HIDE DEF c
  <2>6. call' \in [Handlers -> [at : {"none", "in_flight", "answered"},
                                job : JobIds \cup {None}, created : BOOLEAN]]
    BY <2>4, <2>5 DEF PRIInv, PRTypeOK
  <2>7. PRTypeOK'
    <3>1. hook' \in [Handlers -> HookState]
      BY <2>1 DEF PRIInv, PRTypeOK, HookState, Answered
    <3>2. QED
      BY <1>1, <1>2, <2>1, <2>6, <3>1 DEF PRIInv, PRTypeOK
  <2>8. /\ ~call[h].created /\ ~call'[h].created /\ call'[h].at # "answered"
        /\ \A g \in Handlers : g # h => call'[g] = call[g]
    <3>1. call[h].created = FALSE /\ call[h].at = "none" /\ c.created = FALSE
      BY <2>3, <2>5 DEF NoCall
    <3>2. /\ call'[h] \in {call[h], c}
          /\ \A g \in Handlers : g # h => call'[g] = call[g]
      BY <2>4 DEF PRIInv, PRTypeOK
    <3>3. QED
      BY <2>5, <3>1, <3>2
  <2>9. NoCallYet'
    BY <2>1, <2>8 DEF PRIInv, PRTypeOK, NoCallYet
  <2>10. AnswersNameJobs' /\ OneCreator' /\ PublishersCreated'
    BY <1>2, <2>1, <2>8 DEF PRIInv, AnswersNameJobs, OneCreator, PublishersCreated
  <2>11. SeenIsFinal'
    BY <1>1, <1>2, <2>1, <2>8 DEF PRIInv, SeenIsFinal, PublishersCreated
  <2>12. OpenUntilSeen' /\ PostedBy' /\ PostedOnce'
    BY <1>1, <2>1 DEF PRIInv, OpenUntilSeen, PostedBy, PostedOnce
  <2>13. QED
    BY <1>2, <2>7, <2>9, <2>10, <2>11, <2>12 DEF PRIInv
<1>5. CASE ResponseArrives(h)
  <2>1. UNCHANGED call /\ hook[h] = "calling"
        /\ \E s \in {"started", "duplicate"} : hook' = [hook EXCEPT ![h] = s]
    BY <1>5 DEF ResponseArrives, Hook
  <2>2. \/ UNCHANGED pub
        \/ call[h].created /\ pub[h] = "none" /\ pub' = [pub EXCEPT ![h] = "creating"]
    BY <1>5 DEF ResponseArrives, Pub
  <2>3. PRTypeOK'
    BY <1>1, <1>2, <2>1, <2>2 DEF PRIInv, PRTypeOK, HookState, PubState, Answered
  <2>4. \A g \in Handlers :
          \/ pub'[g] = pub[g]
          \/ pub[g] = "none" /\ pub'[g] = "creating" /\ call[g].created
    BY <2>2 DEF PRIInv, PRTypeOK
  <2>5. NoCallYet'
    BY <2>1 DEF PRIInv, PRTypeOK, NoCallYet
  <2>6. AnswersNameJobs' /\ OneCreator' /\ PublishersCreated'
    BY <1>2, <2>1, <2>4 DEF PRIInv, AnswersNameJobs, OneCreator, PublishersCreated
  <2>7. SeenIsFinal'
    BY <1>1, <1>2, <2>1, <2>4 DEF PRIInv, SeenIsFinal
  <2>8. OpenUntilSeen' /\ PostedBy' /\ PostedOnce'
    BY <1>1, <2>4 DEF PRIInv, OpenUntilSeen, PostedBy, PostedOnce, Commenting, Following
  <2>9. QED
    BY <1>2, <2>3, <2>5, <2>6, <2>7, <2>8 DEF PRIInv
<1>6. CASE CallFails(h)
  <2>1. UNCHANGED <<call, pub>> /\ hook[h] = "calling"
        /\ hook' = [hook EXCEPT ![h] = "unavailable"]
    BY <1>6 DEF CallFails, Hook
  <2>2. PRTypeOK'
    BY <1>1, <1>2, <2>1 DEF PRIInv, PRTypeOK, HookState, Answered
  <2>3. NoCallYet'
    BY <2>1 DEF PRIInv, PRTypeOK, NoCallYet
  <2>4. QED
    BY <1>1, <1>2, <2>1, <2>2, <2>3
    DEF PRIInv, AnswersNameJobs, OneCreator, PublishersCreated, SeenIsFinal, OpenUntilSeen,
        PostedBy, PostedOnce
<1>7. QED
  BY <1>3, <1>4, <1>5, <1>6

(* The orchestrator answers with a job: one it issues in this very step if *)
(* the answer says that the job is new.                                    *)
LEMMA AnswerKeepsInv ==
  ASSUME PRIInv, Remembered, NEW h \in Handlers, call[h].at = "in_flight",
         NEW j \in JobIds, NEW new \in BOOLEAN, CallAnswered(h, j, new),
         j \in issued', new => j \notin issued,
         UNCHANGED <<hook, pub, polls, seen, check, known, comments>>
  PROVE  PRIInv'
<1> DEFINE c == [at |-> "answered", job |-> j, created |-> new]
<1>1. /\ c \in [at : {"none", "in_flight", "answered"},
                job : JobIds \cup {None}, created : BOOLEAN]
      /\ c.at = "answered" /\ c.job = j /\ c.created = new
  OBVIOUS
<1>2. call' = [call EXCEPT ![h] = c]
  BY DEF CallAnswered
<1> HIDE DEF c
<1>3. call'[h] = c /\ \A g \in Handlers : g # h => call'[g] = call[g]
  BY <1>2 DEF PRIInv, PRTypeOK
<1>4. IInv' /\ TypeOK'
  BY DEF Remembered, IInv
<1>5. call' \in [Handlers -> [at : {"none", "in_flight", "answered"},
                              job : JobIds \cup {None}, created : BOOLEAN]]
  BY <1>1, <1>2 DEF PRIInv, PRTypeOK
<1>6. PRTypeOK'
  BY <1>4, <1>5 DEF PRIInv, PRTypeOK
<1>7. ~call[h].created
  BY DEF PRIInv, AnswersNameJobs
<1>8. pub[h] = "none"
  BY <1>7 DEF PRIInv, PublishersCreated
<1>9. call[h] # NoCall
  BY DEF NoCall
<1>10. NoCallYet'
  BY <1>3, <1>9 DEF PRIInv, NoCallYet
<1>11. AnswersNameJobs'
  BY <1>1, <1>3 DEF PRIInv, AnswersNameJobs, Remembered
<1>12. OneCreator'
  <2>1. SUFFICES ASSUME NEW f \in Handlers, NEW g \in Handlers,
                        call'[f].created, call'[g].created, call'[f].job = call'[g].job
                 PROVE  f = g
    BY DEF OneCreator
  <2>2. \A e \in Handlers : e # h /\ call[e].created => call[e].job \in issued
    BY DEF PRIInv, AnswersNameJobs
  <2>3. CASE f # h /\ g # h
    BY <1>3, <2>1, <2>3 DEF PRIInv, OneCreator
  <2>4. CASE f = h /\ g # h
    <3>1. new /\ call[g].job = j /\ call[g].created
      BY <1>1, <1>3, <2>1, <2>4
    <3>2. QED
      BY <2>2, <2>4, <3>1
  <2>5. CASE f # h /\ g = h
    <3>1. new /\ call[f].job = j /\ call[f].created
      BY <1>1, <1>3, <2>1, <2>5
    <3>2. QED
      BY <2>2, <2>5, <3>1
  <2>6. QED
    BY <2>3, <2>4, <2>5
<1>13. PublishersCreated'
  BY <1>3, <1>8 DEF PRIInv, PublishersCreated
<1>14. SeenIsFinal'
  <2>1. SUFFICES ASSUME NEW g \in Handlers, seen[g] = "completed"
                 PROVE  /\ pub[g] # "none"
                        /\ jobs'[call'[g].job].status \in {"completed", "absent"}
    BY DEF SeenIsFinal
  <2>2. pub[g] # "none" /\ jobs[call[g].job].status \in {"completed", "absent"}
    BY <2>1 DEF PRIInv, SeenIsFinal
  <2>3. call'[g] = call[g] /\ call[g].job \in issued
    BY <1>3, <1>8, <2>2 DEF PRIInv, PublishersCreated, AnswersNameJobs
  <2>4. QED
    BY <2>2, <2>3 DEF Remembered
<1>15. OpenUntilSeen' /\ PostedBy' /\ PostedOnce'
  BY DEF PRIInv, OpenUntilSeen, PostedBy, PostedOnce
<1>16. QED
  BY <1>4, <1>6, <1>10, <1>11, <1>12, <1>13, <1>14, <1>15 DEF PRIInv

(* The answer names the job of the delivery, created at most once.         *)
LEMMA CallArrivesKeepsInv ==
  ASSUME PRIInv, NEW h \in Handlers, CallArrives(h)
  PROVE  PRIInv'
<1>1. /\ call[h].at = "in_flight" /\ Delivery[h] \in Keys
      /\ UNCHANGED <<hook, pub, polls, seen, check, known, comments>>
  BY GatewayAssumption DEF CallArrives
<1> DEFINE old == FindByIdempotencyKey(Delivery[h])
<1>2. CASE old = None
  <2>1. PICK j \in JobIds : CreateJob(j, Delivery[h]) /\ CallAnswered(h, j, TRUE)
    BY <1>2 DEF CallArrives
  <2>2. Remembered
    BY <1>1, <2>1, NextRemembers DEF PRIInv, Next
  <2>3. j \notin issued /\ j \in issued'
    BY <2>1 DEF CreateJob
  <2>4. QED
    BY <1>1, <2>1, <2>2, <2>3, AnswerKeepsInv
<1>3. CASE old # None
  <2>1. CallAnswered(h, old, FALSE) /\ UNCHANGED vars
    BY <1>3 DEF CallArrives
  <2>2. Remembered
    BY <2>1, UnchangedKeepsIInv DEF PRIInv
  <2>3. old \in JobIds /\ Stored(old)
    BY <1>1, <1>3 DEF FindByIdempotencyKey, PRIInv, IInv, TypeOK, StoreTypeOK
  <2>4. old \in issued'
    BY <2>1, <2>3 DEF PRIInv, IInv, FreshIds, Stored, NoJob, vars
  <2> HIDE DEF old
  <2>5. QED
    BY <1>1, <2>1, <2>2, <2>3, <2>4, AnswerKeepsInv
<1>4. QED
  BY <1>2, <1>3
---------------------------------------------------------------------------------
(* A publisher's step concerns its own handler only: what has to be shown  *)
(* of that handler.                                                        *)
OnlyOwn(h) ==
  /\ UNCHANGED <<vars, hook, call>>
  /\ pub[h] # "none" /\ pub'[h] \in PubState \ {"none"}
  /\ \A g \in Handlers : g # h =>
       /\ pub'[g] = pub[g] /\ seen'[g] = seen[g]
       /\ check'[g] = check[g] /\ comments'[g] = comments[g]

(* A publisher that changes its own part, and that part as it may.         *)
LEMMA PubKeepsInv ==
  ASSUME PRIInv, NEW h \in Handlers, OnlyOwn(h), PRTypeOK',
         seen'[h] = "completed" => jobs[call[h].job].status \in {"completed", "absent"},
         check'[h] = "success" => seen'[h] = "completed",
         pub'[h] \in Following => check'[h] \notin Concluded,
         pub'[h] \in {"creating", "polling"} \cup Commenting => comments'[h] = 0,
         pub'[h] \in Commenting => seen'[h] \in ReportStatus,
         comments'[h] <= 1,
         comments'[h] > 0 => seen'[h] \in ReportStatus
  PROVE  PRIInv'
<1>1. UNCHANGED <<jobs, issued, hook, call>> /\ UNCHANGED vars
  BY DEF OnlyOwn, vars
<1>2. IInv'
  BY <1>1, UnchangedKeepsIInv DEF PRIInv, Remembered
<1>3. NoCallYet' /\ AnswersNameJobs' /\ OneCreator'
  BY <1>1 DEF PRIInv, NoCallYet, AnswersNameJobs, OneCreator
<1>4. PublishersCreated'
  BY <1>1 DEF PRIInv, PublishersCreated, OnlyOwn
<1>5. SeenIsFinal'
  BY <1>1 DEF PRIInv, SeenIsFinal, OnlyOwn
<1>6. OpenUntilSeen'
  BY DEF PRIInv, OpenUntilSeen, OnlyOwn
<1>7. PostedBy' /\ PostedOnce'
  BY DEF PRIInv, PostedBy, PostedOnce, OnlyOwn
<1>8. QED
  BY <1>2, <1>3, <1>4, <1>5, <1>6, <1>7 DEF PRIInv

(* The Check Run begins before a poll was answered.                        *)
LEMMA CreatingKeepsInv ==
  ASSUME PRIInv, NEW h \in Handlers, CheckCreated(h) \/ CheckCreateFails(h)
  PROVE  PRIInv'
<1>1. /\ UNCHANGED <<vars, hook, call, polls, seen, comments>>
      /\ pub[h] = "creating" /\ pub' = [pub EXCEPT ![h] = "polling"]
  BY DEF CheckCreated, CheckCreateFails, Pub
<1>2. PICK shown \in {"none", "in_progress"} : check' = [check EXCEPT ![h] = shown]
  BY DEF CheckCreated, CheckCreateFails
<1>3. known' = [known EXCEPT ![h] = TRUE] \/ known' = known
  BY DEF CheckCreated, CheckCreateFails
<1>4. PRTypeOK'
  BY <1>1, <1>2, <1>3 DEF PRIInv, PRTypeOK, TypeOK, StoreTypeOK, vars, PubState
<1>5. OnlyOwn(h) /\ check'[h] = shown /\ pub'[h] = "polling"
  BY <1>1, <1>2 DEF PRIInv, PRTypeOK, OnlyOwn, PubState
<1>6. comments'[h] = 0 /\ shown \notin Concluded
  BY <1>1, <1>2 DEF PRIInv, PostedBy, Concluded
<1>7. seen'[h] = "completed" => jobs[call[h].job].status \in {"completed", "absent"}
  BY <1>1 DEF PRIInv, SeenIsFinal
<1>8. QED
  BY <1>2, <1>4, <1>5, <1>6, <1>7, PubKeepsInv DEF Commenting, Concluded

(* What a poll learns of the job its request created.                      *)
LEMMA PollingKeepsInv ==
  ASSUME PRIInv, NEW h \in Handlers, PollFinished(h) \/ PollGone(h) \/ PollUnfinished(h)
  PROVE  PRIInv'
<1> DEFINE j == call[h].job
<1>1. UNCHANGED <<vars, hook, call, check, known, comments>> /\ pub[h] = "polling"
  BY DEF PollFinished, PollGone, PollUnfinished, Pub
<1>2. call[h].created /\ j \in issued /\ j \in JobIds
  BY <1>1 DEF PRIInv, PublishersCreated, AnswersNameJobs, IInv, TypeOK
<1>3. comments[h] = 0 /\ check[h] \notin Concluded
  BY <1>1 DEF PRIInv, PostedBy, OpenUntilSeen, Following
<1>4. "success" \in Concluded
  BY DEF Concluded
<1>5. CASE PollFinished(h)
  <2>1. /\ IsTerminal(j) /\ seen' = [seen EXCEPT ![h] = jobs[j].status] /\ UNCHANGED polls
        /\ \/ jobs[j].result = "report" /\ pub' = [pub EXCEPT ![h] = "posting"]
           \/ pub' = [pub EXCEPT ![h] = "completing"]
    BY <1>5 DEF PollFinished, Pub
  <2> HIDE DEF j
  <2>2. jobs[j].status \in Terminal
    BY <2>1 DEF IsTerminal
  <2>3. jobs[j].result = "report" => jobs[j].status \in ReportStatus
    BY <1>2, <2>2 DEF PRIInv, IInv, ResultMatchesStatus, Terminal
  <2>4. PRTypeOK'
    BY <1>1, <2>1, <2>2 DEF PRIInv, PRTypeOK, TypeOK, StoreTypeOK, vars, PubState
  <2>5. /\ OnlyOwn(h) /\ seen'[h] = jobs[j].status
        /\ \/ pub'[h] = "posting" /\ jobs[j].result = "report"
           \/ pub'[h] = "completing"
    BY <1>1, <2>1 DEF PRIInv, PRTypeOK, OnlyOwn, PubState
  <2>6. QED
    BY <1>1, <1>3, <1>4, <2>3, <2>4, <2>5, PubKeepsInv DEF Commenting, j
<1>6. CASE PollGone(h)
  <2>1. seen' = [seen EXCEPT ![h] = "gone"] /\ pub' = [pub EXCEPT ![h] = "completing"]
    BY <1>6 DEF PollGone, Pub
  <2>2. PRTypeOK'
    BY <1>1, <1>6, <2>1 DEF PollGone, PRIInv, PRTypeOK, TypeOK, StoreTypeOK, vars, PubState
  <2>3. OnlyOwn(h) /\ seen'[h] = "gone" /\ pub'[h] = "completing"
    BY <1>1, <2>1 DEF PRIInv, PRTypeOK, OnlyOwn, PubState
  <2>4. QED
    BY <1>1, <1>3, <1>4, <2>2, <2>3, PubKeepsInv DEF Commenting
<1>7. CASE PollUnfinished(h)
  <2>1. /\ UNCHANGED seen
        /\ \/ pub' = [pub EXCEPT ![h] = "completing"] /\ UNCHANGED polls
           \/ /\ UNCHANGED pub /\ polls[h] # 0
              /\ \E n \in 0..(polls[h] - 1) : polls' = [polls EXCEPT ![h] = n]
    BY <1>7 DEF PollUnfinished, Pub
  <2>2. polls' \in [Handlers -> 0..MaxPolls]
    BY <2>1, GatewayAssumption DEF PRIInv, PRTypeOK
  <2>3. PRTypeOK'
    BY <1>1, <2>1, <2>2 DEF PRIInv, PRTypeOK, TypeOK, StoreTypeOK, vars, PubState
  <2>4. OnlyOwn(h) /\ pub'[h] \in {"completing", "polling"}
    BY <1>1, <2>1 DEF PRIInv, PRTypeOK, OnlyOwn, PubState
  <2>5. seen'[h] = "completed" => jobs[call[h].job].status \in {"completed", "absent"}
    BY <2>1 DEF PRIInv, SeenIsFinal
  <2>6. QED
    BY <1>1, <1>3, <1>4, <2>3, <2>4, <2>5, PubKeepsInv DEF Commenting
<1>8. QED
  BY <1>5, <1>6, <1>7

(* Comments are posted from the two commenting states only, where none     *)
(* have been posted yet.                                                   *)
LEMMA PostingKeepsInv ==
  ASSUME PRIInv, NEW h \in Handlers, PostReview(h) \/ PostOneByOne(h)
  PROVE  PRIInv'
<1>1. UNCHANGED <<vars, hook, call, polls, seen, check, known>> /\ pub[h] \in Commenting
  BY DEF PostReview, PostOneByOne, Pub, Commenting
<1>2. PICK n \in {0, 1}, p \in {"one_by_one", "completing"} :
        /\ pub' = [pub EXCEPT ![h] = p] /\ comments' = [comments EXCEPT ![h] = @ + n]
        /\ p = "one_by_one" => n = 0
  BY DEF PostReview, PostOneByOne, Pub, Commented
<1>3. comments[h] = 0 /\ seen[h] \in ReportStatus
  BY <1>1 DEF PRIInv, PostedBy
<1>4. PRTypeOK'
  BY <1>1, <1>2 DEF PRIInv, PRTypeOK, TypeOK, StoreTypeOK, vars, PubState
<1>5. OnlyOwn(h) /\ comments'[h] = n /\ pub'[h] = p
  BY <1>1, <1>2, <1>3 DEF PRIInv, PRTypeOK, OnlyOwn, PubState, Commenting
<1>6. /\ check'[h] = "success" => seen'[h] = "completed"
      /\ seen'[h] = "completed" => jobs[call[h].job].status \in {"completed", "absent"}
      /\ check'[h] \notin Concluded
  BY <1>1 DEF PRIInv, OpenUntilSeen, SeenIsFinal, Following
<1>7. QED
  BY <1>1, <1>2, <1>3, <1>4, <1>5, <1>6, PubKeepsInv DEF Commenting

(* Only what the last poll learnt decides the conclusion.                  *)
LEMMA CompletingKeepsInv ==
  ASSUME PRIInv, NEW h \in Handlers, Complete(h) \/ Annotate(h) \/ CompleteFails(h)
  PROVE  PRIInv'
<1>1. /\ UNCHANGED <<vars, hook, call, polls, seen, known, comments>>
      /\ pub[h] \in {"completing", "annotating"}
      /\ \E p \in {"done", "annotating"} : pub' = [pub EXCEPT ![h] = p]
  BY DEF Complete, Annotate, CompleteFails, Pub
<1>2. \/ check' = check
      \/ \E c \in Conclusions(seen[h]) \cup {check[h]} : check' = [check EXCEPT ![h] = c]
  BY DEF Complete, Annotate, CompleteFails
<1>3. /\ Conclusions(seen[h]) \subseteq Concluded
      /\ "success" \in Conclusions(seen[h]) => seen[h] = "completed"
  BY DEF Conclusions, Concluded
<1>4. PRTypeOK'
  BY <1>1, <1>2, <1>3 DEF PRIInv, PRTypeOK, TypeOK, StoreTypeOK, vars, PubState
<1>5. /\ OnlyOwn(h) /\ check'[h] \in Conclusions(seen[h]) \cup {check[h]}
      /\ pub'[h] \in {"done", "annotating"}
  BY <1>1, <1>2 DEF PRIInv, PRTypeOK, OnlyOwn, PubState
<1>6. /\ check[h] = "success" => seen[h] = "completed"
      /\ seen'[h] = "completed" => jobs[call[h].job].status \in {"completed", "absent"}
      /\ comments[h] <= 1
      /\ comments[h] > 0 => seen[h] \in ReportStatus
  BY <1>1 DEF PRIInv, OpenUntilSeen, SeenIsFinal, PostedOnce
<1>7. QED
  BY <1>1, <1>3, <1>4, <1>5, <1>6, PubKeepsInv DEF Commenting, Following

(* A restart of the gateway ends publishers and begins none.               *)
LEMMA GatewayRestartKeepsInv ==
  ASSUME PRIInv, GatewayRestart
  PROVE  PRIInv'
<1>1. /\ UNCHANGED <<vars, call, polls, seen, check, known, comments>>
      /\ \A h \in Handlers : hook'[h] \in {hook[h], "dead"}
      /\ \A h \in Handlers : \/ pub'[h] = pub[h]
                             \/ pub[h] # "none" /\ pub'[h] = "dead"
  BY DEF GatewayRestart
<1>2. IInv' /\ UNCHANGED <<jobs, issued>>
  BY <1>1, UnchangedKeepsIInv DEF PRIInv, Remembered, vars
<1>3. hook' \in [Handlers -> HookState] /\ pub' \in [Handlers -> PubState]
  BY DEF GatewayRestart, PRIInv, PRTypeOK, HookState, PubState
<1>4. PRTypeOK'
  BY <1>1, <1>2, <1>3 DEF PRIInv, PRTypeOK, IInv
<1>5. NoCallYet' /\ AnswersNameJobs' /\ OneCreator' /\ PublishersCreated'
  BY <1>1, <1>2 DEF PRIInv, NoCallYet, AnswersNameJobs, OneCreator, PublishersCreated
<1>6. SeenIsFinal' /\ OpenUntilSeen' /\ PostedBy' /\ PostedOnce'
  BY <1>1, <1>2 DEF PRIInv, SeenIsFinal, OpenUntilSeen, PostedBy, PostedOnce, Commenting, Following
<1>7. QED
  BY <1>2, <1>4, <1>5, <1>6 DEF PRIInv
---------------------------------------------------------------------------------
(* Every step keeps it, one lemma for each kind of step.                   *)
LEMMA PRNextKeepsInv == PRIInv /\ [PRNext]_prVars => PRIInv'
<1>1. SUFFICES ASSUME PRIInv, [PRNext]_prVars PROVE PRIInv'
  OBVIOUS
<1>2. ASSUME NEW h \in Handlers, HookStep(h) PROVE PRIInv'
  BY <1>1, <1>2, HookStepsKeepInv, CallArrivesKeepsInv DEF HookStep
<1>3. ASSUME NEW h \in Handlers, PubStep(h) PROVE PRIInv'
  BY <1>1, <1>3, CreatingKeepsInv, PollingKeepsInv, PostingKeepsInv, CompletingKeepsInv
  DEF PubStep
<1>4. CASE OrchestratorStep
  <2>1. Next /\ UNCHANGED gatewayVars
    BY <1>4 DEF OrchestratorStep, Next
  <2>2. QED
    BY <1>1, <2>1, NextRemembers, OrchestratorKeepsInv DEF PRIInv
<1>5. CASE Tick /\ UNCHANGED gatewayVars
  BY <1>1, <1>5, NextRemembers, OrchestratorKeepsInv DEF PRIInv, Next
<1>6. CASE GatewayRestart
  BY <1>1, <1>6, GatewayRestartKeepsInv
<1>7. CASE OrchestratorRestart
  BY <1>1, <1>7, RestartRemembers, OrchestratorKeepsInv DEF PRIInv, OrchestratorRestart
<1>8. CASE UNCHANGED prVars
  BY <1>1, <1>8, NextRemembers, OrchestratorKeepsInv DEF PRIInv, prVars
<1>9. QED
  BY <1>1, <1>2, <1>3, <1>4, <1>5, <1>6, <1>7, <1>8 DEF PRNext

(* Every reachable state has it.                                           *)
LEMMA PRSpecInv == PRSpec => []PRIInv
BY PRInitInv, PRNextKeepsInv, PTL DEF PRSpec

(* The delivery's state is well typed, whatever is lost or restarted.      *)
THEOREM PRTypeCorrect == PRSpec => []PRTypeOK
<1>1. PRIInv => PRTypeOK
  BY DEF PRIInv
<1>2. QED
  BY <1>1, PRSpecInv, PTL

(* No two publishers ever follow one job: no second Check Run and no       *)
(* doubled comments, however often the delivery is repeated.               *)
THEOREM OnlyOnePublisher == PRSpec => []OnePublisherPerJob
<1>1. PRIInv => OnePublisherPerJob
  BY DEF PRIInv, OnePublisherPerJob, PublishersCreated, OneCreator
<1>2. QED
  BY <1>1, PRSpecInv, PTL

(* A green check is never belied by the job it stands for.                 *)
THEOREM GreenIsCompleted == PRSpec => []GreenMeansCompleted
<1>1. PRIInv => GreenMeansCompleted
  BY DEF PRIInv, GreenMeansCompleted, OpenUntilSeen, SeenIsFinal
<1>2. QED
  BY <1>1, PRSpecInv, PTL

(* The comments of one job's review are posted at most once, whoever       *)
(* follows it, and only for a report; a job a redelivery starts after a    *)
(* restart or the retention is another.                                    *)
THEOREM CommentedOnce == PRSpec => []CommentsOnce
<1>1. PRIInv => CommentsOnce
  <2>1. ASSUME PRIInv, NEW h \in Handlers, comments[h] > 0 PROVE call[h].created
    BY <2>1 DEF PRIInv, PostedBy, PublishersCreated
  <2>2. QED
    BY <2>1 DEF PRIInv, CommentsOnce, PostedOnce, OneCreator
<1>2. QED
  BY <1>1, PRSpecInv, PTL

(* In the composition, with repeated deliveries and restarts, the job      *)
(* controller keeps its own promises.                                      *)
THEOREM ControllerStaysConsistent ==
  PRSpec => [](KeyIndexExact /\ NoOrphanedJob /\ OnlyLiveJobsRun /\ ResultMatchesStatus)
<1>1. PRIInv => KeyIndexExact /\ NoOrphanedJob /\ OnlyLiveJobsRun /\ ResultMatchesStatus
  BY DEF PRIInv, IInv
<1>2. QED
  BY <1>1, PRSpecInv, PTL

(* GitHub shows one verdict per Check Run: once concluded it is never      *)
(* reopened, nor concluded otherwise (completeCheckRun runs once).         *)
ConclusionIsFinal ==
  [][\A h \in Handlers : check[h] \in Concluded => check'[h] = check[h]]_prVars

(* A verdict stays: completeCheckRun is called once, and only to conclude. *)
THEOREM ConcludedOnce == PRSpec => ConclusionIsFinal
<1>1. ASSUME PRIInv, [PRNext]_prVars, NEW h \in Handlers, check[h] \in Concluded
      PROVE  check'[h] = check[h]
  <2>1. pub[h] \notin {"creating", "completing"}
    BY <1>1 DEF PRIInv, OpenUntilSeen, Following
  <2>2. ASSUME NEW g \in Handlers, HookStep(g) \/ PubStep(g) PROVE check'[h] = check[h]
    <3>1. \/ UNCHANGED check
          \/ pub[g] \in {"creating", "completing"} /\ \E c : check' = [check EXCEPT ![g] = c]
      BY <2>2
      DEF HookStep, Receive, FilesListed, CallArrives, ResponseArrives, CallFails, PubStep,
          CheckCreated, CheckCreateFails, PollFinished, PollGone, PollUnfinished, PostReview,
          PostOneByOne, Complete, Annotate, CompleteFails, Pub
    <3>2. QED
      BY <1>1, <2>1, <3>1 DEF PRIInv, PRTypeOK
  <2>3. CASE \/ OrchestratorStep \/ (Tick /\ UNCHANGED gatewayVars)
             \/ GatewayRestart \/ OrchestratorRestart \/ UNCHANGED prVars
    BY <2>3 DEF OrchestratorStep, GatewayRestart, OrchestratorRestart, gatewayVars, prVars
  <2>4. QED
    BY <1>1, <2>2, <2>3 DEF PRNext
<1>2. PRIInv /\ [PRNext]_prVars =>
        [\A h \in Handlers : check[h] \in Concluded => check'[h] = check[h]]_prVars
  BY <1>1
<1>3. QED
  BY <1>2, PRSpecInv, PTL DEF PRSpec, ConclusionIsFinal
=================================================================================
