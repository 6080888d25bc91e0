--------------------------- MODULE PullRequestReview ----------------------------
(***************************************************************************)
(* One pull request delivery end to end: the gateway's webhook handler     *)
(* (webhooks/github-webhook.ts), its orchestrator client, the review jobs  *)
(* of ReviewJobs behind it, and the publisher that follows a job and tells *)
(* GitHub (github/review-publisher.ts).  A handler is one HTTP request of  *)
(* GitHub; several may carry one delivery (redelivery).  Requests to the   *)
(* orchestrator and to GitHub may be lost, late, or answered into the      *)
(* void; both services may restart, with nothing persisted.                *)
(***************************************************************************)
EXTENDS ReviewJobs

CONSTANTS
  Handlers,          \* webhook requests the gateway handles
  Delivery,          \* the delivery id (idempotency key) of each
  MaxPolls,          \* polls that fit timeoutMs
  PostInline,        \* config.postInlineComments
  GithubFails,       \* whether GitHub's API may fail
  GatewayRestarts, OrchestratorRestarts

ASSUME GatewayAssumption ==
  /\ Delivery \in [Handlers -> Keys]
  /\ MaxPolls \in Nat
  /\ {PostInline, GithubFails, GatewayRestarts, OrchestratorRestarts} \subseteq BOOLEAN

VARIABLES
  hook,      \* what each handler awaits or has answered
  call,      \* its POST /review-jobs: in flight, or answered with a job
  pub,       \* what the publisher of a started review is doing
  polls,     \* polls left before its deadline
  seen,      \* what it learnt of the job
  check,     \* the Check Run, as GitHub shows it
  known,     \* whether the publisher has the Check Run's id
  comments   \* how often the review's comments were posted

gatewayVars == <<hook, call, pub, polls, seen, check, known, comments>>
prVars == <<vars, gatewayVars>>

Answered == {"started", "duplicate", "unavailable", "ignored", "failed"}
HookState == Answered \cup {"idle", "listing", "calling", "dead"}
PubState == {"none", "creating", "polling", "posting", "one_by_one", "completing",
             "annotating", "done", "dead"}
Concluded == {"success", "failure", "neutral"}
NoCall == [at |-> "none", job |-> None, created |-> FALSE]

PRTypeOK ==
  /\ TypeOK
  /\ hook \in [Handlers -> HookState]
  /\ call \in [Handlers -> [at : {"none", "in_flight", "answered"},
                            job : JobIds \cup {None}, created : BOOLEAN]]
  /\ pub \in [Handlers -> PubState]
  /\ polls \in [Handlers -> 0..MaxPolls]
  /\ seen \in [Handlers -> Terminal \cup {"none", "gone"}]
  /\ check \in [Handlers -> Concluded \cup {"none", "in_progress"}]
  /\ known \in [Handlers -> BOOLEAN]
  /\ comments \in [Handlers -> Nat]

PRInit ==
  /\ Init
  /\ hook = [h \in Handlers |-> "idle"]
  /\ call = [h \in Handlers |-> NoCall]
  /\ pub = [h \in Handlers |-> "none"]
  /\ polls = [h \in Handlers |-> MaxPolls]
  /\ seen = [h \in Handlers |-> "none"]
  /\ check = [h \in Handlers |-> "none"]
  /\ known = [h \in Handlers |-> FALSE]
  /\ comments = [h \in Handlers |-> 0]

Hook(h, from, to) == hook[h] = from /\ hook' = [hook EXCEPT ![h] = to]
Pub(h, from, to)  == pub[h] = from /\ pub' = [pub EXCEPT ![h] = to]
---------------------------------------------------------------------------------
(* A signed pull_request event arrives; anything else, and a repository    *)
(* that is unknown, disabled or without agents, is answered at once.       *)
Receive(h) ==
  /\ Hook(h, "idle", "listing") \/ Hook(h, "idle", "ignored")
  /\ UNCHANGED <<vars, call, pub, polls, seen, check, known, comments>>

(* listPullRequestFiles answers: files to review, or none that any agent   *)
(* could; an error goes to the error handler.                              *)
FilesListed(h) ==
  /\ \/ Hook(h, "listing", "calling") /\ call' = [call EXCEPT ![h].at = "in_flight"]
     \/ Hook(h, "listing", "ignored") /\ UNCHANGED call
     \/ GithubFails /\ Hook(h, "listing", "failed") /\ UNCHANGED call
  /\ UNCHANGED <<vars, pub, polls, seen, check, known, comments>>

CallAnswered(h, j, new) ==
  call' = [call EXCEPT ![h] = [at |-> "answered", job |-> j, created |-> new]]

(* Mutant: the answer does not say that the job is an old one.             *)
MCallArrivesCreated(h) ==
  /\ call[h].at = "in_flight"
  /\ LET old == FindByIdempotencyKey(Delivery[h])
     IN  IF old = None
         THEN \E j \in JobIds : CreateJob(j, Delivery[h]) /\ CallAnswered(h, j, TRUE)
         ELSE CallAnswered(h, old, TRUE) /\ UNCHANGED vars
  /\ UNCHANGED <<hook, pub, polls, seen, check, known, comments>>

(* POST /review-jobs reaches the orchestrator, perhaps after the gateway   *)
(* stopped waiting for it: 202 with a new job, 200 with the one the key    *)
(* already names.                                                          *)
CallArrives(h) ==
  /\ call[h].at = "in_flight"
  /\ LET old == FindByIdempotencyKey(Delivery[h])
     IN  IF old = None
         THEN \E j \in JobIds : CreateJob(j, Delivery[h]) /\ CallAnswered(h, j, TRUE)
         ELSE CallAnswered(h, old, FALSE) /\ UNCHANGED vars
  /\ UNCHANGED <<hook, pub, polls, seen, check, known, comments>>

(* 202 review_started and a publisher, or 202 duplicate_ignored and none.  *)
ResponseArrives(h) ==
  /\ call[h].at = "answered"
  /\ IF call[h].created
     THEN Hook(h, "calling", "started") /\ Pub(h, "none", "creating")
     ELSE Hook(h, "calling", "duplicate") /\ UNCHANGED pub
  /\ UNCHANGED <<vars, call, polls, seen, check, known, comments>>

(* OrchestratorCallError (timeout, network, HTTP status, invalid body):    *)
(* 502, whatever the orchestrator did or still will do with the request.   *)
CallFails(h) ==
  /\ Hook(h, "calling", "unavailable")
  /\ UNCHANGED <<vars, call, pub, polls, seen, check, known, comments>>
---------------------------------------------------------------------------------
CheckCreated(h) ==
  /\ Pub(h, "creating", "polling")
  /\ check' = [check EXCEPT ![h] = "in_progress"]
  /\ known' = [known EXCEPT ![h] = TRUE]
  /\ UNCHANGED <<vars, hook, call, polls, seen, comments>>

(* The publisher goes on without an id, also when only the answer was lost.*)
CheckCreateFails(h) ==
  /\ GithubFails
  /\ Pub(h, "creating", "polling")
  /\ \E shown \in {"none", "in_progress"} : check' = [check EXCEPT ![h] = shown]
  /\ UNCHANGED <<vars, hook, call, polls, seen, known, comments>>

(* A poll finds the job finished.  Comments are posted when the repository *)
(* wants them and the job has a report.                                    *)
PollFinished(h) ==
  LET j == call[h].job
  IN  /\ pub[h] = "polling" /\ Stored(j) /\ IsTerminal(j)
      /\ seen' = [seen EXCEPT ![h] = jobs[j].status]
      /\ \/ PostInline /\ jobs[j].result = "report" /\ Pub(h, "polling", "posting")
         \/ Pub(h, "polling", "completing")   \* no finding to comment on
      /\ UNCHANGED <<vars, hook, call, polls, check, known, comments>>

(* 404: the orchestrator restarted or swept the job.                       *)
PollGone(h) ==
  /\ pub[h] = "polling" /\ ~Stored(call[h].job)
  /\ seen' = [seen EXCEPT ![h] = "gone"]
  /\ Pub(h, "polling", "completing")
  /\ UNCHANGED <<vars, hook, call, polls, check, known, comments>>

(* Mutants: a poll that fails is tried again, whatever the time.           *)
MPollForever(h) ==
  /\ pub[h] = "polling"
  /\ polls' = [polls EXCEPT ![h] = MaxPolls]
  /\ UNCHANGED <<vars, hook, call, pub, seen, check, known, comments>>

MPollNoDeadline(h) ==
  /\ pub[h] = "polling"
  /\ polls' = [polls EXCEPT ![h] = @ - 1]
  /\ UNCHANGED <<vars, hook, call, pub, seen, check, known, comments>>

(* The job is unfinished or the poll failed: sleep and poll again, unless  *)
(* that would be past the deadline.  A slow answer costs several polls.    *)
PollUnfinished(h) ==
  /\ pub[h] = "polling"
  /\ IF polls[h] = 0 THEN Pub(h, "polling", "completing") /\ UNCHANGED polls
     ELSE /\ \E n \in 0..(polls[h] - 1) : polls' = [polls EXCEPT ![h] = n]
          /\ UNCHANGED pub
  /\ UNCHANGED <<vars, hook, call, seen, check, known, comments>>

Commented(h, n) == comments' = [comments EXCEPT ![h] = @ + n]

(* Mutant: any error makes the publisher post the comments one by one.     *)
MPostRetried(h) ==
  /\ \/ Pub(h, "posting", "completing") /\ Commented(h, 1)
     \/ Pub(h, "posting", "one_by_one") /\ Commented(h, 0)
     \/ GithubFails /\ Pub(h, "posting", "one_by_one") /\ \E n \in {0, 1} : Commented(h, n)
  /\ UNCHANGED <<vars, hook, call, polls, seen, check, known>>

(* createReview with every comment: accepted, refused as a whole (422), or *)
(* failed, when GitHub may still have taken it.                            *)
PostReview(h) ==
  /\ \/ Pub(h, "posting", "completing") /\ Commented(h, 1)
     \/ Pub(h, "posting", "one_by_one") /\ Commented(h, 0)
     \/ GithubFails /\ Pub(h, "posting", "completing") /\ \E n \in {0, 1} : Commented(h, n)
  /\ UNCHANGED <<vars, hook, call, polls, seen, check, known>>

(* Each comment alone, refused ones noted.                                 *)
PostOneByOne(h) ==
  /\ Pub(h, "one_by_one", "completing")
  /\ \E n \in {0, 1} : Commented(h, n)
  /\ UNCHANGED <<vars, hook, call, polls, seen, check, known>>

(* Mutant: any report without a critical finding is a success.             *)
MConclusions(status) ==
  IF status \in {"gone", "cancelled"} THEN {"neutral"}
  ELSE {"failure", "success"}

(* checkRunConclusion: a critical finding fails the check, also on a       *)
(* partial review.                                                         *)
Conclusions(status) ==
  CASE status = "completed"           -> {"failure", "success"}
    [] status \in {"partial", "failed"} -> {"failure", "neutral"}
    [] OTHER                          -> {"neutral"}

(* Mutant: a job that is gone is not worth an update.                      *)
MCompleteUnlessGone(h) ==
  /\ Pub(h, "completing", "done")
  /\ IF known[h] /\ seen[h] # "gone"
     THEN \E c \in Conclusions(seen[h]) : check' = [check EXCEPT ![h] = c]
     ELSE UNCHANGED check
  /\ UNCHANGED <<vars, hook, call, polls, seen, known, comments>>

(* The first of completeCheckRun's requests concludes the Check Run; more  *)
(* follow when a report has more annotations than one request takes.       *)
Complete(h) ==
  /\ \/ Pub(h, "completing", "done")
     \/ known[h] /\ seen[h] \in ReportStatus /\ Pub(h, "completing", "annotating")
  /\ IF known[h]
     THEN \E c \in Conclusions(seen[h]) : check' = [check EXCEPT ![h] = c]
     ELSE UNCHANGED check
  /\ UNCHANGED <<vars, hook, call, polls, seen, known, comments>>

(* The last of the later requests, or the first of them to fail.           *)
Annotate(h) ==
  /\ Pub(h, "annotating", "done")
  /\ UNCHANGED <<vars, hook, call, polls, seen, check, known, comments>>

(* completeCheckRun's first request fails; follow() logs it and ends.      *)
CompleteFails(h) ==
  /\ GithubFails /\ known[h]
  /\ Pub(h, "completing", "done")
  /\ \E c \in Conclusions(seen[h]) \cup {check[h]} : check' = [check EXCEPT ![h] = c]
  /\ UNCHANGED <<vars, hook, call, polls, seen, known, comments>>
---------------------------------------------------------------------------------
(* The gateway restarts: handlers and publishers are gone.                 *)
GatewayRestart ==
  /\ GatewayRestarts
  /\ hook' = [h \in Handlers |-> IF hook[h] \in {"listing", "calling"} THEN "dead" ELSE hook[h]]
  /\ pub' = [h \in Handlers |-> IF pub[h] \in {"none", "done"} THEN pub[h] ELSE "dead"]
  /\ UNCHANGED <<vars, call, polls, seen, check, known, comments>>

(* The orchestrator restarts with an empty store; its runs are gone.       *)
OrchestratorRestart ==
  /\ OrchestratorRestarts
  /\ jobs' = [j \in JobIds |-> NoJob]
  /\ byKey' = [k \in Keys |-> None]
  /\ keyOf' = [j \in JobIds |-> None]
  /\ inFlight' = [j \in JobIds |-> "absent"]
  /\ run' = [j \in JobIds |-> "none"]
  /\ UNCHANGED <<now, issued, startedFor, gatewayVars>>

(* Another client's job, whose insert sweeps, a cancel, and the jobs' own  *)
(* steps.                                                                  *)
OrchestratorStep ==
  /\ \E j \in JobIds :
       \/ CreateJob(j, None) \/ CancelJob(j)
       \/ RunSettles(j) \/ ExecuteReported(j) \/ ExecuteRejected(j)
  /\ UNCHANGED gatewayVars

HookStep(h) ==
  Receive(h) \/ FilesListed(h) \/ CallArrives(h) \/ ResponseArrives(h) \/ CallFails(h)

PubStep(h) ==
  \/ CheckCreated(h) \/ CheckCreateFails(h)
  \/ PollFinished(h) \/ PollGone(h) \/ PollUnfinished(h)
  \/ PostReview(h) \/ PostOneByOne(h)
  \/ Complete(h) \/ Annotate(h) \/ CompleteFails(h)

PRNext ==
  \/ \E h \in Handlers : HookStep(h) \/ PubStep(h)
  \/ OrchestratorStep
  \/ Tick /\ UNCHANGED gatewayVars
  \/ GatewayRestart \/ OrchestratorRestart

PRSpec == PRInit /\ [][PRNext]_prVars

(* The gateway's own calls end (they carry timeouts), so publishers move.  *)
PRFairSpec == PRSpec /\ \A h \in Handlers : WF_prVars(PubStep(h))
---------------------------------------------------------------------------------
(* One job is followed by at most one publisher, whatever is redelivered,  *)
(* late or lost: no second Check Run and no doubled comments for a review  *)
(* (createReviewJob's `created`).                                          *)
OnePublisherPerJob ==
  \A g, h \in Handlers :
    pub[g] # "none" /\ pub[h] # "none" /\ call[g].job = call[h].job => g = h

(* A green check stands for a review that completed, as the orchestrator   *)
(* still shows it long after the poll that learnt it: neither a late       *)
(* cancel nor a late answer belies it (checkRunConclusion).                *)
GreenMeansCompleted ==
  \A h \in Handlers :
    check[h] = "success" => jobs[call[h].job].status \in {"completed", "absent"}

(* The comments of one job's review are posted at most once, by one        *)
(* publisher, although a refused batch is posted again one by one, a       *)
(* failed call may have worked and the delivery is repeated; and only for  *)
(* a job that ended with a report (postReview).  The job that a redelivery *)
(* starts after a restart or the retention has a review of its own.        *)
CommentsOnce ==
  \A h \in Handlers :
    /\ comments[h] <= 1
    /\ comments[h] > 0 => seen[h] \in ReportStatus
    /\ \A g \in Handlers :
         comments[g] > 0 /\ comments[h] > 0 /\ call[g].job = call[h].job => g = h

(* Every publisher ends, also when the job never does, is forgotten, or    *)
(* every poll fails (waitForJob's deadline).                               *)
PublishersEnd ==
  \A h \in Handlers : pub[h] # "none" ~> pub[h] \in {"done", "dead"}

(* With GitHub and the gateway up, every Check Run is concluded, whatever  *)
(* becomes of the orchestrator and its job (AC-01, FR-GH-02).              *)
ChecksConclude ==
  \A h \in Handlers : check[h] = "in_progress" ~> check[h] \in Concluded

(* github-webhook.ts:119 of a duplicate_ignored answer: "A redelivery: the *)
(* first delivery already owns the Check Run and the review."  Once no     *)
(* request of the delivery is being handled any more, someone does.        *)
RedeliveryIsOwned ==
  \A h \in Handlers :
    /\ hook[h] = "duplicate"
    /\ \A g \in Handlers : Delivery[g] = Delivery[h] => hook[g] \in Answered
    => \E g \in Handlers : pub[g] # "none" /\ call[g].job = call[h].job

=================================================================================
