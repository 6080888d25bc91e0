# A verification project for Code-Sentinel

TLA+ modules, TLC configurations and TLAPS proofs for the code review system in
`src/`: a GitHub gateway, an orchestrator, review agents and the packages they
share. Paths below are relative to `src/`; `O/` stands for
`services/orchestrator/src/`, `G/` for `services/gateway/src/`, `KIT/` for
`packages/agent-kit/src/`, `LLM/` for `packages/llm/src/`.

## 1. The system

A pull request webhook reaches the **gateway**, which filters the changed files
and asks the **orchestrator** for a review job. The orchestrator fans the files
out to **agents** (security, style; logic and documentation are enabled by
configuration but have no implementation yet), which scan them and may ask an
LLM. Its LLM calls are paid from per-key quota budgets the orchestrator keeps.
The findings are aggregated into one report. The gateway polls the job and
publishes the report as a Check Run and review comments.

All services are single Node.js processes. Between two `await`s nothing else
runs, so one step of a model is the code between two awaits. Everything is kept
in memory: a restart loses it.

### Inventory

| component | state | operations | hard part | correct when |
|---|---|---|---|---|
| Job store `O/jobs/job-store.ts` | jobs, `byKey`, `keyOf` | insert (with sweep), update, find, find by key | a sweep between a client's calls | keys and jobs agree; nothing unfinished, and nothing within its retention, is swept |
| Job controller `O/jobs/review-job-controller.ts` | `inFlight` AbortControllers | create, cancel, execute, finish | cancel, late report, rejection and sweep in any order | no orphaned job, no live run of a finished job, one live run per key, terminal is final |
| Quota budget `LLM/quota-budget.ts` | entries, next id | tryReserve, retryAt, settle, charge, release, prune | settling after the entry left a window; charges that did not ask | limits never exceeded by a grant; `retryAt` exact; pruning forgets nothing |
| Review plan `O/budget/plan.ts` | none | planBatches | sizes equal to a cap | a partition within the review's budget, skips only for a reason; batches within the batch size where the file cap is |
| LLM routing `O/budget/llm-routing.ts` | none of its own | reserveBatch, settleCall, sleep | several runs sleep on the same key; cancel while asleep | deadlines kept, quota used as promised, gives up only when hopeless |
| Fan-out and graph `O/graph/*.ts` | state of one run | invoke | any mixture of answered, failed and dropped calls | settles, and its status tells the truth |
| Aggregation `O/aggregation/*.ts` | none | dedupe, rank, skips, coverage | order of arrival, ties | best duplicate kept; every changed file accounted for |
| Webhook, file filter `G/webhooks/*.ts` | none (the store of repositories is read) | POST /webhooks/github | lost or late orchestrator answer, redelivery | one publisher per job |
| Publisher, output `G/github/review-publisher.ts`, `review-output.ts` | one async `follow()` per job | create check, poll, post, complete | every call may fail; the job may vanish | ends, concludes the check, comments once |
| Orchestrator client and routes | none | create, get, cancel | lost answers | modelled with the two above |
| GitHub client `G/github/octokit-github-client.ts` | none | list files, check runs, review | half-done sequences of requests | no annotation is in none of the requests; the first request concludes the check |
| Agent client, agent kit | per request: deadline, abort signal | review | timeout racing the answer; a scan that never yields | partial results arrive before the caller gives up |
| LLM client and providers `LLM/llm-client.ts`, `*-provider.ts`, `http.ts` | none | complete | time left for the fallback; which errors fall back | a slow Groq leaves Gemini its time |
| Security Agent `services/security-agent/src` | per request | scan, LLM pass, merge | usage after a fallback; rule findings that move to a fix's lines | tokens are counted on the answerer; fixes cover their issue and only added lines |
| Patches `KIT/patch.ts`, `services/style-agent/src/fragments.ts` | none | parse a patch; wrap a hunk and cut the wrapper off again | line numbers from headers and counting; blank rows; a wrapper the formatter merged | added lines are the pull request's; a hunk comes back without its wrapper |
| Style Agent `services/style-agent/src` | per request | fragments, diagnostics, format, diff, fixes | diff at the edges; fixes next to old code; lines counted behind a wrapper | fixes and diagnostics stay in the pull request, and fixes keep the code |
| Style sandbox `services/style-agent/src/sandbox.ts` | a directory, a docker client and a container per request | run, health | the client ends for a deadline, a hang-up or the cap while the container is anywhere | neither directory nor container outlives the request |
| Agents' health `O/routes/agents-health.ts`, `KIT/app.ts` | one cached promise | GET /agents/health, GET /healthz | requests that share a round of calls; agents that are deaf, down or late | one round at a time, which ends; what is told is recent and has a cause |
| Repository settings `G/persistence/in-memory.ts`, `G/webhooks/review-job-request.ts` | rows of repositories, organizations, agents | getEffectiveConfig, build a job request | settings that are zero or switched off, on their way through two services | the threshold and the agents of a review are the ones chosen |
| Auth and sessions, other stores, embeddings, dashboard | see section 7 | | | not modelled |

### Interactions

Gateway → orchestrator: `POST /review-jobs` with the delivery id as idempotency
key, `GET` polls until the job is finished. Orchestrator → agents: one HTTP call
per batch, with a timeout; the agent gets `deadlineMs`, the timeout less a margin;
and `GET /healthz` when somebody asks for the agents' health. Style Agent → docker
daemon: `docker run`, `docker kill`, `docker image inspect`, each a client process.
Shared state: the two `QuotaBudget`s, used by every run of every review; the job
store, used by every request and by the continuation of every run. Callbacks: the
abort signal of a job, which reaches sleeps and agent calls; timers.

## 2. Modules

| module | models | state and actions |
|---|---|---|
| `JobStore` | the store | `jobs`, `byKey`, `keyOf`; `Insert` (the sweep is part of it), `Update`, `FindByIdempotencyKey` |
| `ReviewJobs` | the controller over the store | `CreateJob` (with `execute` up to its first await), `CancelJob`, `RunSettles`, `ExecuteReported`, `ExecuteRejected`, `Tick`; the history variable `startedFor` |
| `ReviewLifecycle` | what a poll may observe of a job (abstract) | refined by `ReviewJobs` (`ImplementsLifecycle`) |
| `PullRequestProofs`, `AgentServiceProofs`, `FanOutProofs` | theorems about jobs and pull requests, an agent's process, and the fan-out with the keys it shares | section 5 |
| `QuotaBudgetProofs`, `QuotaWindowsProofs` | theorems about one key, over lemmas about its windows | section 5 |
| `ReviewInputsProofs`, `StyleFixesProofs` | theorems about the computations of a review; the second has the lemmas about diffs, blocks and wrappers | section 5 |
| `CollectionProofs` | lemmas about extrema, folds, sums, sorted and filtered lists, which the others rest on | section 5 |
| `Arrays` | `sort` and `filter` of JavaScript's arrays | operators |
| `QuotaWindows` | the arithmetic of the sliding windows | operators only, shared by the next two |
| `QuotaBudget` | one provider key with every order of calls on it (abstract for `FanOut`) | `TryReserve`, `Settle`, `Charge`, `Release`, prunes |
| `ReviewPlan` | the planner | operators (a fold over the sorted files) |
| `FanOut` | agents' runs, routing, budgets, graph | `FanOut`, `ReserveAndSend`, `WaitForQuota`, `GiveUp`, `Wake`, `ThrowIfAborted`, `CallAnswers`, `CallFails`, `Abort`, `Aggregate`, `InvokeRejects`, `Tick`; instantiates `QuotaBudget` once per key |
| `AgentReview` | one batch from the orchestrator's send to its settling | `Receive`, `ScanFile`, `Ask`, `LlmAnswers`, `LlmFails` with every kind of answer a provider can give, `SignalFires`, `ResponseArrives`, `CallTimesOut`, `CallBreaks`, `Tick` |
| `StyleSandbox` | the Style Agent's part of a request | extends `AgentReview`; `Analyze`, `Prepared`, `PrepareFails`, `ContainerAsked`, `ContainerMoves`, `RunEnds`, `RunFails`, `RunAborts`, `Kill`, `CleanedUp` |
| `AgentService` | an agent's process, of either kind, with the health calls it gets | extends `StyleSandbox`; `GetHealth`, `HealthAsked`, `Inspected`, `HealthAnswered`, `HealthBreaks`, `HealthTimesOut`, `AgentCrashes`, `AgentStarts` |
| `PullRequestReview` | gateway and orchestrator together, GitHub and both restarts | extends `ReviewJobs`; handler, call and publisher steps, the later annotation requests of a Check Run among them |
| `Aggregation` | dedupe, rank, what the Check Run and the review show, and the requests that complete the Check Run | operators |
| `ReviewedFiles` | the gateway's filter, agents' skips, merged skips, coverage | operators |
| `Patches` | `parsePatch`, the wrapper around a hunk; git's diff as external | operators |
| `StyleFixes` | diagnostics to findings; the diff of a hunk with its formatting, and the fixes | operators |
| `RepositorySettings` | the configuration in force, the job request | operators |
| `SecurityFindings` | rule findings, usable LLM findings, the merge | operators |
| `ReviewInputs` | every small input of the modules of operators above | inputs grow by a file, finding, edit, line, match or answer item at a time; `Format` is any formatting |
| `MC*` | constants for TLC | |

An agent's file loop, the planner's loop and the diff are folds or recursive
functions, so that they can be used from modules with proofs; no module uses a
RECURSIVE operator. Lists are sorted and filtered with `Arrays.Sort` and `Arrays.Filter`,
which say what the result is (the k-th element is the one with k-1 before it), where the
library's `SetToSortSeq` chooses one permutation and its `SelectSeq` recurses: one can
prove from the former what a list has in it and where. Operators named `M...` are deliberately wrong variants of the
operator that follows them, each a plausible slip in the code it stands for. They
are used nowhere: a property is kept only if TLC finds it violated with the
variant in place.

Composition: `PullRequestReview` extends `ReviewJobs`, which extends `JobStore`;
`FanOut` extends `ReviewPlan` and `QuotaWindows`; `ReviewInputs` extends the
modules of operators; `AgentService` puts
`AgentReview`, `StyleSandbox` and the health calls into one process with one clock. `ReviewJobs` abstracts a whole
`FanOut` into `RunSettles` (a report of any status, or a rejection, at any time),
and `FanOut` abstracts a whole `AgentReview` into `CallAnswers` and `CallFails`.
What these abstractions use is checked below: `ReviewsSettle` for the first,
`PartialResultsArrive` and `CountedOnTheAnswerer` for the second.

### Correspondence to the code where it is not evident

* `createJob` calls `execute` without awaiting it, and `execute` runs to
  `await this.run(...)`. A job is therefore never seen `queued`:
  `ReviewLifecycle` allows that status, as the contract does, and `ReviewJobs`
  accepts every job as `running`.
* `RunSettles` and `ExecuteReported`/`ExecuteRejected` are two steps: the promise
  settles, and its awaiter resumes in a later microtask. Between them a cancel
  may run. That is more interleaving than Node's microtask queue allows, hence
  sound for safety.
* `startedFor` has no counterpart in the code: no action reads it. It keeps the key each job was
  created with after a sweep has cleared `keyOf`, so that `OneLiveRunPerKey` speaks of swept
  jobs too.
* `FanOut.ReserveAndSend` is one step: after `reserveBatch` resolves, the send
  begins before anything else can take the quota (the reservation is already an
  entry).
* The scan of an agent takes time but no event: `ScanFile` can be far apart
  in time, while timers and sockets of that process are silent.
* Docker is two actors. The client is a child process the agent can end at once;
  the daemon starts what the client asked for and removes it when it has run, whatever
  has become of the client. `container = "coming"` is a container that was asked for and
  cannot be killed yet.
* `cached` is the slot of the round whose promise the health router caches; the other slots
  of `rounds`, which only a wrong `NeedsPoll` can fill, are there so that such a mistake is seen. A
  round that nobody awaits and nobody can be told of is forgotten (`Aged`). A
  request that awaits the cached promise changes nothing, so it is not a step. One agent
  stands for the five of a round: they do not interact.
* A crash takes all an agent knew of a request it had not answered; its container, its
  directory and the caller's call remain. A shutdown by signal is among these behaviours:
  open requests are answered, others are refused, and the process ends.
* The bodies of comments, annotations, summaries and prompts are not in the
  models. Tokens are numbers; in `ReviewedFiles` a path stands for its language and
  a patch for its size, in `Patches` a patch is its rows.
* A line of code is the sequence of its tokens and a layout. A formatter is
  external: it keeps the tokens in order, and `ReviewInputs!Outputs` lets it choose
  every line break, the layout and a blank line; it puts a wrapper's brace on a line
  of its own unless the block is empty (`{}`), which is what `stripWrapper` detects.
* git's diff is external as well: `Patches!Diff` writes the rows of any edit, with the
  context git shows, in each of the frames a patch arrives in (a marker before the
  first header, blank context rows that lost their space, a trailing blank row or
  "no newline" marker).
* An LLM call ends in one of the ways of `AgentReview!Answers`; `KindOf` is the
  `LlmErrorKind` the providers and `postJson` make of it, and `ShouldFallBack` decides
  on kind and status, as the client does.

## 3. Runs and what they show

| run | question | bounds | result |
|---|---|---|---|
| `jobs` | can any order of creates, cancels, late results and sweeps orphan, resurrect or double a job, swept ones included? | 3 jobs, 1 key, clock 0..1, retention 1 | none can; every run ends; refines `ReviewLifecycle` |
| `quota` | does a key stay within its limits, and is `retryAt` exact? | 4 entries, minute 2, day 3, clock to 5, four limits that bind in turn | yes: it suffices, and is at most one millisecond late (the `+ 1` of `retryAt`) |
| `fanout` | do two reviews on the same keys use them correctly while calls fail, fall back and are aborted? | 2 reviews that begin at 0 or 1, 2 batches each, one fits Gemini only; one call a minute per key | yes |
| `fanout_agents` | do two LLM agents, one plain agent and a missing one of a review settle in time with an honest status? | 1 review, 2 batches, one wait fits the deadline and a second does not | yes, under fairness |
| `inputs` | do the review's pure computations keep their promises on every small input? | planner: ≤ 4 files of six sizes around the caps; report: ≤ 3 findings of 3 keys; 2 thresholds besides the default at either level; filters: ≤ 2 files over all filters, any agents switched off, one without an implementation among them; patches: ≤ 6 edits; fixes: hunks of ≤ 3 tokens with every formatting; security: ≤ 2 matches and ≤ 2 answer items on 4 lines | yes |
| `pull_request` | can redelivery, lost and late calls, GitHub errors and restarts double or falsify a review on GitHub? | 2 requests with one delivery, 2 jobs | no |
| `pull_request_live` | is every publisher done and every check concluded? | 2 requests, 1 job, orchestrator restarts | yes, with GitHub and the gateway up |
| `agent` | do margins and caps leave the time they are for, are tokens counted on the right key, does anything outlive its request, and is the health told true, whatever the process, docker and the network do meanwhile? | 1 batch, timeout 11, margin 4, every scan length and error, 1 crash, health rounds that begin by 2 | yes |
| `redelivery` | does a `duplicate_ignored` answer always have an owner? | 2 requests, 1 job | **no**, finding 1 |
| `agent_spent` | does a failed LLM call keep its estimate? | 2 files, timeout 11, no crash | **no**, finding 2 |
| `style_fixes` | is each fix safe to apply on its own? | hunks of ≤ 3 tokens | **no**, finding 3 |
| `security_duplicates` | is an LLM finding dropped only close to a rule's match? | ≤ 2 matches, ≤ 2 answer items | **no**, finding 4 |

Why the bounds are enough:

* `jobs`: three jobs of one key let a swept job's key be taken by a second and a
  third while the runs of the first two are still ending; jobs without a key are
  among them too. A sweep that took an unfinished job would leave its run beside the next one's. A second key is independent of the first in the code (the maps
  are only read at the key). With retention 1 and clock 0..1 there are jobs
  before, at and after their retention.
* `quota`: four entries let one be pruned, one leave the minute window, one be
  counted and a fourth ask for room. Limits are such that each of the four
  windows is the binding one in some state.
* `fanout`: each key holds one call a minute, so two reviews of two batches fill
  both keys, sleep, wake together, and compete for what is free; the loser finds
  that a second wait is too long and gives up. A review that begins at 1 gives up with moments left
  at which a call could still begin, so that `GivesUpOnlyWhenHopeless` is asked of them; one that begins at 0
  gives up with none left. `MaxId` bounds the entries ever pushed on a
  key, as it does in `QuotaBudget`; here it is above every id reachable, so no run is held up by it.
* `fanout_agents`: one wait for the minute window leaves exactly `MIN_CALL_MS`, the
  edge of the condition; another one does not fit and is given up. The review may
  have nothing to send, too.
* `inputs`: the inputs are independent (no computation reads two of them), so a
  state holds one. Four files let the planner fill a batch, open a second, meet the
  review's budget and still place a smaller file; a file may be over one cap
  and under another. Three findings are the least in which a tie, a better
  duplicate and another key meet; the comment limit and the annotations per
  request are two. A repository that has chosen a threshold is tried on two findings:
  the third only adds another tie. Six edits with one line of context give two hunks that are
  apart, and two that merge. A hunk of three tokens over `{` and `}` may need a wrapper
  at either end; `MaxDiffLines` is 3, so longer formattings take the code's
  shortcut. Lines 1 to 3 are added and line 4 is not; with `DuplicateLines` 1 and `MaxSpan`
  2 a range can be short, clipped, or reach past the added lines, and two
  matches of an issue can be near or apart.
* `agent`: all orders of deadline, cap and fallback floor occur: the deadline is 7 or 8,
  Groq's cap 3, the retry's floor 2, the scan may end at any time up to 12. Every
  kind of answer, with each status that matters to the fallback, may come. The
  sandbox's cap of 6 is before the deadline when the run begins early and after it when
  it begins late; a kill takes up to 3 (and a timer's lateness), which with the travel
  times is less than the margin or more. One file is enough: the loop does not look at the
  clock. Health rounds begin at 0, 1 or 2 (`LastPollAt`), time out after 3 and are cached for 5,
  so they fall into the scan, the LLM call and the sandbox's run, and expire before the end;
  a second round would meet nothing new but a later phase of the same request. Two rounds in flight
  (`MaxRounds`) are one more than there may be. After one crash the process may start again
  and be asked; a second would find no request to lose.
* `pull_request`: a job that is swept or lost in a restart can be replaced by a
  second one for the same delivery. One poll is "unfinished, then out of time";
  more polls only repeat it. GitHub may fail any call, with or without effect.

Deadlock checking is off in every run: the clock is bounded and clients need not
act, so each of these systems may rightly stop. That they do not stop early is
what `RunsEnd`, `ReviewsSettle`, `PublishersEnd` and `ChecksConclude` say.

## 4. Fairness

* `jobs`: weak fairness of a run's settling (agent calls carry timeouts, sleeps
  end or reject; this is `ReviewsSettle` of the level below) and of its awaiter
  (the event loop). None for creating, cancelling or the clock.
* `fanout_agents`: weak fairness of time, of each run's steps (a sleep ends, a
  continuation runs, and a call ends, if only by the caller's timeout) and of the
  review's (`Aggregate`). An agent need not answer: a failure is a step as well.
* `pull_request_live`: weak fairness of each publisher's steps (each of its calls
  has a timeout, and a poll that gets no answer counts as failed). None for the
  jobs, and none for restarts: a job may stay unfinished for ever.

## 5. What is proved

Every theorem is about a specification as the runs check it, for all values of
its constants that satisfy the modules' named assumptions: numbers are natural numbers
(`PlanAssumption`, `AggregationAssumption`, `SpanAssumption`, `ContextAssumption`,
`InputsAssumption`, ...; thresholds and confidences are integers), a
request to GitHub can carry an annotation, `None` is not among the values it stands beside, limits are records of
numbers, and a plan is a sequence of batches. The clock's and ids' bounds (`MaxNow`, `MaxId`) and the
bounds on the length of an input (`MaxRequest`, `MaxFindings`, `MaxFiles`, `MaxEdits`, `MaxMatches`,
`MaxItems`) may be anything: what is shown of the computations of a review holds for
inputs of every length. Where a theorem has a hypothesis besides, it is given with it.

### Jobs and pull requests

`PullRequestProofs`, for every set of job ids and keys and every retention:

| theorem | states |
|---|---|
| `TypeCorrect` | `[]TypeOK` |
| `KeyIndexAlwaysExact` | `byKey` and the stored jobs' own keys are inverse |
| `NeverOrphaned` | an unfinished job has a live, unsettled `execute` |
| `CancelledRunsAreStopped` | a live controller belongs to a running job |
| `ResultsMatch` | the result fits the status, also after a late report |
| `OneReviewPerDelivery` | at most one live run among the jobs ever started for an idempotency key, swept ones included |
| `FinishedJobsNeverChange` | a terminal job changes only by being swept |
| `RetentionHonoured` | swept only when expired, and then by the next insert |
| `ImplementsLifecycleSafety` | every step is a step or a stutter of `ReviewLifecycle` |

None of the invariants is inductive alone. That a swept job leaves no live run
needs `NoOrphanedJob`'s converse (`OnlyLiveJobsRun`); that two live runs of a key
are the same needs the key index to be exact and every stored job to be filed under the key it was
started for (`FiledAsStarted`), and that a fresh id is filed nowhere
needs `FreshIds`. The inductive invariant is

    IInv == TypeOK /\ FreshIds /\ FiledIsStored /\ FiledAsStarted /\ HeldWhileRunning
            /\ KeyIndexExact /\ NoOrphanedJob /\ OnlyLiveJobsRun /\ ResultMatchesStatus

One lemma per action keeps it, on top of two about the store (`CreateJobEffect`: what an
insert with its sweep does to every job; `UpdateKeepsStore`). `JobStep` says what any step
may do to one job, and carries the two action properties; `NextImplementsLife`
carries the refinement.

The same module, for every set of handlers, deliveries and jobs, with lost and
late calls, failures of GitHub and restarts of both services:

| theorem | states |
|---|---|
| `PRTypeCorrect` | `[]PRTypeOK` |
| `OnlyOnePublisher` | no two publishers follow one job |
| `GreenIsCompleted` | a green Check Run belongs to a job that completed |
| `CommentedOnce` | one job's comments are posted at most once, by one publisher, and only for a report |
| `ConcludedOnce` | a concluded check is not reopened or concluded otherwise |
| `ControllerStaysConsistent` | what is proved of the controller alone holds here, restarts included |

`PRIInv` extends `IInv`. A green check is about a poll answered long before, so it needs
that what a poll learnt of a finished job stays true (`SeenIsFinal`); this rests on one fact
about any step of controller or restart (`Remembered`, `NextRemembers`, `RestartRemembers`): a
finished job shows its status or nothing. One publisher per job needs that one answer at most
says "created" (`OneCreator`), which a redelivery, a lost answer and a restart must keep; `CommentedOnce` follows
from it and from each publisher's posting once. A pull request gets comments again when a redelivery
starts another job, after a restart or the retention (section 6). One
lemma for all the publisher's steps (`PubKeepsInv`) leaves each of them to show only what it does to its own part.

### An agent's process

`AgentServiceProofs`, for every timeout, margin, cap, floor, duration of a kill, number of files, crashes and rounds:

| theorem | states | hypothesis |
|---|---|---|
| `ServiceTypeCorrect` | `[]ServiceTypeOK` | |
| `SandboxIsCleared` | `[]NothingOutlivesTheRequest` | |
| `TokensOnTheAnswerer` | `[]CountedOnTheAnswerer` | |
| `RetryHasItsTime` | `[]SlowGroqLeavesTime` | |
| `MarginIsEnough` | `[]PartialResultsArrive` | `DeadlineMarginMs <= TimeoutMs` |
| `HealthIsTrue` | `[]HealthTellsTheTruth` | `HealthTimeoutMs + LagMs < CacheMs` |

The hypothesis of `MarginIsEnough` says that a call is not sent with less time than the margin;
the router keeps `MIN_CALL_MS` (5 s, `llm-routing.ts:13`) for it and the margin is 2 s
(`O/graph/defaults.ts`). Below that the agent's
deadline, floored at zero (`fan-out-node.ts:156`), would be less than a margin before the caller's. That of `HealthIsTrue` holds with the router's
defaults, 2 s and 30 s: otherwise a second round could begin while the first is in flight.

`ReviewInv` relates the phases of the call, the agent, the LLM and the sandbox, each with its time
stamps; `RoundsInv` is about the health rounds and is kept on top of it, since it needs no more of a review than
whether the process is free. Both are shown one group of steps at a time.

### Keys and fan-out

`QuotaBudgetProofs`, for all limits, headroom, window lengths and token amounts:

| theorem | states |
|---|---|
| `WithinLimits` | `[]GrantedWithinLimits` |
| `RetryIsRight` | `[]RetryAtExact` |
| `NothingCountedIsForgotten` | `PruneForgetsNothing` |

The sums over entries are the reason `Total` counts units: its laws (`TotalGrows`, `TotalOfUnion`,
`TotalSplits`) are then those of finite sets, without induction. `QuotaWindowsProofs` shows that
the first departure exists (`FirstIs`), makes room when it has come (`DepartureServes`), and
that the window is too full more than a millisecond before it (`NoRoomBefore`); `RetryIsExact`
puts them together. `BudgetInv` adds that ids follow the clock and that an open reservation
counts what it was granted: a window that was within its limit when it was last granted in stays so, because
what settles late never counts more than was approved.

`FanOutProofs`, for any number of reviews, agents, batches and any limits:

| theorem | states | hypothesis |
|---|---|---|
| `FanSafe` | `[]FanInv` | |
| `NoCallAfterAbort` | `NothingSentAfterAbort` | |
| `GroqUsedAsPromised`, `GeminiUsedAsPromised` | `Groq!Spec`, `Gemini!Spec` | the key is set |
| `BudgetsAreUsedAsPromised` | `BudgetsUsedAsPromised` | both keys are set |
| `FanOutTypeCorrect` | `[]TypeOK` | |
| `DeadlinesAreKept` | `[]CallsFitTheDeadline` | `TimeEnough` |
| `UnansweredCallsAreCounted` | `[]UnansweredCallsCount` | |
| `StatusIsTrue` | `[]StatusTellsTheTruth` | |
| `GivesUpForAReason` | `GivesUpOnlyWhenHopeless` | |

`FanInv` says that an LLM agent's batches go out in their order and a run that reserves or sleeps is at
exactly one of them (`At`), that no two calls share a reservation (`IdsOfTheirOwn`), and
that a cancelled review has no call in flight. `KeysStep` shows what any step does to
one key: a reservation, a charge, a settlement or release of an open reservation, time, or nothing; the refinement to
`QuotaBudget` follows key by key, and `BudgetInv` of each key then holds in `FanOut` through the refinement
(`KeysSafe`). The other theorems use it: `GivesUpForAReason` needs `RetryIsExact` of the key,
`DeadlinesAreKept` that a sleep ends at an answer of a key (`WaitIs`, `WakeInv`). `CallsStep` and `PhasesStep` say what any
step does to one call and one run.

`TimeEnough` is `LagMs < MinCallMs /\ MinCallMs <= Max({AgentTimeoutMs, LlmTimeoutMs})`: timers are less than
5 s late, and a run has at least 5 s. The defaults are 20 s and 45 s. The second half is not enforced:
`O/config.ts:43` and a job's `agentTimeoutMs` accept one second, and with both timeouts
below five a call can be sent with less than `MIN_CALL_MS`, since only waiting is guarded by it.

### The computations of a review

`ReviewInputsProofs`, for inputs of every length and all limits:

| theorem | states |
|---|---|
| `TypesOfInputs` | `[]InputsAre` |
| `PlanIsSoundAtLast`, `FilesArePlannedOnce` | any files' plan is sound; `[]EveryFileOnce`: a batch over the batch size is one file alone |
| `BatchesKeepToTheLimitIfFilesDo` | `[]BatchesKeepToTheLimit`, under the hypothesis `MaxFileTokens <= MaxBatchTokens` |
| `PlanCoversMost`, `PlansCoverMost` | any files' plan is the best there is; `[]CoversMost` |
| `DedupeAlwaysKeepsTheBest` | `[]DedupeKeepsTheBest` |
| `ShownIffSureAlways` | `[]ShownIffSomeAgentIsSure` |
| `WorstAreAlwaysPosted` | `[]WorstArePosted` |
| `UnreviewedIsAlwaysExplained` | `[]UnreviewedIsExplained` |
| `AddedLinesAreAlwaysTheChange` | `[]AddedLinesAreTheChange` |
| `BlocksAreAlwaysTheDifference` | `[]BlocksAreTheDifference` |
| `FixesAlwaysKeepToThePullRequest` | `[]FixesKeepToThePullRequest` |
| `FixesAlwaysCoverTheirIssue` | `[]FixesCoverTheirIssue` |

These are folds over a list, so each is an induction over data. The library's induction
theorems take an operator for a parameter, which no installed prover can
instantiate. `CollectionProofs` has them with sets for parameters instead:
`PrefixInduction` (a set with 0, and with every number whose predecessor it has, has
all numbers up to n) and `SubsetInduction`, both from the well-foundedness of inclusion on
finite sets. What a fold is follows from them: some function on the subsets of
its domain satisfies the fold's equation (`FoldExists`), only one does
(`FoldIsUnique`), and along a list it has a history `h`, with `h[0]` the base
and `h[k]` the step from `h[k-1]` (`LeftFoldPrefixes`). Every fold of the modules has
a lemma that gives its history (`...Folds`), an invariant of it, and a lemma that the step keeps
the invariant. These invariants are the content:

* Planner (`PlanIsSound`): of the files placed so far each is held or skipped, once, for a reason
  that stays true, as the budget used only grows. That the plan covers most is an exchange argument:
  among the files of one class (source or not) those sent are the lightest
  (`SentAreTheLightest`), so any other choice with as many of them weighs at
  least as much, and the lightest file left out would not have fitted (`LightestOfTheClass`).
* Report (`KeptIsSound`): a key is kept once, as the first best of its reports so far, with their number. Ranking is
  a strict total order, so sorting lists every finding once (`SortLists`), and whatever is
  filtered from a ranked list stays ranked (`PlacesStayRanked`); the comment limit takes its head.
* Coverage: the five filters are sets of files; each file is followed through them for every set of agents.
* Patches (`InStep`): after each edit, the reader's next line is the new file's, in each of the frames; a
  header makes it so again after lines that git left out.
* Diff (`Matched`, `Walked`): lines before the walk are paired in order; a pair is in no block and equal, or
  both its lines are in blocks. It holds for whatever `Lcs` says: only that fixes are small rests on
  the longest common subsequence. `Widen` keeps it and leaves no block without a line of the hunk.
* Formatter: an output is the fragment cut up into lines (`CutUp`); cutting off the lines that are the
  wrapper's leaves the hunk's tokens (`StrippedHasTheCode`). `InputsAre` carries this: a state's formatted
  text has the tokens of its hunk.
* Security Agent (`MergeIsSound`): a rule finding has its match in its range, and a fix only added lines.

### What the proofs changed

* `GivesUpOnlyWhenHopeless` was stated up to `deadline - MinCallMs` and was false by one millisecond:
  an entry leaves its window at `at + spanMs` (`quota-budget.ts`, `entry.at > now - spanMs`) and `retryAt` is one later, so
  a run can give up on room that appears exactly `MIN_CALL_MS` before the deadline. TLC confirms it with
  `LlmTimeoutMs = 3`; the runs' constants never met it. The property now excepts that millisecond, as `RetryAtExact` does.
* `QuotaBudget.TryReserve` was guarded by `MaxId` even when it refuses and pushes nothing; the
  refinement fails at the bound. Now only a grant is bounded.
* The rounds of `AgentService` were a sequence whose length the model's bound cut; they are slots now, and
  `FanOut` states what a plan is.
* `UnreviewedIsExplained` was checked with the two agents that exist. The theorem is about
  any agents, and the `inputs` run has one without an implementation besides, and switches off any of them.
* `Close` returned a state of the walk whose other fields nobody read; it returns the
  blocks, and the walk's three branches are operators of their own (`Pair`, `Insert`, `Delete`).

### What is only model-checked

Out of the prover's reach: liveness under fairness (`RunsEnd`, `ReviewsSettle`,
`PublishersEnd`, `ChecksConclude`, and the fairness part of `ImplementsLifecycle`). Every other property
of the passing runs has a theorem that states it. `FanOutAssumption` asks of a plan only
that it is a sequence of batches with their sizes; `PlanIsSoundAtLast`, about the same operators, shows that of
any files' plan (`Plans`), and more. That a diff is a smallest one is neither stated nor needed.

## 6. Findings

1. **A redelivery that nobody owns** (`redelivery`). `github-webhook.ts:119` says of a
   `duplicate_ignored` answer: "the first delivery already owns the Check Run and
   the review". When the first request's `POST /review-jobs` timed out after the
   orchestrator created the job, the first delivery was answered 502 and started
   no publisher; the redelivery finds the job and starts none either.
2. **Spent tokens given back** (`agent_spent`). `fan-out-node.ts:114`: "A failed call
   keeps its estimate: the provider may have spent the tokens". An agent whose own
   LLM call timed out or was unusable answers 200 without usage, and `settleCall`
   releases the reservation.
3. **A fix that is not safe alone** (`style_fixes`). `services/style-agent/src/findings.ts:56`: "the fix below
   is deterministic and safe to apply". For the added lines `foo` / `.bar()` / `foo`, formatted to
   `foo.bar();` / `foo;`, the diff aligns the first `foo` with the last one; two
   overlapping fixes result (`findings.ts:180`), and the second, which turns all
   three lines into `foo;`, drops code when it is committed alone.
4. **A finding dropped for one that is not near** (`security_duplicates`).
   `services/security-agent/src/agent.ts:13`: "True when a rule already reported this issue:
   same file, same CWE (or rule id), within a few lines". A rule finding that takes an
   LLM fix moves to the fix's first line (`agent.ts:38`); the next LLM finding is compared with
   that line, and is dropped although the rule's match is further away than
   `DUPLICATE_LINES`.

Seen while modelling, modelled as the code has it, and not run as findings:

* A scan that outlives the deadline is not cut short and produces no
  `over_budget` skips, since the loop over files never yields to the timer
  (`KIT/review.ts:82`). `PartialResultsArrive` is stated for scans that end by
  the deadline.
* `O/budget/plan.ts:33` says "packed in that order into batches of at most `maxBatchTokens`". A file that does
  not fit the last batch starts its own (`plan.ts:58`), whatever its size, so a file over the batch
  size and within the file cap is sent as a batch that exceeds it. The `inputs` run has such files
  (cap 6, batch size 5), and `EveryFileOnce` says what holds of them. With the defaults (6000 and 12000)
  there are none, and `BatchesKeepToTheLimitIfFilesDo` proves the line for any file cap that is not
  above the batch size; but nothing in `LLM/limits.ts` asks that of the two settings, and
  `O/graph/fan-out-node.test.ts:179` plans with 6000 and 3000.
* One failed batch of the only LLM agent makes the review `failed`, although
  others were answered (`fan-out-node.ts:133`).
* A charge after a fallback may put Gemini over its limit (`quota-budget.ts:45`);
  `GrantedWithinLimits` speaks of what was granted.
* A 429 whose body is no JSON becomes an error of kind `http`, which is not retried on
  Gemini unless its status is (`http.ts`, `llm-client.ts:96`); the client's doc says it
  fails over on exhausted quota. `KindOf` and `ShouldFallBack` have it so.
* The note "see the annotations" promises findings that were not posted inline; when
  there is no Check Run, or a later annotation request fails, they are nowhere.
  `WorstArePosted` speaks of the requests that are to be sent.
* "The container is removed afterwards and killed at the deadline"
  (`services/style-agent/src/sandbox.ts:55`) has three exceptions: a kill that is sent before the daemon has
  started the container finds none (`kill = "missed"`), a kill that fails or takes ten
  seconds is swallowed (`sandbox.ts:86`), and a client that fails by itself, say by more output than
  `maxBuffer`, is no abort and is followed by no kill. `NothingOutlivesTheRequest`
  excuses these three and a crash, and no other.
* The kill's ten seconds are more than the margin of two (`O/graph/defaults.ts`): with a docker
  daemon that hangs, the skipped files of a request stopped at its deadline do not reach
  the review. `PartialResultsArrive` subtracts what the kill took (`KillTime`).
* An agent that scans for longer than the health call's two seconds is told to be `unavailable` for
  as long as the answer is cached, thirty seconds. `HealthTellsTheTruth` allows it (`trouble`).
* With a Groq key only and the default limits, a full batch (`LLM_MAX_BATCH_TOKENS` 12000) is more than
  Groq's key admits in a minute at all (8000 with the headroom, less the prompt and the
  output), so it is skipped as over budget; `GroqMaxBatchTokens` and `Candidates` have it so.
* A failing `completeCheckRun` leaves the check in progress (`follow()` logs it),
  and a gateway restart does so too; `ChecksConclude` assumes both away.
* A redelivery after the retention window, or after a restart of the orchestrator, starts a second
  job, Check Run and review on the same pull request; `OnePublisherPerJob` and `CommentsOnce`
  speak of one job's.

## 7. Not modelled, and why

* Authentication, sessions, webhook signatures: stateless checks, and out of
  this project's scope.
* The gateway's other stores and REST routes: look-ups of copied rows; only
  `touchLastUsed` writes, and nothing reads what it writes.
* Similar-issue lookup and embeddings: not wired into the graph at this commit.
* Logic and Documentation Agents, dashboard, editor extension: not implemented.
* LLM limits (`LLM/limits.ts`): parsing of settings; the limits themselves are constants.
* What the sandbox's tools do inside the container (a formatter is external, see
  above), indentation of a fragment, GitHub pagination, the security rules and the
  masking of secrets: text or a library's I/O.

## 8. Plan

Order: what loses or doubles a review first, then quota, then what the report
says. All steps are done.

1. `JobStore`, `ReviewJobs`, `ReviewLifecycle` and their proofs.
2. `QuotaWindows`, `QuotaBudget`.
3. `ReviewPlan`.
4. `FanOut` over 2 and 3, each key shown to be a `QuotaBudget`.
5. `PullRequestReview` over 1, with the Check Run's sequence of requests.
6. `Aggregation`, `ReviewedFiles`, `StyleFixes`.
7. `AgentReview`.
8. `Patches` and `SecurityFindings`; all pure computations under `ReviewInputs`.
9. `StyleSandbox`: container, format request and kill against the request's
   deadline; `AgentService`: the process that crashes, and the agents' health;
   `RepositorySettings` and diagnostics under `ReviewInputs`.
10. Proofs: the safety of `PullRequestReview` over the theorems of 1; `AgentService`;
    `QuotaBudget` with finite sums; `FanOut`, its refinement to two `QuotaBudget`s, and
    the properties that rest on it.
11. Proofs about the computations: `CollectionProofs` (induction, folds, sums, sorted
    lists), then planner, report, coverage, the merge of security findings, patches, diff and fixes.

What could follow: that a run's messages are those of the plan (`FanOut` with
`PlanIsSoundAtLast`), and a second agent in `AgentService`, for a round of health calls as a whole.
