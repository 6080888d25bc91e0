--------------------------------- MODULE FanOut ---------------------------------
(***************************************************************************)
(* The fan-out of reviews to their agents (graph/fan-out-node.ts) with the *)
(* provider keys all reviews share (budget/llm-routing.ts): every LLM      *)
(* agent of every review plans its batches, reserves each on Groq or       *)
(* Gemini, sleeps while both are full, and sends what it reserved; answers *)
(* settle the reservation; a cancelled job aborts it all.  A run is one    *)
(* agent's part of one review.  JavaScript makes the code between two      *)
(* awaits one step, and the steps of different runs interleave.            *)
(***************************************************************************)
EXTENDS QuotaWindows, ReviewPlan

CONSTANTS
  Reviews, LlmAgents, OnceAgents,   \* OnceAgents: one request with every file
  Missing,                          \* enabled agents no client is configured for
  Providers,                        \* the provider names a key is set for
  Limits,                           \* QuotaLimits by provider
  OverheadTokens,                   \* system prompt allowance plus output cap
  LlmTimeoutMs, AgentTimeoutMs,     \* time a run has, from its start
  MinCallMs,                        \* MIN_CALL_MS
  FileChoices,                      \* the `files` a review may be given
  Usages,                           \* token counts an agent may report
  LagMs,                            \* how late a timer may fire
  StartBy, MaxNow,                  \* bounds on the clock
  MaxId,                            \* bound on the entries ever pushed on a key
  None

(* planLlmReview returns an array of batches, each with its size.          *)
ASSUME FanOutAssumption ==
  /\ Providers \subseteq {"groq", "gemini"} /\ Providers # {} /\ None \notin Providers
  /\ \A p \in Providers :
       Limits[p] \in [requestsPerMinute : Nat, tokensPerMinute : Nat,
                     requestsPerDay : Nat, tokensPerDay : SUBSET Nat]
  /\ {OverheadTokens, LlmTimeoutMs, AgentTimeoutMs, MinCallMs, LagMs} \subseteq Nat
  /\ Usages \subseteq Nat /\ {StartBy, MaxNow, MaxId} \subseteq Nat
  /\ \A files \in FileChoices :
       PlanLlmReview(files).batches \in Seq([files : SUBSET Nat, tokens : Nat])

Agents == LlmAgents \cup OnceAgents \cup Missing
Runs   == Reviews \X Agents
LlmRuns == Reviews \X LlmAgents

VARIABLES
  aborted,   \* reviews whose signal has been aborted
  phase,     \* what each run's async function is doing
  deadline,  \* deadlineAt
  wakeAt,    \* when the sleep it awaits ends
  calls,     \* one record per planned batch, in order
  report,    \* what graph.invoke settled with
  entries, nextId,   \* the QuotaBudget of each provider
  now

runVars    == <<phase, deadline, wakeAt, calls>>
budgetVars == <<entries, nextId>>
vars == <<aborted, runVars, report, budgetVars, now>>

Phase == {"idle", "reserving", "sleeping", "collecting", "rejected"}
CallState == {"planned", "sent", "ok", "failed", "over_budget"}

Planned(tokens) ==
  [tokens |-> tokens, state |-> "planned",
   provider |-> None, id |-> 0, at |-> 0, until |-> 0]

TypeOK ==
  /\ aborted \subseteq Reviews
  /\ phase \in [Runs -> Phase]
  /\ \A r \in Runs :
       /\ deadline[r] \in Nat /\ wakeAt[r] \in Nat
       /\ \A c \in Range(calls[r]) :
            /\ c.state \in CallState /\ c.provider \in Providers \cup {None}
            /\ c.state \in {"planned", "over_budget"} => c.provider = None
            /\ c.until >= c.at
  /\ report \in [Reviews -> {"none", "completed", "partial", "failed", "rejected"}]
  /\ \A p \in Providers : \A e \in entries[p] : e.tokens \in Nat /\ e.id \in 1..(nextId[p] - 1)

Init ==
  /\ aborted = {}
  /\ phase = [r \in Runs |-> "idle"]
  /\ deadline = [r \in Runs |-> 0]
  /\ wakeAt = [r \in Runs |-> 0]
  /\ calls = [r \in Runs |-> <<>>]
  /\ report = [v \in Reviews |-> "none"]
  /\ entries = [p \in Providers |-> {}]
  /\ nextId = [p \in Providers |-> 1]
  /\ now = 0

(* runOnce sends at once; on an aborted signal fetch rejects at once.      *)
OnceCall(v) ==
  [tokens |-> 0, state |-> IF v \in aborted THEN "failed" ELSE "sent",
   provider |-> None, id |-> 0, at |-> now, until |-> now + AgentTimeoutMs]

(* createFanOutNode starts every enabled agent: runLlmAgent plans and goes *)
(* on to its first reservation, runOnce sends, a missing client is a       *)
(* skipped run.  StartBy bounds when.                                      *)
FanOut(v) ==
  /\ now <= StartBy
  /\ \A a \in Agents : phase[v, a] = "idle"
  /\ \E files \in FileChoices :
       LET batches == PlanLlmReview(files).batches
           llm(r)  == r[1] = v /\ r[2] \in LlmAgents
           once(r) == r[1] = v /\ r[2] \in OnceAgents
       IN  /\ calls' = [r \in Runs |->
                          IF llm(r) THEN [b \in DOMAIN batches |-> Planned(batches[b].tokens)]
                          ELSE IF once(r) THEN <<OnceCall(v)>> ELSE calls[r]]
           /\ phase' = [r \in Runs |->
                          IF r[1] # v THEN phase[r]
                          ELSE IF llm(r) /\ batches # <<>> THEN "reserving" ELSE "collecting"]
  /\ deadline' = [r \in Runs |->
                    IF r[1] # v THEN deadline[r]
                    ELSE now + IF r[2] \in LlmAgents
                               THEN Max({AgentTimeoutMs, LlmTimeoutMs}) ELSE AgentTimeoutMs]
  /\ UNCHANGED <<aborted, wakeAt, report, budgetVars, now>>

---------------------------------------------------------------------------------
(* reserveBatch, one turn of its loop.                                     *)
Next1(r) == CHOOSE k \in DOMAIN calls[r] :
              /\ calls[r][k].state = "planned"
              /\ \A i \in 1..(k - 1) : calls[r][i].state # "planned"

Cost(tokens) == [requests |-> 1, tokens |-> tokens + OverheadTokens]

(* Largest diff one Groq call can carry within its per-minute tokens.      *)
GroqMaxBatchTokens ==
  Max({0, (Limits["groq"].tokensPerMinute * HeadroomPct) \div 100 - OverheadTokens})

Candidates(tokens) ==
  {p \in Providers : p = "groq" => tokens <= GroqMaxBatchTokens}

RetryOn(p, tokens) ==
  RetryAt(Windows(Limits[p]), Prune(entries[p], now), Cost(tokens), now)

Room(tokens) == {p \in Candidates(tokens) : RetryOn(p, tokens) = now}

(* Groq first.                                                             *)
Chosen(tokens) == IF "groq" \in Room(tokens) THEN "groq" ELSE "gemini"

RetryTimes(tokens) == {RetryOn(p, tokens) : p \in Candidates(tokens)} \ {Never}

(* Mutant: no throwIfAborted.                                              *)
MTryingAborted(r) == phase[r] = "reserving"

Trying(r) == phase[r] = "reserving" /\ r[1] \notin aborted

(* The candidates tryReserve was called on, which prunes them.             *)
Pruned(tried) ==
  [p \in Providers |-> IF p \in tried THEN Prune(entries[p], now) ELSE entries[p]]

(* An entry pushed now on a key.                                           *)
Pushed(p, tokens, granted) ==
  [id |-> nextId[p], at |-> now, requests |-> 1, tokens |-> tokens, granted |-> granted]

(* A batch sent now to be answered by p, with what it reserved there.      *)
Sending(batch, p, timeoutMs) ==
  [tokens |-> batch.tokens, state |-> "sent",
   provider |-> p, id |-> nextId[p], at |-> now, until |-> now + timeoutMs]

(* Mutant: each call is given the whole timeout again.                     *)
MSendWithFullTimeout(r) ==
  /\ Trying(r)
  /\ LET k == Next1(r)
         tokens == calls[r][k].tokens
         p == Chosen(tokens)
         tried == IF p = "groq" THEN {p} ELSE Candidates(tokens)
         spent == Cost(tokens).tokens
     IN  /\ Room(tokens) # {} /\ nextId[p] <= MaxId
         /\ entries' = [Pruned(tried) EXCEPT ![p] = @ \cup {Pushed(p, spent, spent)}]
         /\ nextId' = [nextId EXCEPT ![p] = @ + 1]
         /\ calls' = [calls EXCEPT ![r][k] = Sending(@, p, LlmTimeoutMs)]
         /\ phase' = [phase EXCEPT ![r] = IF k = Len(calls[r]) THEN "collecting" ELSE @]
  /\ UNCHANGED <<aborted, deadline, wakeAt, report, now>>

(* A reservation, and the call it pays for: runLlmAgent sends the batch as *)
(* soon as reserveBatch returns, and goes on to the next.                  *)
ReserveAndSend(r) ==
  /\ Trying(r)
  /\ LET k == Next1(r)
         tokens == calls[r][k].tokens
         p == Chosen(tokens)
         tried == IF p = "groq" THEN {p} ELSE Candidates(tokens)
         spent == Cost(tokens).tokens
     IN  /\ Room(tokens) # {} /\ nextId[p] <= MaxId
         /\ entries' = [Pruned(tried) EXCEPT ![p] = @ \cup {Pushed(p, spent, spent)}]
         /\ nextId' = [nextId EXCEPT ![p] = @ + 1]
         /\ calls' = [calls EXCEPT ![r][k] = Sending(@, p, Max({1, deadline[r] - now}))]
         /\ phase' = [phase EXCEPT ![r] = IF k = Len(calls[r]) THEN "collecting" ELSE @]
  /\ UNCHANGED <<aborted, deadline, wakeAt, report, now>>

(* Mutant: waits up to the deadline itself.                                *)
MWaitToTheEnd(r) ==
  /\ Trying(r)
  /\ LET tokens == calls[r][Next1(r)].tokens
         times == RetryTimes(tokens)
     IN  /\ Room(tokens) = {}
         /\ times # {} /\ Min(times) <= deadline[r]
         /\ wakeAt' = [wakeAt EXCEPT ![r] = Min(times)]
         /\ entries' = Pruned(Candidates(tokens))
  /\ phase' = [phase EXCEPT ![r] = "sleeping"]
  /\ UNCHANGED <<aborted, deadline, calls, report, nextId, now>>

(* Both are full, and room is expected before the deadline: sleep till     *)
(* then, and try again.                                                    *)
WaitForQuota(r) ==
  /\ Trying(r)
  /\ LET tokens == calls[r][Next1(r)].tokens
         times == RetryTimes(tokens)
     IN  /\ Room(tokens) = {}
         /\ times # {} /\ Min(times) <= deadline[r] - MinCallMs
         /\ wakeAt' = [wakeAt EXCEPT ![r] = Min(times)]
         /\ entries' = Pruned(Candidates(tokens))
  /\ phase' = [phase EXCEPT ![r] = "sleeping"]
  /\ UNCHANGED <<aborted, deadline, calls, report, nextId, now>>

(* Mutant: gives up on room that leaves exactly MIN_CALL_MS.               *)
MGiveUpEarly(r) ==
  /\ Trying(r)
  /\ LET tokens == calls[r][Next1(r)].tokens
         times == RetryTimes(tokens)
     IN  /\ Room(tokens) = {}
         /\ times # {} => Min(times) >= deadline[r] - MinCallMs
         /\ entries' = Pruned(Candidates(tokens))
  /\ calls' = [calls EXCEPT ![r] =
       [k \in DOMAIN @ |-> IF @[k].state = "planned" THEN [@[k] EXCEPT !.state = "over_budget"]
                           ELSE @[k]]]
  /\ phase' = [phase EXCEPT ![r] = "collecting"]
  /\ UNCHANGED <<aborted, deadline, wakeAt, report, nextId, now>>

(* No room in time: this batch and every later one are over_budget.        *)
GiveUp(r) ==
  /\ Trying(r)
  /\ LET tokens == calls[r][Next1(r)].tokens
         times == RetryTimes(tokens)
     IN  /\ Room(tokens) = {}
         /\ times # {} => Min(times) > deadline[r] - MinCallMs
         /\ entries' = Pruned(Candidates(tokens))
  /\ calls' = [calls EXCEPT ![r] =
       [k \in DOMAIN @ |-> IF @[k].state = "planned" THEN [@[k] EXCEPT !.state = "over_budget"]
                           ELSE @[k]]]
  /\ phase' = [phase EXCEPT ![r] = "collecting"]
  /\ UNCHANGED <<aborted, deadline, wakeAt, report, nextId, now>>

Wake(r) ==
  /\ phase[r] = "sleeping" /\ now >= wakeAt[r]
  /\ phase' = [phase EXCEPT ![r] = "reserving"]
  /\ UNCHANGED <<aborted, deadline, wakeAt, calls, report, budgetVars, now>>

(* signal.throwIfAborted().                                                *)
ThrowIfAborted(r) ==
  /\ phase[r] = "reserving" /\ r[1] \in aborted
  /\ phase' = [phase EXCEPT ![r] = "rejected"]
  /\ UNCHANGED <<aborted, deadline, wakeAt, calls, report, budgetVars, now>>
---------------------------------------------------------------------------------
SetCall(r, k, state) == calls' = [calls EXCEPT ![r][k].state = state]

ReleaseOn(p, id) == {e \in entries[p] : e.id # id}

(* Mutant: a failed call gives its reservation back.                       *)
MCallFailsReleasing(r, k) ==
  LET c == calls[r][k]
  IN  /\ c.state = "sent"
      /\ SetCall(r, k, "failed")
      /\ entries' = [p \in Providers |-> IF p = c.provider THEN ReleaseOn(p, c.id) ELSE entries[p]]
      /\ UNCHANGED <<aborted, phase, deadline, wakeAt, report, nextId, now>>

(* A call fails (timeout, network, HTTP status, invalid body) and keeps    *)
(* its estimate: "the provider may have spent the tokens".                 *)
CallFails(r, k) ==
  /\ calls[r][k].state = "sent"
  /\ SetCall(r, k, "failed")
  /\ UNCHANGED <<aborted, phase, deadline, wakeAt, report, budgetVars, now>>

(* Mutant: records the difference from the estimate.                       *)
MSettleDelta(p, id, used) ==
  {IF e.id = id THEN [e EXCEPT !.tokens = used - @] ELSE e : e \in entries[p]}

SettleOn(p, id, used) ==
  {IF e.id = id THEN [e EXCEPT !.tokens = used] ELSE e : e \in entries[p]}

(* Mutant: one entry stands for all charges.                               *)
MChargeOver(p, used) ==
  {e \in entries[p] : e.granted > 0} \cup {Pushed(p, used, 0)}

ChargeOn(p, used) == Prune(entries[p], now) \cup {Pushed(p, used, 0)}

(* Mutant: settles on the answerer's key what was reserved on another.     *)
MSettleOnAnswerer(c, by, used) ==
  IF by = None \/ used = 0 THEN
    /\ entries' = [entries EXCEPT ![c.provider] = ReleaseOn(c.provider, c.id)]
    /\ UNCHANGED nextId
  ELSE
    /\ entries' = [entries EXCEPT ![by] = SettleOn(by, c.id, used)]
    /\ UNCHANGED nextId

(* settleCall: `by` is the provider the agent says answered, None when no  *)
(* LLM was asked.  An agent's client falls back from Groq to Gemini only.  *)
SettleCall(c, by, used) ==
  IF by = None \/ used = 0 THEN
    /\ entries' = [entries EXCEPT ![c.provider] = ReleaseOn(c.provider, c.id)]
    /\ UNCHANGED nextId
  ELSE IF by = c.provider THEN
    /\ entries' = [entries EXCEPT ![by] = SettleOn(by, c.id, used)]
    /\ UNCHANGED nextId
  ELSE
    /\ by \in Providers => nextId[by] <= MaxId
    /\ entries' = [p \in Providers |->
                     IF p = c.provider THEN ReleaseOn(p, c.id)
                     ELSE IF p = by THEN ChargeOn(p, used) ELSE entries[p]]
    /\ nextId' = [p \in Providers |-> IF p = by THEN nextId[p] + 1 ELSE nextId[p]]

AnsweredBy(c) == {None, c.provider} \cup (IF c.provider = "groq" THEN {"gemini"} ELSE {})

CallAnswers(r, k) ==
  LET c == calls[r][k]
  IN  /\ c.state = "sent" /\ now <= c.until
      /\ SetCall(r, k, "ok")
      /\ IF c.provider = None THEN UNCHANGED budgetVars
         ELSE \E by \in AnsweredBy(c), used \in Usages : SettleCall(c, by, used)
      /\ UNCHANGED <<aborted, phase, deadline, wakeAt, report, now>>

(* A cancelled job: every sleep rejects and every call in flight fails.    *)
Abort(v) ==
  /\ v \notin aborted /\ report[v] = "none"
  /\ aborted' = aborted \cup {v}
  /\ phase' = [r \in Runs |-> IF r[1] = v /\ phase[r] = "sleeping" THEN "rejected" ELSE phase[r]]
  /\ calls' = [r \in Runs |->
       [k \in DOMAIN calls[r] |->
          IF r[1] = v /\ calls[r][k].state = "sent" THEN [calls[r][k] EXCEPT !.state = "failed"]
          ELSE calls[r][k]]]
  /\ UNCHANGED <<deadline, wakeAt, report, budgetVars, now>>
---------------------------------------------------------------------------------
(* The merged run of an agent, and the review status its runs imply.       *)
States(r)    == {c.state : c \in Range(calls[r])}
Sent(r)      == States(r) \cap {"sent", "ok", "failed"} # {}
Exhausted(r) == "over_budget" \in States(r)

(* Mutant: a run is in only when every call was answered.                  *)
MRunDoneAnswered(r) == phase[r] = "collecting" /\ States(r) \subseteq {"ok", "over_budget"}

RunDone(r) == phase[r] = "collecting" /\ "sent" \notin States(r)

RunStatus(r) ==
  IF ~Sent(r) THEN "skipped"
  ELSE IF "failed" \in States(r) THEN "failed" ELSE "succeeded"

(* Mutant: a quota gap goes unnoticed.                                     *)
MNeverCutShort(r) == FALSE

CutShort(r) == Exhausted(r) /\ RunStatus(r) # "failed"

(* Mutant: one failed run fails the review.                                *)
MAnyFailureFails(v) ==
  LET runs == {v} \X Agents
  IN  IF \E r \in runs : RunStatus(r) = "failed" THEN "failed"
      ELSE IF \E r \in runs : CutShort(r) THEN "partial" ELSE "completed"

DeriveStatus(v) ==
  LET runs == {v} \X Agents
  IN  IF \A r \in runs : RunStatus(r) # "succeeded" THEN "failed"
      ELSE IF \E r \in runs : RunStatus(r) = "failed" \/ CutShort(r) THEN "partial"
      ELSE "completed"

(* Every run is in: aggregate and the later nodes give the report.         *)
Aggregate(v) ==
  /\ report[v] = "none"
  /\ \A a \in Agents : RunDone(<<v, a>>)
  /\ report' = [report EXCEPT ![v] = DeriveStatus(v)]
  /\ UNCHANGED <<aborted, runVars, budgetVars, now>>

(* graph.invoke rejects with the abort.                                    *)
InvokeRejects(v) ==
  /\ report[v] = "none" /\ v \in aborted
  /\ report' = [report EXCEPT ![v] = "rejected"]
  /\ UNCHANGED <<aborted, runVars, budgetVars, now>>

(* Time passes between steps only, and no timer is more than LagMs late.   *)
Tick ==
  /\ now < MaxNow
  /\ \A r \in Runs :
       /\ phase[r] # "reserving"
       /\ phase[r] = "sleeping" => now < wakeAt[r] + LagMs
       /\ \A c \in Range(calls[r]) : c.state = "sent" => now < c.until + LagMs
  /\ now' = now + 1
  /\ UNCHANGED <<aborted, runVars, report, budgetVars>>

RunStep(r) ==
  \/ ReserveAndSend(r) \/ WaitForQuota(r) \/ GiveUp(r) \/ Wake(r) \/ ThrowIfAborted(r)
  \/ \E k \in DOMAIN calls[r] : CallFails(r, k) \/ CallAnswers(r, k)

ReviewStep(v) == Aggregate(v) \/ InvokeRejects(v)

Next ==
  \/ \E v \in Reviews : FanOut(v) \/ Abort(v) \/ ReviewStep(v)
  \/ \E r \in Runs : RunStep(r)
  \/ Tick

Spec == Init /\ [][Next]_vars

(* Timers fire, a call ends by its timeout, and the event loop runs what   *)
(* is ready.                                                               *)
FairSpec ==
  /\ Spec
  /\ WF_vars(Tick)
  /\ \A r \in Runs : WF_vars(RunStep(r))
  /\ \A v \in Reviews : WF_vars(ReviewStep(v))
---------------------------------------------------------------------------------
(* The reservations not settled or released yet: calls in flight, and      *)
(* failed ones, which keep theirs.                                         *)
Open(p) ==
  {id \in 1..MaxId : \E r \in LlmRuns : \E k \in DOMAIN calls[r] :
     /\ calls[r][k].provider = p /\ calls[r][k].id = id
     /\ calls[r][k].state \in {"sent", "failed"}}

(* What the budgets are asked to hold: a batch with its overhead, and what *)
(* an agent reports.                                                       *)
Amounts ==
  Usages \cup UNION {{Cost(batch.tokens).tokens : batch \in Range(PlanLlmReview(files).batches)} :
                    files \in FileChoices}

Groq == INSTANCE QuotaBudget WITH
  Limits <- Limits["groq"], Tokens <- Amounts, entries <- entries["groq"],
  nextId <- nextId["groq"], open <- Open("groq")

Gemini == INSTANCE QuotaBudget WITH
  Limits <- Limits["gemini"], Tokens <- Amounts, entries <- entries["gemini"],
  nextId <- nextId["gemini"], open <- Open("gemini")

(* Whatever runs share a key, it is used as QuotaBudget expects: nothing   *)
(* is settled twice, released after it was settled, or spent without a     *)
(* reservation or a charge (fan-out-node.ts runLlmAgent, settleCall).      *)
BudgetsUsedAsPromised == Groq!Spec /\ Gemini!Spec

(* A call that may have spent tokens counts against the key it was         *)
(* reserved on, with its estimate, until it leaves the longest window, and *)
(* no two calls share a reservation: neither a failure, an abort, another  *)
(* review's answers nor pruning loses it.                                  *)
UnansweredCallsCount ==
  \A r \in LlmRuns : \A k \in DOMAIN calls[r] :
    LET c == calls[r][k]
    IN  c.state \in {"sent", "failed"} /\ now < c.at + DayMs =>
          /\ \E e \in entries[c.provider] :
               e.id = c.id /\ e.at = c.at /\ e.tokens = c.tokens + OverheadTokens
          /\ \A q \in LlmRuns : \A i \in DOMAIN calls[q] :
               calls[q][i].provider = c.provider /\ calls[q][i].id = c.id => <<q, i>> = <<r, k>>

(* A run neither outlives its deadline, by more than the lateness of one   *)
(* timer, nor waits for quota so long that its call is hopeless: whichever *)
(* key and whichever other run it waited for, what it sends has MIN_CALL_MS*)
(* left, less what its timer was late (NFR-04; llm-routing.ts:12 "A        *)
(* reservation is not worth waiting for unless this much time is left for  *)
(* the call itself").                                                      *)
CallsFitTheDeadline ==
  /\ \A r \in Runs :
       phase[r] \in {"reserving", "sleeping"} \/ "sent" \in States(r)
         => now <= deadline[r] + LagMs
  /\ \A r \in LlmRuns : \A c \in Range(calls[r]) :
       c.state \in {"sent", "ok", "failed"} => c.until - c.at >= MinCallMs - LagMs

(* Once a job is cancelled none of its agents sends another call, also     *)
(* when it was asleep or had not begun (reserveBatch, sleep).              *)
NothingSentAfterAbort ==
  [][\A r \in Runs : r[1] \in aborted =>
       \A k \in DOMAIN calls'[r] : calls'[r][k].state = "sent" =>
         k \in DOMAIN calls[r] /\ calls[r][k].state = "sent"]_vars

(* A run gives up only on a batch no key can take in time: had it waited   *)
(* and nobody else reserved, no provider would have had room at any moment *)
(* that leaves MIN_CALL_MS, but for the last millisecond, which retryAt    *)
(* adds to a departure (README: "waiting until the deadline").             *)
GivesUpOnlyWhenHopeless ==
  [][\A r \in LlmRuns : phase[r] = "reserving" /\ Exhausted(r)' =>
       \A p \in Candidates(calls[r][Next1(r)].tokens),
          t \in now..(deadline[r] - MinCallMs - 1) :
         LET cost == Cost(calls[r][Next1(r)].tokens)
         IN  \E w \in Windows(Limits[p]) : Used(w, entries[p], t) + cost[w.field] > w.limit]_vars

(* The status of a review tells what its agents did, run by run: a         *)
(* `completed` one left nothing out (no call failed, no planned batch was  *)
(* dropped for want of quota), and a `failed` one has no agent whose every *)
(* call was answered ("a slow or failing agent becomes a timed_out /       *)
(* failed run instead of failing the review").                             *)
StatusTellsTheTruth ==
  \A v \in Reviews :
    /\ report[v] = "completed" => \A a \in Agents : States(<<v, a>>) \subseteq {"ok"}
    /\ report[v] = "failed" =>
         \A a \in Agents : Sent(<<v, a>>) => "failed" \in States(<<v, a>>)

(* Every started review settles, whatever keys are full and agents fail.   *)
ReviewsSettle ==
  \A v \in Reviews :
    (\E a \in Agents : phase[v, a] # "idle") ~> report[v] # "none"

=================================================================================
