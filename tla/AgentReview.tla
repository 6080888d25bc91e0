------------------------------ MODULE AgentReview -------------------------------
(***************************************************************************)
(* One batch at an LLM agent: the orchestrator's call with its reservation *)
(* (fan-out-node.ts send, agent-client.ts), the agent's request handler    *)
(* and deadline (agent-kit app.ts, review.ts), its scan and LLM pass       *)
(* (security-agent), and the LlmClient that asks the reserved provider and *)
(* may fall back from Groq to Gemini (packages/llm).  The agent is one     *)
(* Node process: its timers and socket events cannot fire while it scans.  *)
(***************************************************************************)
EXTENDS Integers, FiniteSetsExt

CONSTANTS
  TimeoutMs,       \* what the run has left when it sends
  DeadlineMarginMs,
  GroqTimeoutMs, MinFallbackMs,
  TravelMs,        \* the longest a request or a response takes
  LagMs,           \* how late a timer may fire
  MaxFiles, MaxNow,
  None

LlmProviders == {"groq", "gemini"}
LlmErrorKind == {"rate_limited", "http", "network", "timed_out", "invalid_response"}

ASSUME AgentReviewAssumption ==
  /\ {TimeoutMs, DeadlineMarginMs, MinFallbackMs, TravelMs, LagMs, MaxFiles} \subseteq Nat
  /\ GroqTimeoutMs \in Nat \ {0}
  /\ None \notin LlmProviders \cup LlmErrorKind

VARIABLES
  now,
  keys,       \* providers the agent has a key for
  reserved,   \* options.llmProvider, None when the orchestrator has no key
  phase,      \* where the request is; "sandboxed" and "lost" are AgentService's
  deadline,   \* deadlineAt
  left,       \* eligible files whose turn has not come
  reached,    \* files scanned
  scanEnd,    \* when the scan was over
  stopped,    \* context.signal.aborted
  asking, askedAt, until,   \* the LLM call in flight and its callSignal
  asked,      \* providers a request was sent to
  error,      \* kind of the last LlmProviderError
  usage,      \* response.llm.provider, None without tokens
  repliedAt,
  hungUp,     \* the orchestrator closed the connection
  outcome,    \* what `send` resolved to
  quota       \* what became of the reservation

llmVars  == <<asking, askedAt, until, asked, error>>
scanVars == <<left, reached, scanEnd>>
agentVars == <<keys, reserved, phase, deadline, scanVars, stopped, llmVars, usage, repliedAt>>
callVars == <<hungUp, outcome, quota>>
vars == <<now, agentVars, callVars>>

(* What a provider may send: a completion's text, other JSON (an error     *)
(* object, a cut-off or blocked or empty completion), or no JSON at all.   *)
Answers == [status : {"2xx", "429", "4xx", "5xx"}, body : {"text", "other", "page"}]

TypeOK ==
  /\ keys \subseteq LlmProviders /\ reserved \in LlmProviders \cup {None}
  /\ phase \in {"travelling", "scanning", "asking", "sandboxed", "answered", "refused", "lost"}
  /\ {deadline, left, reached, scanEnd, askedAt, repliedAt, now} \subseteq Nat
  /\ asking \in asked \cup {None} /\ (asking # None => until > askedAt)
  /\ asked \subseteq keys /\ error \in LlmErrorKind \cup {None}
  /\ usage \in asked \cup {None}
  /\ outcome \in {"none", "ok", "failed", "timed_out"}
  /\ quota \in {"none", "estimate", "settled", "charged", "released"}
  /\ reserved = None => quota \in {"none", "released"}

(* runLlmAgent has reserved and sent; the agent has any keys.              *)
Init ==
  /\ now = 0
  /\ keys \in SUBSET LlmProviders
  /\ reserved \in LlmProviders \cup {None}
  /\ phase = "travelling" /\ deadline = 0
  /\ left = 0 /\ reached = 0 /\ scanEnd = 0
  /\ stopped = FALSE
  /\ asking = None /\ askedAt = 0 /\ until = 0 /\ asked = {} /\ error = None
  /\ usage = None /\ repliedAt = 0
  /\ hungUp = FALSE /\ outcome = "none"
  /\ quota = IF reserved = None THEN "none" ELSE "estimate"

(* Mutant: the agent is told the whole timeout.                            *)
MFullDeadline == TimeoutMs

DeadlineMs == Max({0, TimeoutMs - DeadlineMarginMs})

(* runReview: a provider the agent has no key for is refused (503); files  *)
(* of other languages or too large are left out; nothing eligible, nothing *)
(* to analyse.                                                             *)
Receive ==
  /\ phase = "travelling" /\ ~hungUp
  /\ deadline' = now + DeadlineMs
  /\ \E files \in 0..MaxFiles :
       /\ left' = files
       /\ phase' = IF reserved # None /\ reserved \notin keys THEN "refused"
                   ELSE IF files = 0 THEN "answered" ELSE "scanning"
  /\ repliedAt' = now
  /\ UNCHANGED <<now, keys, reserved, reached, scanEnd, stopped, llmVars, usage, callVars>>

(* analyzePerFile, the turn of one file: it is skipped when the signal has *)
(* fired, else scanned, which takes what time passes till the next step.   *)
(* The loop never yields to the event loop, so the signal cannot fire in   *)
(* it.                                                                     *)
ScanFile ==
  /\ phase = "scanning" /\ left > 0
  /\ left' = left - 1
  /\ reached' = IF stopped THEN reached ELSE reached + 1
  /\ UNCHANGED <<now, keys, reserved, phase, deadline, scanEnd, stopped, llmVars, usage, repliedAt, callVars>>

Reply(provider) ==
  /\ phase' = "answered" /\ usage' = provider /\ repliedAt' = now
  /\ asking' = None

(* Mutants: Groq may take all the time there is; no floor of one           *)
(* millisecond.                                                            *)
MCallUncapped(p) == Max({1, deadline - now})

MCallUnfloored(p) == IF p = "groq" THEN Min({GroqTimeoutMs, deadline - now}) ELSE deadline - now

CallMs(p) ==
  Max({1, IF p = "groq" THEN Min({GroqTimeoutMs, deadline - now}) ELSE deadline - now})

Call(p) ==
  /\ asking' = p /\ askedAt' = now /\ until' = now + CallMs(p)
  /\ asked' = asked \cup {p}

(* runLlmPass, in the same turn as the scan's end: no pass without a       *)
(* reservation or a file, and a prompt over the limit is never sent.       *)
Ask ==
  /\ phase = "scanning" /\ left = 0
  /\ scanEnd' = now
  /\ \/ /\ reserved # None /\ reached > 0
        /\ Call(reserved)
        /\ phase' = "asking"
        /\ UNCHANGED <<error, usage, repliedAt>>
     \/ /\ Reply(None)
        /\ UNCHANGED <<askedAt, until, asked, error>>
  /\ UNCHANGED <<now, keys, reserved, deadline, left, reached, stopped, callVars>>

(* Mutant: names the provider it was told to ask.                          *)
MAnswerer == reserved

Answerer == asking

Usable(answer) == answer.status = "2xx" /\ answer.body = "text"

(* A completion with text, whether or not its findings can be used.        *)
(* Gemini may leave its token counts out.                                  *)
LlmAnswers ==
  /\ phase = "asking"
  /\ \E provider \in {Answerer} \cup (IF asking = "gemini" THEN {None} ELSE {}) : Reply(provider)
  /\ UNCHANGED <<now, keys, reserved, deadline, scanVars, stopped, askedAt, until, asked, error, callVars>>

(* postJson looks at the body before the provider looks at the status.     *)
KindOf(answer) ==
  CASE answer.body = "page" /\ answer.status # "2xx" -> "http"
    [] answer.status = "2xx"                         -> "invalid_response"
    [] answer.status = "429"                         -> "rate_limited"
    [] OTHER                                         -> "http"

ShouldFallBack(kind, status) ==
  kind \in {"rate_limited", "network", "timed_out"} \/ (kind = "http" /\ status = "5xx")

HasTimeForFallback == ~stopped /\ deadline - now >= MinFallbackMs

(* A failed call: once from Groq to Gemini, else the answer goes out       *)
(* without the LLM's part.                                                 *)
LlmFails(kind, status) ==
  /\ phase = "asking"
  /\ error' = kind
  /\ IF /\ asking = "groq" /\ "gemini" \in keys
        /\ ShouldFallBack(kind, status) /\ HasTimeForFallback
     THEN /\ Call("gemini")
          /\ UNCHANGED <<phase, usage, repliedAt>>
     ELSE /\ Reply(None)
          /\ UNCHANGED <<askedAt, until, asked>>
  /\ UNCHANGED <<now, keys, reserved, deadline, scanVars, stopped, callVars>>

LlmRefuses == \E answer \in {a \in Answers : ~Usable(a)} : LlmFails(KindOf(answer), answer.status)

LlmUnreachable == LlmFails("network", "none")

CallSignalFires == now >= until /\ LlmFails("timed_out", "none")

(* context.signal fires, on the deadline or a hang-up, once the event loop *)
(* is free again; the call in flight rejects.                              *)
SignalFires ==
  /\ phase = "asking"
  /\ now >= deadline \/ hungUp
  /\ stopped' = TRUE
  /\ Reply(None)
  /\ UNCHANGED <<now, keys, reserved, deadline, scanVars, askedAt, until, asked, error, callVars>>
---------------------------------------------------------------------------------
(* settleCall, on the usage the response reports.                          *)
SettleCall ==
  quota' = IF reserved = None THEN quota
           ELSE IF usage = None THEN "released"
           ELSE IF usage = reserved THEN "settled" ELSE "charged"

ResponseArrives ==
  /\ phase \in {"answered", "refused"} /\ outcome = "none"
  /\ IF phase = "answered" THEN outcome' = "ok" /\ SettleCall
     ELSE outcome' = "failed" /\ UNCHANGED quota
  /\ UNCHANGED <<now, agentVars, hungUp>>

(* The call's own timeout; the estimate stands.                            *)
CallTimesOut ==
  /\ outcome = "none" /\ now >= TimeoutMs
  /\ outcome' = "timed_out" /\ hungUp' = TRUE
  /\ UNCHANGED <<now, agentVars, quota>>

(* The job is cancelled, or the connection breaks; the estimate stands.    *)
CallBreaks ==
  /\ outcome = "none"
  /\ outcome' = "failed" /\ hungUp' = TRUE
  /\ UNCHANGED <<now, agentVars, quota>>

(* Messages take at most TravelMs and timers are at most LagMs late.       *)
TimePasses ==
  /\ now < MaxNow
  /\ phase = "travelling" => hungUp \/ now < TravelMs
  /\ phase = "asking" => now < until + LagMs /\ now < deadline + Max({1, LagMs})
  /\ outcome = "none" =>
       /\ now < TimeoutMs + LagMs
       /\ phase \in {"answered", "refused"} => now < repliedAt + TravelMs
  /\ now' = now + 1

Tick == TimePasses /\ UNCHANGED <<agentVars, callVars>>

LlmAgentStep ==
  \/ ScanFile \/ Ask
  \/ LlmAnswers \/ LlmRefuses \/ LlmUnreachable \/ CallSignalFires \/ SignalFires

CallStep == ResponseArrives \/ CallTimesOut \/ CallBreaks

Next == Receive \/ LlmAgentStep \/ CallStep \/ Tick

Spec == Init /\ [][Next]_vars
---------------------------------------------------------------------------------
(* A Groq that hangs never costs the batch its Gemini retry: if there was  *)
(* time for Groq's cap and a retry when Groq was asked, a timed out Groq   *)
(* call is followed by one to Gemini (llm-client.ts: groqTimeoutMs,        *)
(* MIN_FALLBACK_MS).                                                       *)
SlowGroqLeavesTime ==
  phase = "answered" /\ error = "timed_out" /\ asked = {"groq"} /\ "gemini" \in keys =>
    deadline - askedAt < GroqTimeoutMs + MinFallbackMs + LagMs

(* An answer's tokens are counted on the key that answered: the reserved   *)
(* one keeps them, or gives the reservation up for a charge on Gemini, and *)
(* a reservation never stays open once its batch was answered.             *)
CountedOnTheAnswerer ==
  outcome = "ok" /\ reserved # None =>
    /\ quota # "estimate"
    /\ quota = "settled" => (error = None /\ asked = {reserved})
    /\ quota = "charged" => reserved = "groq" /\ asked = LlmProviders /\ error # None

(* fan-out-node.ts:114 "A failed call keeps its estimate: the provider may *)
(* have spent the tokens": a reservation whose LLM call failed after the   *)
(* provider worked on it is not given back.                                *)
SpentStaysCounted == quota = "released" => error \notin {"timed_out", "invalid_response"}
=================================================================================
