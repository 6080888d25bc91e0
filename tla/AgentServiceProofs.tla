--------------------------- MODULE AgentServiceProofs ---------------------------
(***************************************************************************)
(* For every timeout, margin, cap, travel time and lateness: what an       *)
(* agent's process keeps of its promises while it scans, asks, falls back, *)
(* is aborted, crashes and is asked for its health.                        *)
(***************************************************************************)
EXTENDS AgentService, CollectionProofs

(* What the LLM pass has asked, in each phase of the request.              *)
Asked ==
  /\ phase # "asking" => asking = None
  /\ phase \notin {"asking", "answered"} => asked = {} /\ error = None
  /\ phase # "answered" => usage = None
  /\ phase \in {"scanning", "asking"} /\ reserved # None => reserved \in keys
  /\ stopped => phase = "answered"
  /\ phase = "asking" =>
       \/ error = None /\ asking = reserved /\ asked = {reserved}
       \/ error # None /\ asking = "gemini" /\ reserved = "groq" /\ asked = LlmProviders
  /\ usage # None =>
       \/ error = None /\ usage = reserved /\ asked = {reserved}
       \/ error # None /\ usage = "gemini" /\ reserved = "groq" /\ asked = LlmProviders

(* The call's side: only an answer settles the reservation.                *)
Called ==
  /\ outcome = "ok" => phase = "answered"
  /\ outcome = "none" => ~hungUp
  /\ outcome = "timed_out" => hungUp
  /\ outcome # "ok" /\ reserved # None => quota = "estimate"
  /\ CountedOnTheAnswerer

(* How long the call in flight has been waited for.                        *)
Waited ==
  /\ until \in Nat
  /\ phase = "asking" => now <= until + LagMs
  /\ phase = "asking" /\ asking = "groq" /\ GroqTimeoutMs <= deadline - askedAt =>
       until = askedAt + GroqTimeoutMs
  /\ SlowGroqLeavesTime

(* What of the sandbox there is, at each stage.                            *)
Sandboxed ==
  /\ phase \in {"travelling", "scanning", "asking"} => stage = "none"
  /\ phase \in {"answered", "refused"} => stage \in {"none", "ended"}
  /\ phase = "lost" => stage \in {"none", "lost"}
  /\ phase # "lost" /\ stage \in {"none", "preparing"} => container = "none" /\ ~dir
  /\ kill # "none" => stage \in {"cleaning", "ended"}
  /\ stage \in {"cleaning", "ended"} /\ container \in {"coming", "running"} =>
       sandboxError = "failed" \/ kill \in {"missed", "failed"}
  /\ stage = "ended" /\ dir => sandboxError = "failed"

(* How far past the deadline an agent that was not deaf can be.            *)
Slack == Max({1, LagMs})
Timely ==
  /\ phase = "travelling" /\ ~hungUp => now <= TravelMs
  /\ deadline <= TravelMs + DeadlineMs
  /\ KillTime >= 0
  /\ scanEnd <= deadline =>
       /\ phase = "asking" \/ stage = "running" => now <= deadline + Slack
       /\ stage = "killing" => cmdUntil - KillMs <= deadline + Slack
       /\ stage = "cleaning" => now - KillTime <= deadline + Slack
       /\ phase \in {"answered", "refused"} => repliedAt - KillTime <= deadline + Slack
  /\ outcome = "none" /\ phase \in {"answered", "refused"} => now <= repliedAt + TravelMs
  /\ outcome = "timed_out" => now >= TimeoutMs

ReviewInv ==
  /\ TypeOK /\ SandboxTypeOK /\ kind \in {"llm", "style"}
  /\ Asked /\ Called /\ Waited /\ Sandboxed /\ Timely

(* What is known of a round from its age, what it heard and its trouble.   *)
RoundFacts(round) ==
  /\ round.heard <= round.age
  /\ round.probe = "none" => round.age >= CacheMs
  /\ InFlight(round) => round.age <= HealthTimeoutMs + LagMs
  /\ round.probe = "replied" /\ round.status = "unavailable" => round.trouble
  /\ round.probe = "done" /\ round.status = "unavailable" =>
       round.trouble \/ 2 * TravelMs >= HealthTimeoutMs
  /\ ~round.trouble =>
       /\ round.probe \in {"sent", "inspecting"} => round.age <= TravelMs
       /\ round.probe = "replied" => round.heard <= TravelMs /\ round.age <= TravelMs + round.heard

RoundOK(round) ==
  /\ round \in Round
  /\ round.status = None <=> round.probe \in {"none", "sent", "inspecting"}
  /\ RoundFacts(round)

(* When a round is over before its cache is too old, it is the only one.   *)
RoundsInv ==
  /\ kind \in {"llm", "style"} /\ up \in BOOLEAN /\ crashes \in 0..MaxCrashes
  /\ rounds \in [Slots -> Round] /\ cached \in Slots
  /\ \A i \in Slots : RoundOK(rounds[i])
  /\ HealthTimeoutMs + LagMs < CacheMs => \A i \in Slots : InFlight(rounds[i]) => i = cached
---------------------------------------------------------------------------------
(* A timer of no delay still fires a moment late.                          *)
LEMMA SlackIs == Slack \in Nat /\ Slack >= 1 /\ Slack >= LagMs
BY MaxOfTwo, AgentReviewAssumption DEF Slack

(* What is left of the timeout when the margin is taken off.               *)
LEMMA DeadlineIs ==
  /\ DeadlineMs \in Nat
  /\ DeadlineMarginMs <= TimeoutMs => DeadlineMs = TimeoutMs - DeadlineMarginMs
<1>1. TimeoutMs \in Nat /\ DeadlineMarginMs \in Nat
  BY AgentReviewAssumption
<1>2. QED
  BY <1>1, MaxOfTwo DEF DeadlineMs

(* A call may take its cap or what is left, but at least a moment.         *)
LEMMA CallMsIs ==
  ASSUME now \in Nat, deadline \in Nat, NEW p
  PROVE  /\ CallMs(p) \in Nat /\ CallMs(p) >= 1
         /\ p = "groq" /\ GroqTimeoutMs <= deadline - now => CallMs(p) = GroqTimeoutMs
<1> DEFINE ms == IF p = "groq" THEN Min({GroqTimeoutMs, deadline - now}) ELSE deadline - now
<1>1. GroqTimeoutMs \in Nat /\ GroqTimeoutMs >= 1 /\ deadline - now \in Int
  BY AgentReviewAssumption
<1>2. Min({GroqTimeoutMs, deadline - now})
        = IF GroqTimeoutMs <= deadline - now THEN GroqTimeoutMs ELSE deadline - now
  BY <1>1, MinOfTwo
<1>3. ms \in Int
  BY <1>1, <1>2
<1>4. CallMs(p) = Max({1, ms})
  BY DEF CallMs
<1>5. Max({1, ms}) = IF 1 >= ms THEN 1 ELSE ms
  <2> HIDE DEF ms
  <2>1. QED
    BY <1>3, MaxOfTwo
<1>6. QED
  BY <1>1, <1>2, <1>3, <1>4, <1>5

(* A request on its way has asked, spent and left nothing.                 *)
LEMMA InitReviewInv == ServiceInit => ReviewInv
<1>1. SUFFICES ASSUME ServiceInit PROVE ReviewInv
  OBVIOUS
<1> USE AgentReviewAssumption, StyleSandboxAssumption, DeadlineIs, SlackIs
    DEF ServiceInit, Init, SandboxInit
<1>2. TypeOK
  BY <1>1 DEF TypeOK, LlmProviders
<1>7. SandboxTypeOK /\ kind \in {"llm", "style"}
  BY <1>1 DEF SandboxTypeOK
<1>3. Asked /\ Called /\ Waited /\ Sandboxed
  BY <1>1 DEF Asked, Called, CountedOnTheAnswerer, Waited, SlowGroqLeavesTime, Sandboxed
<1>4. KillTime = 0
  BY <1>1 DEF KillTime
<1>5. Timely
  BY <1>1, <1>4 DEF Timely
<1>6. QED
  BY <1>2, <1>3, <1>5, <1>7 DEF ReviewInv

(* The request arrives: nothing was asked before, and the deadline is set  *)
(* from here.                                                              *)
LEMMA ReceiveKeeps ==
  ASSUME ReviewInv, Receive, UNCHANGED <<sandboxVars, kind>>
  PROVE  ReviewInv'
<1> USE AgentReviewAssumption, StyleSandboxAssumption, DeadlineIs, SlackIs
    DEF ReviewInv, TypeOK, SandboxTypeOK, Receive, sandboxVars, llmVars, callVars
<1>1. TypeOK'
  BY DEF Asked
<1>2. SandboxTypeOK'
  BY DEF Sandboxed
<1>3. Asked'
  BY DEF Asked
<1>4. Called'
  BY DEF Asked, Called, CountedOnTheAnswerer
<1>5. Waited'
  BY DEF Asked, Waited, SlowGroqLeavesTime, LlmErrorKind
<1>6. Sandboxed'
  BY DEF Sandboxed
<1>7. Timely'
  BY DEF Called, Waited, Sandboxed, Timely, KillTime
<1>8. QED
  BY <1>1, <1>2, <1>3, <1>4, <1>5, <1>6, <1>7

(* One file of the scan: only the counts move.                             *)
LEMMA ScanFileKeeps ==
  ASSUME ReviewInv, ScanFile, UNCHANGED <<sandboxVars, kind>>
  PROVE  ReviewInv'
<1> USE AgentReviewAssumption, StyleSandboxAssumption, DeadlineIs, SlackIs
    DEF ReviewInv, TypeOK, SandboxTypeOK, ScanFile, sandboxVars, llmVars, callVars
<1>1. TypeOK'
  BY DEF Asked
<1>2. SandboxTypeOK'
  BY DEF Sandboxed
<1>3. Asked'
  BY DEF Asked
<1>4. Called'
  BY DEF Asked, Called, CountedOnTheAnswerer
<1>5. Waited'
  BY DEF Asked, Waited, SlowGroqLeavesTime, LlmErrorKind
<1>6. Sandboxed'
  BY DEF Sandboxed
<1>7. Timely'
  BY DEF Called, Waited, Sandboxed, Timely, KillTime
<1>8. QED
  BY <1>1, <1>2, <1>3, <1>4, <1>5, <1>6, <1>7

(* The scan is over: Groq's cap starts to run, or the answer goes out.     *)
LEMMA AskKeeps ==
  ASSUME ReviewInv, Ask, UNCHANGED <<sandboxVars, kind>>
  PROVE  ReviewInv'
<1> USE AgentReviewAssumption, StyleSandboxAssumption, DeadlineIs, SlackIs
    DEF ReviewInv, TypeOK, SandboxTypeOK, Ask, Call, Reply, sandboxVars, callVars
<1>1. TypeOK'
  BY CallMsIs DEF Asked
<1>2. SandboxTypeOK'
  BY CallMsIs DEF Sandboxed
<1>3. Asked'
  BY CallMsIs DEF Asked
<1>4. Called'
  BY CallMsIs DEF Asked, Called, CountedOnTheAnswerer
<1>5. Waited'
  BY CallMsIs DEF Asked, Waited, SlowGroqLeavesTime, LlmErrorKind
<1>6. Sandboxed'
  BY CallMsIs DEF Sandboxed
<1>7. Timely'
  BY CallMsIs DEF Called, Waited, Sandboxed, Timely, KillTime
<1>8. QED
  BY <1>1, <1>2, <1>3, <1>4, <1>5, <1>6, <1>7

(* The provider answers, or the signal cuts it off: who is named has been  *)
(* asked.                                                                  *)
LEMMA AnswerKeeps ==
  ASSUME ReviewInv, LlmAnswers \/ SignalFires, UNCHANGED <<sandboxVars, kind>>
  PROVE  ReviewInv'
<1> USE AgentReviewAssumption, StyleSandboxAssumption, DeadlineIs, SlackIs
    DEF ReviewInv, TypeOK, SandboxTypeOK, LlmAnswers, SignalFires, Answerer, Reply, scanVars, sandboxVars, callVars
<1>1. TypeOK'
  BY DEF Asked
<1>2. SandboxTypeOK'
  BY DEF Sandboxed
<1>3. Asked'
  BY DEF Asked
<1>4. Called'
  BY DEF Asked, Called, CountedOnTheAnswerer
<1>5. Waited'
  BY DEF Asked, Waited, SlowGroqLeavesTime, LlmErrorKind
<1>6. Sandboxed'
  BY DEF Sandboxed
<1>7. Timely'
  BY DEF Called, Waited, Sandboxed, Timely, KillTime
<1>8. QED
  BY <1>1, <1>2, <1>3, <1>4, <1>5, <1>6, <1>7

(* The call resolves: an answer settles the reservation, nothing else      *)
(* touches it.                                                             *)
LEMMA CallStepKeeps ==
  ASSUME ReviewInv, CallStep, UNCHANGED <<sandboxVars, kind>>
  PROVE  ReviewInv'
<1> USE AgentReviewAssumption, StyleSandboxAssumption, DeadlineIs, SlackIs
    DEF ReviewInv, TypeOK, SandboxTypeOK, CallStep, ResponseArrives, SettleCall, CallTimesOut, CallBreaks, agentVars,
        scanVars, llmVars, sandboxVars
<1>1. TypeOK'
  BY DEF Asked
<1>2. SandboxTypeOK'
  BY DEF Sandboxed
<1>3. Asked'
  BY DEF Asked
<1>4. Called'
  BY DEF Asked, Called, CountedOnTheAnswerer
<1>5. Waited'
  BY DEF Asked, Waited, SlowGroqLeavesTime, LlmErrorKind
<1>6. Sandboxed'
  BY DEF Sandboxed
<1>7. Timely'
  BY DEF Called, Waited, Sandboxed, Timely, KillTime
<1>8. QED
  BY <1>1, <1>2, <1>3, <1>4, <1>5, <1>6, <1>7

(* Up to docker run there is no container, and what was deaf is over.      *)
LEMMA PrepareKeeps ==
  ASSUME ReviewInv, Analyze \/ Prepared \/ PrepareFails, UNCHANGED kind
  PROVE  ReviewInv'
<1> USE AgentReviewAssumption, StyleSandboxAssumption, DeadlineIs, SlackIs
    DEF ReviewInv, TypeOK, SandboxTypeOK, Analyze, Prepared, PrepareFails, CleanUp, Reply, requestVars,
        llmVars, callVars
<1>1. TypeOK'
  BY DEF Asked
<1>2. SandboxTypeOK'
  <2>1. CASE Analyze
    BY <2>1 DEF Sandboxed
  <2>2. CASE Prepared
    BY <2>2 DEF Sandboxed
  <2>3. CASE PrepareFails
    BY <2>3 DEF Sandboxed
  <2>4. QED
    BY <2>1, <2>2, <2>3
<1>3. Asked'
  BY DEF Asked
<1>4. Called'
  BY DEF Asked, Called, CountedOnTheAnswerer
<1>5. Waited'
  BY DEF Asked, Waited, SlowGroqLeavesTime, LlmErrorKind
<1>6. Sandboxed'
  BY DEF Sandboxed
<1>7. Timely'
  BY DEF Called, Waited, Sandboxed, Timely, KillTime
<1>8. QED
  BY <1>1, <1>2, <1>3, <1>4, <1>5, <1>6, <1>7

(* The container comes and goes, and the client ends without a kill.       *)
LEMMA RunKeeps ==
  ASSUME ReviewInv, ContainerAsked \/ ContainerMoves \/ RunEnds \/ RunFails, UNCHANGED kind
  PROVE  ReviewInv'
<1> USE AgentReviewAssumption, StyleSandboxAssumption, DeadlineIs, SlackIs
    DEF ReviewInv, TypeOK, SandboxTypeOK, ContainerAsked, ContainerMoves, RunEnds, RunFails, CleanUp,
        requestVars, llmVars, callVars
<1>1. TypeOK'
  BY DEF Asked
<1>2. SandboxTypeOK'
  BY DEF Sandboxed
<1>3. Asked'
  BY DEF Asked
<1>4. Called'
  BY DEF Asked, Called, CountedOnTheAnswerer
<1>5. Waited'
  BY DEF Asked, Waited, SlowGroqLeavesTime, LlmErrorKind
<1>6. Sandboxed'
  BY DEF Sandboxed
<1>7. Timely'
  BY DEF Called, Waited, Sandboxed, Timely, KillTime
<1>8. QED
  BY <1>1, <1>2, <1>3, <1>4, <1>5, <1>6, <1>7

(* The client is aborted no later than a timer's lateness after the        *)
(* deadline.                                                               *)
LEMMA AbortKeeps ==
  ASSUME ReviewInv, RunAborts, UNCHANGED kind
  PROVE  ReviewInv'
<1> USE AgentReviewAssumption, StyleSandboxAssumption, DeadlineIs, SlackIs
    DEF ReviewInv, TypeOK, SandboxTypeOK, RunAborts, requestVars, llmVars, callVars
<1>1. TypeOK'
  BY DEF Asked
<1>2. SandboxTypeOK'
  BY DEF Sandboxed
<1>3. Asked'
  BY DEF Asked
<1>4. Called'
  BY DEF Asked, Called, CountedOnTheAnswerer
<1>5. Waited'
  BY DEF Asked, Waited, SlowGroqLeavesTime, LlmErrorKind
<1>6. Sandboxed'
  BY DEF Sandboxed
<1>7. Timely'
  BY DEF Called, Waited, Sandboxed, Timely, KillTime
<1>8. QED
  BY <1>1, <1>2, <1>3, <1>4, <1>5, <1>6, <1>7

(* A kill that leaves the container there is recorded as missed or failed. *)
LEMMA KillKeeps ==
  ASSUME ReviewInv, Kill, UNCHANGED kind
  PROVE  ReviewInv'
<1> USE AgentReviewAssumption, StyleSandboxAssumption, DeadlineIs, SlackIs
    DEF ReviewInv, TypeOK, SandboxTypeOK, Kill, requestVars, llmVars, callVars
<1>1. TypeOK'
  BY DEF Asked
<1>2. SandboxTypeOK'
  BY DEF Sandboxed
<1>3. Asked'
  BY DEF Asked
<1>4. Called'
  BY DEF Asked, Called, CountedOnTheAnswerer
<1>5. Waited'
  BY DEF Asked, Waited, SlowGroqLeavesTime, LlmErrorKind
<1>6. Sandboxed'
  BY DEF Sandboxed
<1>7. Timely'
  BY DEF Called, Waited, Sandboxed, Timely, KillTime
<1>8. QED
  BY <1>1, <1>2, <1>3, <1>4, <1>5, <1>6, <1>7

(* What `finally` leaves behind is an error; the time of the answer is the *)
(* time of the kill.                                                       *)
LEMMA CleanedUpKeeps ==
  ASSUME ReviewInv, CleanedUp, UNCHANGED kind
  PROVE  ReviewInv'
<1>0. /\ stage = "cleaning" /\ stage' = "ended" /\ dir' \in {FALSE, dir}
      /\ sandboxError' = IF dir' THEN "failed" ELSE sandboxError
      /\ repliedAt' = now /\ UNCHANGED <<requestVars, scanEnd, container, cmdUntil, kill>>
      /\ \/ phase' = "refused" /\ sandboxError' = "failed" /\ UNCHANGED usage
         \/ phase' = "answered" /\ usage' = None
  <2>1. PICK left_behind \in {FALSE, dir} :
          /\ dir' = left_behind
          /\ sandboxError' = IF left_behind THEN "failed" ELSE sandboxError
    BY DEF CleanedUp
  <2>2. dir' \in {FALSE, dir} /\ sandboxError' = IF dir' THEN "failed" ELSE sandboxError
    BY <2>1
  <2>3. /\ repliedAt' = now
        /\ \/ phase' = "refused" /\ sandboxError' = "failed" /\ UNCHANGED usage
           \/ phase' = "answered" /\ usage' = None
    BY DEF CleanedUp, Reply
  <2>4. QED
    BY <2>2, <2>3 DEF CleanedUp
<1> USE AgentReviewAssumption, StyleSandboxAssumption, DeadlineIs, SlackIs
    DEF ReviewInv, TypeOK, SandboxTypeOK, requestVars, llmVars, callVars
<1>1. TypeOK'
  BY <1>0 DEF Asked
<1>2. SandboxTypeOK'
  BY <1>0 DEF Sandboxed
<1>3. Asked'
  BY <1>0 DEF Asked
<1>4. Called'
  BY <1>0 DEF Asked, Called, CountedOnTheAnswerer
<1>5. Waited'
  BY <1>0 DEF Asked, Waited, SlowGroqLeavesTime, LlmErrorKind
<1>6. Sandboxed'
  BY <1>0 DEF Sandboxed
<1>7. Timely'
  BY <1>0 DEF Called, Waited, Sandboxed, Timely, KillTime
<1>8. QED
  BY <1>1, <1>2, <1>3, <1>4, <1>5, <1>6, <1>7

(* A crash forgets the request, or finds it answered.                      *)
LEMMA CrashKeeps ==
  ASSUME ReviewInv, AgentCrashes
  PROVE  ReviewInv'
<1> USE AgentReviewAssumption, StyleSandboxAssumption, DeadlineIs, SlackIs
    DEF ReviewInv, TypeOK, SandboxTypeOK, AgentCrashes, agentVars, scanVars, llmVars, sandboxVars, callVars
<1>1. TypeOK'
  BY DEF Asked
<1>2. SandboxTypeOK'
  BY DEF Sandboxed
<1>3. Asked'
  BY DEF Asked
<1>4. Called'
  BY DEF Asked, Called, CountedOnTheAnswerer
<1>5. Waited'
  BY DEF Asked, Waited, SlowGroqLeavesTime, LlmErrorKind
<1>6. Sandboxed'
  BY DEF Sandboxed
<1>7. Timely'
  BY DEF Called, Waited, Sandboxed, Timely, KillTime
<1>8. QED
  BY <1>1, <1>2, <1>3, <1>4, <1>5, <1>6, <1>7

(* A failed call falls back once, from Groq to Gemini; if Groq hung to its *)
(* cap, the time it took is known.                                         *)
LEMMA FailKeeps ==
  ASSUME ReviewInv, NEW k \in LlmErrorKind, NEW status, LlmFails(k, status),
         UNCHANGED <<sandboxVars, kind>>
  PROVE  ReviewInv'
<1> USE AgentReviewAssumption, StyleSandboxAssumption, DeadlineIs, SlackIs
    DEF ReviewInv, TypeOK, SandboxTypeOK, LlmFails, Call, Reply, scanVars, sandboxVars, callVars
<1>1. TypeOK'
  BY CallMsIs DEF Asked
<1>2. SandboxTypeOK'
  BY DEF Sandboxed
<1>3. Asked'
  BY DEF Asked, LlmErrorKind, LlmProviders
<1>4. Called'
  BY DEF Asked, Called, CountedOnTheAnswerer
<1>5. Waited'
  BY CallMsIs DEF Asked, Waited, SlowGroqLeavesTime, LlmErrorKind, ShouldFallBack, HasTimeForFallback
<1>6. Sandboxed'
  BY DEF Sandboxed
<1>7. Timely'
  BY DEF Called, Waited, Sandboxed, Timely, KillTime
<1>8. QED
  BY <1>1, <1>2, <1>3, <1>4, <1>5, <1>6, <1>7

(* Time passes only while no timer and no message is overdue.              *)
LEMMA TimeKeeps ==
  ASSUME ReviewInv, TimePasses, SandboxTime,
         UNCHANGED <<agentVars, callVars, sandboxVars, kind>>
  PROVE  ReviewInv'
<1> USE AgentReviewAssumption, StyleSandboxAssumption, DeadlineIs, SlackIs
    DEF ReviewInv, TypeOK, SandboxTypeOK, TimePasses, SandboxTime,
        agentVars, scanVars, llmVars, callVars, sandboxVars
<1>1. TypeOK'
  BY DEF Asked
<1>2. SandboxTypeOK'
  BY DEF Sandboxed
<1>3. Asked'
  BY DEF Asked
<1>4. Called'
  BY DEF Asked, Called, CountedOnTheAnswerer
<1>5. Waited'
  BY DEF Asked, Waited, SlowGroqLeavesTime, LlmErrorKind
<1>6. Sandboxed'
  BY DEF Sandboxed
<1>7. Timely'
  <2> HIDE DEF Slack
  <2>1. Slack = Max({1, LagMs})
    BY DEF Slack
  <2>2. QED
    BY <2>1 DEF Called, Waited, Sandboxed, Timely, KillTime
<1>8. QED
  BY <1>1, <1>2, <1>3, <1>4, <1>5, <1>6, <1>7

(* Every step of the request, its sandbox and its call.                    *)
LEMMA ReviewStepKeeps ==
  ASSUME ReviewInv, ReviewStep
  PROVE  ReviewInv'
<1>1. UNCHANGED kind
  BY DEF ReviewStep, processVars
<1>2. CASE up /\ Receive /\ UNCHANGED sandboxVars
  BY <1>1, <1>2, ReceiveKeeps
<1>3. CASE LlmAgentStep /\ UNCHANGED sandboxVars
  <2>1. CASE ScanFile
    BY <1>1, <1>3, <2>1, ScanFileKeeps
  <2>2. CASE Ask
    BY <1>1, <1>3, <2>2, AskKeeps
  <2>3. CASE LlmAnswers \/ SignalFires
    BY <1>1, <1>3, <2>3, AnswerKeeps
  <2>4. CASE LlmRefuses
    <3>1. PICK answer \in Answers : ~Usable(answer) /\ LlmFails(KindOf(answer), answer.status)
      BY <2>4 DEF LlmRefuses
    <3>2. KindOf(answer) \in LlmErrorKind
      BY DEF KindOf, LlmErrorKind
    <3>3. QED
      BY <1>1, <1>3, <3>1, <3>2, FailKeeps
  <2>5. CASE LlmUnreachable
    BY <1>1, <1>3, <2>5, FailKeeps DEF LlmUnreachable, LlmErrorKind
  <2>6. CASE CallSignalFires
    BY <1>1, <1>3, <2>6, FailKeeps DEF CallSignalFires, LlmErrorKind
  <2>7. QED
    BY <1>3, <2>1, <2>2, <2>3, <2>4, <2>5, <2>6 DEF LlmAgentStep
<1>4. CASE StyleStep
  <2>1. CASE Analyze \/ Prepared \/ PrepareFails
    BY <1>1, <2>1, PrepareKeeps
  <2>2. CASE ContainerAsked \/ ContainerMoves \/ RunEnds \/ RunFails
    BY <1>1, <2>2, RunKeeps
  <2>3. CASE RunAborts
    BY <1>1, <2>3, AbortKeeps
  <2>4. CASE Kill
    BY <1>1, <2>4, KillKeeps
  <2>5. CASE CleanedUp
    BY <1>1, <2>5, CleanedUpKeeps
  <2>6. QED
    BY <1>4, <2>1, <2>2, <2>3, <2>4, <2>5 DEF StyleStep
<1>5. CASE CallStep /\ UNCHANGED sandboxVars
  BY <1>1, <1>5, CallStepKeeps
<1>6. QED
  BY <1>2, <1>3, <1>4, <1>5 DEF ReviewStep

(* Every step of the process, health calls and crashes among them.         *)
LEMMA ReviewInvStep == ReviewInv /\ [ServiceNext]_serviceVars => ReviewInv'
<1>1. SUFFICES ASSUME ReviewInv, [ServiceNext]_serviceVars PROVE ReviewInv'
  OBVIOUS
<1>2. ASSUME UNCHANGED <<reviewVars, kind>> PROVE ReviewInv'
  BY <1>1, <1>2
     DEF reviewVars, agentVars, scanVars, llmVars, callVars, sandboxVars, ReviewInv, TypeOK,
         SandboxTypeOK, Asked, Called, CountedOnTheAnswerer, Waited, SlowGroqLeavesTime,
         Sandboxed, Timely, KillTime
<1>3. CASE ReviewStep
  BY <1>1, <1>3, ReviewStepKeeps
<1>4. CASE HealthStep
  BY <1>2, <1>4
     DEF HealthStep, GetHealth, HealthAsked, Inspected, HealthAnswered, HealthBreaks,
         HealthTimesOut, processVars
<1>5. CASE AgentCrashes
  BY <1>1, <1>5, CrashKeeps
<1>6. CASE AgentStarts
  BY <1>2, <1>6 DEF AgentStarts
<1>7. CASE ServiceTick
  BY <1>1, <1>7, TimeKeeps DEF ServiceTick, processVars
<1>8. CASE UNCHANGED serviceVars
  BY <1>2, <1>8 DEF serviceVars, processVars
<1>9. QED
  BY <1>1, <1>3, <1>4, <1>5, <1>6, <1>7, <1>8 DEF ServiceNext

(* The invariant of a request.                                             *)
LEMMA ServiceReview == ServiceSpec => []ReviewInv
BY InitReviewInv, ReviewInvStep, PTL DEF ServiceSpec
---------------------------------------------------------------------------------
(* The rounds of health calls.                                             *)
(* A slot without a round.                                                 *)
LEMMA NoRoundOK == RoundOK(NoRound) /\ ~InFlight(NoRound)
<1>1. None \notin Status /\ CacheMs \in Nat
  BY AgentServiceAssumption DEF Status
<1>2. NoRound \in Round
  BY <1>1 DEF NoRound, Round, Probe
<1>3. RoundFacts(NoRound)
  BY <1>1 DEF NoRound, RoundFacts, InFlight
<1>4. QED
  BY <1>1, <1>2, <1>3 DEF RoundOK, NoRound, InFlight

(* A round that only moves on does not put a second one in flight.         *)
LEMMA RoundBecomes ==
  ASSUME RoundsInv, NEW i \in Slots, NEW round, RoundOK(round), Becomes(i, round),
         InFlight(round) => InFlight(rounds[i]), UNCHANGED processVars
  PROVE  RoundsInv'
<1>1. rounds' = [rounds EXCEPT ![i] = round] /\ cached' = cached /\ round \in Round
  BY DEF Becomes, RoundOK
<1>2. /\ rounds' \in [Slots -> Round]
      /\ \A j \in Slots : rounds'[j] = IF j = i THEN round ELSE rounds[j]
  BY <1>1 DEF RoundsInv
<1>3. ASSUME NEW j \in Slots PROVE RoundOK(rounds'[j]) /\ (InFlight(rounds'[j]) => InFlight(rounds[j]))
  BY <1>2 DEF RoundsInv
<1>4. QED
  BY <1>1, <1>2, <1>3 DEF RoundsInv, processVars

(* The fields of a round that has failed.                                  *)
LEMMA UnavailableIs ==
  ASSUME NEW round,
         round = [age |-> round.age, heard |-> round.heard, probe |-> round.probe,
                  status |-> round.status, trouble |-> round.trouble]
  PROVE  Unavailable(round) = [age |-> round.age, heard |-> 0, probe |-> "done",
                               status |-> "unavailable", trouble |-> round.trouble]
<1> DEFINE over   == [round EXCEPT !.probe = "done"]
           failed == [over EXCEPT !.status = "unavailable"]
<1>1. Unavailable(round) = [failed EXCEPT !.heard = 0]
  BY DEF Unavailable
<1>2. over = [age |-> round.age, heard |-> round.heard, probe |-> "done",
              status |-> round.status, trouble |-> round.trouble]
  OBVIOUS
<1> HIDE DEF over
<1>3. failed = [age |-> round.age, heard |-> round.heard, probe |-> "done",
                status |-> "unavailable", trouble |-> round.trouble]
  BY <1>2
<1> HIDE DEF failed
<1>4. QED
  BY <1>1, <1>3

(* A round fails only in trouble, or when the way there and back takes     *)
(* longer than its timeout.                                                *)
LEMMA UnavailableOK ==
  ASSUME NEW round, RoundOK(round),
         round.trouble \/ 2 * TravelMs >= HealthTimeoutMs
  PROVE  RoundOK(Unavailable(round)) /\ ~InFlight(Unavailable(round))
<1> DEFINE r == Unavailable(round)
<1>1. round.age \in 0..CacheMs /\ round.trouble \in BOOLEAN /\ 0 \in 0..CacheMs
  BY AgentServiceAssumption DEF RoundOK, Round
<1>2. r = [age |-> round.age, heard |-> 0, probe |-> "done", status |-> "unavailable",
           trouble |-> round.trouble]
  <2>1. round \in Round
    BY DEF RoundOK
  <2>2. round = [age |-> round.age, heard |-> round.heard, probe |-> round.probe,
                 status |-> round.status, trouble |-> round.trouble]
    BY <2>1 DEF Round
  <2>3. QED
    BY <2>2, UnavailableIs
<1> HIDE DEF r
<1>3. r \in Round
  BY <1>1, <1>2 DEF Round, Probe, Status
<1>4. r.age >= 0 /\ r.heard = 0 /\ r.probe = "done" /\ r.status = "unavailable" /\ r.status # None
  BY <1>1, <1>2, AgentServiceAssumption
<1>5. r.trouble \/ 2 * TravelMs >= HealthTimeoutMs
  BY <1>2
<1>6. RoundOK(r) /\ ~InFlight(r)
  BY <1>3, <1>4, <1>5 DEF RoundOK, RoundFacts, InFlight
<1>7. QED
  BY <1>6 DEF r

(* Trouble explains a failure and hides nothing.                           *)
LEMMA TroubledOK ==
  ASSUME NEW round, RoundOK(round)
  PROVE  /\ RoundOK([round EXCEPT !.trouble = TRUE])
         /\ [round EXCEPT !.trouble = TRUE].trouble
<1> DEFINE r == [round EXCEPT !.trouble = TRUE]
<1>1. /\ r \in Round
      /\ r.age = round.age /\ r.heard = round.heard /\ r.probe = round.probe
      /\ r.status = round.status /\ r.trouble = TRUE
  BY DEF RoundOK, Round
<1> HIDE DEF r
<1>2. RoundOK(r) /\ r.trouble
  BY <1>1 DEF RoundOK, RoundFacts, InFlight
<1>3. QED
  BY <1>2 DEF r

(* The agent hears the call: no later than a journey after it began, or in *)
(* trouble.                                                                *)
LEMMA RoundAsked ==
  ASSUME RoundsInv, NEW i \in Slots, HealthAsked(i)
  PROVE  RoundsInv'
<1> DEFINE round == rounds[i]
           r == IF kind = "style" THEN [round EXCEPT !.probe = "inspecting"]
                ELSE [round EXCEPT !.probe = "replied", !.status = HealthOf]
<1>1. RoundOK(round) /\ round.probe = "sent" /\ Becomes(i, r) /\ UNCHANGED processVars
  BY DEF RoundsInv, HealthAsked
<1>2. HealthOf \in {"ok", "degraded"}
  BY DEF HealthOf
<1>3. /\ r \in Round
      /\ r.age = round.age /\ r.heard = round.heard /\ r.trouble = round.trouble
      /\ \/ r.probe = "inspecting" /\ r.status = round.status
         \/ r.probe = "replied" /\ r.status \in {"ok", "degraded"}
  <2>1. CASE kind = "style"
    BY <1>1, <2>1 DEF RoundOK, Round, Probe
  <2>2. CASE kind # "style"
    BY <1>1, <1>2, <2>2 DEF RoundOK, Round, Probe, Status
  <2>3. QED
    BY <2>1, <2>2
<1>4. InFlight(round) /\ round.status = None
  BY <1>1 DEF InFlight, RoundOK
<1> HIDE DEF round, r
<1>5. RoundFacts(r)
  BY <1>1, <1>3, <1>4, AgentReviewAssumption DEF RoundOK, RoundFacts, InFlight, Round
<1>6. RoundOK(r)
  BY <1>3, <1>4, <1>5, AgentServiceAssumption DEF RoundOK
<1>7. QED
  BY <1>1, <1>4, <1>6, RoundBecomes DEF round

(* Docker answers: an agent that is unavailable for it is in trouble.      *)
LEMMA RoundInspected ==
  ASSUME RoundsInv, NEW i \in Slots, Inspected(i)
  PROVE  RoundsInv'
<1> DEFINE round == rounds[i]
<1>1. RoundOK(round) /\ round.probe = "inspecting" /\ UNCHANGED processVars
  BY DEF RoundsInv, Inspected
<1>2. PICK ok \in BOOLEAN :
        Becomes(i, [round EXCEPT !.probe = "replied",
                                 !.status = IF ok THEN "ok" ELSE "unavailable",
                                 !.trouble = @ \/ ~ok])
  BY DEF Inspected
<1> DEFINE r == [round EXCEPT !.probe = "replied",
                              !.status = IF ok THEN "ok" ELSE "unavailable",
                              !.trouble = @ \/ ~ok]
<1>3. /\ r \in Round
      /\ r.age = round.age /\ r.heard = round.heard /\ r.probe = "replied"
      /\ r.status \in {"ok", "unavailable"}
      /\ ~ok \/ round.trouble => r.trouble
      /\ r.status = "unavailable" => ~ok
  BY <1>1 DEF RoundOK, Round, Probe, Status
<1>4. InFlight(round)
  BY <1>1 DEF InFlight
<1>5. Becomes(i, r)
  BY <1>2
<1> HIDE DEF round, r
<1>6. RoundFacts(r)
  BY <1>1, <1>3, <1>4, AgentReviewAssumption DEF RoundOK, RoundFacts, InFlight, Round
<1>7. RoundOK(r)
  BY <1>3, <1>6, AgentServiceAssumption DEF RoundOK
<1>8. QED
  BY <1>1, <1>4, <1>5, <1>7, RoundBecomes DEF round

(* The answer arrives: that the agent was slow is no matter any more.      *)
LEMMA RoundAnswered ==
  ASSUME RoundsInv, NEW i \in Slots, HealthAnswered(i)
  PROVE  RoundsInv'
<1> DEFINE round == rounds[i]
           r == [round EXCEPT !.probe = "done", !.trouble = FALSE]
<1>1. RoundOK(round) /\ round.probe = "replied" /\ UNCHANGED processVars
  BY DEF RoundsInv, HealthAnswered
<1>2. CASE round.status = "unavailable"
  <2>1. round.trouble
    BY <1>1, <1>2 DEF RoundOK, RoundFacts
  <2>2. Becomes(i, Unavailable(round))
    BY <1>2 DEF HealthAnswered
  <2> HIDE DEF round
  <2>3. QED
    BY <1>1, <2>1, <2>2, UnavailableOK, RoundBecomes
<1>3. CASE round.status # "unavailable"
  <2>1. /\ r \in Round
        /\ r.age = round.age /\ r.heard = round.heard /\ r.probe = "done"
        /\ r.status = round.status
    BY <1>1 DEF RoundOK, Round, Probe
  <2>2. Becomes(i, r)
    BY <1>3 DEF HealthAnswered
  <2> HIDE DEF round, r
  <2>3. RoundOK(r) /\ ~InFlight(r)
    BY <1>1, <1>3, <2>1 DEF RoundOK, RoundFacts, InFlight
  <2>4. QED
    BY <1>1, <2>2, <2>3, RoundBecomes
<1>4. QED
  BY <1>2, <1>3

(* The call breaks, or times out.                                          *)
LEMMA RoundFails ==
  ASSUME RoundsInv, NEW i \in Slots, HealthBreaks(i) \/ HealthTimesOut(i)
  PROVE  RoundsInv'
<1>1. RoundOK(rounds[i]) /\ InFlight(rounds[i]) /\ UNCHANGED processVars
  BY DEF RoundsInv, HealthBreaks, HealthTimesOut
<1>2. CASE HealthBreaks(i)
  <2> DEFINE r == [rounds[i] EXCEPT !.trouble = TRUE]
  <2>1. Becomes(i, Unavailable(r))
    BY <1>2 DEF HealthBreaks
  <2>2. RoundOK(r) /\ r.trouble
    BY <1>1, TroubledOK
  <2> HIDE DEF r
  <2>3. QED
    BY <1>1, <2>1, <2>2, UnavailableOK, RoundBecomes
<1>3. CASE HealthTimesOut(i)
  <2>1. rounds[i].age >= HealthTimeoutMs /\ Becomes(i, Unavailable(rounds[i]))
    BY <1>3 DEF HealthTimesOut
  <2>2. rounds[i].trouble \/ 2 * TravelMs >= HealthTimeoutMs
    BY <1>1, <2>1, AgentReviewAssumption, AgentServiceAssumption
       DEF RoundOK, RoundFacts, InFlight, Round, Probe
  <2>3. QED
    BY <1>1, <2>1, <2>2, UnavailableOK, RoundBecomes
<1>4. QED
  BY <1>2, <1>3

(* A new round: the cached one is too old, so it cannot be in flight, and  *)
(* nor is another.                                                         *)
LEMMA RoundBegins ==
  ASSUME RoundsInv, GetHealth
  PROVE  RoundsInv'
<1> DEFINE new == [age |-> 0, heard |-> 0, probe |-> "sent", status |-> None, trouble |-> FALSE]
<1>1. PICK i \in Slots :
        /\ ~InFlight(rounds[i])
        /\ InFlight(rounds[cached]) \/ i = cached
        /\ rounds' = [rounds EXCEPT ![i] = new] /\ cached' = i
  BY DEF GetHealth
<1>2. 0 \in 0..CacheMs /\ None \notin Status
  BY AgentServiceAssumption DEF Status
<1>3. new \in Round
  BY <1>2 DEF Round, Probe
<1>4. RoundFacts(new)
  BY AgentReviewAssumption, AgentServiceAssumption DEF RoundFacts, InFlight
<1>5. RoundOK(new)
  BY <1>3, <1>4 DEF RoundOK
<1> HIDE DEF new
<1>6. /\ rounds' \in [Slots -> Round]
      /\ \A j \in Slots : rounds'[j] = IF j = i THEN new ELSE rounds[j]
  BY <1>1, <1>3 DEF RoundsInv
<1>7. \A j \in Slots : RoundOK(rounds'[j])
  BY <1>5, <1>6 DEF RoundsInv
<1>8. ASSUME HealthTimeoutMs + LagMs < CacheMs, NEW j \in Slots, InFlight(rounds'[j])
      PROVE  j = cached'
  <2>1. rounds[cached].age >= CacheMs /\ rounds[cached].age \in Nat
    BY AgentServiceAssumption DEF GetHealth, NeedsPoll, RoundsInv, Round
  <2>2. ~InFlight(rounds[cached])
    BY <1>8, <2>1, AgentReviewAssumption, AgentServiceAssumption
       DEF RoundsInv, RoundOK, RoundFacts
  <2>3. QED
    BY <1>1, <1>6, <1>8, <2>2 DEF RoundsInv
<1>9. UNCHANGED <<kind, up, crashes>>
  BY DEF GetHealth, processVars
<1>10. QED
  BY <1>1, <1>6, <1>7, <1>8, <1>9 DEF RoundsInv

(* A crash breaks the connection that docker was asked on.                 *)
LEMMA RoundSurvivesCrash ==
  ASSUME RoundsInv, AgentCrashes
  PROVE  RoundsInv'
<1> DEFINE r(i) == IF rounds[i].probe = "inspecting"
                   THEN Unavailable([rounds[i] EXCEPT !.trouble = TRUE]) ELSE rounds[i]
<1>1. ASSUME NEW i \in Slots
      PROVE  RoundOK(r(i)) /\ r(i) \in Round /\ (InFlight(r(i)) => InFlight(rounds[i]))
  <2>1. RoundOK(rounds[i])
    BY DEF RoundsInv
  <2>2. CASE rounds[i].probe = "inspecting"
    <3> DEFINE t == [rounds[i] EXCEPT !.trouble = TRUE]
    <3>1. RoundOK(t) /\ t.trouble
      BY <2>1, TroubledOK
    <3>2. r(i) = Unavailable(t)
      BY <2>2
    <3> HIDE DEF t, r
    <3>3. QED
      BY <3>1, <3>2, UnavailableOK DEF RoundOK
  <2>3. CASE rounds[i].probe # "inspecting"
    BY <2>1, <2>3 DEF RoundOK
  <2>4. QED
    BY <2>2, <2>3
<1>2. rounds' = [i \in Slots |-> r(i)] /\ cached' = cached
  BY DEF AgentCrashes
<1> HIDE DEF r
<1>3. rounds' \in [Slots -> Round] /\ \A i \in Slots : rounds'[i] = r(i)
  BY <1>1, <1>2
<1>4. kind' = kind /\ up' \in BOOLEAN /\ crashes' \in 0..MaxCrashes
  <2>1. kind' = kind /\ up' = FALSE /\ crashes < MaxCrashes /\ crashes' = crashes + 1
    BY DEF AgentCrashes
  <2>2. crashes \in 0..MaxCrashes /\ MaxCrashes \in Nat
    BY AgentServiceAssumption DEF RoundsInv
  <2>3. crashes' \in 0..MaxCrashes
    BY <2>1, <2>2
  <2>4. up' \in BOOLEAN
    BY <2>1, Zenon
  <2>5. QED
    BY <2>1, <2>3, <2>4
<1>5. QED
  BY <1>1, <1>2, <1>3, <1>4 DEF RoundsInv

(* The times of a round are capped, as its age is only compared to CacheMs *)
LEMMA OneLater ==
  ASSUME NEW t \in 0..CacheMs
  PROVE  /\ Min({t + 1, CacheMs}) \in 0..CacheMs
         /\ Min({t + 1, CacheMs}) = IF t < CacheMs THEN t + 1 ELSE CacheMs
<1>1. CacheMs \in Nat
  BY AgentServiceAssumption
<1>2. Min({t + 1, CacheMs}) = IF t + 1 <= CacheMs THEN t + 1 ELSE CacheMs
  BY <1>1, MinOfTwo
<1>3. QED
  BY <1>1, <1>2

(* A moment later: a round gets old without having been heard only in      *)
(* trouble.                                                                *)
LEMMA LaterOK ==
  ASSUME NEW round, RoundOK(round),
         InFlight(round) => round.age < HealthTimeoutMs + LagMs,
         round.probe = "sent" /\ Free => round.age < TravelMs,
         round.probe = "replied" => round.heard < TravelMs
  PROVE  RoundOK(Later(round)) /\ (InFlight(Later(round)) => InFlight(round))
<1> DEFINE r == Later(round)
           spoken == round.probe = "replied" \/ (round.probe = "done" /\ round.status # "unavailable")
<1>1. round.age \in 0..CacheMs /\ round.heard \in 0..CacheMs /\ round.trouble \in BOOLEAN
  BY DEF RoundOK, Round
<1>2. round = [age |-> round.age, heard |-> round.heard, probe |-> round.probe,
               status |-> round.status, trouble |-> round.trouble]
  <2>1. round \in Round
    BY DEF RoundOK
  <2>2. QED
    BY <2>1 DEF Round
<1>3. r = [age     |-> Min({round.age + 1, CacheMs}),
           heard   |-> IF spoken THEN Min({round.heard + 1, CacheMs}) ELSE round.heard,
           probe   |-> round.probe,
           status  |-> round.status,
           trouble |-> round.trouble \/ (InFlight(round) /\ (~Free \/ round.probe = "inspecting"))]
  <2> DEFINE age == Min({round.age + 1, CacheMs})
             heard == IF spoken THEN Min({round.heard + 1, CacheMs}) ELSE round.heard
             trouble == round.trouble \/ (InFlight(round) /\ (~Free \/ round.probe = "inspecting"))
             aged == [round EXCEPT !.age = age]
             told == [aged EXCEPT !.heard = heard]
  <2>1. r = [told EXCEPT !.trouble = trouble]
    BY DEF Later
  <2> HIDE DEF age, heard, trouble, spoken, r
  <2>2. aged = [age |-> age, heard |-> round.heard, probe |-> round.probe,
                status |-> round.status, trouble |-> round.trouble]
    BY <1>2
  <2> HIDE DEF aged
  <2>3. told = [age |-> age, heard |-> heard, probe |-> round.probe,
                status |-> round.status, trouble |-> round.trouble]
    BY <2>2
  <2> HIDE DEF told
  <2>4. r = [age |-> age, heard |-> heard, probe |-> round.probe,
             status |-> round.status, trouble |-> trouble]
    BY <2>1, <2>3
  <2>5. QED
    BY <2>4 DEF age, heard, trouble
<1> HIDE DEF r
<1>4. /\ r.age \in 0..CacheMs /\ r.age = IF round.age < CacheMs THEN round.age + 1 ELSE CacheMs
      /\ r.heard \in 0..CacheMs
      /\ r.heard = IF ~spoken THEN round.heard
                   ELSE IF round.heard < CacheMs THEN round.heard + 1 ELSE CacheMs
      /\ r.probe = round.probe /\ r.status = round.status
  BY <1>1, <1>3, OneLater
<1>5. /\ r.trouble \in BOOLEAN
      /\ round.trouble => r.trouble
      /\ InFlight(round) /\ (~Free \/ round.probe = "inspecting") => r.trouble
  BY <1>1, <1>3
<1>6. r \in Round
  <2>1. round.probe \in Probe /\ round.status \in Status \cup {None}
    BY DEF RoundOK, Round
  <2>2. r = [age |-> r.age, heard |-> r.heard, probe |-> r.probe, status |-> r.status,
             trouble |-> r.trouble]
    BY <1>3
  <2>3. QED
    BY <1>4, <1>5, <2>1, <2>2 DEF Round
<1>7. RoundFacts(r)
  <2>1. r.heard <= r.age /\ (r.probe = "none" => r.age >= CacheMs)
    BY <1>1, <1>4, AgentServiceAssumption DEF RoundOK, RoundFacts
  <2>2. InFlight(r) => r.age <= HealthTimeoutMs + LagMs
    BY <1>1, <1>4, AgentReviewAssumption, AgentServiceAssumption DEF InFlight
  <2>3. /\ r.probe = "replied" /\ r.status = "unavailable" => r.trouble
        /\ r.probe = "done" /\ r.status = "unavailable" =>
             r.trouble \/ 2 * TravelMs >= HealthTimeoutMs
    BY <1>4, <1>5 DEF RoundOK, RoundFacts
  <2>4. ~r.trouble /\ r.probe \in {"sent", "inspecting"} => r.age <= TravelMs
    BY <1>1, <1>4, <1>5, AgentReviewAssumption DEF InFlight
  <2>5. ~r.trouble /\ r.probe = "replied" =>
          r.heard <= TravelMs /\ r.age <= TravelMs + r.heard
    BY <1>1, <1>4, <1>5, AgentReviewAssumption DEF RoundOK, RoundFacts
  <2>6. QED
    BY <2>1, <2>2, <2>3, <2>4, <2>5 DEF RoundFacts
<1>8. RoundOK(r) /\ (InFlight(r) => InFlight(round))
  BY <1>4, <1>6, <1>7 DEF RoundOK, InFlight
<1>9. QED
  BY <1>8 DEF r

(* Rounds age, and what nobody awaits is forgotten.                        *)
LEMMA RoundAges ==
  ASSUME RoundsInv, ServiceTick
  PROVE  RoundsInv'
<1>1. ASSUME NEW i \in Slots
      PROVE  RoundOK(Aged(i)) /\ Aged(i) \in Round /\ (InFlight(Aged(i)) => InFlight(rounds[i]))
  <2>1. RoundOK(Later(rounds[i])) /\ (InFlight(Later(rounds[i])) => InFlight(rounds[i]))
    BY LaterOK DEF RoundsInv, ServiceTick
  <2>2. Aged(i) = Later(rounds[i]) \/ Aged(i) = NoRound
    BY DEF Aged
  <2>3. QED
    BY <2>1, <2>2, NoRoundOK DEF RoundOK
<1>2. rounds' = [i \in Slots |-> Aged(i)] /\ UNCHANGED <<kind, up, crashes, cached>>
  BY DEF ServiceTick, processVars
<1>3. rounds' \in [Slots -> Round] /\ \A i \in Slots : rounds'[i] = Aged(i)
  BY <1>1, <1>2
<1>4. QED
  BY <1>1, <1>2, <1>3 DEF RoundsInv

(* No round has begun.                                                     *)
LEMMA RoundsInvInit == ServiceInit => RoundsInv
<1>1. SUFFICES ASSUME ServiceInit PROVE RoundsInv
  OBVIOUS
<1>2. 1 \in Slots /\ 0 \in 0..MaxCrashes
  BY AgentServiceAssumption DEF Slots
<1>3. rounds = [i \in Slots |-> NoRound]
  BY <1>1 DEF ServiceInit
<1>4. NoRound \in Round
  BY NoRoundOK DEF RoundOK
<1>5. rounds \in [Slots -> Round] /\ \A i \in Slots : rounds[i] = NoRound
  BY <1>3, <1>4
<1>6. /\ kind \in {"llm", "style"} /\ up \in BOOLEAN /\ crashes \in 0..MaxCrashes
      /\ cached \in Slots
  BY <1>1, <1>2 DEF ServiceInit
<1>7. QED
  BY <1>5, <1>6, NoRoundOK DEF RoundsInv

(* Every step of the process; those of a request leave the rounds alone.   *)
LEMMA RoundsInvStep == RoundsInv /\ [ServiceNext]_serviceVars => RoundsInv'
<1>1. SUFFICES ASSUME RoundsInv, [ServiceNext]_serviceVars PROVE RoundsInv'
  OBVIOUS
<1>2. ASSUME UNCHANGED <<processVars, roundVars>> PROVE RoundsInv'
  BY <1>1, <1>2 DEF processVars, roundVars, RoundsInv
<1>3. CASE ReviewStep
  BY <1>2, <1>3 DEF ReviewStep
<1>4. CASE HealthStep
  <2>1. CASE GetHealth
    BY <1>1, <2>1, RoundBegins
  <2>2. ASSUME NEW i \in Slots,
               \/ HealthAsked(i) \/ Inspected(i) \/ HealthAnswered(i)
               \/ HealthBreaks(i) \/ HealthTimesOut(i)
        PROVE  RoundsInv'
    BY <1>1, <2>2, RoundAsked, RoundInspected, RoundAnswered, RoundFails
  <2>3. QED
    BY <1>4, <2>1, <2>2 DEF HealthStep
<1>5. CASE AgentCrashes
  BY <1>1, <1>5, RoundSurvivesCrash
<1>6. CASE AgentStarts
  BY <1>1, <1>6 DEF AgentStarts, roundVars, RoundsInv
<1>7. CASE ServiceTick
  BY <1>1, <1>7, RoundAges
<1>8. CASE UNCHANGED serviceVars
  BY <1>2, <1>8 DEF serviceVars
<1>9. QED
  BY <1>1, <1>3, <1>4, <1>5, <1>6, <1>7, <1>8 DEF ServiceNext

(* The invariant of the rounds.                                            *)
LEMMA ServiceRounds == ServiceSpec => []RoundsInv
BY RoundsInvInit, RoundsInvStep, PTL DEF ServiceSpec
---------------------------------------------------------------------------------
(* The margin.                                                             *)
(* When the call is abandoned, no phase that ends with the deadline can    *)
(* still be on.                                                            *)
LEMMA PartialTimeOut ==
  ASSUME DeadlineMarginMs <= TimeoutMs, ReviewInv, CallTimesOut, UNCHANGED sandboxVars
  PROVE  PartialResultsArrive'
<1>1. SUFFICES ASSUME 2 * TravelMs + Slack + KillTime < DeadlineMarginMs,
                      phase \notin {"scanning", "lost"}, stage # "preparing", scanEnd <= deadline
               PROVE  FALSE
  BY DEF ReviewInv, TypeOK, CallTimesOut, PartialResultsArrive, Slack, KillTime, sandboxVars,
         agentVars, scanVars
<1>2. /\ now \in Nat /\ deadline \in Nat /\ repliedAt \in Nat /\ cmdUntil \in Nat
      /\ KillTime \in Int /\ KillTime >= 0
      /\ TravelMs \in Nat /\ TimeoutMs \in Nat /\ DeadlineMarginMs \in Nat /\ KillMs \in Nat
      /\ Slack \in Nat
  BY SlackIs, AgentReviewAssumption, StyleSandboxAssumption
     DEF ReviewInv, TypeOK, SandboxTypeOK, Timely, KillTime
<1>3. now >= TimeoutMs /\ outcome = "none" /\ ~hungUp
  BY DEF CallTimesOut, ReviewInv, Called
<1>4. deadline + 2 * TravelMs + Slack + KillTime < TimeoutMs + TravelMs
  BY <1>1, <1>2, DeadlineIs DEF ReviewInv, Timely
<1>5. phase # "travelling"
  BY <1>1, <1>2, <1>3 DEF ReviewInv, Timely
<1>6. ~(phase = "asking" \/ stage = "running")
  BY <1>1, <1>2, <1>3, <1>4 DEF ReviewInv, Timely
<1>7. stage \notin {"killing", "cleaning"}
  <2>1. stage = "killing" => KillTime = now - (cmdUntil - KillMs)
    BY DEF KillTime, ReviewInv, SandboxTypeOK
  <2>2. QED
    BY <1>1, <1>2, <1>3, <1>4, <2>1 DEF ReviewInv, Timely
<1>8. phase \notin {"answered", "refused"}
  BY <1>1, <1>2, <1>3, <1>4 DEF ReviewInv, Timely
<1>9. QED
  BY <1>1, <1>5, <1>6, <1>7, <1>8 DEF ReviewInv, TypeOK, SandboxTypeOK

(* What was late when the call was abandoned is later still.               *)
LEMMA PartialLate ==
  ASSUME DeadlineMarginMs <= TimeoutMs, ReviewInv, outcome = "timed_out",
         2 * TravelMs + Slack + KillTime < DeadlineMarginMs
  PROVE  now > deadline
<1>1. /\ now \in Nat /\ deadline \in Nat /\ KillTime \in Int /\ KillTime >= 0
      /\ TravelMs \in Nat /\ TimeoutMs \in Nat /\ DeadlineMarginMs \in Nat /\ Slack \in Nat
  BY SlackIs, AgentReviewAssumption, StyleSandboxAssumption
     DEF ReviewInv, TypeOK, SandboxTypeOK, Timely, KillTime
<1>2. now >= TimeoutMs /\ deadline <= TravelMs + TimeoutMs - DeadlineMarginMs
  BY <1>1, DeadlineIs DEF ReviewInv, Timely
<1>3. QED
  BY <1>1, <1>2

(* After that, whatever ends late says so.                                 *)
LEMMA PartialStep ==
  ASSUME DeadlineMarginMs <= TimeoutMs, ReviewInv, PartialResultsArrive,
         [ServiceNext]_serviceVars
  PROVE  PartialResultsArrive'
<1> DEFINE Late == \/ phase \in {"scanning", "lost"} \/ stage = "preparing"
                   \/ scanEnd > deadline
           Spare == 2 * TravelMs + Slack + KillTime < DeadlineMarginMs
<1>a. /\ PartialResultsArrive <=> (outcome = "timed_out" /\ Spare => Late)
      /\ PartialResultsArrive' <=> ((outcome = "timed_out" /\ Spare)' => Late')
  BY DEF PartialResultsArrive, Slack
<1>b. KillTime \in Int /\ Slack \in Nat /\ TravelMs \in Nat /\ DeadlineMarginMs \in Nat
  BY SlackIs, AgentReviewAssumption, StyleSandboxAssumption
     DEF ReviewInv, TypeOK, SandboxTypeOK, KillTime
<1>c. KillTime' \in Int
  BY ReviewInvStep, StyleSandboxAssumption DEF ReviewInv, TypeOK, SandboxTypeOK, KillTime
(* A step that leaves the call alone, and neither saves time nor catches up. *)
<1>0. ASSUME outcome' = outcome,
             outcome = "timed_out" /\ Late /\ now > deadline => Late' \/ ~Spare',
             outcome = "timed_out" => KillTime' >= KillTime
      PROVE  PartialResultsArrive'
  <2>1. SUFFICES ASSUME outcome = "timed_out", Spare' PROVE Late'
    BY <1>0, <1>a
  <2>2. Slack' = Slack
    BY DEF Slack
  <2>3. Spare
    <3>1. 2 * TravelMs + Slack + KillTime' < DeadlineMarginMs
      BY <2>1, <2>2
    <3>2. KillTime' >= KillTime
      BY <1>0, <2>1
    <3>3. ASSUME NEW t \in Int, NEW u \in Int, u >= t, 2 * TravelMs + Slack + u < DeadlineMarginMs
          PROVE  2 * TravelMs + Slack + t < DeadlineMarginMs
      BY <1>b, <3>3
    <3>4. QED
      BY <1>b, <1>c, <3>1, <3>2, <3>3
  <2>4. Late /\ now > deadline
    BY <1>a, <2>1, <2>3, PartialLate
  <2>5. QED
    BY <1>0, <2>1, <2>4
<1> HIDE DEF Late, Spare
<1>1. ASSUME UNCHANGED reviewVars PROVE PartialResultsArrive'
  BY <1>1 DEF reviewVars, agentVars, scanVars, callVars, sandboxVars, PartialResultsArrive, KillTime
<1>2. CASE ReviewStep
  <2>1. CASE Receive /\ UNCHANGED sandboxVars
    BY <1>0, <2>1 DEF ReviewInv, Called, Receive, callVars
  <2>2. CASE LlmAgentStep /\ UNCHANGED sandboxVars
    <3>1. kill = "none" /\ stage = "none" /\ KillTime = 0 /\ KillTime' = 0
      BY <2>2 DEF LlmAgentStep, ScanFile, Ask, LlmAnswers, LlmRefuses, LlmUnreachable,
                  CallSignalFires, LlmFails, SignalFires, ReviewInv, Sandboxed, SandboxTypeOK,
                  KillTime, sandboxVars
    <3>2. outcome' = outcome /\ UNCHANGED <<now, deadline, stage>>
      BY <2>2 DEF LlmAgentStep, ScanFile, Ask, LlmAnswers, LlmRefuses, LlmUnreachable,
                  CallSignalFires, LlmFails, SignalFires, callVars, sandboxVars
    <3>3. \/ phase = "scanning" /\ phase' = "scanning"
          \/ phase = "scanning" /\ scanEnd' = now
          \/ phase # "scanning" /\ phase # "lost" /\ scanEnd' = scanEnd
      BY <2>2 DEF LlmAgentStep, ScanFile, Ask, LlmAnswers, LlmRefuses, LlmUnreachable,
                  CallSignalFires, LlmFails, SignalFires, scanVars
    <3>4. Late /\ now > deadline => Late'
      BY <3>1, <3>2, <3>3 DEF Late
    <3>5. QED
      BY <1>0, <3>1, <3>2, <3>4
  <2>3. CASE StyleStep
    <3>1. outcome' = outcome /\ UNCHANGED <<now, deadline>>
      BY <2>3 DEF StyleStep, Analyze, Prepared, PrepareFails, ContainerAsked, ContainerMoves,
                  RunEnds, RunFails, RunAborts, Kill, CleanedUp, requestVars, callVars
    <3>2. Late /\ now > deadline => Late'
      BY <2>3, <3>1
         DEF StyleStep, Analyze, Prepared, PrepareFails, ContainerAsked, ContainerMoves,
             RunEnds, RunFails, RunAborts, Kill, CleanedUp, Late, ReviewInv, SandboxTypeOK
    <3>3. KillTime' >= KillTime
      <4>1. CASE Kill
        BY <3>1, <4>1, <1>b DEF Kill, KillTime, ReviewInv, Sandboxed, SandboxTypeOK
      <4>2. CASE CleanedUp
        BY <3>1, <4>2, <1>b DEF CleanedUp, Reply, KillTime, ReviewInv, SandboxTypeOK
      <4>3. CASE RunAborts
        BY <3>1, <4>3, <1>b, StyleSandboxAssumption
           DEF RunAborts, KillTime, ReviewInv, TypeOK, Sandboxed, SandboxTypeOK
      <4>4. CASE \/ Analyze \/ Prepared \/ PrepareFails \/ ContainerAsked
                 \/ RunEnds \/ RunFails
        <5>1. KillTime = 0 /\ KillTime' = 0
          BY <4>4 DEF Analyze, Prepared, PrepareFails, ContainerAsked,
                      RunEnds, RunFails, CleanUp, KillTime, ReviewInv, Sandboxed, SandboxTypeOK
        <5>2. QED
          BY <5>1
      <4>5. CASE ContainerMoves
        BY <3>1, <4>5, <1>b DEF ContainerMoves, KillTime
      <4>6. QED
        BY <2>3, <4>1, <4>2, <4>3, <4>4, <4>5 DEF StyleStep
    <3>4. QED
      BY <1>0, <3>1, <3>2, <3>3
  <2>4. CASE CallStep /\ UNCHANGED sandboxVars
    <3>1. CASE CallTimesOut
      BY <2>4, <3>1, PartialTimeOut
    <3>2. CASE ResponseArrives \/ CallBreaks
      BY <1>a, <3>2 DEF ResponseArrives, CallBreaks
    <3>3. QED
      BY <2>4, <3>1, <3>2 DEF CallStep
  <2>5. QED
    BY <1>2, <2>1, <2>2, <2>3, <2>4 DEF ReviewStep
<1>3. CASE HealthStep
  BY <1>1, <1>3
     DEF HealthStep, GetHealth, HealthAsked, Inspected, HealthAnswered, HealthBreaks, HealthTimesOut
<1>4. CASE AgentCrashes
  <2>1. CASE phase \in {"answered", "refused"}
    <3>1. UNCHANGED reviewVars
      BY <1>4, <2>1 DEF AgentCrashes, reviewVars
    <3>2. QED
      BY <1>1, <3>1
  <2>2. CASE phase \notin {"answered", "refused"}
    BY <1>4, <2>2, <1>a DEF AgentCrashes, Late
  <2>3. QED
    BY <2>1, <2>2
<1>5. CASE AgentStarts
  BY <1>1, <1>5 DEF AgentStarts
<1>6. CASE ServiceTick
  <2>1. /\ outcome' = outcome /\ now' = now + 1
        /\ UNCHANGED <<phase, stage, scanEnd, deadline, kill, cmdUntil, repliedAt>>
    BY <1>6 DEF ServiceTick, TimePasses, agentVars, scanVars, callVars, sandboxVars
  <2>2. KillTime' >= KillTime
    BY <2>1, StyleSandboxAssumption DEF KillTime, ReviewInv, TypeOK, SandboxTypeOK
  <2>3. Late => Late'
    BY <2>1 DEF Late
  <2>4. QED
    BY <1>0, <2>1, <2>2, <2>3
<1>7. CASE UNCHANGED serviceVars
  BY <1>1, <1>7 DEF serviceVars
<1>8. QED
  BY <1>2, <1>3, <1>4, <1>5, <1>6, <1>7 DEF ServiceNext
---------------------------------------------------------------------------------
(* No interleaving of a batch, its timers, its sandbox, health calls and   *)
(* crashes leaves the states ServiceTypeOK describes.                      *)
THEOREM ServiceTypeCorrect == ServiceSpec => []ServiceTypeOK
<1>1. ReviewInv /\ RoundsInv => ServiceTypeOK
  BY DEF ReviewInv, RoundsInv, RoundOK, ServiceTypeOK
<1>2. QED
  BY <1>1, ServiceReview, ServiceRounds, PTL

(* Whichever of deadline, hang-up and cap ends the sandbox, and wherever   *)
(* docker stood, a request that is over has left its directory or its      *)
(* container behind only if docker failed or the kill was no use           *)
(* (sandbox.ts, run and its finally).                                      *)
THEOREM SandboxIsCleared == ServiceSpec => []NothingOutlivesTheRequest
<1>1. ReviewInv => NothingOutlivesTheRequest
  BY DEF ReviewInv, SandboxTypeOK, Sandboxed, NothingOutlivesTheRequest
<1>2. QED
  BY <1>1, ServiceReview, PTL

(* Whatever an agent answers, after whatever fallback, its tokens are on   *)
(* the key that answered and no reservation stays open                     *)
(* (fan-out-node.ts settleCall, llm-client.ts).                            *)
THEOREM TokensOnTheAnswerer == ServiceSpec => []CountedOnTheAnswerer
<1>1. ReviewInv => CountedOnTheAnswerer
  BY DEF ReviewInv, Called
<1>2. QED
  BY <1>1, ServiceReview, PTL

(* For every cap on Groq and every least time for a retry: a Groq that     *)
(* hangs leaves Gemini its turn (llm-client.ts callSignal).                *)
THEOREM RetryHasItsTime == ServiceSpec => []SlowGroqLeavesTime
<1>1. ReviewInv => SlowGroqLeavesTime
  BY DEF ReviewInv, Waited
<1>2. QED
  BY <1>1, ServiceReview, PTL

(* A call is started with more left than the margin: the router keeps      *)
(* MIN_CALL_MS for it (llm-routing.ts:13), 5 s to the margin's 2 s, and    *)
(* the Style Agent has the whole agent timeout.  Then what could be        *)
(* stopped at the deadline has been answered when the call is abandoned.   *)
THEOREM MarginIsEnough ==
  ASSUME DeadlineMarginMs <= TimeoutMs
  PROVE  ServiceSpec => []PartialResultsArrive
<1>1. ServiceInit => PartialResultsArrive
  BY DEF ServiceInit, Init, PartialResultsArrive
<1>2. ReviewInv /\ PartialResultsArrive /\ [ServiceNext]_serviceVars => PartialResultsArrive'
  BY PartialStep
<1>3. QED
  BY <1>1, <1>2, ServiceReview, PTL DEF ServiceSpec

(* A round is over, at the latest by its timeout, before the cache is too  *)
(* old: the router's defaults are 2 s and 30 s (agents-health.ts:20).      *)
(* Then every request shares the one round there is, and what it is told   *)
(* is true and young.                                                      *)
THEOREM HealthIsTrue ==
  ASSUME HealthTimeoutMs + LagMs < CacheMs
  PROVE  ServiceSpec => []HealthTellsTheTruth
<1>1. RoundsInv => HealthTellsTheTruth
  <2>1. SUFFICES ASSUME RoundsInv PROVE HealthTellsTheTruth
    OBVIOUS
  <2>2. \A i, j \in Slots : InFlight(rounds[i]) /\ InFlight(rounds[j]) => i = j
    BY <2>1 DEF RoundsInv
  <2>3. \A i \in Slots : InFlight(rounds[i]) => rounds[i].age <= HealthTimeoutMs + LagMs
    BY <2>1 DEF RoundsInv, RoundOK, RoundFacts
  <2>4. ASSUME ~NeedsPoll, ~InFlight(rounds[cached])
        PROVE  IF rounds[cached].status = "unavailable"
               THEN rounds[cached].trouble \/ 2 * TravelMs >= HealthTimeoutMs
               ELSE rounds[cached].heard < CacheMs
    <3>1. /\ RoundOK(rounds[cached]) /\ ~(rounds[cached].age >= CacheMs)
          /\ rounds[cached].age \in 0..CacheMs /\ rounds[cached].heard \in 0..CacheMs
      BY <2>1, <2>4 DEF RoundsInv, RoundOK, Round, NeedsPoll
    <3>2. rounds[cached].probe = "done"
      BY <2>4, <3>1 DEF RoundOK, RoundFacts, InFlight
    <3>3. QED
      BY <3>1, <3>2, AgentServiceAssumption DEF RoundOK, RoundFacts
  <2>5. QED
    BY <2>2, <2>3, <2>4 DEF HealthTellsTheTruth
<1>2. QED
  BY <1>1, ServiceRounds, PTL
=================================================================================
