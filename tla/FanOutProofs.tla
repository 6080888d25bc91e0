------------------------------ MODULE FanOutProofs ------------------------------
(***************************************************************************)
(* For all reviews, agents, keys, limits, batches and times: the calls of  *)
(* concurrent reviews are started in order, each with a reservation of its *)
(* own, and the runs use every key as QuotaBudget expects, so what holds   *)
(* of a budget holds of theirs, and with it what waiting for room on it    *)
(* promises.                                                               *)
(***************************************************************************)
EXTENDS FanOut, QuotaWindowsProofs, SequenceTheorems

Call == [tokens : Nat, state : CallState, provider : Providers \cup {None},
         id : Nat, at : Nat, until : Nat]

Begun(c) == c.state \in {"sent", "ok", "failed"}

Shapes ==
  /\ aborted \in SUBSET Reviews
  /\ phase \in [Runs -> Phase] /\ deadline \in [Runs -> Nat] /\ DOMAIN wakeAt = Runs
  /\ wakeAt = [r \in Runs |-> wakeAt[r]]
  /\ calls \in [Runs -> Seq(Call)]
  /\ report \in [Reviews -> {"none", "completed", "partial", "failed", "rejected"}]
  /\ entries = [p \in Providers |-> entries[p]]
  /\ nextId \in [Providers -> 1..(MaxId + 1)] /\ now \in 0..MaxNow

(* A call of a review that goes on holds an id of its key, if it began.    *)
CallOK(r, c) ==
  /\ ~Begun(c) \/ r \notin LlmRuns => c.provider = None
  /\ c.until >= c.at
  /\ r \in LlmRuns => c.tokens + OverheadTokens \in Amounts
  /\ r \in LlmRuns /\ Begun(c) => c.provider \in Providers /\ c.id \in 1..(nextId[c.provider] - 1)
  /\ c.state = "sent" => r[1] \notin aborted

(* The batches are sent in their order, and the run is at batch k.         *)
At(r, k) ==
  /\ k \in DOMAIN calls[r]
  /\ \A i \in DOMAIN calls[r] :
       (i < k => Begun(calls[r][i])) /\ (i >= k => calls[r][i].state = "planned")

RunOK(r) ==
  /\ \A k \in DOMAIN calls[r] : CallOK(r, calls[r][k])
  /\ phase[r] = "idle" => calls[r] = <<>>
  /\ phase[r] \in {"reserving", "sleeping"} => r \in LlmRuns /\ \E k \in Nat : At(r, k)
  /\ phase[r] = "collecting" => \A k \in DOMAIN calls[r] : calls[r][k].state # "planned"
  /\ phase[r] = "sleeping" => r[1] \notin aborted

(* No two calls share a reservation.                                       *)
IdsOfTheirOwn ==
  \A r, q \in LlmRuns : \A k \in DOMAIN calls[r], i \in DOMAIN calls[q] :
    /\ Begun(calls[r][k]) /\ Begun(calls[q][i])
    /\ calls[r][k].provider = calls[q][i].provider /\ calls[r][k].id = calls[q][i].id
    => r = q /\ k = i

FanInv == Shapes /\ (\A r \in Runs : RunOK(r)) /\ IdsOfTheirOwn
---------------------------------------------------------------------------------
(* The constants are numbers.                                              *)
LEMMA ConstantsAre ==
  /\ OverheadTokens \in Nat /\ LlmTimeoutMs \in Nat /\ AgentTimeoutMs \in Nat
  /\ MinCallMs \in Nat /\ LagMs \in Nat /\ MaxNow \in Nat /\ MaxId \in Nat
  /\ Max({AgentTimeoutMs, LlmTimeoutMs}) \in Nat
  /\ Max({AgentTimeoutMs, LlmTimeoutMs}) >= AgentTimeoutMs
  /\ Max({AgentTimeoutMs, LlmTimeoutMs}) >= LlmTimeoutMs
<1>1. AgentTimeoutMs \in Nat /\ LlmTimeoutMs \in Nat
  BY FanOutAssumption
<1>2. Max({AgentTimeoutMs, LlmTimeoutMs})
        = IF AgentTimeoutMs >= LlmTimeoutMs THEN AgentTimeoutMs ELSE LlmTimeoutMs
  BY <1>1, MaxOfTwo
<1>3. QED
  BY <1>1, <1>2, FanOutAssumption

(* A run is of one review, and of an LLM agent or another.                 *)
LEMMA RunsAre ==
  /\ LlmRuns \subseteq Runs
  /\ \A r \in Runs : r = <<r[1], r[2]>> /\ r[1] \in Reviews /\ r[2] \in Agents
  /\ \A r \in Runs : r \in LlmRuns <=> r[2] \in LlmAgents
BY DEF Runs, LlmRuns, Agents

(* A sequence with the same indexes, and calls at each, is one of calls.   *)
LEMMA CallsAre ==
  ASSUME NEW s \in Seq(Call), NEW t, t = [k \in DOMAIN s |-> t[k]],
         \A k \in DOMAIN s : t[k] \in Call
  PROVE  t \in Seq(Call) /\ DOMAIN t = DOMAIN s
<1>1. DOMAIN s = 1..Len(s) /\ Len(s) \in Nat
  OBVIOUS
<1>2. t \in [1..Len(s) -> Call]
  BY <1>1
<1>3. t \in Seq(Call)
  BY <1>1, <1>2, SeqDef
<1>4. QED
  BY <1>1, <1>2, <1>3

(* What a run keeps while it is not concerned.                             *)
LEMMA RunKept ==
  ASSUME Shapes, NEW q \in Runs, RunOK(q), calls'[q] = calls[q], phase'[q] = phase[q],
         q[1] \in aborted' <=> q[1] \in aborted,
         \A p \in Providers : nextId'[p] \in Nat /\ nextId'[p] >= nextId[p]
  PROVE  RunOK(q)'
<1>1. ASSUME NEW k \in DOMAIN calls[q] PROVE CallOK(q, calls[q][k])'
  <2>1. CallOK(q, calls[q][k])
    BY DEF RunOK
  <2>2. calls'[q][k] = calls[q][k]
    OBVIOUS
  <2>3. \A p \in Providers : nextId[p] \in Nat
    BY DEF Shapes
  <2>4. \A p \in Providers : \A id \in 1..(nextId[p] - 1) : id \in 1..(nextId'[p] - 1)
    BY <2>3
  <2>5. QED
    BY <2>1, <2>2, <2>4 DEF CallOK, Begun
<1>2. \A k \in Nat : At(q, k) => At(q, k)'
  BY DEF At, Begun
<1>3. QED
  BY <1>1, <1>2 DEF RunOK

(* Ids stay apart when nothing new begins.                                 *)
LEMMA IdsKept ==
  ASSUME IdsOfTheirOwn,
         \A r \in LlmRuns : \A k \in DOMAIN calls'[r] : Begun(calls'[r][k]) =>
            /\ k \in DOMAIN calls[r] /\ Begun(calls[r][k])
            /\ calls[r][k].provider = calls'[r][k].provider /\ calls[r][k].id = calls'[r][k].id
  PROVE  IdsOfTheirOwn'
BY DEF IdsOfTheirOwn, Begun
---------------------------------------------------------------------------------
(* The batch a reserving run is at.                                        *)
LEMMA NextIs ==
  ASSUME NEW r \in Runs, Shapes, RunOK(r), phase[r] = "reserving"
  PROVE  /\ r \in LlmRuns /\ At(r, Next1(r)) /\ Next1(r) \in 1..Len(calls[r])
         /\ calls[r][Next1(r)] \in Call /\ CallOK(r, calls[r][Next1(r)])
<1>1. r \in LlmRuns /\ \E k \in Nat : At(r, k)
  BY DEF RunOK
<1>2. PICK k \in Nat : At(r, k)
  BY <1>1
<1>3. calls[r] \in Seq(Call) /\ DOMAIN calls[r] = 1..Len(calls[r]) /\ Len(calls[r]) \in Nat
  BY DEF Shapes
<1> DEFINE First(i) == /\ calls[r][i].state = "planned"
                       /\ \A j \in 1..(i - 1) : calls[r][j].state # "planned"
<1>4. First(k) /\ k \in DOMAIN calls[r]
  <2>1. \A j \in 1..(k - 1) : j \in DOMAIN calls[r] /\ j < k
    BY <1>2, <1>3 DEF At
  <2>2. QED
    BY <1>2, <2>1 DEF At, Begun
<1>5. Next1(r) = CHOOSE i \in DOMAIN calls[r] : First(i)
  BY DEF Next1
<1>6. Next1(r) \in DOMAIN calls[r] /\ First(Next1(r))
  <2> HIDE DEF First
  <2>1. QED
    BY <1>4, <1>5
<1>7. Next1(r) = k
  <2>1. ~(Next1(r) < k)
    BY <1>2, <1>6 DEF At, Begun
  <2>2. ~(k < Next1(r))
    BY <1>3, <1>4, <1>6
  <2>3. QED
    BY <1>3, <1>6, <2>1, <2>2
<1>8. calls[r][k] \in Call /\ CallOK(r, calls[r][k])
  BY <1>3, <1>4 DEF RunOK
<1>9. QED
  BY <1>1, <1>2, <1>3, <1>6, <1>7, <1>8

(* A batch is sent on a key with room, one of those it may go to.          *)
LEMMA ChosenIs ==
  ASSUME NEW tokens, Room(tokens) # {}
  PROVE  /\ Chosen(tokens) \in Room(tokens) /\ Chosen(tokens) \in Candidates(tokens)
         /\ Chosen(tokens) \in Providers
BY FanOutAssumption DEF Chosen, Room, Candidates

(* The run sends batch k on key p, and the keys it asked are pruned.       *)
Sends(r, k, p) ==
  LET tokens == calls[r][k].tokens
      spent  == tokens + OverheadTokens
  IN  /\ Trying(r) /\ At(r, k) /\ k \in 1..Len(calls[r]) /\ r \in LlmRuns
      /\ p \in Providers /\ p \in Room(tokens) /\ nextId[p] <= MaxId
      /\ nextId' = [nextId EXCEPT ![p] = @ + 1]
      /\ calls' = [calls EXCEPT ![r] =
           [calls[r] EXCEPT ![k] = Sending(calls[r][k], p, Max({1, deadline[r] - now}))]]
      /\ phase' = [phase EXCEPT ![r] = IF k = Len(calls[r]) THEN "collecting" ELSE "reserving"]
      /\ entries' = [q \in Providers |-> entries'[q]]
      /\ entries'[p] = Prune(entries[p], now) \cup {Pushed(p, spent, spent)}
      /\ \A q \in Providers \ {p} :
           \/ entries'[q] = entries[q]
           \/ entries'[q] = Prune(entries[q], now) /\ q \in Candidates(tokens) \ Room(tokens)
      /\ UNCHANGED <<aborted, deadline, wakeAt, report, now>>

(* ReserveAndSend, taken apart.                                            *)
LEMMA SendIs ==
  ASSUME NEW r \in Runs, FanInv, ReserveAndSend(r)
  PROVE  Sends(r, Next1(r), Chosen(calls[r][Next1(r)].tokens))
<1> DEFINE k == Next1(r)
           tokens == calls[r][k].tokens
           p == Chosen(tokens)
           tried == IF p = "groq" THEN {p} ELSE Candidates(tokens)
<1>1. phase[r] = "reserving" /\ Trying(r)
  BY DEF ReserveAndSend, Trying
<1>2. r \in LlmRuns /\ At(r, k) /\ k \in 1..Len(calls[r])
  BY <1>1, NextIs DEF FanInv
<1>3. Room(tokens) # {} /\ nextId[p] <= MaxId
  BY DEF ReserveAndSend
<1>4. p \in Room(tokens) /\ p \in Candidates(tokens) /\ p \in Providers
  BY <1>3, ChosenIs
<1>5. /\ nextId' = [nextId EXCEPT ![p] = @ + 1]
      /\ phase' = [phase EXCEPT ![r] = IF k = Len(calls[r]) THEN "collecting" ELSE "reserving"]
      /\ UNCHANGED <<aborted, deadline, wakeAt, report, now>>
  BY <1>1 DEF ReserveAndSend, FanInv, Shapes
<1>6. calls' = [calls EXCEPT ![r] =
        [calls[r] EXCEPT ![k] = Sending(calls[r][k], p, Max({1, deadline[r] - now}))]]
  BY DEF ReserveAndSend
<1>7. Cost(tokens).tokens = tokens + OverheadTokens
  BY DEF Cost
<1>8. entries' = [Pruned(tried) EXCEPT ![p] = @ \cup
        {Pushed(p, tokens + OverheadTokens, tokens + OverheadTokens)}]
  BY <1>7 DEF ReserveAndSend
<1>9. /\ entries' = [q \in Providers |-> entries'[q]]
      /\ entries'[p] = Prune(entries[p], now) \cup
           {Pushed(p, tokens + OverheadTokens, tokens + OverheadTokens)}
      /\ \A q \in Providers \ {p} :
           entries'[q] = IF q \in tried THEN Prune(entries[q], now) ELSE entries[q]
  <2> HIDE DEF p, tokens, k
  <2>1. QED
    BY <1>4, <1>8 DEF Pruned
<1>10. \A q \in Providers \ {p} : q \in tried => q \in Candidates(tokens) \ Room(tokens)
  BY FanOutAssumption DEF Chosen
<1>11. \A q \in Providers \ {p} :
           \/ entries'[q] = entries[q]
           \/ entries'[q] = Prune(entries[q], now) /\ q \in Candidates(tokens) \ Room(tokens)
  BY <1>9, <1>10
<1>12. Sends(r, k, p)
  <2> HIDE DEF k, p, tried
  <2>1. QED
    BY <1>1, <1>2, <1>3, <1>4, <1>5, <1>6, <1>9, <1>11 DEF Sends
<1>13. QED
  BY <1>12
---------------------------------------------------------------------------------
(* What is left of a run's time, but at least a moment.                    *)
LEMMA LeftIs ==
  ASSUME NEW d \in Int, NEW t \in Int
  PROVE  /\ Max({1, d - t}) \in Nat \ {0}
         /\ Max({1, d - t}) = IF 1 >= d - t THEN 1 ELSE d - t
<1> DEFINE left == d - t
<1>1. left \in Int
  OBVIOUS
<1> HIDE DEF left
<1>2. Max({1, left}) = IF 1 >= left THEN 1 ELSE left
  BY <1>1, MaxOfTwo
<1>3. QED
  BY <1>1, <1>2 DEF left

(* Sending a batch: its call, the others, and the ids.                     *)
LEMMA SendCalls ==
  ASSUME NEW r \in Runs, FanInv, NEW k, NEW p, Sends(r, k, p),
         NEW ms, ms = Max({1, deadline[r] - now}), NEW c, c = Sending(calls[r][k], p, ms)
  PROVE  /\ ms \in Nat \ {0} /\ calls[r][k] \in Call /\ CallOK(r, calls[r][k])
         /\ c \in Call /\ calls'[r][k] = c /\ DOMAIN calls'[r] = DOMAIN calls[r]
         /\ k \in DOMAIN calls[r] /\ calls[r][k].state = "planned"
         /\ \A i \in DOMAIN calls[r] \ {k} : calls'[r][i] = calls[r][i]
         /\ \A q \in Runs \ {r} : calls'[q] = calls[q] /\ phase'[q] = phase[q]
         /\ calls' \in [Runs -> Seq(Call)]
         /\ nextId[p] \in 1..MaxId /\ nextId'[p] = nextId[p] + 1
         /\ \A q \in Providers \ {p} : nextId'[q] = nextId[q]
         /\ Begun(c) /\ c.tokens = calls[r][k].tokens /\ c.provider = p /\ c.id = nextId[p]
         /\ c.state = "sent" /\ c.at = now /\ c.until = now + ms
<1> DEFINE s == [calls[r] EXCEPT ![k] = c]
<1>1. /\ calls[r] \in Seq(Call) /\ DOMAIN calls[r] = 1..Len(calls[r]) /\ Len(calls[r]) \in Nat
      /\ deadline[r] \in Nat /\ now \in Nat /\ nextId[p] \in 1..(MaxId + 1) /\ nextId[p] <= MaxId
      /\ k \in DOMAIN calls[r] /\ p \in Providers /\ calls[r][k].state = "planned"
  <2>1. At(r, k) /\ p \in Providers /\ nextId[p] <= MaxId /\ k \in 1..Len(calls[r])
    BY DEF Sends
  <2>2. /\ calls[r] \in Seq(Call) /\ DOMAIN calls[r] = 1..Len(calls[r]) /\ Len(calls[r]) \in Nat
        /\ deadline[r] \in Nat /\ now \in Nat /\ nextId[p] \in 1..(MaxId + 1)
    BY <2>1, ConstantsAre DEF FanInv, Shapes
  <2>3. QED
    BY <2>1, <2>2 DEF At
<1>2. ms \in Nat \ {0}
  <2>1. deadline[r] \in Int /\ now \in Int
    BY <1>1
  <2>2. QED
    BY <2>1, LeftIs
<1>3. calls[r][k] \in Call /\ CallOK(r, calls[r][k])
  BY <1>1 DEF FanInv, RunOK
<1>4. /\ c \in Call /\ Begun(c) /\ c.tokens = calls[r][k].tokens /\ c.provider = p
      /\ c.id = nextId[p] /\ c.state = "sent" /\ c.at = now /\ c.until = now + ms
  <2>1. ms \in Nat /\ nextId[p] \in Nat
    BY <1>1, <1>2
  <2>2. now \in Nat /\ p \in Providers /\ calls[r][k] \in Call
    BY <1>1, <1>3
  <2> DEFINE b == calls[r][k]
             d == Sending(b, p, ms)
  <2>3. b \in Call /\ c = d
    BY <2>2
  <2> HIDE DEF b
  <2>4. /\ d \in Call /\ Begun(d) /\ d.tokens = b.tokens /\ d.provider = p
        /\ d.id = nextId[p] /\ d.state = "sent" /\ d.at = now /\ d.until = now + ms
    BY <2>1, <2>2, <2>3 DEF Sending, Call, CallState, Begun
  <2> HIDE DEF d
  <2>5. QED
    BY <2>3, <2>4 DEF b
<1>5. calls' = [calls EXCEPT ![r] = s]
  BY DEF Sends
<1>6. s \in Seq(Call) /\ DOMAIN s = DOMAIN calls[r] /\ s[k] = c
      /\ \A i \in DOMAIN calls[r] \ {k} : s[i] = calls[r][i]
  <2>1. calls[r] \in Seq(Call) /\ c \in Call /\ k \in DOMAIN calls[r]
    BY <1>1, <1>4
  <2>2. QED
    BY <2>1
<1> HIDE DEF s
<1>7. /\ calls' \in [Runs -> Seq(Call)] /\ calls'[r] = s
      /\ \A q \in Runs \ {r} : calls'[q] = calls[q]
  BY <1>5, <1>6 DEF FanInv, Shapes
<1>8. /\ \A q \in Runs \ {r} : phase'[q] = phase[q]
      /\ nextId'[p] = nextId[p] + 1 /\ \A q \in Providers \ {p} : nextId'[q] = nextId[q]
  BY <1>1 DEF FanInv, Shapes, Sends
<1>9. nextId[p] \in 1..MaxId
  BY <1>1, ConstantsAre
<1>10. QED
  BY <1>1, <1>2, <1>3, <1>4, <1>6, <1>7, <1>8, <1>9

(* A call that is sent keeps the batches in order and the ids apart.       *)
LEMMA SendKeeps ==
  ASSUME NEW r \in Runs, FanInv, NEW k, NEW p, Sends(r, k, p)
  PROVE  FanInv'
<1> DEFINE ms == Max({1, deadline[r] - now})
           c  == Sending(calls[r][k], p, ms)
<1>0. ms = Max({1, deadline[r] - now}) /\ c = Sending(calls[r][k], p, ms)
  OBVIOUS
<1> HIDE DEF c, ms
<1>1. /\ ms \in Nat \ {0} /\ calls[r][k] \in Call /\ CallOK(r, calls[r][k])
      /\ c \in Call /\ calls'[r][k] = c /\ DOMAIN calls'[r] = DOMAIN calls[r]
      /\ k \in DOMAIN calls[r] /\ calls[r][k].state = "planned"
      /\ \A i \in DOMAIN calls[r] \ {k} : calls'[r][i] = calls[r][i]
      /\ \A q \in Runs \ {r} : calls'[q] = calls[q] /\ phase'[q] = phase[q]
      /\ calls' \in [Runs -> Seq(Call)]
      /\ nextId[p] \in 1..MaxId /\ nextId'[p] = nextId[p] + 1
      /\ \A q \in Providers \ {p} : nextId'[q] = nextId[q]
      /\ Begun(c) /\ c.tokens = calls[r][k].tokens /\ c.provider = p /\ c.id = nextId[p]
      /\ c.state = "sent" /\ c.at = now /\ c.until = now + ms
  BY <1>0, SendCalls
<1>2. /\ p \in Providers /\ r \in LlmRuns /\ r[1] \notin aborted /\ At(r, k)
      /\ UNCHANGED <<aborted, deadline, wakeAt, report, now>>
      /\ phase'[r] = (IF k = Len(calls[r]) THEN "collecting" ELSE "reserving")
      /\ now \in Nat /\ Len(calls[r]) \in Nat /\ DOMAIN calls[r] = 1..Len(calls[r])
  BY ConstantsAre DEF Sends, Trying, FanInv, Shapes
<1>4. Shapes'
  <2>1. phase' \in [Runs -> Phase]
    BY DEF FanInv, Shapes, Sends, Phase
  <2>2. nextId' \in [Providers -> 1..(MaxId + 1)]
    <3>1. nextId' = [nextId EXCEPT ![p] = nextId[p] + 1] /\ nextId \in [Providers -> 1..(MaxId + 1)]
      BY DEF FanInv, Shapes, Sends
    <3>2. nextId[p] + 1 \in 1..(MaxId + 1)
      BY <1>1, ConstantsAre
    <3>3. QED
      BY <3>1, <3>2
  <2>3. entries' = [q \in Providers |-> entries'[q]]
    BY DEF Sends
  <2>4. QED
    BY <1>1, <1>2, <2>1, <2>2, <2>3 DEF FanInv, Shapes
<1>5. \A q \in Providers : nextId[q] \in Nat /\ nextId'[q] \in Nat /\ nextId'[q] >= nextId[q]
  <2>1. \A q \in Providers : nextId[q] \in Nat
    BY DEF FanInv, Shapes
  <2>2. \A q \in Providers : nextId'[q] = nextId[q] + 1 \/ nextId'[q] = nextId[q]
    BY <1>1
  <2>3. QED
    BY <2>1, <2>2
<1>6. ASSUME NEW q \in Runs \ {r} PROVE RunOK(q)'
  BY <1>1, <1>2, <1>5, RunKept DEF FanInv
<1>7. RunOK(r)'
  <2>1. ASSUME NEW i \in DOMAIN calls[r] \ {k} PROVE CallOK(r, calls[r][i])'
    <3>1. CallOK(r, calls[r][i]) /\ calls'[r][i] = calls[r][i]
      BY <1>1 DEF FanInv, RunOK
    <3>2. \A q \in Providers : \A id \in 1..(nextId[q] - 1) : id \in 1..(nextId'[q] - 1)
      BY <1>5
    <3>3. QED
      BY <1>2, <3>1, <3>2 DEF CallOK, Begun
  <2>2. CallOK(r, calls[r][k])'
    <3>1. nextId[p] \in 1..(nextId'[p] - 1) /\ c.until >= c.at
      BY <1>1, <1>2
    <3>2. QED
      BY <1>1, <1>2, <3>1 DEF CallOK, Begun
  <2>3. CASE k = Len(calls[r])
    <3>1. ASSUME NEW i \in DOMAIN calls[r] PROVE calls'[r][i].state # "planned"
      <4>1. CASE i = k
        BY <1>1, <4>1
      <4>2. CASE i # k
        <5>1. i < k
          BY <1>2, <2>3, <4>2
        <5>2. Begun(calls[r][i]) /\ calls'[r][i] = calls[r][i]
          BY <1>1, <1>2, <4>2, <5>1 DEF At
        <5>3. QED
          BY <5>2 DEF Begun
      <4>3. QED
        BY <4>1, <4>2
    <3>2. phase'[r] = "collecting"
      BY <1>2, <2>3
    <3>3. QED
      BY <1>1, <2>1, <2>2, <3>1, <3>2 DEF RunOK
  <2>4. CASE k # Len(calls[r])
    <3>1. At(r, k + 1)'
      <4>1. k + 1 \in DOMAIN calls[r] /\ k \in Nat
        BY <1>1, <1>2, <2>4
      <4>2. ASSUME NEW i \in DOMAIN calls[r], i < k + 1 PROVE Begun(calls'[r][i])
        <5>1. i = k \/ i < k
          BY <1>2, <4>1, <4>2
        <5>2. CASE i = k
          BY <1>1, <5>2
        <5>3. CASE i < k
          <6>1. Begun(calls[r][i]) /\ i # k
            BY <1>2, <4>1, <5>3 DEF At
          <6>2. QED
            BY <1>1, <6>1
        <5>4. QED
          BY <5>1, <5>2, <5>3
      <4>3. ASSUME NEW i \in DOMAIN calls[r], i >= k + 1 PROVE calls'[r][i].state = "planned"
        <5>1. i # k /\ i >= k
          BY <1>2, <4>1, <4>3
        <5>2. calls[r][i].state = "planned" /\ calls'[r][i] = calls[r][i]
          BY <1>1, <1>2, <5>1 DEF At
        <5>3. QED
          BY <5>2
      <4>4. QED
        BY <1>1, <4>1, <4>2, <4>3 DEF At, Begun
    <3>2. phase'[r] = "reserving" /\ k + 1 \in Nat
      BY <1>1, <1>2, <2>4
    <3>3. QED
      BY <1>1, <1>2, <2>1, <2>2, <3>1, <3>2 DEF RunOK
  <2>5. QED
    BY <2>3, <2>4
<1>8. IdsOfTheirOwn'
  <2>1. ASSUME NEW q \in LlmRuns, NEW i \in DOMAIN calls'[q], q # r \/ i # k
        PROVE  i \in DOMAIN calls[q] /\ calls'[q][i] = calls[q][i]
    BY <1>1, <2>1, RunsAre
  <2>2. ASSUME NEW q \in LlmRuns, NEW i \in DOMAIN calls'[q], q # r \/ i # k,
               Begun(calls'[q][i]), calls'[q][i].provider = p
        PROVE  calls'[q][i].id # nextId[p]
    <3>1. CallOK(q, calls[q][i]) /\ Begun(calls[q][i]) /\ calls'[q][i] = calls[q][i]
      BY <2>1, <2>2, RunsAre DEF FanInv, RunOK
    <3>2. calls[q][i].id \in 1..(nextId[p] - 1)
      BY <2>2, <3>1 DEF CallOK
    <3>3. QED
      BY <1>1, <3>1, <3>2
  <2>3. ASSUME NEW q \in LlmRuns, NEW i \in DOMAIN calls'[q], q # r \/ i # k,
               NEW u \in LlmRuns, NEW j \in DOMAIN calls'[u], u # r \/ j # k,
               Begun(calls'[q][i]), Begun(calls'[u][j]),
               calls'[q][i].provider = calls'[u][j].provider, calls'[q][i].id = calls'[u][j].id
        PROVE  q = u /\ i = j
    <3>1. /\ i \in DOMAIN calls[q] /\ calls'[q][i] = calls[q][i]
          /\ j \in DOMAIN calls[u] /\ calls'[u][j] = calls[u][j]
      BY <2>1, <2>3
    <3>2. QED
      BY <2>3, <3>1 DEF FanInv, IdsOfTheirOwn
  <2>4. SUFFICES ASSUME NEW q \in LlmRuns, NEW u \in LlmRuns,
                        NEW i \in DOMAIN calls'[q], NEW j \in DOMAIN calls'[u],
                        Begun(calls'[q][i]), Begun(calls'[u][j]),
                        calls'[q][i].provider = calls'[u][j].provider,
                        calls'[q][i].id = calls'[u][j].id
                 PROVE  q = u /\ i = j
    BY DEF IdsOfTheirOwn, Begun
  <2>5. CASE q = r /\ i = k
    <3>1. calls'[u][j].provider = p /\ calls'[u][j].id = nextId[p]
      BY <1>1, <2>4, <2>5
    <3>2. QED
      BY <2>2, <2>4, <2>5, <3>1
  <2>6. CASE u = r /\ j = k
    <3>1. calls'[q][i].provider = p /\ calls'[q][i].id = nextId[p]
      BY <1>1, <2>4, <2>6
    <3>2. QED
      BY <2>2, <2>4, <2>6, <3>1
  <2>7. CASE (q # r \/ i # k) /\ (u # r \/ j # k)
    BY <2>3, <2>4, <2>7
  <2>8. QED
    BY <2>5, <2>6, <2>7
<1>9. QED
  BY <1>4, <1>6, <1>7, <1>8 DEF FanInv
---------------------------------------------------------------------------------
(* A call that ended, well or not.                                         *)
Ended(c, d) == c.state = "sent" /\ \E s \in {"ok", "failed"} : d = [c EXCEPT !.state = s]

(* Nothing but the state of a call that ended has changed.                 *)
LEMMA EndedIs ==
  ASSUME NEW c \in Call, NEW d, Ended(c, d)
  PROVE  /\ d \in Call /\ Begun(c) /\ Begun(d) /\ d.state \in {"ok", "failed"}
         /\ d.tokens = c.tokens /\ d.provider = c.provider /\ d.id = c.id
         /\ d.at = c.at /\ d.until = c.until
BY DEF Ended, Call, CallState, Begun

(* A run some of whose calls end, by themselves or with the review.        *)
LEMMA RunEnds ==
  ASSUME Shapes, NEW q \in Runs, RunOK(q),
         calls'[q] \in Seq(Call), DOMAIN calls'[q] = DOMAIN calls[q],
         \A k \in DOMAIN calls[q] :
           \/ calls'[q][k] = calls[q][k] /\ (calls[q][k].state = "sent" => q[1] \notin aborted')
           \/ Ended(calls[q][k], calls'[q][k]),
         \/ phase'[q] = phase[q] /\ (phase[q] = "sleeping" => q[1] \notin aborted')
         \/ phase[q] = "sleeping" /\ phase'[q] = "rejected",
         \A p \in Providers : nextId'[p] \in Nat /\ nextId'[p] >= nextId[p]
  PROVE  RunOK(q)'
<1>1. ASSUME NEW k \in DOMAIN calls[q]
      PROVE  /\ CallOK(q, calls[q][k])'
             /\ Begun(calls[q][k]) => Begun(calls'[q][k])
             /\ calls[q][k].state = "planned" <=> calls'[q][k].state = "planned"
  <2>1. CallOK(q, calls[q][k]) /\ calls[q][k] \in Call
    BY DEF RunOK, Shapes
  <2>2. \A p \in Providers : nextId[p] \in Nat
    BY DEF Shapes
  <2>3. \A p \in Providers : \A id \in 1..(nextId[p] - 1) : id \in 1..(nextId'[p] - 1)
    BY <2>2
  <2>4. CASE calls'[q][k] = calls[q][k] /\ (calls[q][k].state = "sent" => q[1] \notin aborted')
    BY <2>1, <2>3, <2>4 DEF CallOK, Begun
  <2>5. CASE Ended(calls[q][k], calls'[q][k])
    BY <2>1, <2>3, <2>5, EndedIs DEF CallOK, Begun, Ended
  <2>6. QED
    BY <2>4, <2>5
<1>2. \A k \in Nat : At(q, k) => At(q, k)'
  <2>1. SUFFICES ASSUME NEW k \in Nat, At(q, k) PROVE At(q, k)'
    OBVIOUS
  <2>2. ASSUME NEW i \in DOMAIN calls[q]
        PROVE  (i < k => Begun(calls'[q][i])) /\ (i >= k => calls'[q][i].state = "planned")
    BY <1>1, <2>1 DEF At
  <2>3. QED
    BY <2>1, <2>2 DEF At, Begun
<1>3. phase[q] = "idle" => calls'[q] = <<>>
  <2>1. ASSUME calls[q] = <<>> PROVE calls'[q] = <<>>
    <3>1. <<>> \in Seq(Call) /\ Len(<<>>) = 0
      BY EmptySeq
    <3>2. DOMAIN calls'[q] = 1..Len(calls'[q]) /\ Len(calls'[q]) \in Nat
      OBVIOUS
    <3>3. DOMAIN calls'[q] = 1..0
      BY <2>1, <3>1
    <3>4. Len(calls'[q]) = 0
      BY <3>2, <3>3
    <3>5. QED
      BY <3>4, EmptySeq
  <2>2. QED
    BY <2>1 DEF RunOK
<1>4. QED
  BY <1>1, <1>2, <1>3 DEF RunOK
---------------------------------------------------------------------------------
(* Call k of the run ends, and nothing but the keys changes besides.       *)
Ends(r, k) ==
  /\ k \in DOMAIN calls[r] /\ calls[r][k].state = "sent"
  /\ \E s \in {"ok", "failed"} : SetCall(r, k, s)
  /\ entries' = [q \in Providers |-> entries'[q]]
  /\ nextId' \in [Providers -> 1..(MaxId + 1)] /\ \A p \in Providers : nextId'[p] >= nextId[p]
  /\ UNCHANGED <<aborted, phase, deadline, wakeAt, report, now>>

(* The call that ends, and the others.                                     *)
LEMMA EndCalls ==
  ASSUME NEW r \in Runs, NEW k, FanInv, Ends(r, k)
  PROVE  /\ calls' \in [Runs -> Seq(Call)] /\ calls[r][k] \in Call
         /\ Ended(calls[r][k], calls'[r][k]) /\ DOMAIN calls'[r] = DOMAIN calls[r]
         /\ \A i \in DOMAIN calls[r] \ {k} : calls'[r][i] = calls[r][i]
         /\ \A q \in Runs \ {r} : calls'[q] = calls[q]
<1>1. PICK s \in {"ok", "failed"} : SetCall(r, k, s)
  BY DEF Ends
<1> DEFINE c == [calls[r][k] EXCEPT !.state = s]
           t == [calls[r] EXCEPT ![k] = c]
<1>2. /\ calls[r] \in Seq(Call) /\ k \in DOMAIN calls[r] /\ calls[r][k] \in Call
      /\ calls[r][k].state = "sent"
  BY DEF FanInv, Shapes, Ends
<1>3. Ended(calls[r][k], c)
  BY <1>2 DEF Ended
<1>4. calls' = [calls EXCEPT ![r] = t]
  BY <1>1 DEF SetCall
<1> HIDE DEF c
<1>5. c \in Call
  BY <1>2, <1>3, EndedIs
<1>6. t \in Seq(Call) /\ DOMAIN t = DOMAIN calls[r] /\ t[k] = c
      /\ \A i \in DOMAIN calls[r] \ {k} : t[i] = calls[r][i]
  BY <1>2, <1>5
<1> HIDE DEF t
<1>7. /\ calls' \in [Runs -> Seq(Call)] /\ calls'[r] = t
      /\ \A q \in Runs \ {r} : calls'[q] = calls[q]
  BY <1>4, <1>6 DEF FanInv, Shapes
<1>8. QED
  BY <1>2, <1>3, <1>6, <1>7

(* When calls end, in place, nothing new begins.                           *)
LEMMA IdsWhenEnded ==
  ASSUME FanInv,
         \A r \in LlmRuns : DOMAIN calls'[r] = DOMAIN calls[r],
         \A r \in LlmRuns : \A k \in DOMAIN calls[r] :
           calls'[r][k] = calls[r][k] \/ Ended(calls[r][k], calls'[r][k])
  PROVE  IdsOfTheirOwn'
<1>1. ASSUME NEW r \in LlmRuns, NEW k \in DOMAIN calls'[r], Begun(calls'[r][k])
      PROVE  /\ k \in DOMAIN calls[r] /\ Begun(calls[r][k])
             /\ calls[r][k].provider = calls'[r][k].provider /\ calls[r][k].id = calls'[r][k].id
  <2>1. k \in DOMAIN calls[r] /\ calls[r][k] \in Call
    BY RunsAre DEF FanInv, Shapes
  <2>2. CASE calls'[r][k] = calls[r][k]
    BY <1>1, <2>1, <2>2
  <2>3. CASE Ended(calls[r][k], calls'[r][k])
    BY <2>1, <2>3, EndedIs
  <2>4. QED
    BY <2>1, <2>2, <2>3
<1>2. QED
  BY <1>1, IdsKept DEF FanInv

(* A call that ends keeps the batches in order and the ids apart.          *)
LEMMA EndKeeps ==
  ASSUME NEW r \in Runs, NEW k, FanInv, Ends(r, k)
  PROVE  FanInv'
<1>1. /\ calls' \in [Runs -> Seq(Call)] /\ calls[r][k] \in Call
      /\ Ended(calls[r][k], calls'[r][k]) /\ DOMAIN calls'[r] = DOMAIN calls[r]
      /\ \A i \in DOMAIN calls[r] \ {k} : calls'[r][i] = calls[r][i]
      /\ \A q \in Runs \ {r} : calls'[q] = calls[q]
  BY EndCalls
<1>2. /\ UNCHANGED <<aborted, phase, deadline, wakeAt, report, now>>
      /\ entries' = [q \in Providers |-> entries'[q]]
      /\ nextId' \in [Providers -> 1..(MaxId + 1)]
      /\ \A p \in Providers : nextId'[p] \in Nat /\ nextId'[p] >= nextId[p]
  BY DEF Ends
<1>3. Shapes'
  BY <1>1, <1>2 DEF FanInv, Shapes
<1>4. ASSUME NEW q \in Runs
      PROVE  /\ calls'[q] \in Seq(Call) /\ DOMAIN calls'[q] = DOMAIN calls[q]
             /\ \A i \in DOMAIN calls[q] :
                  calls'[q][i] = calls[q][i] \/ Ended(calls[q][i], calls'[q][i])
  BY <1>1
<1>5. ASSUME NEW q \in Runs PROVE RunOK(q)'
  <2>1. \A i \in DOMAIN calls[q] : calls[q][i].state = "sent" => q[1] \notin aborted'
    BY <1>2 DEF FanInv, RunOK, CallOK
  <2>2. phase'[q] = phase[q] /\ (phase[q] = "sleeping" => q[1] \notin aborted')
    BY <1>2 DEF FanInv, RunOK
  <2>3. Shapes /\ RunOK(q)
    BY DEF FanInv
  <2>4. QED
    BY <1>2, <1>4, <2>1, <2>2, <2>3, RunEnds
<1>6. IdsOfTheirOwn'
  BY <1>4, RunsAre, IdsWhenEnded
<1>7. QED
  BY <1>3, <1>5, <1>6 DEF FanInv

(* A failed call ends, and the keys keep what they had.                    *)
LEMMA FailIs ==
  ASSUME NEW r \in Runs, NEW k \in DOMAIN calls[r], FanInv, CallFails(r, k)
  PROVE  Ends(r, k) /\ UNCHANGED budgetVars
<1>1. UNCHANGED <<aborted, phase, deadline, wakeAt, report, now>> /\ UNCHANGED budgetVars
  BY DEF CallFails, budgetVars
<1>2. \A p \in Providers : nextId'[p] >= nextId[p]
  BY <1>1 DEF FanInv, Shapes, budgetVars
<1>3. QED
  BY <1>1, <1>2 DEF CallFails, Ends, FanInv, Shapes, budgetVars

(* What an answer does to a key: it releases or settles the reservation on *)
(* the key that gave it, or releases it there and charges the other key.   *)
Settles(c, p, used) ==
  /\ nextId'[p] = nextId[p]
  /\ \/ entries'[p] = ReleaseOn(p, c.id)
     \/ used \in Usages /\ entries'[p] = SettleOn(p, c.id, used)

Charges(p, used) ==
  /\ used \in Usages /\ nextId[p] <= MaxId
  /\ entries'[p] = ChargeOn(p, used) /\ nextId'[p] = nextId[p] + 1

Answers(c, used) ==
  IF c.provider = None THEN UNCHANGED budgetVars
  ELSE /\ Settles(c, c.provider, used)
       /\ \A p \in Providers \ {c.provider} :
            \/ entries'[p] = entries[p] /\ nextId'[p] = nextId[p]
            \/ Charges(p, used)

(* CallAnswers, taken apart.                                               *)
LEMMA AnswerIs ==
  ASSUME NEW r \in Runs, NEW k \in DOMAIN calls[r], FanInv, CallAnswers(r, k)
  PROVE  Ends(r, k) /\ \E used \in Nat : Answers(calls[r][k], used)
<1> DEFINE c == calls[r][k]
<1>1. /\ UNCHANGED <<aborted, phase, deadline, wakeAt, report, now>>
      /\ c.state = "sent" /\ SetCall(r, k, "ok") /\ c \in Call
  BY DEF CallAnswers, FanInv, Shapes
<1>2. entries = [q \in Providers |-> entries[q]] /\ nextId \in [Providers -> 1..(MaxId + 1)]
  BY DEF FanInv, Shapes
<1>3. CASE c.provider = None
  <2>1. UNCHANGED budgetVars
    BY <1>3 DEF CallAnswers
  <2>2. entries' = [q \in Providers |-> entries'[q]] /\ nextId' \in [Providers -> 1..(MaxId + 1)]
        /\ \A p \in Providers : nextId'[p] >= nextId[p]
    BY <1>2, <2>1 DEF budgetVars
  <2>3. Answers(c, 0)
    BY <1>3, <2>1 DEF Answers
  <2>4. QED
    BY <1>1, <2>2, <2>3 DEF Ends
<1>4. CASE c.provider # None
  <2>1. c.provider \in Providers
    BY <1>1, <1>4 DEF Call
  <2>2. PICK by \in AnsweredBy(c), used \in Usages : SettleCall(c, by, used)
    BY <1>4 DEF CallAnswers
  <2>3. used \in Nat
    BY FanOutAssumption
  <2> HIDE DEF c
  <2> DEFINE Rest(p) == \/ entries'[p] = entries[p] /\ nextId'[p] = nextId[p]
                        \/ Charges(p, used)
  <2>4. entries' = [q \in Providers |-> entries'[q]] /\ nextId' = [q \in Providers |-> nextId'[q]]
    BY <1>2, <2>2 DEF SettleCall
  <2>5. Settles(c, c.provider, used) /\ \A p \in Providers \ {c.provider} : Rest(p)
    <3>1. CASE by = None \/ used = 0
      <4>1. entries' = [entries EXCEPT ![c.provider] = ReleaseOn(c.provider, c.id)] /\ nextId' = nextId
        BY <2>2, <3>1 DEF SettleCall
      <4>2. QED
        BY <1>2, <2>1, <4>1 DEF Settles
    <3>2. CASE ~(by = None \/ used = 0) /\ by = c.provider
      <4>1. entries' = [entries EXCEPT ![by] = SettleOn(by, c.id, used)] /\ nextId' = nextId
        BY <2>2, <3>2 DEF SettleCall
      <4>2. QED
        BY <1>2, <2>1, <3>2, <4>1 DEF Settles
    <3>3. CASE ~(by = None \/ used = 0) /\ by # c.provider
      <4>1. /\ by \in Providers => nextId[by] <= MaxId
            /\ entries' = [p \in Providers |->
                             IF p = c.provider THEN ReleaseOn(p, c.id)
                             ELSE IF p = by THEN ChargeOn(p, used) ELSE entries[p]]
            /\ nextId' = [p \in Providers |-> IF p = by THEN nextId[p] + 1 ELSE nextId[p]]
        BY <2>2, <3>3 DEF SettleCall
      <4>2. Settles(c, c.provider, used)
        BY <2>1, <3>3, <4>1 DEF Settles
      <4>3. ASSUME NEW p \in Providers \ {c.provider} PROVE Rest(p)
        BY <2>2, <4>1 DEF Charges
      <4>4. QED
        BY <4>2, <4>3
    <3>4. QED
      BY <3>1, <3>2, <3>3
  <2>6. \A p \in Providers : nextId'[p] \in 1..(MaxId + 1) /\ nextId'[p] >= nextId[p]
    <3>1. ASSUME NEW p \in Providers
          PROVE  \/ nextId'[p] = nextId[p]
                 \/ nextId[p] <= MaxId /\ nextId'[p] = nextId[p] + 1
      BY <2>1, <2>5 DEF Settles, Charges
    <3>2. ASSUME NEW p \in Providers PROVE nextId[p] \in 1..(MaxId + 1)
      BY <1>2
    <3>3. QED
      BY <3>1, <3>2, ConstantsAre
  <2>7. nextId' \in [Providers -> 1..(MaxId + 1)]
    BY <2>4, <2>6
  <2>8. Answers(c, used)
    BY <1>4, <2>5 DEF Answers
  <2>9. QED
    BY <1>1, <2>3, <2>4, <2>6, <2>7, <2>8 DEF Ends, c
<1>5. QED
  BY <1>3, <1>4
---------------------------------------------------------------------------------
(* The keys a run asked in vain are pruned.                                *)
Refused(tokens) ==
  /\ Room(tokens) = {} /\ nextId' = nextId
  /\ entries' = [p \in Providers |->
                   IF p \in Candidates(tokens) THEN Prune(entries[p], now) ELSE entries[p]]

(* A run that waits keeps its place.                                       *)
LEMMA WaitKeeps ==
  ASSUME NEW r \in Runs, FanInv, WaitForQuota(r)
  PROVE  FanInv' /\ Refused(calls[r][Next1(r)].tokens)
<1>1. /\ phase[r] = "reserving" /\ r[1] \notin aborted /\ phase' = [phase EXCEPT ![r] = "sleeping"]
      /\ UNCHANGED <<aborted, deadline, calls, report, nextId, now>>
      /\ entries' = Pruned(Candidates(calls[r][Next1(r)].tokens))
      /\ Room(calls[r][Next1(r)].tokens) = {}
      /\ \E time : wakeAt' = [wakeAt EXCEPT ![r] = time]
  BY DEF WaitForQuota, Trying
<1>2. Refused(calls[r][Next1(r)].tokens)
  BY <1>1 DEF Refused, Pruned
<1>3. Shapes'
  <2>1. phase' \in [Runs -> Phase] /\ entries' = [p \in Providers |-> entries'[p]]
    BY <1>1 DEF FanInv, Shapes, Phase, Pruned
  <2>2. wakeAt' = [q \in Runs |-> wakeAt'[q]] /\ DOMAIN wakeAt' = Runs
    BY <1>1 DEF FanInv, Shapes
  <2>3. QED
    BY <1>1, <2>1, <2>2 DEF FanInv, Shapes
<1>4. \A p \in Providers : nextId'[p] \in Nat /\ nextId'[p] >= nextId[p]
  BY <1>1 DEF FanInv, Shapes
<1>5. ASSUME NEW q \in Runs \ {r} PROVE RunOK(q)'
  <2>1. phase'[q] = phase[q] /\ calls'[q] = calls[q] /\ aborted' = aborted
    BY <1>1 DEF FanInv, Shapes
  <2>2. QED
    BY <1>4, <2>1, RunKept DEF FanInv
<1>6. RunOK(r)'
  <2>1. phase'[r] = "sleeping"
    BY <1>1 DEF FanInv, Shapes
  <2>2. \A k \in Nat : At(r, k) => At(r, k)'
    BY <1>1 DEF At, Begun
  <2>3. RunOK(r) /\ calls' = calls /\ aborted' = aborted /\ nextId' = nextId
    BY <1>1 DEF FanInv
  <2>4. \A k \in DOMAIN calls[r] : CallOK(r, calls[r][k])'
    BY <2>3 DEF RunOK, CallOK
  <2>5. QED
    BY <1>1, <2>1, <2>2, <2>3, <2>4 DEF RunOK
<1>7. IdsOfTheirOwn'
  BY <1>1, IdsKept DEF FanInv
<1>8. QED
  BY <1>2, <1>3, <1>5, <1>6, <1>7 DEF FanInv

(* A run that wakes up is at the same batch; one that is aborted stops.    *)
LEMMA TurnKeeps ==
  ASSUME NEW r \in Runs, FanInv, Wake(r) \/ ThrowIfAborted(r)
  PROVE  FanInv' /\ UNCHANGED <<aborted, deadline, wakeAt, calls, report, budgetVars, now>>
<1>1. /\ phase' \in [Runs -> Phase] /\ \A q \in Runs \ {r} : phase'[q] = phase[q]
      /\ \/ phase[r] = "sleeping" /\ phase'[r] = "reserving"
         \/ phase[r] = "reserving" /\ phase'[r] = "rejected"
  <2>1. phase \in [Runs -> Phase]
    BY DEF FanInv, Shapes
  <2>2. CASE Wake(r)
    BY <2>1, <2>2 DEF Wake, Phase
  <2>3. CASE ThrowIfAborted(r)
    BY <2>1, <2>3 DEF ThrowIfAborted, Phase
  <2>4. QED
    BY <2>2, <2>3
<1>2. UNCHANGED <<aborted, deadline, wakeAt, calls, report, budgetVars, now>>
  BY DEF Wake, ThrowIfAborted
<1>3. Shapes'
  BY <1>1, <1>2 DEF FanInv, Shapes, budgetVars
<1>4. \A p \in Providers : nextId'[p] \in Nat /\ nextId'[p] >= nextId[p]
  BY <1>2 DEF FanInv, Shapes, budgetVars
<1>5. ASSUME NEW q \in Runs \ {r} PROVE RunOK(q)'
  <2>1. phase'[q] = phase[q] /\ calls'[q] = calls[q] /\ aborted' = aborted
    BY <1>1, <1>2 DEF FanInv, Shapes
  <2>2. QED
    BY <1>4, <2>1, RunKept DEF FanInv
<1>6. RunOK(r)'
  <2>1. \A k \in Nat : At(r, k) => At(r, k)'
    BY <1>2 DEF At, Begun
  <2>2. RunOK(r) /\ calls' = calls /\ aborted' = aborted /\ nextId' = nextId
    BY <1>2 DEF FanInv, budgetVars
  <2>3. \A k \in DOMAIN calls[r] : CallOK(r, calls[r][k])'
    BY <2>2 DEF RunOK, CallOK
  <2>4. QED
    BY <1>1, <2>1, <2>2, <2>3 DEF RunOK
<1>7. IdsOfTheirOwn'
  BY <1>2, IdsKept DEF FanInv
<1>8. QED
  BY <1>2, <1>3, <1>5, <1>6, <1>7 DEF FanInv

(* A batch that is dropped.                                                *)
LEMMA DroppedIs ==
  ASSUME NEW c \in Call, NEW d, c.state = "planned", d = [c EXCEPT !.state = "over_budget"]
  PROVE  /\ d \in Call /\ ~Begun(d) /\ d.state = "over_budget" /\ d.tokens = c.tokens
         /\ d.provider = c.provider /\ d.at = c.at /\ d.until = c.until
BY DEF Call, CallState, Begun

(* A run that gives up drops the batches it has not sent.                  *)
LEMMA GiveUpIs ==
  ASSUME NEW r \in Runs, FanInv, GiveUp(r)
  PROVE  /\ calls' \in [Runs -> Seq(Call)] /\ DOMAIN calls'[r] = DOMAIN calls[r]
         /\ \A q \in Runs \ {r} : calls'[q] = calls[q]
         /\ \A k \in DOMAIN calls[r] :
              IF calls[r][k].state = "planned"
              THEN calls'[r][k] = [calls[r][k] EXCEPT !.state = "over_budget"]
              ELSE calls'[r][k] = calls[r][k]
         /\ phase[r] = "reserving" /\ phase' = [phase EXCEPT ![r] = "collecting"]
         /\ Refused(calls[r][Next1(r)].tokens)
         /\ UNCHANGED <<aborted, deadline, wakeAt, report, nextId, now>>
<1> DEFINE Kept(c) == IF c.state = "planned" THEN [c EXCEPT !.state = "over_budget"] ELSE c
           s == [k \in DOMAIN calls[r] |-> Kept(calls[r][k])]
<1>1. /\ calls' = [calls EXCEPT ![r] = s]
      /\ phase[r] = "reserving" /\ phase' = [phase EXCEPT ![r] = "collecting"]
      /\ UNCHANGED <<aborted, deadline, wakeAt, report, nextId, now>>
      /\ entries' = Pruned(Candidates(calls[r][Next1(r)].tokens))
      /\ Room(calls[r][Next1(r)].tokens) = {}
  BY DEF GiveUp, Trying
<1>2. Refused(calls[r][Next1(r)].tokens)
  BY <1>1 DEF Refused, Pruned
<1>3. \A k \in DOMAIN calls[r] : calls[r][k] \in Call /\ Kept(calls[r][k]) \in Call
  BY DroppedIs DEF FanInv, Shapes
<1> HIDE DEF Kept
<1>4. s \in Seq(Call) /\ DOMAIN s = DOMAIN calls[r] /\ \A k \in DOMAIN calls[r] : s[k] = Kept(calls[r][k])
  BY <1>3, CallsAre DEF FanInv, Shapes
<1> HIDE DEF s
<1>5. /\ calls' \in [Runs -> Seq(Call)] /\ calls'[r] = s
      /\ \A q \in Runs \ {r} : calls'[q] = calls[q]
  BY <1>1, <1>4 DEF FanInv, Shapes
<1>6. QED
  BY <1>1, <1>2, <1>4, <1>5 DEF Kept

(* Giving up keeps the batches in order and the ids apart.                 *)
LEMMA GiveUpKeeps ==
  ASSUME NEW r \in Runs, FanInv, GiveUp(r)
  PROVE  FanInv'
<1>1. /\ calls' \in [Runs -> Seq(Call)] /\ DOMAIN calls'[r] = DOMAIN calls[r]
      /\ \A q \in Runs \ {r} : calls'[q] = calls[q]
      /\ \A k \in DOMAIN calls[r] :
           IF calls[r][k].state = "planned"
           THEN calls'[r][k] = [calls[r][k] EXCEPT !.state = "over_budget"]
           ELSE calls'[r][k] = calls[r][k]
      /\ phase[r] = "reserving" /\ phase' = [phase EXCEPT ![r] = "collecting"]
      /\ Refused(calls[r][Next1(r)].tokens)
      /\ UNCHANGED <<aborted, deadline, wakeAt, report, nextId, now>>
  BY GiveUpIs
<1>2. Shapes'
  <2>1. phase' \in [Runs -> Phase] /\ entries' = [p \in Providers |-> entries'[p]]
    BY <1>1 DEF FanInv, Shapes, Phase, Refused
  <2>2. QED
    BY <1>1, <2>1 DEF FanInv, Shapes
<1>3. \A p \in Providers : nextId'[p] \in Nat /\ nextId'[p] >= nextId[p]
  BY <1>1 DEF FanInv, Shapes
<1>4. ASSUME NEW q \in Runs \ {r} PROVE RunOK(q)'
  <2>1. phase'[q] = phase[q] /\ calls'[q] = calls[q] /\ aborted' = aborted
    BY <1>1 DEF FanInv, Shapes
  <2>2. QED
    BY <1>3, <2>1, RunKept DEF FanInv
<1>5. ASSUME NEW k \in DOMAIN calls[r]
      PROVE  /\ CallOK(r, calls[r][k])' /\ calls'[r][k].state # "planned"
             /\ Begun(calls'[r][k]) => calls'[r][k] = calls[r][k]
  <2>1. calls[r][k] \in Call /\ CallOK(r, calls[r][k])
    BY DEF FanInv, Shapes, RunOK
  <2>2. CASE calls[r][k].state = "planned"
    <3>1. calls'[r][k] = [calls[r][k] EXCEPT !.state = "over_budget"]
      BY <1>1, <2>2
    <3>2. QED
      BY <1>1, <2>1, <2>2, <3>1, DroppedIs DEF CallOK, Begun
  <2>3. CASE calls[r][k].state # "planned"
    BY <1>1, <2>1, <2>3 DEF CallOK, Begun
  <2>4. QED
    BY <2>2, <2>3
<1>6. RunOK(r)'
  <2>1. phase'[r] = "collecting"
    BY <1>1 DEF FanInv, Shapes
  <2>2. QED
    BY <1>1, <1>5, <2>1 DEF RunOK
<1>7. IdsOfTheirOwn'
  <2>1. ASSUME NEW q \in LlmRuns, NEW k \in DOMAIN calls'[q], Begun(calls'[q][k])
        PROVE  k \in DOMAIN calls[q] /\ calls'[q][k] = calls[q][k]
    BY <1>1, <1>5, <2>1, RunsAre
  <2>2. QED
    BY <2>1, IdsKept DEF FanInv
<1>8. QED
  BY <1>2, <1>4, <1>6, <1>7 DEF FanInv
---------------------------------------------------------------------------------
(* The calls in flight of a cancelled review fail, and its sleeps end.     *)
LEMMA AbortIs ==
  ASSUME NEW v \in Reviews, FanInv, Abort(v)
  PROVE  /\ calls' \in [Runs -> Seq(Call)]
         /\ \A q \in Runs : DOMAIN calls'[q] = DOMAIN calls[q]
         /\ \A q \in Runs : \A k \in DOMAIN calls[q] :
              IF q[1] = v /\ calls[q][k].state = "sent"
              THEN Ended(calls[q][k], calls'[q][k]) /\ calls'[q][k].state = "failed"
              ELSE calls'[q][k] = calls[q][k]
         /\ aborted' = aborted \cup {v} /\ report[v] = "none"
         /\ phase' = [q \in Runs |-> IF q[1] = v /\ phase[q] = "sleeping" THEN "rejected" ELSE phase[q]]
         /\ UNCHANGED <<deadline, wakeAt, report, budgetVars, now>>
<1> DEFINE Cut(q, c) == IF q[1] = v /\ c.state = "sent" THEN [c EXCEPT !.state = "failed"] ELSE c
           s(q) == [k \in DOMAIN calls[q] |-> Cut(q, calls[q][k])]
<1>1. calls' = [q \in Runs |-> s(q)]
  BY DEF Abort
<1>2. ASSUME NEW q \in Runs, NEW k \in DOMAIN calls[q]
      PROVE  /\ Cut(q, calls[q][k]) \in Call
             /\ IF q[1] = v /\ calls[q][k].state = "sent"
                THEN Ended(calls[q][k], Cut(q, calls[q][k])) /\ Cut(q, calls[q][k]).state = "failed"
                ELSE Cut(q, calls[q][k]) = calls[q][k]
  <2>1. calls[q][k] \in Call
    BY DEF FanInv, Shapes
  <2>2. CASE q[1] = v /\ calls[q][k].state = "sent"
    <3>1. Ended(calls[q][k], Cut(q, calls[q][k])) /\ Cut(q, calls[q][k]).state = "failed"
      BY <2>1, <2>2 DEF Ended, Call
    <3> HIDE DEF Cut
    <3>2. QED
      BY <2>1, <2>2, <3>1, EndedIs
  <2>3. CASE ~(q[1] = v /\ calls[q][k].state = "sent")
    BY <2>1, <2>3
  <2>4. QED
    BY <2>2, <2>3
<1> HIDE DEF Cut
<1>3. ASSUME NEW q \in Runs
      PROVE  /\ s(q) \in Seq(Call) /\ DOMAIN s(q) = DOMAIN calls[q]
             /\ \A k \in DOMAIN calls[q] : s(q)[k] = Cut(q, calls[q][k])
  <2> DEFINE t == s(q)
  <2>1. calls[q] \in Seq(Call) /\ t = [k \in DOMAIN calls[q] |-> t[k]]
        /\ \A k \in DOMAIN calls[q] : t[k] = Cut(q, calls[q][k]) /\ t[k] \in Call
    BY <1>2 DEF FanInv, Shapes
  <2> HIDE DEF t
  <2>2. t \in Seq(Call) /\ DOMAIN t = DOMAIN calls[q]
    BY <2>1, CallsAre
  <2>3. QED
    BY <2>1, <2>2 DEF t
<1> HIDE DEF s
<1>4. /\ calls' \in [Runs -> Seq(Call)] /\ \A q \in Runs : calls'[q] = s(q)
  BY <1>1, <1>3
<1>5. /\ aborted' = aborted \cup {v} /\ report[v] = "none"
      /\ phase' = [q \in Runs |-> IF q[1] = v /\ phase[q] = "sleeping" THEN "rejected" ELSE phase[q]]
      /\ UNCHANGED <<deadline, wakeAt, report, budgetVars, now>>
  BY DEF Abort
<1>6. QED
  BY <1>2, <1>3, <1>4, <1>5

(* A cancelled review has no call in flight and no run asleep.             *)
LEMMA AbortKeeps ==
  ASSUME NEW v \in Reviews, FanInv, Abort(v)
  PROVE  FanInv'
<1>1. /\ calls' \in [Runs -> Seq(Call)]
      /\ \A q \in Runs : DOMAIN calls'[q] = DOMAIN calls[q]
      /\ \A q \in Runs : \A k \in DOMAIN calls[q] :
           IF q[1] = v /\ calls[q][k].state = "sent"
           THEN Ended(calls[q][k], calls'[q][k]) /\ calls'[q][k].state = "failed"
           ELSE calls'[q][k] = calls[q][k]
      /\ aborted' = aborted \cup {v} /\ report[v] = "none"
      /\ phase' = [q \in Runs |-> IF q[1] = v /\ phase[q] = "sleeping" THEN "rejected" ELSE phase[q]]
      /\ UNCHANGED <<deadline, wakeAt, report, budgetVars, now>>
  BY AbortIs
<1>2. Shapes'
  <2>1. phase' \in [Runs -> Phase] /\ aborted' \in SUBSET Reviews
    BY <1>1 DEF FanInv, Shapes, Phase
  <2>2. QED
    BY <1>1, <2>1 DEF FanInv, Shapes, budgetVars
<1>3. \A p \in Providers : nextId'[p] \in Nat /\ nextId'[p] >= nextId[p]
  BY <1>1 DEF FanInv, Shapes, budgetVars
<1>4. ASSUME NEW q \in Runs PROVE RunOK(q)'
  <2>1. Shapes /\ RunOK(q) /\ calls'[q] \in Seq(Call) /\ DOMAIN calls'[q] = DOMAIN calls[q]
    BY <1>1 DEF FanInv
  <2>2. ASSUME NEW k \in DOMAIN calls[q]
        PROVE  \/ calls'[q][k] = calls[q][k] /\ (calls[q][k].state = "sent" => q[1] \notin aborted')
               \/ Ended(calls[q][k], calls'[q][k])
    <3>1. calls[q][k].state = "sent" => q[1] \notin aborted
      BY <2>1 DEF RunOK, CallOK
    <3>2. QED
      BY <1>1, <3>1
  <2>3. \/ phase'[q] = phase[q] /\ (phase[q] = "sleeping" => q[1] \notin aborted')
        \/ phase[q] = "sleeping" /\ phase'[q] = "rejected"
    BY <1>1, <2>1 DEF RunOK
  <2>4. QED
    BY <1>3, <2>1, <2>2, <2>3, RunEnds
<1>5. IdsOfTheirOwn'
  BY <1>1, RunsAre, IdsWhenEnded
<1>6. QED
  BY <1>2, <1>4, <1>5 DEF FanInv

(* A report, and the passing of time, change no call.                      *)
LEMMA QuietKeeps ==
  ASSUME FanInv, UNCHANGED <<aborted, runVars, budgetVars>>,
         \/ UNCHANGED <<report, now>>
         \/ Tick
         \/ \E v \in Reviews : ReviewStep(v)
  PROVE  FanInv'
<1>1. UNCHANGED <<aborted, phase, deadline, wakeAt, calls, entries, nextId>>
  BY DEF runVars, budgetVars
<1>2. report' \in [Reviews -> {"none", "completed", "partial", "failed", "rejected"}]
  BY DEF ReviewStep, Aggregate, InvokeRejects, DeriveStatus, Tick, FanInv, Shapes
<1>3. now' \in 0..MaxNow
  BY ConstantsAre DEF ReviewStep, Aggregate, InvokeRejects, Tick, FanInv, Shapes
<1>4. Shapes'
  BY <1>1, <1>2, <1>3 DEF FanInv, Shapes
<1>5. \A p \in Providers : nextId'[p] \in Nat /\ nextId'[p] >= nextId[p]
  BY <1>1 DEF FanInv, Shapes
<1>6. \A q \in Runs : RunOK(q)'
  BY <1>1, <1>5, RunKept DEF FanInv
<1>7. IdsOfTheirOwn'
  BY <1>1, IdsKept DEF FanInv
<1>8. QED
  BY <1>4, <1>6, <1>7 DEF FanInv
---------------------------------------------------------------------------------
(* Every batch of a plan, with its overhead, is an amount of the budgets.  *)
LEMMA AmountsAre ==
  /\ Amounts \subseteq Nat /\ Usages \subseteq Amounts
  /\ \A files \in FileChoices : \A b \in DOMAIN PlanLlmReview(files).batches :
       /\ PlanLlmReview(files).batches[b].tokens \in Nat
       /\ PlanLlmReview(files).batches[b].tokens + OverheadTokens \in Amounts
<1>1. ASSUME NEW files \in FileChoices, NEW b \in DOMAIN PlanLlmReview(files).batches
      PROVE  /\ PlanLlmReview(files).batches[b].tokens \in Nat
             /\ PlanLlmReview(files).batches[b].tokens + OverheadTokens \in Amounts
  <2> DEFINE batches == PlanLlmReview(files).batches
  <2>1. batches \in Seq([files : SUBSET Nat, tokens : Nat])
    BY FanOutAssumption
  <2> HIDE DEF batches
  <2>2. b \in DOMAIN batches
    BY DEF batches
  <2>3. batches[b].tokens \in Nat /\ batches[b] \in Range(batches)
    <3>1. batches[b] \in [files : SUBSET Nat, tokens : Nat]
      BY <2>1, <2>2, LenProperties, ElementOfSeq
    <3>2. batches[b] \in Range(batches)
      BY <2>2 DEF Range
    <3>3. QED
      BY <3>1, <3>2
  <2>4. Cost(batches[b].tokens).tokens = batches[b].tokens + OverheadTokens
    BY DEF Cost
  <2>5. batches[b].tokens + OverheadTokens
          \in {Cost(batch.tokens).tokens : batch \in Range(batches)}
    BY <2>3, <2>4
  <2>6. QED
    BY <2>3, <2>5 DEF batches, Amounts
<1>2. Amounts \subseteq Nat
  <2>1. ASSUME NEW files \in FileChoices, NEW batch \in Range(PlanLlmReview(files).batches)
        PROVE  Cost(batch.tokens).tokens \in Nat
    <3>1. PICK b \in DOMAIN PlanLlmReview(files).batches : batch = PlanLlmReview(files).batches[b]
      BY DEF Range
    <3>2. batch.tokens \in Nat
      BY <1>1, <3>1
    <3>3. QED
      BY <3>2, ConstantsAre DEF Cost
  <2>2. Usages \subseteq Nat
    BY FanOutAssumption
  <2>3. ASSUME NEW n \in Amounts, n \notin Usages PROVE n \in Nat
    <3>1. PICK files \in FileChoices :
            n \in {Cost(batch.tokens).tokens : batch \in Range(PlanLlmReview(files).batches)}
      BY <2>3 DEF Amounts
    <3>2. PICK batch \in Range(PlanLlmReview(files).batches) : n = Cost(batch.tokens).tokens
      BY <3>1
    <3>3. QED
      BY <2>1, <3>2
  <2>4. QED
    BY <2>2, <2>3
<1>3. QED
  BY <1>1, <1>2 DEF Amounts

(* A review starts: its LLM runs have a batch at each place of the plan,   *)
(* the others one call with every file, or none without a client.          *)
Starts(v, batches) ==
  /\ now <= StartBy /\ \A r \in Runs : r[1] = v => phase[r] = "idle"
  /\ batches \in Seq([files : SUBSET Nat, tokens : Nat])
  /\ \A b \in DOMAIN batches :
       batches[b].tokens \in Nat /\ batches[b].tokens + OverheadTokens \in Amounts
  /\ calls' = [r \in Runs |->
       IF r[1] = v /\ r \in LlmRuns THEN [b \in DOMAIN batches |-> Planned(batches[b].tokens)]
       ELSE IF r[1] = v /\ r[2] \in OnceAgents THEN <<OnceCall(v)>> ELSE calls[r]]
  /\ phase' = [r \in Runs |->
       IF r[1] # v THEN phase[r]
       ELSE IF r \in LlmRuns /\ batches # <<>> THEN "reserving" ELSE "collecting"]
  /\ deadline' = [r \in Runs |->
       IF r[1] # v THEN deadline[r]
       ELSE IF r \in LlmRuns THEN now + Max({AgentTimeoutMs, LlmTimeoutMs}) ELSE now + AgentTimeoutMs]
  /\ UNCHANGED <<aborted, wakeAt, report, budgetVars, now>>

(* FanOut, taken apart.                                                    *)
LEMMA FanOutIs ==
  ASSUME NEW v \in Reviews, FanInv, FanOut(v)
  PROVE  \E batches : Starts(v, batches)
<1>1. PICK files \in FileChoices :
        LET batches == PlanLlmReview(files).batches
            llm(r)  == r[1] = v /\ r[2] \in LlmAgents
            once(r) == r[1] = v /\ r[2] \in OnceAgents
        IN  /\ calls' = [r \in Runs |->
                           IF llm(r) THEN [b \in DOMAIN batches |-> Planned(batches[b].tokens)]
                           ELSE IF once(r) THEN <<OnceCall(v)>> ELSE calls[r]]
            /\ phase' = [r \in Runs |->
                           IF r[1] # v THEN phase[r]
                           ELSE IF llm(r) /\ batches # <<>> THEN "reserving" ELSE "collecting"]
  BY DEF FanOut
<1> DEFINE batches == PlanLlmReview(files).batches
<1>2. batches \in Seq([files : SUBSET Nat, tokens : Nat])
  BY FanOutAssumption
<1>3. \A b \in DOMAIN batches :
        batches[b].tokens \in Nat /\ batches[b].tokens + OverheadTokens \in Amounts
  BY AmountsAre
<1>4. now <= StartBy /\ \A r \in Runs : r[1] = v => phase[r] = "idle"
  <2>1. now <= StartBy /\ \A a \in Agents : phase[<<v, a>>] = "idle"
    BY DEF FanOut
  <2>2. QED
    BY <2>1, RunsAre
<1>5. /\ calls' = [r \in Runs |->
           IF r[1] = v /\ r \in LlmRuns THEN [b \in DOMAIN batches |-> Planned(batches[b].tokens)]
           ELSE IF r[1] = v /\ r[2] \in OnceAgents THEN <<OnceCall(v)>> ELSE calls[r]]
      /\ phase' = [r \in Runs |->
           IF r[1] # v THEN phase[r]
           ELSE IF r \in LlmRuns /\ batches # <<>> THEN "reserving" ELSE "collecting"]
  <2> HIDE DEF batches
  <2>1. QED
    BY <1>1, RunsAre DEF batches
<1>6. /\ deadline' = [r \in Runs |->
           IF r[1] # v THEN deadline[r]
           ELSE IF r \in LlmRuns THEN now + Max({AgentTimeoutMs, LlmTimeoutMs})
                ELSE now + AgentTimeoutMs]
      /\ UNCHANGED <<aborted, wakeAt, report, budgetVars, now>>
  BY RunsAre DEF FanOut
<1> HIDE DEF batches
<1>7. Starts(v, batches)
  BY <1>2, <1>3, <1>4, <1>5, <1>6 DEF Starts
<1>8. QED
  BY <1>7

(* Calls that are planned, and the one call of an agent that plans none.   *)
LEMMA NewCallsAre ==
  ASSUME FanInv, NEW v
  PROVE  /\ \A t \in Nat : /\ Planned(t) \in Call /\ Planned(t).state = "planned"
                           /\ Planned(t).tokens = t /\ Planned(t).provider = None
                           /\ Planned(t).at = 0 /\ Planned(t).until = 0
         /\ OnceCall(v) \in Call /\ OnceCall(v).provider = None
         /\ OnceCall(v).state = IF v \in aborted THEN "failed" ELSE "sent"
         /\ OnceCall(v).at = now /\ OnceCall(v).until = now + AgentTimeoutMs
BY ConstantsAre DEF FanInv, Shapes, Planned, OnceCall, Call, CallState

(* What each run has once a review has started.                            *)
LEMMA StartCalls ==
  ASSUME NEW v \in Reviews, FanInv, NEW batches, Starts(v, batches), NEW r \in Runs
  PROVE  /\ r[1] # v => calls'[r] = calls[r] /\ phase'[r] = phase[r] /\ deadline'[r] = deadline[r]
         /\ r[1] = v => calls[r] = <<>> /\ phase[r] = "idle"
         /\ r[1] = v /\ r \in LlmRuns =>
              /\ DOMAIN calls'[r] = 1..Len(batches)
              /\ \A b \in DOMAIN calls'[r] : calls'[r][b] = Planned(batches[b].tokens)
              /\ batches # <<>> => phase'[r] = "reserving" /\ 1 \in DOMAIN calls'[r]
              /\ batches = <<>> => phase'[r] = "collecting" /\ DOMAIN calls'[r] = {}
              /\ deadline'[r] = now + Max({AgentTimeoutMs, LlmTimeoutMs})
         /\ r[1] = v /\ r \notin LlmRuns =>
              /\ calls'[r] = <<OnceCall(v)>> \/ calls'[r] = <<>>
              /\ phase'[r] = "collecting" /\ deadline'[r] = now + AgentTimeoutMs
         /\ calls'[r] \in Seq(Call)
<1>1. r[1] = v => calls[r] = <<>> /\ phase[r] = "idle"
  BY DEF Starts, FanInv, RunOK
<1>2. r[1] # v => calls'[r] = calls[r] /\ phase'[r] = phase[r] /\ deadline'[r] = deadline[r]
  BY DEF Starts
<1>3. ASSUME r[1] = v, r \in LlmRuns
      PROVE  /\ DOMAIN calls'[r] = 1..Len(batches) /\ calls'[r] \in Seq(Call)
             /\ \A b \in DOMAIN calls'[r] : calls'[r][b] = Planned(batches[b].tokens)
             /\ batches # <<>> => phase'[r] = "reserving" /\ 1 \in DOMAIN calls'[r]
             /\ batches = <<>> => phase'[r] = "collecting" /\ DOMAIN calls'[r] = {}
             /\ deadline'[r] = now + Max({AgentTimeoutMs, LlmTimeoutMs})
  <2>1. calls'[r] = [b \in DOMAIN batches |-> Planned(batches[b].tokens)]
    BY <1>3 DEF Starts
  <2>2. DOMAIN batches = 1..Len(batches) /\ Len(batches) \in Nat
        /\ \A b \in DOMAIN batches : Planned(batches[b].tokens) \in Call
    <3>1. batches \in Seq([files : SUBSET Nat, tokens : Nat])
      BY DEF Starts
    <3>2. DOMAIN batches = 1..Len(batches) /\ Len(batches) \in Nat
      BY <3>1, LenProperties
    <3>3. \A b \in DOMAIN batches : batches[b].tokens \in Nat
      BY DEF Starts
    <3>4. QED
      BY <3>2, <3>3, NewCallsAre
  <2>3. calls'[r] \in [1..Len(batches) -> Call]
    BY <2>1, <2>2
  <2>4. calls'[r] \in Seq(Call)
    BY <2>2, <2>3, SeqDef
  <2>5. batches = <<>> => Len(batches) = 0
    BY EmptySeq
  <2>6. batches # <<>> => Len(batches) # 0
    <3>1. batches \in Seq([files : SUBSET Nat, tokens : Nat])
      BY DEF Starts
    <3>2. QED
      BY <3>1, EmptySeq
  <2>7. QED
    BY <1>3, <2>1, <2>2, <2>4, <2>5, <2>6 DEF Starts
<1>4. ASSUME r[1] = v, r \notin LlmRuns
      PROVE  /\ calls'[r] = <<OnceCall(v)>> \/ calls'[r] = <<>>
             /\ phase'[r] = "collecting" /\ deadline'[r] = now + AgentTimeoutMs
             /\ calls'[r] \in Seq(Call)
  <2>1. calls'[r] = <<OnceCall(v)>> \/ calls'[r] = <<>>
    BY <1>1, <1>4 DEF Starts
  <2>2. <<OnceCall(v)>> \in Seq(Call) /\ <<>> \in Seq(Call)
    BY NewCallsAre
  <2>3. QED
    BY <1>4, <2>1, <2>2 DEF Starts
<1>5. r[1] # v => calls'[r] \in Seq(Call)
  BY <1>2 DEF FanInv, Shapes
<1>6. QED
  BY <1>1, <1>2, <1>3, <1>4, <1>5

(* A review that starts puts its LLM runs before their first batch.        *)
LEMMA StartKeeps ==
  ASSUME NEW v \in Reviews, FanInv, NEW batches, Starts(v, batches)
  PROVE  FanInv'
<1>1. /\ UNCHANGED <<aborted, wakeAt, report, entries, nextId, now>>
      /\ phase' = [r \in Runs |->
           IF r[1] # v THEN phase[r]
           ELSE IF r \in LlmRuns /\ batches # <<>> THEN "reserving" ELSE "collecting"]
  BY DEF Starts, budgetVars
<1>2. Shapes'
  <2>1. phase' \in [Runs -> Phase]
    BY <1>1 DEF FanInv, Shapes, Phase
  <2>2. deadline' \in [Runs -> Nat]
    <3>1. now \in Nat /\ deadline \in [Runs -> Nat]
      BY ConstantsAre DEF FanInv, Shapes
    <3>2. /\ now + Max({AgentTimeoutMs, LlmTimeoutMs}) \in Nat
          /\ now + AgentTimeoutMs \in Nat
      BY <3>1, ConstantsAre
    <3>3. QED
      BY <3>1, <3>2 DEF Starts
  <2>3. calls' \in [Runs -> Seq(Call)]
    <3>1. calls' = [r \in Runs |-> calls'[r]]
      BY DEF Starts
    <3>2. \A r \in Runs : calls'[r] \in Seq(Call)
      BY StartCalls
    <3>3. QED
      BY <3>1, <3>2
  <2>4. QED
    BY <1>1, <2>1, <2>2, <2>3 DEF FanInv, Shapes
<1>3. \A p \in Providers : nextId'[p] \in Nat /\ nextId'[p] >= nextId[p]
  BY <1>1 DEF FanInv, Shapes
<1>4. ASSUME NEW q \in Runs, q[1] # v PROVE RunOK(q)'
  <2>1. phase'[q] = phase[q] /\ calls'[q] = calls[q] /\ aborted' = aborted
    BY <1>1, <1>4, StartCalls
  <2>2. QED
    BY <1>3, <2>1, RunKept DEF FanInv
<1>5. ASSUME NEW q \in Runs, q[1] = v, q \in LlmRuns
      PROVE  RunOK(q)' /\ \A k \in DOMAIN calls'[q] : ~Begun(calls'[q][k])
  <2>1. /\ DOMAIN calls'[q] = 1..Len(batches)
        /\ \A b \in DOMAIN calls'[q] : calls'[q][b] = Planned(batches[b].tokens)
        /\ batches # <<>> => phase'[q] = "reserving" /\ 1 \in DOMAIN calls'[q]
        /\ batches = <<>> => phase'[q] = "collecting" /\ DOMAIN calls'[q] = {}
    BY <1>5, StartCalls
  <2>2. ASSUME NEW b \in DOMAIN calls'[q]
        PROVE  /\ calls'[q][b].state = "planned" /\ calls'[q][b].provider = None
               /\ calls'[q][b].at = 0 /\ calls'[q][b].until = 0
               /\ calls'[q][b].tokens + OverheadTokens \in Amounts
    <3>1. batches \in Seq([files : SUBSET Nat, tokens : Nat])
      BY DEF Starts
    <3>2. b \in DOMAIN batches
      BY <2>1, <3>1, LenProperties
    <3>3. batches[b].tokens \in Nat /\ batches[b].tokens + OverheadTokens \in Amounts
      BY <3>2 DEF Starts
    <3>4. QED
      BY <2>1, <3>3, NewCallsAre
  <2>3. \A b \in DOMAIN calls'[q] : CallOK(q, calls[q][b])'
    BY <2>2 DEF CallOK, Begun
  <2>4. \A b \in DOMAIN calls'[q] : ~Begun(calls'[q][b])
    BY <2>2 DEF Begun
  <2>5. CASE batches = <<>>
    BY <2>1, <2>3, <2>4, <2>5 DEF RunOK
  <2>6. CASE batches # <<>>
    <3>1. At(q, 1)'
      <4>1. \A i \in DOMAIN calls'[q] : ~(i < 1)
        BY <2>1
      <4>2. QED
        BY <2>1, <2>2, <2>6, <4>1 DEF At
    <3>2. QED
      BY <1>5, <2>1, <2>3, <2>4, <2>6, <3>1 DEF RunOK
  <2>7. QED
    BY <2>5, <2>6
<1>6. ASSUME NEW q \in Runs, q[1] = v, q \notin LlmRuns
      PROVE  RunOK(q)'
  <2>1. (calls'[q] = <<OnceCall(v)>> \/ calls'[q] = <<>>) /\ phase'[q] = "collecting"
    BY <1>6, StartCalls
  <2>2. ASSUME NEW k \in DOMAIN calls'[q] PROVE calls'[q][k] = OnceCall(v)
    BY <2>1
  <2>3. ASSUME NEW k \in DOMAIN calls'[q]
        PROVE  CallOK(q, calls[q][k])' /\ calls'[q][k].state # "planned"
    <3> DEFINE c == calls'[q][k]
    <3>1. /\ c.provider = None /\ c.state = IF v \in aborted THEN "failed" ELSE "sent"
          /\ c.at = now /\ c.until = now + AgentTimeoutMs
      BY <2>2, NewCallsAre
    <3>2. c.until >= c.at
      BY <3>1, ConstantsAre DEF FanInv, Shapes
    <3>3. QED
      BY <1>1, <1>6, <3>1, <3>2 DEF CallOK, Begun
  <2>4. QED
    BY <2>1, <2>3 DEF RunOK
<1>7. IdsOfTheirOwn'
  <2>1. ASSUME NEW q \in LlmRuns, NEW k \in DOMAIN calls'[q], Begun(calls'[q][k])
        PROVE  k \in DOMAIN calls[q] /\ calls'[q][k] = calls[q][k]
    BY <1>5, <2>1, RunsAre, StartCalls
  <2>2. QED
    BY <2>1, IdsKept DEF FanInv
<1>8. QED
  BY <1>2, <1>4, <1>5, <1>6, <1>7 DEF FanInv
---------------------------------------------------------------------------------
(* The invariant holds before any review has started.                      *)
LEMMA FanInit == Init => FanInv
<1> SUFFICES ASSUME Init PROVE FanInv
  OBVIOUS
<1>1. Shapes
  <2>1. calls \in [Runs -> Seq(Call)]
    BY EmptySeq DEF Init
  <2>2. nextId \in [Providers -> 1..(MaxId + 1)] /\ now \in 0..MaxNow
    BY ConstantsAre DEF Init
  <2>3. QED
    BY <2>1, <2>2 DEF Init, Shapes, Phase
<1>2. \A r \in Runs : DOMAIN calls[r] = {} /\ calls[r] = <<>> /\ phase[r] = "idle"
  BY DEF Init
<1>3. \A r \in Runs : RunOK(r)
  BY <1>2 DEF RunOK
<1>4. IdsOfTheirOwn
  BY <1>2, RunsAre DEF IdsOfTheirOwn
<1>5. QED
  BY <1>1, <1>3, <1>4 DEF FanInv

(* What a step may be, with what it does to the calls and the keys.        *)
Steps ==
  \/ \E v \in Reviews : \E batches : Starts(v, batches)
  \/ \E v \in Reviews : Abort(v)
  \/ \E v \in Reviews : ReviewStep(v)
  \/ \E r \in Runs : Sends(r, Next1(r), Chosen(calls[r][Next1(r)].tokens))
  \/ \E r \in Runs : WaitForQuota(r)
  \/ \E r \in Runs : GiveUp(r)
  \/ \E r \in Runs : Wake(r) \/ ThrowIfAborted(r)
  \/ \E r \in Runs : \E k \in DOMAIN calls[r] : CallFails(r, k)
  \/ \E r \in Runs : \E k \in DOMAIN calls[r] : CallAnswers(r, k)
  \/ Tick

(* Next, taken apart.                                                      *)
LEMMA StepIs == ASSUME FanInv, Next PROVE Steps
<1>1. ASSUME NEW v \in Reviews, FanOut(v) PROVE Steps
  BY <1>1, FanOutIs DEF Steps
<1>2. ASSUME NEW v \in Reviews, Abort(v) \/ ReviewStep(v) PROVE Steps
  BY <1>2 DEF Steps
<1>3. ASSUME NEW r \in Runs, ReserveAndSend(r) PROVE Steps
  BY <1>3, SendIs DEF Steps
<1>4. ASSUME NEW r \in Runs, WaitForQuota(r) \/ GiveUp(r) \/ Wake(r) \/ ThrowIfAborted(r)
      PROVE  Steps
  BY <1>4 DEF Steps
<1>5. ASSUME NEW r \in Runs, NEW k \in DOMAIN calls[r], CallFails(r, k) \/ CallAnswers(r, k)
      PROVE  Steps
  BY <1>5 DEF Steps
<1>6. CASE Tick
  BY <1>6 DEF Steps
<1>7. QED
  BY <1>1, <1>2, <1>3, <1>4, <1>5, <1>6 DEF Next, RunStep

(* Every step keeps the invariant.                                         *)
LEMMA FanStep == ASSUME FanInv, [Next]_vars PROVE FanInv'
<1>1. CASE UNCHANGED vars
  BY <1>1, QuietKeeps DEF vars
<1>2. CASE Next
  <2>1. Steps
    BY <1>2, StepIs
  <2>2. ASSUME NEW v \in Reviews, NEW batches, Starts(v, batches) PROVE FanInv'
    BY <2>2, StartKeeps
  <2>3. ASSUME NEW v \in Reviews, Abort(v) PROVE FanInv'
    BY <2>3, AbortKeeps
  <2>4. ASSUME NEW v \in Reviews, ReviewStep(v) PROVE FanInv'
    <3>1. UNCHANGED <<aborted, runVars, budgetVars>>
      BY <2>4 DEF ReviewStep, Aggregate, InvokeRejects
    <3>2. QED
      BY <2>4, <3>1, QuietKeeps
  <2>5. ASSUME NEW r \in Runs, NEW k, NEW p, Sends(r, k, p) PROVE FanInv'
    BY <2>5, SendKeeps
  <2>6. ASSUME NEW r \in Runs, WaitForQuota(r) \/ GiveUp(r) \/ (Wake(r) \/ ThrowIfAborted(r))
        PROVE  FanInv'
    BY <2>6, WaitKeeps, GiveUpKeeps, TurnKeeps
  <2>7. ASSUME NEW r \in Runs, NEW k \in DOMAIN calls[r], CallFails(r, k) \/ CallAnswers(r, k)
        PROVE  FanInv'
    BY <2>7, FailIs, AnswerIs, EndKeeps
  <2>8. CASE Tick
    <3>1. UNCHANGED <<aborted, runVars, budgetVars>>
      BY <2>8 DEF Tick
    <3>2. QED
      BY <2>8, <3>1, QuietKeeps
  <2>9. QED
    BY <2>1, <2>2, <2>3, <2>4, <2>5, <2>6, <2>7, <2>8 DEF Steps
<1>3. QED
  BY <1>1, <1>2

(* Every reachable state has it.                                           *)
THEOREM FanSafe == Spec => []FanInv
<1>1. Init => FanInv
  BY FanInit
<1>2. FanInv /\ [Next]_vars => FanInv'
  BY FanStep
<1>3. QED
  BY <1>1, <1>2, PTL DEF Spec

(* A job that was cancelled stays so.                                      *)
LEMMA StepsForward ==
  ASSUME FanInv, [Next]_vars
  PROVE  aborted \subseteq aborted'
<1>1. CASE UNCHANGED vars
  BY <1>1 DEF vars
<1>2. CASE Next
  <2>1. Steps
    BY <1>2, StepIs
  <2>2. QED
    BY <2>1 DEF Steps, Starts, Abort, ReviewStep, Aggregate, InvokeRejects, Sends, WaitForQuota,
                GiveUp, Wake, ThrowIfAborted, CallFails, CallAnswers, Tick
<1>3. QED
  BY <1>1, <1>2

(* Once a job is cancelled none of its agents sends another call, asleep   *)
(* or not yet begun: a cancelled review has no call in flight at all, and  *)
(* no step gives it one (reserveBatch's throwIfAborted, sleep, the signal  *)
(* every request is sent with).                                            *)
THEOREM NoCallAfterAbort == Spec => NothingSentAfterAbort
<1> DEFINE Quiet == \A r \in Runs : r[1] \in aborted =>
                      \A k \in DOMAIN calls'[r] : calls'[r][k].state = "sent" =>
                        k \in DOMAIN calls[r] /\ calls[r][k].state = "sent"
<1>1. Init => FanInv
  BY FanInit
<1>2. FanInv /\ [Next]_vars => FanInv'
  BY FanStep
<1>3. ASSUME FanInv, FanInv', [Next]_vars PROVE Quiet
  <2>1. aborted \subseteq aborted'
    BY <1>3, StepsForward
  <2>2. ASSUME NEW r \in Runs, NEW k \in DOMAIN calls'[r], calls'[r][k].state = "sent"
        PROVE  r[1] \notin aborted'
    <3>1. CallOK(r, calls[r][k])'
      BY <1>3, <2>2 DEF FanInv, RunOK
    <3>2. QED
      BY <2>2, <3>1 DEF CallOK
  <2>3. QED
    BY <2>1, <2>2
<1>4. FanInv /\ FanInv' /\ [Next]_vars => [Quiet]_vars
  BY <1>3
<1>5. QED
  BY <1>1, <1>2, <1>4, PTL DEF Spec, NothingSentAfterAbort
---------------------------------------------------------------------------------

(* A step of the budget of key p, in the terms of the runs.                *)
Reserved(p, n) ==
  LET kept == Prune(entries[p], now)
      cost == [requests |-> 1, tokens |-> n]
      fits == RetryAt(Windows(Limits[p]), kept, cost, now) = now
  IN  /\ fits => nextId[p] <= MaxId
      /\ entries'[p] = IF fits THEN kept \cup {Pushed(p, n, n)} ELSE kept
      /\ nextId'[p] = IF fits THEN nextId[p] + 1 ELSE nextId[p]
      /\ Open(p)' = IF fits THEN Open(p) \cup {nextId[p]} ELSE Open(p)
      /\ now' = now

Charged(p, n) ==
  /\ nextId[p] <= MaxId /\ entries'[p] = ChargeOn(p, n) /\ nextId'[p] = nextId[p] + 1
  /\ Open(p)' = Open(p) /\ now' = now

Closed(p, id, n) ==
  /\ id \in Open(p) /\ Open(p)' = Open(p) \ {id} /\ nextId'[p] = nextId[p] /\ now' = now
  /\ \/ entries'[p] = ReleaseOn(p, id)
     \/ n \in Amounts /\ entries'[p] = SettleOn(p, id, n)

Ticked(p) ==
  /\ now < MaxNow /\ now' = now + 1
  /\ entries'[p] = entries[p] /\ nextId'[p] = nextId[p] /\ Open(p)' = Open(p)

Same(p) ==
  entries'[p] = entries[p] /\ nextId'[p] = nextId[p] /\ Open(p)' = Open(p) /\ now' = now

KeyStep(p) ==
  \/ \E n \in Amounts : Reserved(p, n) \/ Charged(p, n)
  \/ \E id \in Open(p) : \E n \in Nat : Closed(p, id, n)
  \/ Ticked(p)
  \/ Same(p)
---------------------------------------------------------------------------------
Holds(c, p, id) == c.provider = p /\ c.id = id /\ c.state \in {"sent", "failed"}

(* The reservations of a key change only with the calls that hold them.    *)
LEMMA OpenKept ==
  ASSUME NEW p,
         \A r \in LlmRuns : \A k \in DOMAIN calls[r] : \A id \in 1..MaxId :
           Holds(calls[r][k], p, id) => k \in DOMAIN calls'[r] /\ Holds(calls'[r][k], p, id),
         \A r \in LlmRuns : \A k \in DOMAIN calls'[r] : \A id \in 1..MaxId :
           Holds(calls'[r][k], p, id) => k \in DOMAIN calls[r] /\ Holds(calls[r][k], p, id)
  PROVE  Open(p)' = Open(p)
BY DEF Open, Holds

(* Calls that are unchanged, or fail, keep their reservations.             *)
LEMMA OpenWhenKept ==
  ASSUME FanInv, NEW p,
         \A r \in LlmRuns : DOMAIN calls'[r] = DOMAIN calls[r],
         \A r \in LlmRuns : \A k \in DOMAIN calls[r] :
           \/ calls'[r][k] = calls[r][k]
           \/ Ended(calls[r][k], calls'[r][k]) /\ calls'[r][k].state = "failed"
  PROVE  Open(p)' = Open(p)
<1>1. ASSUME NEW r \in LlmRuns, NEW k \in DOMAIN calls[r], NEW id
      PROVE  Holds(calls[r][k], p, id) <=> Holds(calls'[r][k], p, id)
  <2>1. calls[r][k] \in Call
    BY RunsAre DEF FanInv, Shapes
  <2>2. CASE calls'[r][k] = calls[r][k]
    BY <2>2
  <2>3. CASE Ended(calls[r][k], calls'[r][k]) /\ calls'[r][k].state = "failed"
    BY <2>1, <2>3, EndedIs DEF Holds, Ended
  <2>4. QED
    BY <2>2, <2>3
<1>2. QED
  BY <1>1, OpenKept

(* An open reservation is one the key has given.                           *)
LEMMA OpenIs ==
  ASSUME FanInv, NEW p \in Providers, NEW r \in LlmRuns, NEW k \in DOMAIN calls[r],
         calls[r][k].provider = p, calls[r][k].state \in {"sent", "failed"}
  PROVE  calls[r][k].id \in Open(p) /\ calls[r][k].id \in 1..(nextId[p] - 1)
<1>1. r \in Runs /\ CallOK(r, calls[r][k]) /\ Begun(calls[r][k])
  BY RunsAre DEF FanInv, RunOK, Begun
<1>2. calls[r][k].id \in 1..(nextId[p] - 1)
  BY <1>1 DEF CallOK
<1>3. calls[r][k].id \in 1..MaxId
  <2>1. nextId[p] \in 1..(MaxId + 1)
    BY DEF FanInv, Shapes
  <2>2. QED
    BY <1>2, <2>1, ConstantsAre
<1>4. QED
  BY <1>2, <1>3 DEF Open
---------------------------------------------------------------------------------
(* What a batch of an LLM run asks of a budget.                            *)
LEMMA CostAre ==
  ASSUME NEW r \in Runs, FanInv, NEW k \in DOMAIN calls[r], r \in LlmRuns
  PROVE  /\ calls[r][k].tokens + OverheadTokens \in Amounts
         /\ Cost(calls[r][k].tokens) = [requests |-> 1, tokens |-> calls[r][k].tokens + OverheadTokens]
BY DEF FanInv, RunOK, CallOK, Cost

(* A key that was asked in vain is pruned, or left as it was.              *)
LEMMA RefusedKeys ==
  ASSUME FanInv, NEW tokens, NEW p \in Providers, tokens + OverheadTokens \in Amounts,
         p \notin Room(tokens), nextId'[p] = nextId[p], Open(p)' = Open(p), now' = now,
         \/ entries'[p] = entries[p]
         \/ entries'[p] = Prune(entries[p], now) /\ p \in Candidates(tokens)
  PROVE  KeyStep(p)
<1>1. CASE entries'[p] = entries[p]
  BY <1>1 DEF KeyStep, Same
<1>2. CASE entries'[p] = Prune(entries[p], now) /\ p \in Candidates(tokens)
  <2>1. RetryOn(p, tokens) # now
    BY <1>2 DEF Room
  <2>2. Reserved(p, tokens + OverheadTokens)
    BY <1>2, <2>1 DEF Reserved, RetryOn, Cost
  <2>3. QED
    BY <2>2 DEF KeyStep
<1>3. QED
  BY <1>1, <1>2

(* A batch that is sent is a reservation of its key.                       *)
LEMMA SendReserves ==
  ASSUME NEW r \in Runs, FanInv, NEW k, NEW p, Sends(r, k, p), NEW q \in Providers
  PROVE  KeyStep(q)
<1> DEFINE tokens == calls[r][k].tokens
           ms == Max({1, deadline[r] - now})
           c  == Sending(calls[r][k], p, ms)
<1>0. ms = Max({1, deadline[r] - now}) /\ c = Sending(calls[r][k], p, ms)
  OBVIOUS
<1> HIDE DEF c, ms
<1>1. /\ calls'[r][k] = c /\ DOMAIN calls'[r] = DOMAIN calls[r] /\ calls[r][k] \in Call
      /\ k \in DOMAIN calls[r] /\ calls[r][k].state = "planned"
      /\ \A i \in DOMAIN calls[r] \ {k} : calls'[r][i] = calls[r][i]
      /\ \A u \in Runs \ {r} : calls'[u] = calls[u]
      /\ nextId[p] \in 1..MaxId /\ nextId'[p] = nextId[p] + 1
      /\ \A u \in Providers \ {p} : nextId'[u] = nextId[u]
      /\ c.provider = p /\ c.id = nextId[p] /\ c.state = "sent"
  BY <1>0, SendCalls
<1>2. /\ p \in Providers /\ r \in LlmRuns /\ now' = now /\ p \in Room(tokens) /\ nextId[p] <= MaxId
      /\ entries'[p] = Prune(entries[p], now) \cup
           {Pushed(p, tokens + OverheadTokens, tokens + OverheadTokens)}
      /\ \A u \in Providers \ {p} :
           \/ entries'[u] = entries[u]
           \/ entries'[u] = Prune(entries[u], now) /\ u \in Candidates(tokens) \ Room(tokens)
  BY DEF Sends
<1>3. tokens + OverheadTokens \in Amounts
  BY <1>1, <1>2, CostAre
<1>4. CASE q = p
  <2>1. Open(p)' = Open(p) \cup {nextId[p]}
    <3>1. \A u \in LlmRuns : \A i \in DOMAIN calls[u] :
            u # r \/ i # k => i \in DOMAIN calls'[u] /\ calls'[u][i] = calls[u][i]
      BY <1>1, RunsAre
    <3>2. \A u \in LlmRuns : DOMAIN calls'[u] = DOMAIN calls[u]
      BY <1>1, RunsAre
    <3>3. ASSUME NEW id \in Open(p)' PROVE id \in Open(p) \cup {nextId[p]}
      <4>1. PICK u \in LlmRuns : \E i \in DOMAIN calls'[u] : Holds(calls'[u][i], p, id)
        BY <3>3 DEF Open, Holds
      <4>2. PICK i \in DOMAIN calls'[u] : Holds(calls'[u][i], p, id)
        BY <4>1
      <4>3. CASE u = r /\ i = k
        BY <1>1, <4>2, <4>3 DEF Holds
      <4>4. CASE u # r \/ i # k
        BY <3>1, <3>2, <3>3, <4>2, <4>4 DEF Open, Holds
      <4>5. QED
        BY <4>3, <4>4
    <3>4. ASSUME NEW id \in Open(p) PROVE id \in Open(p)'
      <4>1. PICK u \in LlmRuns : \E i \in DOMAIN calls[u] : Holds(calls[u][i], p, id)
        BY <3>4 DEF Open, Holds
      <4>2. PICK i \in DOMAIN calls[u] : Holds(calls[u][i], p, id)
        BY <4>1
      <4>3. u # r \/ i # k
        BY <1>1, <4>2 DEF Holds
      <4>4. QED
        BY <3>1, <3>4, <4>2, <4>3 DEF Open, Holds
    <3>5. nextId[p] \in Open(p)'
      BY <1>1, <1>2 DEF Open
    <3>6. QED
      BY <3>3, <3>4, <3>5
  <2>2. RetryAt(Windows(Limits[p]), Prune(entries[p], now),
                [requests |-> 1, tokens |-> tokens + OverheadTokens], now) = now
    BY <1>2 DEF Room, RetryOn, Cost
  <2>3. Reserved(p, tokens + OverheadTokens)
    <3> HIDE DEF tokens
    <3>1. QED
      BY <1>1, <1>2, <2>1, <2>2 DEF Reserved
  <2>4. QED
    BY <1>3, <1>4, <2>3 DEF KeyStep
<1>5. CASE q # p
  <2>1. Open(q)' = Open(q)
    <3>1. ASSUME NEW u \in LlmRuns, NEW i \in DOMAIN calls[u], NEW id
          PROVE  /\ DOMAIN calls'[u] = DOMAIN calls[u]
                 /\ Holds(calls[u][i], q, id) <=> Holds(calls'[u][i], q, id)
      <4>1. CASE u = r /\ i = k
        BY <1>1, <1>5, <4>1 DEF Holds
      <4>2. CASE u # r \/ i # k
        BY <1>1, <4>2, RunsAre
      <4>3. QED
        BY <4>1, <4>2, <1>1, RunsAre
    <3>2. \A u \in LlmRuns : DOMAIN calls'[u] = DOMAIN calls[u]
      BY <1>1, RunsAre
    <3>3. QED
      BY <3>1, <3>2, OpenKept
  <2>2. nextId'[q] = nextId[q] /\ now' = now
    BY <1>1, <1>2, <1>5
  <2>3. \/ entries'[q] = entries[q]
        \/ entries'[q] = Prune(entries[q], now) /\ q \in Candidates(tokens) \ Room(tokens)
    BY <1>2, <1>5
  <2>4. CASE entries'[q] = entries[q]
    BY <2>1, <2>2, <2>4 DEF KeyStep, Same
  <2>5. CASE entries'[q] = Prune(entries[q], now) /\ q \in Candidates(tokens) \ Room(tokens)
    BY <1>3, <2>1, <2>2, <2>5, RefusedKeys
  <2>6. QED
    BY <2>3, <2>4, <2>5
<1>6. QED
  BY <1>4, <1>5
---------------------------------------------------------------------------------
(* A run that waits or gives up prunes the keys it asked.                  *)
LEMMA RefusalPrunes ==
  ASSUME NEW r \in Runs, FanInv, phase[r] = "reserving",
         Refused(calls[r][Next1(r)].tokens), now' = now,
         \A u \in LlmRuns : DOMAIN calls'[u] = DOMAIN calls[u],
         \A u \in LlmRuns : \A k \in DOMAIN calls[u] :
           \/ calls'[u][k] = calls[u][k]
           \/ calls[u][k].state = "planned" /\ calls'[u][k].state = "over_budget",
         NEW p \in Providers
  PROVE  KeyStep(p)
<1> DEFINE tokens == calls[r][Next1(r)].tokens
<1>1. r \in LlmRuns /\ Next1(r) \in DOMAIN calls[r]
  BY NextIs DEF FanInv, At
<1>2. tokens + OverheadTokens \in Amounts
  BY <1>1, CostAre
<1>3. Open(p)' = Open(p)
  <2>1. \A u \in LlmRuns : \A k \in DOMAIN calls[u] : \A id \in 1..MaxId :
          Holds(calls[u][k], p, id) <=> Holds(calls'[u][k], p, id)
    BY DEF Holds
  <2>2. QED
    BY <2>1, OpenKept
<1>4. /\ nextId'[p] = nextId[p] /\ p \notin Room(tokens)
      /\ \/ entries'[p] = entries[p]
         \/ entries'[p] = Prune(entries[p], now) /\ p \in Candidates(tokens)
  BY DEF Refused
<1> HIDE DEF tokens
<1>5. QED
  BY <1>2, <1>3, <1>4, RefusedKeys

(* An answer settles or releases what was reserved, and may charge.        *)
LEMMA AnswerSettles ==
  ASSUME NEW r \in Runs, NEW k, FanInv, Ends(r, k), calls'[r][k].state = "ok",
         NEW used \in Nat, Answers(calls[r][k], used), NEW p \in Providers
  PROVE  KeyStep(p)
<1> DEFINE c == calls[r][k]
<1>1. /\ c \in Call /\ Ended(c, calls'[r][k]) /\ DOMAIN calls'[r] = DOMAIN calls[r]
      /\ k \in DOMAIN calls[r] /\ c.state = "sent" /\ now' = now
      /\ \A i \in DOMAIN calls[r] \ {k} : calls'[r][i] = calls[r][i]
      /\ \A q \in Runs \ {r} : calls'[q] = calls[q]
  BY EndCalls DEF Ends
<1>2. r \in LlmRuns <=> c.provider # None
  <2>1. CallOK(r, c) /\ Begun(c)
    BY <1>1 DEF FanInv, RunOK, Begun
  <2>2. QED
    BY <2>1, FanOutAssumption DEF CallOK
<1> HIDE DEF c
<1>3. \A u \in LlmRuns : DOMAIN calls'[u] = DOMAIN calls[u]
  BY <1>1, RunsAre
<1>4. \A u \in LlmRuns : \A i \in DOMAIN calls[u] :
        u # r \/ i # k => calls'[u][i] = calls[u][i]
  BY <1>1, RunsAre
<1>5. CASE c.provider # p
  <2>1. \A u \in LlmRuns : \A i \in DOMAIN calls[u] : \A id \in 1..MaxId :
          Holds(calls[u][i], p, id) <=> Holds(calls'[u][i], p, id)
    <3>1. SUFFICES ASSUME NEW u \in LlmRuns, NEW i \in DOMAIN calls[u], NEW id
                   PROVE  Holds(calls[u][i], p, id) <=> Holds(calls'[u][i], p, id)
      OBVIOUS
    <3>2. CASE u = r /\ i = k
      BY <1>1, <1>5, <3>2, EndedIs DEF Holds, c
    <3>3. CASE u # r \/ i # k
      BY <1>4, <3>3
    <3>4. QED
      BY <3>2, <3>3
  <2>2. Open(p)' = Open(p)
    BY <1>3, <2>1, OpenKept
  <2>3. \/ entries'[p] = entries[p] /\ nextId'[p] = nextId[p]
        \/ Charges(p, used)
    BY <1>5 DEF Answers, budgetVars, c
  <2>4. CASE entries'[p] = entries[p] /\ nextId'[p] = nextId[p]
    BY <1>1, <2>2, <2>4 DEF KeyStep, Same
  <2>5. CASE Charges(p, used)
    <3>1. used \in Amounts
      BY <2>5, AmountsAre DEF Charges
    <3>2. Charged(p, used)
      BY <1>1, <2>2, <2>5 DEF Charges, Charged
    <3>3. QED
      BY <3>1, <3>2 DEF KeyStep
  <2>6. QED
    BY <2>3, <2>4, <2>5
<1>6. CASE c.provider = p
  <2>1. r \in LlmRuns /\ c.provider \in Providers
    BY <1>2, <1>6, FanOutAssumption
  <2>2. c.id \in Open(p)
    BY <1>1, <1>6, <2>1, OpenIs DEF c
  <2>3. Open(p)' = Open(p) \ {c.id}
    <3>1. ASSUME NEW id \in Open(p)' PROVE id \in Open(p) \ {c.id}
      <4>1. PICK u \in LlmRuns : \E i \in DOMAIN calls'[u] : Holds(calls'[u][i], p, id)
        BY <3>1 DEF Open, Holds
      <4>2. PICK i \in DOMAIN calls'[u] : Holds(calls'[u][i], p, id)
        BY <4>1
      <4>3. u # r \/ i # k
        BY <4>2 DEF Holds
      <4>4. i \in DOMAIN calls[u] /\ calls'[u][i] = calls[u][i] /\ Holds(calls[u][i], p, id)
        BY <1>3, <1>4, <4>2, <4>3
      <4>5. id \in Open(p)
        BY <3>1, <4>4 DEF Open, Holds
      <4>6. id # c.id
        <5>1. Begun(calls[u][i]) /\ Begun(c) /\ calls[u][i].provider = c.provider
              /\ calls[u][i].id = id
          BY <1>1, <1>6, <4>4 DEF Holds, Begun
        <5>2. QED
          BY <1>1, <2>1, <4>3, <4>4, <5>1 DEF FanInv, IdsOfTheirOwn, c
      <4>7. QED
        BY <4>5, <4>6
    <3>2. ASSUME NEW id \in Open(p) \ {c.id} PROVE id \in Open(p)'
      <4>1. PICK u \in LlmRuns : \E i \in DOMAIN calls[u] : Holds(calls[u][i], p, id)
        BY <3>2 DEF Open, Holds
      <4>2. PICK i \in DOMAIN calls[u] : Holds(calls[u][i], p, id)
        BY <4>1
      <4>3. u # r \/ i # k
        BY <3>2, <4>2 DEF Holds, c
      <4>4. i \in DOMAIN calls'[u] /\ Holds(calls'[u][i], p, id)
        BY <1>3, <1>4, <4>2, <4>3
      <4>5. QED
        BY <3>2, <4>4 DEF Open, Holds
    <3>3. QED
      BY <3>1, <3>2
  <2>4. Settles(c, p, used)
    BY <1>6, <2>1, FanOutAssumption DEF Answers, c
  <2>5. Closed(p, c.id, used)
    <3>1. used \in Usages => used \in Amounts
      BY AmountsAre
    <3>2. QED
      BY <1>1, <2>2, <2>3, <2>4, <3>1 DEF Settles, Closed
  <2>6. QED
    BY <2>2, <2>5 DEF KeyStep
<1>7. QED
  BY <1>5, <1>6
---------------------------------------------------------------------------------
(* Whatever a run does, it is a step of the budget of each key, or none.   *)
LEMMA KeysStep ==
  ASSUME FanInv, [Next]_vars, NEW p \in Providers
  PROVE  KeyStep(p)
<1>1. ASSUME UNCHANGED <<calls, entries, nextId>>, now' = now \/ (now < MaxNow /\ now' = now + 1)
      PROVE  KeyStep(p)
  <2>1. Open(p)' = Open(p)
    BY <1>1, OpenKept
  <2>2. QED
    BY <1>1, <2>1 DEF KeyStep, Same, Ticked
<1>2. ASSUME NEW v \in Reviews, NEW batches, Starts(v, batches) PROVE KeyStep(p)
  <2>1. UNCHANGED <<entries, nextId, now>>
    BY <1>2 DEF Starts, budgetVars
  <2>2. ASSUME NEW u \in LlmRuns, u[1] = v
        PROVE  calls[u] = <<>> /\ \A k \in DOMAIN calls'[u] : calls'[u][k].state = "planned"
    <3>1. /\ calls[u] = <<>>
          /\ \A k \in DOMAIN calls'[u] : calls'[u][k] = Planned(batches[k].tokens)
      BY <1>2, <2>2, RunsAre, StartCalls
    <3>2. \A t : Planned(t).state = "planned"
      BY DEF Planned
    <3>3. QED
      BY <3>1, <3>2
  <2>3. ASSUME NEW u \in LlmRuns, u[1] # v PROVE calls'[u] = calls[u]
    BY <1>2, <2>3, RunsAre, StartCalls
  <2>4. \A u \in LlmRuns : \A k \in DOMAIN calls[u] : \A id \in 1..MaxId :
          Holds(calls[u][k], p, id) => k \in DOMAIN calls'[u] /\ Holds(calls'[u][k], p, id)
    BY <2>2, <2>3
  <2>5. \A u \in LlmRuns : \A k \in DOMAIN calls'[u] : \A id \in 1..MaxId :
          Holds(calls'[u][k], p, id) => k \in DOMAIN calls[u] /\ Holds(calls[u][k], p, id)
    BY <2>2, <2>3 DEF Holds
  <2>6. Open(p)' = Open(p)
    BY <2>4, <2>5, OpenKept
  <2>7. QED
    BY <2>1, <2>6 DEF KeyStep, Same
<1>3. ASSUME NEW v \in Reviews, Abort(v) PROVE KeyStep(p)
  <2>1. /\ \A q \in Runs : DOMAIN calls'[q] = DOMAIN calls[q]
        /\ \A q \in Runs : \A k \in DOMAIN calls[q] :
             \/ calls'[q][k] = calls[q][k]
             \/ Ended(calls[q][k], calls'[q][k]) /\ calls'[q][k].state = "failed"
        /\ UNCHANGED <<entries, nextId, now>>
    BY <1>3, AbortIs DEF budgetVars
  <2>2. Open(p)' = Open(p)
    BY <2>1, RunsAre, OpenWhenKept
  <2>3. QED
    BY <2>1, <2>2 DEF KeyStep, Same
<1>4. ASSUME NEW v \in Reviews, ReviewStep(v) PROVE KeyStep(p)
  <2>1. UNCHANGED <<calls, entries, nextId, now>>
    BY <1>4 DEF ReviewStep, Aggregate, InvokeRejects, runVars, budgetVars
  <2>2. QED
    BY <1>1, <2>1
<1>5. ASSUME NEW r \in Runs, NEW k, NEW q, Sends(r, k, q) PROVE KeyStep(p)
  BY <1>5, SendReserves
<1>6. ASSUME NEW r \in Runs, WaitForQuota(r) PROVE KeyStep(p)
  <2>1. phase[r] = "reserving" /\ calls' = calls /\ now' = now
    BY <1>6 DEF WaitForQuota, Trying
  <2>2. Refused(calls[r][Next1(r)].tokens)
    BY <1>6, WaitKeeps
  <2>3. QED
    BY <2>1, <2>2, RefusalPrunes
<1>7. ASSUME NEW r \in Runs, GiveUp(r) PROVE KeyStep(p)
  <2>1. /\ phase[r] = "reserving" /\ now' = now /\ Refused(calls[r][Next1(r)].tokens)
        /\ DOMAIN calls'[r] = DOMAIN calls[r] /\ \A q \in Runs \ {r} : calls'[q] = calls[q]
        /\ \A k \in DOMAIN calls[r] :
             IF calls[r][k].state = "planned"
             THEN calls'[r][k] = [calls[r][k] EXCEPT !.state = "over_budget"]
             ELSE calls'[r][k] = calls[r][k]
    BY <1>7, GiveUpIs
  <2>2. \A k \in DOMAIN calls[r] : calls[r][k] \in Call
    BY DEF FanInv, Shapes
  <2>3. \A k \in DOMAIN calls[r] :
          \/ calls'[r][k] = calls[r][k]
          \/ calls[r][k].state = "planned" /\ calls'[r][k].state = "over_budget"
    BY <2>1, <2>2, DroppedIs
  <2>4. \A u \in LlmRuns : /\ DOMAIN calls'[u] = DOMAIN calls[u]
                           /\ \A k \in DOMAIN calls[u] :
                                \/ calls'[u][k] = calls[u][k]
                                \/ calls[u][k].state = "planned" /\ calls'[u][k].state = "over_budget"
    BY <2>1, <2>3, RunsAre
  <2>5. QED
    BY <2>1, <2>4, RefusalPrunes
<1>8. ASSUME NEW r \in Runs, Wake(r) \/ ThrowIfAborted(r) PROVE KeyStep(p)
  <2>1. UNCHANGED <<calls, entries, nextId, now>>
    BY <1>8, TurnKeeps DEF budgetVars
  <2>2. QED
    BY <1>1, <2>1
<1>9. ASSUME NEW r \in Runs, NEW k \in DOMAIN calls[r], CallFails(r, k) PROVE KeyStep(p)
  <2>1. Ends(r, k) /\ UNCHANGED <<entries, nextId, now>>
    BY <1>9, FailIs DEF Ends, budgetVars
  <2>2. /\ Ended(calls[r][k], calls'[r][k]) /\ DOMAIN calls'[r] = DOMAIN calls[r]
        /\ \A i \in DOMAIN calls[r] \ {k} : calls'[r][i] = calls[r][i]
        /\ \A q \in Runs \ {r} : calls'[q] = calls[q]
    BY <2>1, EndCalls
  <2>3. calls'[r][k].state = "failed"
    <3>1. calls[r][k] \in Call /\ calls[r] \in Seq(Call) /\ calls \in [Runs -> Seq(Call)]
      BY DEF FanInv, Shapes
    <3>2. calls' = [calls EXCEPT ![r][k].state = "failed"]
      BY <1>9 DEF CallFails, SetCall
    <3>3. QED
      BY <3>1, <3>2 DEF Call
  <2>4. Open(p)' = Open(p)
    BY <2>2, <2>3, RunsAre, OpenWhenKept
  <2>5. QED
    BY <2>1, <2>4 DEF KeyStep, Same
<1>10. ASSUME NEW r \in Runs, NEW k \in DOMAIN calls[r], CallAnswers(r, k) PROVE KeyStep(p)
  <2>1. Ends(r, k) /\ \E used \in Nat : Answers(calls[r][k], used)
    BY <1>10, AnswerIs
  <2>2. calls'[r][k].state = "ok"
    <3>1. calls[r][k] \in Call /\ calls[r] \in Seq(Call) /\ calls \in [Runs -> Seq(Call)]
      BY DEF FanInv, Shapes
    <3>2. calls' = [calls EXCEPT ![r][k].state = "ok"]
      BY <1>10 DEF CallAnswers, SetCall
    <3>3. QED
      BY <3>1, <3>2 DEF Call
  <2>3. QED
    BY <2>1, <2>2, AnswerSettles
<1>11. CASE Tick
  BY <1>1, <1>11 DEF Tick, runVars, budgetVars
<1>12. CASE UNCHANGED vars
  BY <1>1, <1>12 DEF vars, runVars, budgetVars
<1>13. CASE Next
  <2>1. Steps
    BY <1>13, StepIs
  <2>2. QED
    BY <1>2, <1>3, <1>4, <1>5, <1>6, <1>7, <1>8, <1>9, <1>10, <1>11, <2>1 DEF Steps
<1>14. QED
  BY <1>12, <1>13
---------------------------------------------------------------------------------
(* The windows of the Groq key are reckoned as all windows are.            *)
LEMMA GroqReckons ==
  ASSUME "groq" \in Providers
  PROVE  /\ Groq!Keyed = Windows(Limits["groq"])
         /\ \A E, t : Groq!Prune(E, t) = Prune(E, t)
         /\ \A windows, E, cost, t : Groq!RetryAt(windows, E, cost, t) = RetryAt(windows, E, cost, t)
<1>1. Groq!Keyed = Windows(Limits["groq"])
  BY DEF Groq!Keyed, Groq!Windows, Windows, Allowed, Groq!Allowed, Max, Groq!Max
<1>2. \A windows, E, cost, t : Groq!RetryAt(windows, E, cost, t) = RetryAt(windows, E, cost, t)
  BY DEF RetryAt, Groq!RetryAt, DepartureAt, Groq!DepartureAt, Excess, Groq!Excess,
         Used, Groq!Used, InWindow, Groq!InWindow, Total, Groq!Total, Units, Groq!Units,
         Max, Groq!Max, Cardinality, Groq!Cardinality
<1>3. QED
  BY <1>1, <1>2 DEF Prune, Groq!Prune

(* A step of the Groq key is one of its budget.                          *)
LEMMA GroqStep ==
  ASSUME "groq" \in Providers, KeyStep("groq")
  PROVE  [Groq!Next]_(Groq!vars)
<1> DEFINE p == "groq"
<1>1. ASSUME NEW n \in Amounts, Reserved(p, n) PROVE Groq!TryReserve(n)
  <2> DEFINE kept == Prune(entries[p], now)
             fits == RetryAt(Windows(Limits[p]), kept, [requests |-> 1, tokens |-> n], now) = now
  <2>1. /\ fits => nextId[p] <= MaxId
        /\ entries'[p] = IF fits THEN kept \cup {Pushed(p, n, n)} ELSE kept
        /\ nextId'[p] = IF fits THEN nextId[p] + 1 ELSE nextId[p]
        /\ Open(p)' = IF fits THEN Open(p) \cup {nextId[p]} ELSE Open(p)
        /\ now' = now
    BY <1>1 DEF Reserved
  <2>2. /\ Groq!Prune(entries[p], now) = kept /\ Groq!Keyed = Windows(Limits[p])
        /\ Groq!Cost(n) = [requests |-> 1, tokens |-> n]
        /\ Groq!Entry(nextId[p], n, n) = Pushed(p, n, n)
    BY GroqReckons DEF Groq!Cost, Groq!Entry, Pushed
  <2>3. (Groq!RetryAt(Groq!Keyed, Groq!Prune(entries[p], now), Groq!Cost(n), now) = now) <=> fits
    BY <2>2, GroqReckons
  <2> HIDE DEF kept, fits
  <2>4. QED
    BY <2>1, <2>2, <2>3 DEF Groq!TryReserve
<1>2. ASSUME NEW n \in Amounts, Charged(p, n) PROVE Groq!Charge(n)
  <2>1. /\ Groq!Prune(entries[p], now) = Prune(entries[p], now)
        /\ Groq!Entry(nextId[p], n, 0) = Pushed(p, n, 0)
    BY GroqReckons DEF Groq!Entry, Pushed
  <2>2. QED
    BY <1>2, <2>1 DEF Charged, ChargeOn, Groq!Charge
<1>3. ASSUME NEW id \in Open(p), NEW n \in Nat, Closed(p, id, n)
      PROVE  Groq!Release(id) \/ (n \in Amounts /\ Groq!Settle(id, n))
  BY <1>3 DEF Closed, ReleaseOn, SettleOn, Groq!Release, Groq!Settle
<1>4. Ticked(p) => Groq!Tick
  BY DEF Ticked, Groq!Tick
<1>5. Same(p) => UNCHANGED Groq!vars
  BY DEF Same, Groq!vars
<1>6. QED
  BY <1>1, <1>2, <1>3, <1>4, <1>5 DEF KeyStep, Groq!Next

(* Whatever runs share it, the Groq key is used as QuotaBudget expects:  *)
(* each reservation is settled or released at most once, and every token *)
(* recorded was reserved or charged (fan-out-node.ts, llm-routing.ts).   *)
THEOREM GroqUsedAsPromised ==
  ASSUME "groq" \in Providers
  PROVE  Spec => Groq!Spec
<1>1. Init => Groq!Init
  <2>1. SUFFICES ASSUME Init PROVE Groq!Init
    OBVIOUS
  <2>2. Open("groq") = {}
    BY <2>1, RunsAre DEF Init, Open
  <2>3. QED
    BY <2>1, <2>2 DEF Init, Groq!Init
<1>2. FanInv /\ [Next]_vars => [Groq!Next]_(Groq!vars)
  BY KeysStep, GroqStep
<1>3. QED
  BY <1>1, <1>2, FanSafe, PTL DEF Spec, Groq!Spec
---------------------------------------------------------------------------------
(* The windows of the Gemini key are reckoned as all windows are.          *)
LEMMA GeminiReckons ==
  ASSUME "gemini" \in Providers
  PROVE  /\ Gemini!Keyed = Windows(Limits["gemini"])
         /\ \A E, t : Gemini!Prune(E, t) = Prune(E, t)
         /\ \A windows, E, cost, t : Gemini!RetryAt(windows, E, cost, t) = RetryAt(windows, E, cost, t)
<1>1. Gemini!Keyed = Windows(Limits["gemini"])
  BY DEF Gemini!Keyed, Gemini!Windows, Windows, Allowed, Gemini!Allowed, Max, Gemini!Max
<1>2. \A windows, E, cost, t : Gemini!RetryAt(windows, E, cost, t) = RetryAt(windows, E, cost, t)
  BY DEF RetryAt, Gemini!RetryAt, DepartureAt, Gemini!DepartureAt, Excess, Gemini!Excess,
         Used, Gemini!Used, InWindow, Gemini!InWindow, Total, Gemini!Total, Units, Gemini!Units,
         Max, Gemini!Max, Cardinality, Gemini!Cardinality
<1>3. QED
  BY <1>1, <1>2 DEF Prune, Gemini!Prune

(* A step of the Gemini key is one of its budget.                        *)
LEMMA GeminiStep ==
  ASSUME "gemini" \in Providers, KeyStep("gemini")
  PROVE  [Gemini!Next]_(Gemini!vars)
<1> DEFINE p == "gemini"
<1>1. ASSUME NEW n \in Amounts, Reserved(p, n) PROVE Gemini!TryReserve(n)
  <2> DEFINE kept == Prune(entries[p], now)
             fits == RetryAt(Windows(Limits[p]), kept, [requests |-> 1, tokens |-> n], now) = now
  <2>1. /\ fits => nextId[p] <= MaxId
        /\ entries'[p] = IF fits THEN kept \cup {Pushed(p, n, n)} ELSE kept
        /\ nextId'[p] = IF fits THEN nextId[p] + 1 ELSE nextId[p]
        /\ Open(p)' = IF fits THEN Open(p) \cup {nextId[p]} ELSE Open(p)
        /\ now' = now
    BY <1>1 DEF Reserved
  <2>2. /\ Gemini!Prune(entries[p], now) = kept /\ Gemini!Keyed = Windows(Limits[p])
        /\ Gemini!Cost(n) = [requests |-> 1, tokens |-> n]
        /\ Gemini!Entry(nextId[p], n, n) = Pushed(p, n, n)
    BY GeminiReckons DEF Gemini!Cost, Gemini!Entry, Pushed
  <2>3. (Gemini!RetryAt(Gemini!Keyed, Gemini!Prune(entries[p], now), Gemini!Cost(n), now) = now) <=> fits
    BY <2>2, GeminiReckons
  <2> HIDE DEF kept, fits
  <2>4. QED
    BY <2>1, <2>2, <2>3 DEF Gemini!TryReserve
<1>2. ASSUME NEW n \in Amounts, Charged(p, n) PROVE Gemini!Charge(n)
  <2>1. /\ Gemini!Prune(entries[p], now) = Prune(entries[p], now)
        /\ Gemini!Entry(nextId[p], n, 0) = Pushed(p, n, 0)
    BY GeminiReckons DEF Gemini!Entry, Pushed
  <2>2. QED
    BY <1>2, <2>1 DEF Charged, ChargeOn, Gemini!Charge
<1>3. ASSUME NEW id \in Open(p), NEW n \in Nat, Closed(p, id, n)
      PROVE  Gemini!Release(id) \/ (n \in Amounts /\ Gemini!Settle(id, n))
  BY <1>3 DEF Closed, ReleaseOn, SettleOn, Gemini!Release, Gemini!Settle
<1>4. Ticked(p) => Gemini!Tick
  BY DEF Ticked, Gemini!Tick
<1>5. Same(p) => UNCHANGED Gemini!vars
  BY DEF Same, Gemini!vars
<1>6. QED
  BY <1>1, <1>2, <1>3, <1>4, <1>5 DEF KeyStep, Gemini!Next

(* Whatever runs share it, the Gemini key is used as QuotaBudget expects:*)
(* each reservation is settled or released at most once, and every token *)
(* recorded was reserved or charged (fan-out-node.ts, llm-routing.ts).   *)
THEOREM GeminiUsedAsPromised ==
  ASSUME "gemini" \in Providers
  PROVE  Spec => Gemini!Spec
<1>1. Init => Gemini!Init
  <2>1. SUFFICES ASSUME Init PROVE Gemini!Init
    OBVIOUS
  <2>2. Open("gemini") = {}
    BY <2>1, RunsAre DEF Init, Open
  <2>3. QED
    BY <2>1, <2>2 DEF Init, Gemini!Init
<1>2. FanInv /\ [Next]_vars => [Gemini!Next]_(Gemini!vars)
  BY KeysStep, GeminiStep
<1>3. QED
  BY <1>1, <1>2, FanSafe, PTL DEF Spec, Gemini!Spec

(* With both keys set, both budgets are (createQuotaRouter's options).     *)
THEOREM BudgetsAreUsedAsPromised ==
  ASSUME Providers = {"groq", "gemini"}
  PROVE  Spec => BudgetsUsedAsPromised
<1>1. Spec => Groq!Spec
  BY GroqUsedAsPromised
<1>2. Spec => Gemini!Spec
  BY GeminiUsedAsPromised
<1>3. QED
  BY <1>1, <1>2 DEF BudgetsUsedAsPromised
---------------------------------------------------------------------------------
GroqP == INSTANCE QuotaBudgetProofs WITH
  Limits <- Limits["groq"], Tokens <- Amounts, entries <- entries["groq"],
  nextId <- nextId["groq"], open <- Open("groq")

(* What is proved of a budget holds of the Groq key.                     *)
LEMMA GroqKeeps ==
  ASSUME "groq" \in Providers
  PROVE  Spec => []GroqP!BudgetInv
<1>1. GroqP!QuotaBudgetAssumption
  BY FanOutAssumption, AmountsAre DEF GroqP!QuotaBudgetAssumption
<1>2. GroqP!WindowAssumption
  BY WindowAssumption DEF GroqP!WindowAssumption
<1>3. GroqP!Spec => []GroqP!BudgetInv
  BY <1>1, <1>2, GroqP!BudgetSafe
<1>4. Spec => Groq!Spec
  BY GroqUsedAsPromised
<1>5. Groq!Init => GroqP!Init
  BY DEF Groq!Init, GroqP!Init
<1>6. [Groq!Next]_(Groq!vars) => [GroqP!Next]_(GroqP!vars)
  <2>1. \A n : Groq!TryReserve(n) <=> GroqP!TryReserve(n)
    BY DEF Groq!TryReserve, GroqP!TryReserve, Groq!Prune, GroqP!Prune, Groq!Entry, GroqP!Entry,
           Groq!Cost, GroqP!Cost, Groq!Keyed, GroqP!Keyed, Groq!Windows, GroqP!Windows,
           Groq!Allowed, GroqP!Allowed, Groq!RetryAt, GroqP!RetryAt, Groq!DepartureAt, GroqP!DepartureAt,
           Groq!Excess, GroqP!Excess, Groq!Used, GroqP!Used, Groq!InWindow, GroqP!InWindow,
           Groq!Total, GroqP!Total, Groq!Units, GroqP!Units, Groq!Max, GroqP!Max,
           Groq!Cardinality, GroqP!Cardinality
  <2>2. \A n : Groq!Charge(n) <=> GroqP!Charge(n)
    BY DEF Groq!Charge, GroqP!Charge, Groq!Prune, GroqP!Prune, Groq!Entry, GroqP!Entry
  <2>3. \A id : Groq!Release(id) <=> GroqP!Release(id)
    BY DEF Groq!Release, GroqP!Release
  <2>4. \A id, n : Groq!Settle(id, n) <=> GroqP!Settle(id, n)
    BY DEF Groq!Settle, GroqP!Settle
  <2>5. (Groq!Tick <=> GroqP!Tick) /\ (UNCHANGED Groq!vars <=> UNCHANGED GroqP!vars)
    BY DEF Groq!Tick, GroqP!Tick, Groq!vars, GroqP!vars
  <2>6. QED
    <3>1. Groq!Next => GroqP!Next
      BY <2>1, <2>2, <2>3, <2>4, <2>5, SMTT(20) DEF Groq!Next, GroqP!Next
    <3>2. QED
      BY <2>5, <3>1
<1>7. Groq!Spec => GroqP!Spec
  BY <1>5, <1>6, PTL DEF Groq!Spec, GroqP!Spec
<1>8. QED
  BY <1>3, <1>4, <1>7, PTL
---------------------------------------------------------------------------------
GeminiP == INSTANCE QuotaBudgetProofs WITH
  Limits <- Limits["gemini"], Tokens <- Amounts, entries <- entries["gemini"],
  nextId <- nextId["gemini"], open <- Open("gemini")

(* What is proved of a budget holds of the Gemini key.                   *)
LEMMA GeminiKeeps ==
  ASSUME "gemini" \in Providers
  PROVE  Spec => []GeminiP!BudgetInv
<1>1. GeminiP!QuotaBudgetAssumption
  BY FanOutAssumption, AmountsAre DEF GeminiP!QuotaBudgetAssumption
<1>2. GeminiP!WindowAssumption
  BY WindowAssumption DEF GeminiP!WindowAssumption
<1>3. GeminiP!Spec => []GeminiP!BudgetInv
  BY <1>1, <1>2, GeminiP!BudgetSafe
<1>4. Spec => Gemini!Spec
  BY GeminiUsedAsPromised
<1>5. Gemini!Init => GeminiP!Init
  BY DEF Gemini!Init, GeminiP!Init
<1>6. [Gemini!Next]_(Gemini!vars) => [GeminiP!Next]_(GeminiP!vars)
  <2>1. \A n : Gemini!TryReserve(n) <=> GeminiP!TryReserve(n)
    BY DEF Gemini!TryReserve, GeminiP!TryReserve, Gemini!Prune, GeminiP!Prune, Gemini!Entry, GeminiP!Entry,
           Gemini!Cost, GeminiP!Cost, Gemini!Keyed, GeminiP!Keyed, Gemini!Windows, GeminiP!Windows,
           Gemini!Allowed, GeminiP!Allowed, Gemini!RetryAt, GeminiP!RetryAt, Gemini!DepartureAt, GeminiP!DepartureAt,
           Gemini!Excess, GeminiP!Excess, Gemini!Used, GeminiP!Used, Gemini!InWindow, GeminiP!InWindow,
           Gemini!Total, GeminiP!Total, Gemini!Units, GeminiP!Units, Gemini!Max, GeminiP!Max,
           Gemini!Cardinality, GeminiP!Cardinality
  <2>2. \A n : Gemini!Charge(n) <=> GeminiP!Charge(n)
    BY DEF Gemini!Charge, GeminiP!Charge, Gemini!Prune, GeminiP!Prune, Gemini!Entry, GeminiP!Entry
  <2>3. \A id : Gemini!Release(id) <=> GeminiP!Release(id)
    BY DEF Gemini!Release, GeminiP!Release
  <2>4. \A id, n : Gemini!Settle(id, n) <=> GeminiP!Settle(id, n)
    BY DEF Gemini!Settle, GeminiP!Settle
  <2>5. (Gemini!Tick <=> GeminiP!Tick) /\ (UNCHANGED Gemini!vars <=> UNCHANGED GeminiP!vars)
    BY DEF Gemini!Tick, GeminiP!Tick, Gemini!vars, GeminiP!vars
  <2>6. QED
    <3>1. Gemini!Next => GeminiP!Next
      BY <2>1, <2>2, <2>3, <2>4, <2>5, SMTT(20) DEF Gemini!Next, GeminiP!Next
    <3>2. QED
      BY <2>5, <3>1
<1>7. Gemini!Spec => GeminiP!Spec
  BY <1>5, <1>6, PTL DEF Gemini!Spec, GeminiP!Spec
<1>8. QED
  BY <1>3, <1>4, <1>7, PTL
---------------------------------------------------------------------------------
(* What holds of every key: its entries follow the clock, with ids given   *)
(* in order, and an open reservation counts what it was granted.           *)
KeyInv(p) ==
  /\ WellFormed(entries[p], now)
  /\ \A e \in entries[p] :
       /\ e.id \in 1..(nextId[p] - 1) /\ e.tokens \in Nat
       /\ e.id \in Open(p) => e.tokens = e.granted

KeysInv == \A p \in Providers : KeyInv(p)

(* Every reachable state has it.                                           *)
LEMMA KeysSafe == Spec => []KeysInv
<1>1. Spec => []("groq" \in Providers => KeyInv("groq"))
  <2>1. CASE "groq" \in Providers
    <3>1. GroqP!BudgetInv => KeyInv("groq")
      <4>1. SUFFICES ASSUME GroqP!BudgetInv PROVE KeyInv("groq")
        OBVIOUS
      <4>2. WellFormed(entries["groq"], now)
        BY <4>1 DEF GroqP!BudgetInv, GroqP!WellFormed, WellFormed, GroqP!Counted, Counted,
                    GroqP!Fields, Fields, GroqP!IsFiniteSet, IsFiniteSet
      <4>3. ASSUME NEW e \in entries["groq"]
            PROVE  /\ e.id \in 1..(nextId["groq"] - 1) /\ e.tokens \in Nat
                   /\ e.id \in Open("groq") => e.tokens = e.granted
        <5>1. /\ e \in [id : 1..MaxId, at : 0..MaxNow, requests : {1}, tokens : Nat, granted : Nat]
              /\ e.id < nextId["groq"] /\ nextId["groq"] \in 1..(MaxId + 1)
              /\ e.id \in Open("groq") => e.tokens = e.granted
          BY <4>1 DEF GroqP!BudgetInv, GroqP!TypeOK, GroqP!IdsInOrder, GroqP!OpenAsGranted
        <5>2. QED
          BY <5>1, ConstantsAre
      <4>4. QED
        BY <4>2, <4>3 DEF KeyInv
    <3>2. QED
      BY <2>1, <3>1, GroqKeeps, PTL
  <2>2. CASE "groq" \notin Providers
    <3>1. "groq" \in Providers => KeyInv("groq")
      BY <2>2
    <3>2. QED
      BY <3>1, PTL
  <2>3. QED
    BY <2>1, <2>2
<1>2. Spec => []("gemini" \in Providers => KeyInv("gemini"))
  <2>1. CASE "gemini" \in Providers
    <3>1. GeminiP!BudgetInv => KeyInv("gemini")
      <4>1. SUFFICES ASSUME GeminiP!BudgetInv PROVE KeyInv("gemini")
        OBVIOUS
      <4>2. WellFormed(entries["gemini"], now)
        BY <4>1 DEF GeminiP!BudgetInv, GeminiP!WellFormed, WellFormed, GeminiP!Counted, Counted,
                    GeminiP!Fields, Fields, GeminiP!IsFiniteSet, IsFiniteSet
      <4>3. ASSUME NEW e \in entries["gemini"]
            PROVE  /\ e.id \in 1..(nextId["gemini"] - 1) /\ e.tokens \in Nat
                   /\ e.id \in Open("gemini") => e.tokens = e.granted
        <5>1. /\ e \in [id : 1..MaxId, at : 0..MaxNow, requests : {1}, tokens : Nat, granted : Nat]
              /\ e.id < nextId["gemini"] /\ nextId["gemini"] \in 1..(MaxId + 1)
              /\ e.id \in Open("gemini") => e.tokens = e.granted
          BY <4>1 DEF GeminiP!BudgetInv, GeminiP!TypeOK, GeminiP!IdsInOrder, GeminiP!OpenAsGranted
        <5>2. QED
          BY <5>1, ConstantsAre
      <4>4. QED
        BY <4>2, <4>3 DEF KeyInv
    <3>2. QED
      BY <2>1, <3>1, GeminiKeeps, PTL
  <2>2. CASE "gemini" \notin Providers
    <3>1. "gemini" \in Providers => KeyInv("gemini")
      BY <2>2
    <3>2. QED
      BY <3>1, PTL
  <2>3. QED
    BY <2>1, <2>2
<1>3. ("groq" \in Providers => KeyInv("groq")) /\ ("gemini" \in Providers => KeyInv("gemini")) => KeysInv
  BY FanOutAssumption DEF KeysInv
<1>4. QED
  BY <1>1, <1>2, <1>3, PTL
---------------------------------------------------------------------------------
(* How a call came to be what it is after a step.                          *)
CallStep(r, k) ==
  LET d == calls'[r][k]
  IN  \/ /\ k \in DOMAIN calls[r] /\ calls[r][k] \in Call /\ deadline'[r] = deadline[r]
         /\ d = calls[r][k] \/ Ended(calls[r][k], d)
      \/ /\ k \in DOMAIN calls[r] /\ calls[r][k] \in Call /\ deadline'[r] = deadline[r]
         /\ GiveUp(r) /\ calls[r][k].state = "planned"
         /\ d = [calls[r][k] EXCEPT !.state = "over_budget"]
      \/ /\ \E p : Sends(r, k, p) /\ d.provider = p /\ d.id = nextId[p]
         /\ k \in DOMAIN calls[r] /\ calls[r][k].state = "planned" /\ deadline'[r] = deadline[r]
         /\ d.tokens = calls[r][k].tokens /\ d.state = "sent" /\ d.at = now
         /\ d.until = now + Max({1, deadline[r] - now})
      \/ phase[r] = "idle" /\ d.state = "planned" /\ d.provider = None
      \/ /\ phase[r] = "idle" /\ r \notin LlmRuns /\ d.provider = None
         /\ d.at = now /\ d.until = now + AgentTimeoutMs /\ deadline'[r] = d.until /\ now' = now

(* Every call after a step came to be in one of these ways.                *)
LEMMA CallsStep ==
  ASSUME FanInv, [Next]_vars, NEW r \in Runs, NEW k \in DOMAIN calls'[r]
  PROVE  CallStep(r, k)
<1> DEFINE d == calls'[r][k]
<1>1. ASSUME k \in DOMAIN calls[r], deadline'[r] = deadline[r],
             d = calls[r][k] \/ Ended(calls[r][k], d)
      PROVE  CallStep(r, k)
  <2>1. calls[r][k] \in Call
    BY <1>1 DEF FanInv, Shapes
  <2>2. QED
    BY <1>1, <2>1 DEF CallStep
<1>2. ASSUME NEW v \in Reviews, NEW batches, Starts(v, batches) PROVE CallStep(r, k)
  <2>1. CASE r[1] # v
    BY <1>1, <1>2, <2>1, StartCalls
  <2>2. CASE r[1] = v /\ r \in LlmRuns
    <3>1. phase[r] = "idle" /\ d = Planned(batches[k].tokens)
      BY <1>2, <2>2, StartCalls
    <3>2. d.state = "planned" /\ d.provider = None
      BY <3>1 DEF Planned
    <3>3. QED
      BY <3>1, <3>2 DEF CallStep
  <2>3. CASE r[1] = v /\ r \notin LlmRuns
    <3>1. /\ phase[r] = "idle" /\ deadline'[r] = now + AgentTimeoutMs
          /\ calls'[r] = <<OnceCall(v)>> \/ calls'[r] = <<>>
      BY <1>2, <2>3, StartCalls
    <3>2. d = OnceCall(v)
      BY <3>1
    <3>3. now' = now
      BY <1>2 DEF Starts
    <3>4. d.provider = None /\ d.at = now /\ d.until = now + AgentTimeoutMs
      BY <3>2, NewCallsAre
    <3>5. QED
      BY <2>3, <3>1, <3>3, <3>4 DEF CallStep
  <2>4. QED
    BY <2>1, <2>2, <2>3
<1>3. ASSUME NEW v \in Reviews, Abort(v) PROVE CallStep(r, k)
  BY <1>1, <1>3, AbortIs
<1>4. ASSUME UNCHANGED <<calls, deadline>> PROVE CallStep(r, k)
  BY <1>1, <1>4
<1>5. ASSUME NEW q \in Runs, NEW i, NEW p, Sends(q, i, p) PROVE CallStep(r, k)
  <2> DEFINE ms == Max({1, deadline[q] - now})
             c  == Sending(calls[q][i], p, ms)
  <2>1. ms = Max({1, deadline[q] - now}) /\ c = Sending(calls[q][i], p, ms)
    OBVIOUS
  <2> HIDE DEF c, ms
  <2>2. /\ calls'[q][i] = c /\ DOMAIN calls'[q] = DOMAIN calls[q]
        /\ i \in DOMAIN calls[q] /\ calls[q][i].state = "planned"
        /\ \A j \in DOMAIN calls[q] \ {i} : calls'[q][j] = calls[q][j]
        /\ \A u \in Runs \ {q} : calls'[u] = calls[u]
        /\ c.tokens = calls[q][i].tokens /\ c.provider = p /\ c.id = nextId[p]
        /\ c.state = "sent" /\ c.at = now /\ c.until = now + ms
    BY <1>5, <2>1, SendCalls
  <2>3. deadline' = deadline
    BY <1>5 DEF Sends
  <2>4. CASE r # q \/ k # i
    BY <1>1, <2>2, <2>3, <2>4
  <2>5. CASE r = q /\ k = i
    BY <1>5, <2>1, <2>2, <2>3, <2>5 DEF CallStep
  <2>6. QED
    BY <2>4, <2>5
<1>6. ASSUME NEW q \in Runs, GiveUp(q) PROVE CallStep(r, k)
  <2>1. /\ DOMAIN calls'[q] = DOMAIN calls[q] /\ deadline' = deadline
        /\ \A u \in Runs \ {q} : calls'[u] = calls[u]
        /\ \A j \in DOMAIN calls[q] :
             IF calls[q][j].state = "planned"
             THEN calls'[q][j] = [calls[q][j] EXCEPT !.state = "over_budget"]
             ELSE calls'[q][j] = calls[q][j]
    BY <1>6, GiveUpIs
  <2>2. CASE r # q \/ calls[r][k].state # "planned"
    BY <1>1, <2>1, <2>2
  <2>3. CASE r = q /\ calls[r][k].state = "planned"
    <3>1. calls[r][k] \in Call /\ k \in DOMAIN calls[r]
      BY <2>1, <2>3 DEF FanInv, Shapes
    <3>2. QED
      BY <1>6, <2>1, <2>3, <3>1 DEF CallStep
  <2>4. QED
    BY <2>2, <2>3
<1>7. ASSUME NEW q \in Runs, NEW i, Ends(q, i) PROVE CallStep(r, k)
  <2>1. /\ Ended(calls[q][i], calls'[q][i]) /\ DOMAIN calls'[q] = DOMAIN calls[q]
        /\ \A j \in DOMAIN calls[q] \ {i} : calls'[q][j] = calls[q][j]
        /\ \A u \in Runs \ {q} : calls'[u] = calls[u]
    BY <1>7, EndCalls
  <2>2. deadline' = deadline
    BY <1>7 DEF Ends
  <2>3. QED
    BY <1>1, <2>1, <2>2
<1>8. CASE UNCHANGED vars
  BY <1>4, <1>8 DEF vars, runVars
<1>9. CASE Next
  <2>1. Steps
    BY <1>9, StepIs
  <2>2. ASSUME NEW v \in Reviews, ReviewStep(v) PROVE CallStep(r, k)
    BY <1>4, <2>2 DEF ReviewStep, Aggregate, InvokeRejects, runVars
  <2>3. ASSUME NEW q \in Runs, WaitForQuota(q) \/ (Wake(q) \/ ThrowIfAborted(q)) PROVE CallStep(r, k)
    BY <1>4, <2>3 DEF WaitForQuota, Wake, ThrowIfAborted
  <2>4. ASSUME NEW q \in Runs, NEW i \in DOMAIN calls[q], CallFails(q, i) \/ CallAnswers(q, i)
        PROVE  CallStep(r, k)
    BY <1>7, <2>4, FailIs, AnswerIs
  <2>5. CASE Tick
    BY <1>4, <2>5 DEF Tick, runVars
  <2>6. QED
    BY <1>2, <1>3, <1>5, <1>6, <2>1, <2>2, <2>3, <2>4, <2>5 DEF Steps
<1>10. QED
  BY <1>8, <1>9

(* How a run came to be where it is after a step.                          *)
PhaseStep(r) ==
  \/ phase'[r] = phase[r] /\ UNCHANGED <<wakeAt[r], deadline[r], now>>
  \/ phase'[r] = phase[r] /\ UNCHANGED <<wakeAt[r], deadline[r]>> /\ Tick
  \/ WaitForQuota(r) /\ phase'[r] = "sleeping"
  \/ /\ phase[r] = "sleeping" /\ phase'[r] = "reserving"
     /\ UNCHANGED <<wakeAt[r], deadline[r], now>>
  \/ /\ phase'[r] = "reserving" /\ UNCHANGED <<wakeAt[r], now>>
     /\ deadline'[r] = now + Max({AgentTimeoutMs, LlmTimeoutMs})
  \/ phase'[r] \in {"collecting", "rejected"} /\ UNCHANGED wakeAt[r]

(* Every run came there in one of these ways.                              *)
LEMMA PhasesStep ==
  ASSUME FanInv, [Next]_vars, NEW r \in Runs
  PROVE  PhaseStep(r)
<1>1. ASSUME phase'[r] = phase[r], UNCHANGED <<wakeAt, now>>, deadline'[r] = deadline[r]
      PROVE  PhaseStep(r)
  BY <1>1 DEF PhaseStep
<1>2. phase \in [Runs -> Phase] /\ wakeAt = [q \in Runs |-> wakeAt[q]]
  BY DEF FanInv, Shapes
<1>3. ASSUME NEW v \in Reviews, NEW batches, Starts(v, batches) PROVE PhaseStep(r)
  <2>1. UNCHANGED <<wakeAt, now>>
    BY <1>3 DEF Starts
  <2>2. CASE r[1] # v
    BY <1>1, <1>3, <2>1, <2>2, StartCalls
  <2>3. CASE r[1] = v
    <3>1. \/ phase'[r] = "collecting"
          \/ /\ phase'[r] = "reserving"
             /\ deadline'[r] = now + Max({AgentTimeoutMs, LlmTimeoutMs})
      BY <1>3, <2>3, StartCalls
    <3>2. QED
      BY <2>1, <3>1 DEF PhaseStep
  <2>4. QED
    BY <2>2, <2>3
<1>4. ASSUME NEW v \in Reviews, Abort(v) PROVE PhaseStep(r)
  <2>1. UNCHANGED <<wakeAt, deadline, now>> /\ phase'[r] \in {phase[r], "rejected"}
    BY <1>4, AbortIs
  <2>2. QED
    BY <1>1, <2>1 DEF PhaseStep
<1>5. ASSUME NEW v \in Reviews, ReviewStep(v) PROVE PhaseStep(r)
  BY <1>1, <1>5 DEF ReviewStep, Aggregate, InvokeRejects, runVars
<1>6. ASSUME NEW q \in Runs, NEW i, NEW p, Sends(q, i, p) PROVE PhaseStep(r)
  <2>1. /\ UNCHANGED <<wakeAt, deadline, now>> /\ phase[q] = "reserving"
        /\ phase' = [phase EXCEPT ![q] = IF i = Len(calls[q]) THEN "collecting" ELSE "reserving"]
    BY <1>6 DEF Sends, Trying
  <2>2. phase'[r] \in {phase[r], "collecting"}
    BY <1>2, <2>1
  <2>3. QED
    BY <1>1, <2>1, <2>2 DEF PhaseStep
<1>7. ASSUME NEW q \in Runs, WaitForQuota(q) PROVE PhaseStep(r)
  <2>1. /\ phase' = [phase EXCEPT ![q] = "sleeping"] /\ UNCHANGED <<deadline, now>>
        /\ \E t : wakeAt' = [wakeAt EXCEPT ![q] = t]
    BY <1>7 DEF WaitForQuota
  <2>2. CASE r = q
    BY <1>2, <1>7, <2>1, <2>2 DEF PhaseStep
  <2>3. CASE r # q
    <3>1. phase'[r] = phase[r] /\ wakeAt'[r] = wakeAt[r]
      BY <1>2, <2>1, <2>3
    <3>2. QED
      BY <2>1, <3>1 DEF PhaseStep
  <2>4. QED
    BY <2>2, <2>3
<1>8. ASSUME NEW q \in Runs, GiveUp(q) PROVE PhaseStep(r)
  <2>1. phase' = [phase EXCEPT ![q] = "collecting"] /\ UNCHANGED <<deadline, wakeAt, now>>
    BY <1>8, GiveUpIs
  <2>2. phase'[r] \in {phase[r], "collecting"}
    BY <1>2, <2>1
  <2>3. QED
    BY <1>1, <2>1, <2>2 DEF PhaseStep
<1>9. ASSUME NEW q \in Runs, Wake(q) \/ ThrowIfAborted(q) PROVE PhaseStep(r)
  <2>1. UNCHANGED <<wakeAt, deadline, now>>
    BY <1>9 DEF Wake, ThrowIfAborted
  <2>2. \/ phase'[r] \in {phase[r], "rejected"}
        \/ phase[r] = "sleeping" /\ phase'[r] = "reserving"
    BY <1>2, <1>9 DEF Wake, ThrowIfAborted
  <2>3. QED
    BY <1>1, <2>1, <2>2 DEF PhaseStep
<1>10. ASSUME NEW q \in Runs, NEW i \in DOMAIN calls[q], CallFails(q, i) \/ CallAnswers(q, i)
       PROVE  PhaseStep(r)
  <2>1. Ends(q, i)
    BY <1>10, FailIs, AnswerIs
  <2>2. QED
    BY <1>1, <2>1 DEF Ends
<1>11. CASE Tick
  <2>1. UNCHANGED <<phase, wakeAt, deadline>>
    BY <1>11 DEF Tick, runVars
  <2>2. QED
    BY <1>11, <2>1 DEF PhaseStep
<1>12. CASE UNCHANGED vars
  BY <1>1, <1>12 DEF vars, runVars
<1>13. CASE Next
  <2>1. Steps
    BY <1>13, StepIs
  <2>2. QED
    BY <1>3, <1>4, <1>5, <1>6, <1>7, <1>8, <1>9, <1>10, <1>11, <2>1 DEF Steps
<1>14. QED
  BY <1>12, <1>13
---------------------------------------------------------------------------------
(* A key's answer is `Never` or a time to come, and it is now only on one  *)
(* with room.                                                              *)
LEMMA RetriesAre ==
  ASSUME FanInv, KeysInv, NEW r \in LlmRuns, NEW k \in DOMAIN calls[r],
         NEW tokens, tokens = calls[r][k].tokens
  PROVE  /\ \A p \in Candidates(tokens) :
              RetryOn(p, tokens) = Never \/ (RetryOn(p, tokens) \in Nat /\ RetryOn(p, tokens) >= now)
         /\ now \in Nat /\ RetryTimes(tokens) \in SUBSET Int /\ IsFiniteSet(RetryTimes(tokens))
<1>1. now \in Nat
  BY ConstantsAre DEF FanInv, Shapes
<1>2. tokens + OverheadTokens \in Nat
  BY CostAre, AmountsAre, RunsAre
<1>3. IsCost(Cost(tokens))
  BY <1>2 DEF Cost, IsCost, Fields
<1>4. ASSUME NEW p \in Candidates(tokens)
      PROVE  /\ RetryOn(p, tokens) = Never \/ (RetryOn(p, tokens) \in Nat /\ RetryOn(p, tokens) >= now)
  <2> DEFINE E == Prune(entries[p], now)
             cost == Cost(tokens)
             windows == Windows(Limits[p])
  <2>1. p \in Providers /\ IsLimits(Limits[p])
    BY FanOutAssumption DEF Candidates, IsLimits
  <2>2. WellFormed(E, now)
    <3>1. WellFormed(entries[p], now) /\ E \in SUBSET entries[p] /\ now \in Int
      BY <1>1, <2>1 DEF KeysInv, KeyInv, Prune
    <3>2. QED
      BY <3>1, StillWellFormed
  <2>3. \A w \in windows : IsWindow(w)
    BY <2>1, WindowsAre
  <2>4. IsCost(cost)
    BY <1>3
  <2> HIDE DEF E, cost, windows
  <2>5. CASE \E w \in windows : cost[w.field] > w.limit
    BY <2>5 DEF RetryOn, RetryAt, E, cost, windows
  <2>6. CASE ~\E w \in windows : cost[w.field] > w.limit
    <3>1. \A w \in windows : cost[w.field] <= w.limit
      BY <2>3, <2>4, <2>6 DEF IsWindow, IsCost
    <3>2. RetryAt(windows, E, cost, now) \in Nat /\ RetryAt(windows, E, cost, now) >= now
      BY <1>1, <2>2, <2>3, <2>4, <3>1, RetryIs
    <3>3. QED
      BY <3>2 DEF RetryOn, E, cost, windows
  <2>7. QED
    BY <2>5, <2>6
<1>5. IsFiniteSet(RetryTimes(tokens))
  <2> DEFINE f == [p \in Candidates(tokens) |-> RetryOn(p, tokens)]
             S == {RetryOn(p, tokens) : p \in Candidates(tokens)}
  <2>1. IsFiniteSet({"groq", "gemini"})
    <3>1. IsFiniteSet({"groq"} \cup {"gemini"})
      BY FS_Singleton, FS_Union
    <3>2. QED
      BY <3>1
  <2>2. IsFiniteSet(Candidates(tokens))
    BY <2>1, FS_Subset, FanOutAssumption DEF Candidates
  <2>3. f \in Surjection(Candidates(tokens), S)
    BY DEF Surjection
  <2> HIDE DEF f, S
  <2>4. IsFiniteSet(S)
    BY <2>2, <2>3, FS_Surjection
  <2>5. RetryTimes(tokens) \in SUBSET S
    BY DEF RetryTimes, S
  <2>6. QED
    BY <2>4, <2>5, FS_Subset
<1>6. RetryTimes(tokens) \in SUBSET Int
  BY <1>4 DEF RetryTimes
<1>7. QED
  BY <1>1, <1>4, <1>5, <1>6

(* A run that waits sleeps till a time to come that leaves MIN_CALL_MS.    *)
LEMMA WaitIs ==
  ASSUME FanInv, KeysInv, NEW r \in Runs, WaitForQuota(r)
  PROVE  /\ wakeAt'[r] \in Nat /\ wakeAt'[r] >= now /\ wakeAt'[r] <= deadline[r] - MinCallMs
         /\ deadline' = deadline /\ now' = now /\ now \in Nat
         /\ wakeAt' = [wakeAt EXCEPT ![r] = wakeAt'[r]]
<1> DEFINE tokens == calls[r][Next1(r)].tokens
           times == RetryTimes(tokens)
<1>1. /\ phase[r] = "reserving" /\ times # {} /\ Min(times) <= deadline[r] - MinCallMs
      /\ wakeAt' = [wakeAt EXCEPT ![r] = Min(times)] /\ deadline' = deadline /\ now' = now
  BY DEF WaitForQuota, Trying
<1>2. r \in LlmRuns /\ Next1(r) \in DOMAIN calls[r]
  BY <1>1, NextIs DEF FanInv, At
<1>3. tokens = calls[r][Next1(r)].tokens
  OBVIOUS
<1> HIDE DEF tokens
<1>4. /\ \A p \in Candidates(tokens) :
           RetryOn(p, tokens) = Never \/ (RetryOn(p, tokens) \in Nat /\ RetryOn(p, tokens) >= now)
      /\ now \in Nat /\ times \in SUBSET Int /\ IsFiniteSet(times)
  BY <1>2, <1>3, RetriesAre
<1>5. Min(times) \in times
  BY <1>1, <1>4, MinIsLeast
<1>6. \A t \in times : t \in Nat /\ t >= now
  BY <1>4 DEF RetryTimes
<1> HIDE DEF times
<1>7. wakeAt'[r] = Min(times)
  BY <1>1 DEF FanInv, Shapes
<1>8. QED
  BY <1>1, <1>4, <1>5, <1>6, <1>7
---------------------------------------------------------------------------------
(* A sleep ends in time for a call, but for the lateness of its timer.     *)
WakeInv ==
  /\ wakeAt \in [Runs -> Nat]
  /\ \A r \in Runs : phase[r] = "sleeping" =>
       wakeAt[r] <= deadline[r] - MinCallMs /\ now <= wakeAt[r] + LagMs

Safe == FanInv /\ KeysInv /\ WakeInv

(* Time passes in steps of their own.                                      *)
LEMMA NowStep == ASSUME FanInv, [Next]_vars PROVE now' = now \/ Tick
<1>1. CASE UNCHANGED vars
  BY <1>1 DEF vars
<1>2. CASE Next
  <2>1. Steps
    BY <1>2, StepIs
  <2>2. QED
    BY <2>1 DEF Steps, Starts, Abort, ReviewStep, Aggregate, InvokeRejects, Sends, WaitForQuota,
                GiveUp, Wake, ThrowIfAborted, CallFails, CallAnswers
<1>3. QED
  BY <1>1, <1>2

(* Every step keeps it.                                                    *)
LEMMA WakeStep == ASSUME Safe, FanInv', [Next]_vars PROVE WakeInv'
<1>1. /\ now \in Nat /\ LagMs \in Nat /\ MinCallMs \in Nat
      /\ wakeAt \in [Runs -> Nat] /\ deadline \in [Runs -> Nat]
  BY ConstantsAre DEF Safe, FanInv, Shapes, WakeInv
<1>2. ASSUME NEW r \in Runs
      PROVE  /\ wakeAt'[r] \in Nat
             /\ phase'[r] = "sleeping" =>
                  wakeAt'[r] <= deadline'[r] - MinCallMs /\ now' <= wakeAt'[r] + LagMs
  <2>1. PhaseStep(r) /\ wakeAt[r] \in Nat
    BY <1>1, PhasesStep DEF Safe
  <2>2. CASE WaitForQuota(r)
    <3>1. /\ wakeAt'[r] \in Nat /\ wakeAt'[r] >= now /\ wakeAt'[r] <= deadline[r] - MinCallMs
          /\ deadline' = deadline /\ now' = now
      BY <2>2, WaitIs DEF Safe
    <3>2. QED
      BY <1>1, <3>1
  <2>3. CASE phase'[r] = phase[r] /\ UNCHANGED <<wakeAt[r], deadline[r]>> /\ Tick
    <3>1. now' = now + 1 /\ (phase[r] = "sleeping" => now < wakeAt[r] + LagMs)
      BY <2>3 DEF Tick
    <3>2. QED
      BY <1>1, <2>1, <2>3, <3>1 DEF Safe, WakeInv
  <2>4. CASE phase'[r] = phase[r] /\ UNCHANGED <<wakeAt[r], deadline[r], now>>
    BY <2>1, <2>4 DEF Safe, WakeInv
  <2>5. CASE UNCHANGED wakeAt[r] /\ phase'[r] \in {"reserving", "collecting", "rejected"}
    BY <2>1, <2>5
  <2>6. QED
    BY <2>1, <2>2, <2>3, <2>4, <2>5 DEF PhaseStep
<1>3. wakeAt' = [r \in Runs |-> wakeAt'[r]]
  BY DEF FanInv, Shapes
<1>4. QED
  BY <1>2, <1>3 DEF WakeInv

(* Every reachable state has all three.                                    *)
LEMMA SafeAlways == Spec => []Safe
<1>1. Init => WakeInv
  BY ConstantsAre DEF Init, WakeInv, Runs
<1>2. FanInv /\ KeysInv /\ WakeInv /\ FanInv' /\ [Next]_vars => WakeInv'
  BY WakeStep DEF Safe
<1>3. Spec => [](FanInv /\ KeysInv /\ WakeInv)
  BY <1>1, <1>2, FanSafe, KeysSafe, PTL DEF Spec
<1>4. QED
  BY <1>3, PTL DEF Safe

(* Types: every call ends no sooner than it began, a batch that was not    *)
(* sent has no provider, a sleep has an end, and the entries of a key have *)
(* ids the key has given.                                                  *)
THEOREM FanOutTypeCorrect == Spec => []TypeOK
<1>1. Safe => TypeOK
  <2>1. SUFFICES ASSUME Safe PROVE TypeOK
    OBVIOUS
  <2>2. ASSUME NEW r \in Runs
        PROVE  /\ deadline[r] \in Nat /\ wakeAt[r] \in Nat
               /\ \A c \in Range(calls[r]) :
                    /\ c.state \in CallState /\ c.provider \in Providers \cup {None}
                    /\ c.state \in {"planned", "over_budget"} => c.provider = None
                    /\ c.until >= c.at
    <3>1. deadline[r] \in Nat /\ wakeAt[r] \in Nat
      BY <2>1 DEF Safe, FanInv, Shapes, WakeInv
    <3>2. ASSUME NEW c \in Range(calls[r])
          PROVE  /\ c.state \in CallState /\ c.provider \in Providers \cup {None}
                 /\ c.state \in {"planned", "over_budget"} => c.provider = None
                 /\ c.until >= c.at
      <4>1. PICK k \in DOMAIN calls[r] : c = calls[r][k]
        BY DEF Range
      <4>2. c \in Call /\ CallOK(r, c)
        BY <2>1, <4>1 DEF Safe, FanInv, Shapes, RunOK
      <4>3. QED
        BY <4>2 DEF Call, CallOK, Begun
    <3>3. QED
      BY <3>1, <3>2
  <2>3. \A p \in Providers : \A e \in entries[p] : e.tokens \in Nat /\ e.id \in 1..(nextId[p] - 1)
    BY <2>1 DEF Safe, KeysInv, KeyInv
  <2>4. QED
    BY <2>1, <2>2, <2>3 DEF TypeOK, Safe, FanInv, Shapes
<1>2. QED
  BY <1>1, SafeAlways, PTL
---------------------------------------------------------------------------------
(* The timers are prompter than the time a call is worth, and an agent's   *)
(* whole time is worth a call.                                             *)
TimeEnough == LagMs < MinCallMs /\ MinCallMs <= Max({AgentTimeoutMs, LlmTimeoutMs})

(* A run that still reserves, or waits, has time for a call.               *)
HasTime(r) ==
  phase[r] \in {"reserving", "sleeping"} => now <= deadline[r] - MinCallMs + LagMs

CallTimely(r, c) ==
  /\ c.state = "sent" => c.until <= deadline[r] /\ now <= c.until + LagMs
  /\ r \in LlmRuns /\ Begun(c) => c.until - c.at >= MinCallMs - LagMs

TimeInv ==
  \A r \in Runs : HasTime(r) /\ \A k \in DOMAIN calls[r] : CallTimely(r, calls[r][k])

(* Every step keeps it.                                                    *)
LEMMA TimeStep ==
  ASSUME TimeEnough, Safe, TimeInv, FanInv', [Next]_vars
  PROVE  TimeInv'
<1>1. /\ now \in Nat /\ LagMs \in Nat /\ MinCallMs \in Nat /\ AgentTimeoutMs \in Nat
      /\ wakeAt \in [Runs -> Nat] /\ deadline \in [Runs -> Nat] /\ deadline' \in [Runs -> Nat]
      /\ Max({AgentTimeoutMs, LlmTimeoutMs}) \in Nat
      /\ LagMs < MinCallMs /\ MinCallMs <= Max({AgentTimeoutMs, LlmTimeoutMs})
  BY ConstantsAre DEF TimeEnough, Safe, FanInv, Shapes, WakeInv
<1>2. ASSUME NEW r \in Runs PROVE HasTime(r)'
  <2>1. PhaseStep(r)
    BY PhasesStep DEF Safe
  <2>2. now' = now \/ now' = now + 1
    BY NowStep DEF Safe, Tick
  <2>3. CASE phase'[r] = phase[r] /\ UNCHANGED <<wakeAt[r], deadline[r], now>>
    BY <2>3 DEF TimeInv, HasTime
  <2>4. CASE phase'[r] = phase[r] /\ UNCHANGED <<wakeAt[r], deadline[r]>> /\ Tick
    <3>1. phase[r] # "reserving" /\ (phase[r] = "sleeping" => now < wakeAt[r] + LagMs)
          /\ now' = now + 1
      BY <2>4 DEF Tick
    <3>2. phase[r] = "sleeping" => wakeAt[r] <= deadline[r] - MinCallMs
      BY DEF Safe, WakeInv
    <3>3. QED
      BY <1>1, <2>4, <3>1, <3>2 DEF HasTime
  <2>5. CASE WaitForQuota(r)
    <3>1. wakeAt'[r] \in Nat /\ wakeAt'[r] >= now /\ wakeAt'[r] <= deadline[r] - MinCallMs
          /\ deadline' = deadline /\ now' = now
      BY <2>5, WaitIs DEF Safe
    <3>2. QED
      BY <1>1, <3>1 DEF HasTime
  <2>6. CASE /\ phase[r] = "sleeping" /\ phase'[r] = "reserving"
             /\ UNCHANGED <<wakeAt[r], deadline[r], now>>
    BY <2>6 DEF TimeInv, HasTime
  <2>7. CASE /\ phase'[r] = "reserving" /\ UNCHANGED <<wakeAt[r], now>>
             /\ deadline'[r] = now + Max({AgentTimeoutMs, LlmTimeoutMs})
    BY <1>1, <2>7 DEF HasTime
  <2>8. CASE phase'[r] \in {"collecting", "rejected"}
    BY <2>8 DEF HasTime
  <2>9. QED
    BY <2>1, <2>3, <2>4, <2>5, <2>6, <2>7, <2>8 DEF PhaseStep
<1>3. ASSUME NEW r \in Runs, NEW k \in DOMAIN calls'[r] PROVE CallTimely(r, calls[r][k])'
  <2> DEFINE d == calls'[r][k]
  <2>1. CallStep(r, k)
    BY <1>3, CallsStep DEF Safe
  <2>2. now' = now \/ Tick
    BY NowStep DEF Safe
  <2>3. CASE /\ k \in DOMAIN calls[r] /\ calls[r][k] \in Call /\ deadline'[r] = deadline[r]
             /\ d = calls[r][k] \/ Ended(calls[r][k], d)
    <3>1. CallTimely(r, calls[r][k])
      BY <2>3 DEF TimeInv
    <3>2. CASE d = calls[r][k] /\ now' = now
      BY <2>3, <3>1, <3>2 DEF CallTimely, Begun
    <3>3. CASE d = calls[r][k] /\ Tick
      <4>1. now' = now + 1 /\ (d.state = "sent" => now < d.until + LagMs)
        BY <2>3, <3>3 DEF Tick, Range
      <4>2. d.until \in Nat
        BY <2>3, <3>3 DEF Call
      <4>3. QED
        BY <1>1, <2>3, <3>1, <3>3, <4>1, <4>2 DEF CallTimely, Begun
    <3>4. CASE Ended(calls[r][k], d)
      <4>1. d.state # "sent" /\ Begun(calls[r][k]) /\ d.at = calls[r][k].at /\ d.until = calls[r][k].until
        BY <2>3, <3>4, EndedIs
      <4>2. QED
        BY <3>1, <4>1 DEF CallTimely, Begun
    <3>5. QED
      BY <2>2, <2>3, <3>2, <3>3, <3>4
  <2>4. CASE /\ k \in DOMAIN calls[r] /\ calls[r][k] \in Call /\ calls[r][k].state = "planned"
             /\ d = [calls[r][k] EXCEPT !.state = "over_budget"]
    <3>1. ~Begun(d)
      BY <2>4, DroppedIs
    <3>2. QED
      BY <3>1 DEF CallTimely, Begun
  <2>5. ASSUME NEW p, Sends(r, k, p), k \in DOMAIN calls[r], deadline'[r] = deadline[r],
               d.state = "sent", d.at = now, d.until = now + Max({1, deadline[r] - now})
        PROVE  CallTimely(r, calls[r][k])'
    <3>1. now <= deadline[r] - MinCallMs + LagMs /\ now' = now
      BY <2>5 DEF Sends, Trying, TimeInv, HasTime
    <3>2. deadline[r] - now \in Int /\ deadline[r] - now >= MinCallMs - LagMs
          /\ MinCallMs - LagMs >= 1 /\ deadline[r] \in Int
      BY <1>1, <3>1
    <3>3. Max({1, deadline[r] - now}) = deadline[r] - now
      <4>1. now \in Int /\ deadline[r] \in Int
        BY <1>1
      <4>2. Max({1, deadline[r] - now}) = IF 1 >= deadline[r] - now THEN 1 ELSE deadline[r] - now
        BY <4>1, LeftIs
      <4>3. QED
        BY <1>1, <3>2, <4>1, <4>2
    <3>4. d.until = deadline[r]
      BY <1>1, <2>5, <3>2, <3>3
    <3>5. QED
      BY <1>1, <2>5, <3>1, <3>2, <3>4 DEF CallTimely, Begun
  <2>6. CASE phase[r] = "idle" /\ d.state = "planned"
    BY <2>6 DEF CallTimely, Begun
  <2>7. CASE /\ r \notin LlmRuns /\ d.at = now /\ d.until = now + AgentTimeoutMs
             /\ deadline'[r] = d.until /\ now' = now
    BY <1>1, <2>7 DEF CallTimely
  <2>8. QED
    BY <2>1, <2>3, <2>4, <2>5, <2>6, <2>7 DEF CallStep
<1>4. QED
  BY <1>2, <1>3 DEF TimeInv

(* With timers that are late by less than MIN_CALL_MS, no run outlives its *)
(* deadline by more than one timer's lateness, and every call of an LLM    *)
(* agent is sent with MIN_CALL_MS left but for that lateness, whatever     *)
(* keys and other runs it waited for (llm-routing.ts reserveBatch,         *)
(* fan-out-node.ts runLlmAgent).                                           *)
THEOREM DeadlinesAreKept ==
  ASSUME TimeEnough
  PROVE  Spec => []CallsFitTheDeadline
<1>1. Init => TimeInv
  BY DEF Init, TimeInv, HasTime
<1>2. Safe /\ TimeInv /\ FanInv' /\ [Next]_vars => TimeInv'
  BY TimeStep
<1>3. Safe /\ TimeInv => CallsFitTheDeadline
  <2>1. SUFFICES ASSUME Safe, TimeInv PROVE CallsFitTheDeadline
    OBVIOUS
  <2>2. /\ now \in Nat /\ LagMs \in Nat /\ MinCallMs \in Nat /\ deadline \in [Runs -> Nat]
        /\ LagMs < MinCallMs
    BY <2>1, ConstantsAre DEF Safe, FanInv, Shapes, TimeEnough
  <2>3. ASSUME NEW r \in Runs, phase[r] \in {"reserving", "sleeping"} \/ "sent" \in States(r)
        PROVE  now <= deadline[r] + LagMs
    <3>1. CASE phase[r] \in {"reserving", "sleeping"}
      BY <2>1, <2>2, <3>1 DEF TimeInv, HasTime
    <3>2. CASE "sent" \in States(r)
      <4>1. PICK k \in DOMAIN calls[r] : calls[r][k].state = "sent"
        BY <3>2 DEF States, Range
      <4>2. calls[r][k] \in Call /\ CallTimely(r, calls[r][k])
        BY <2>1 DEF Safe, FanInv, Shapes, TimeInv
      <4>3. calls[r][k].until \in Nat
        BY <4>2 DEF Call
      <4>4. QED
        BY <2>2, <4>1, <4>2, <4>3 DEF CallTimely
    <3>3. QED
      BY <2>3, <3>1, <3>2
  <2>4. ASSUME NEW r \in LlmRuns, NEW c \in Range(calls[r]), c.state \in {"sent", "ok", "failed"}
        PROVE  c.until - c.at >= MinCallMs - LagMs
    <3>1. PICK k \in DOMAIN calls[r] : c = calls[r][k]
      BY DEF Range
    <3>2. QED
      BY <2>1, <2>4, <3>1, RunsAre DEF TimeInv, CallTimely, Begun
  <2>5. QED
    BY <2>3, <2>4 DEF CallsFitTheDeadline
<1>4. QED
  BY <1>1, <1>2, <1>3, SafeAlways, FanSafe, PTL DEF Spec
---------------------------------------------------------------------------------
(* The key has the entry that was pushed for the call.                     *)
Recorded(c) ==
  \E e \in entries[c.provider] :
    e.id = c.id /\ e.at = c.at /\ e.granted = c.tokens + OverheadTokens

LedgerInv ==
  \A r \in LlmRuns : \A k \in DOMAIN calls[r] :
    calls[r][k].state \in {"sent", "failed"} /\ now < calls[r][k].at + DayMs => Recorded(calls[r][k])

(* A step takes from a key only what has left the longest window, or what  *)
(* a settled call had reserved.                                            *)
LEMMA EntriesKept ==
  ASSUME Safe, NEW p \in Providers, KeyStep(p), NEW e \in entries[p],
         e.at > now - DayMs, e.id \notin Open(p) \ Open(p)'
  PROVE  e \in entries'[p]
<1>1. e \in Prune(entries[p], now)
  BY DEF Prune
<1>2. ASSUME NEW n \in Amounts, Reserved(p, n) \/ Charged(p, n) PROVE e \in entries'[p]
  <2>1. CASE Reserved(p, n)
    BY <1>1, <2>1 DEF Reserved
  <2>2. CASE Charged(p, n)
    BY <1>1, <2>2 DEF Charged, ChargeOn
  <2>3. QED
    BY <1>2, <2>1, <2>2
<1>3. ASSUME NEW id \in Open(p), NEW n \in Nat, Closed(p, id, n) PROVE e \in entries'[p]
  <2>1. e.id # id
    BY <1>3 DEF Closed
  <2>2. e \in ReleaseOn(p, id)
    BY <2>1 DEF ReleaseOn
  <2>3. e \in SettleOn(p, id, n)
    BY <2>1 DEF SettleOn
  <2>4. QED
    BY <1>3, <2>2, <2>3 DEF Closed
<1>4. CASE Ticked(p) \/ Same(p)
  BY <1>4 DEF Ticked, Same
<1>5. QED
  BY <1>2, <1>3, <1>4, SMTT(20) DEF KeyStep

(* Every step keeps it.                                                    *)
LEMMA LedgerStep ==
  ASSUME Safe, LedgerInv, FanInv', [Next]_vars
  PROVE  LedgerInv'
<1>1. /\ now \in Nat /\ now' \in Nat /\ now' >= now /\ DayMs \in Nat
  <2>1. now \in Nat /\ DayMs \in Nat
    BY WindowAssumption, ConstantsAre DEF Safe, FanInv, Shapes
  <2>2. now' = now \/ Tick
    BY NowStep DEF Safe
  <2>3. now' = now \/ now' = now + 1
    BY <2>2 DEF Tick
  <2>4. QED
    BY <2>1, <2>3
<1>2. SUFFICES ASSUME NEW r \in LlmRuns, NEW k \in DOMAIN calls'[r], NEW d, d = calls'[r][k],
                      d.state \in {"sent", "failed"}, now' < d.at + DayMs
               PROVE  \E e \in entries'[d.provider] :
                        e.id = d.id /\ e.at = d.at /\ e.granted = d.tokens + OverheadTokens
  <2>1. SUFFICES ASSUME NEW r \in LlmRuns, NEW k \in DOMAIN calls'[r],
                        calls'[r][k].state \in {"sent", "failed"}, now' < calls'[r][k].at + DayMs
                 PROVE  Recorded(calls[r][k])'
    BY DEF LedgerInv
  <2>2. QED
    BY <1>2, <2>1 DEF Recorded
<1>3. /\ r \in Runs /\ d \in Call /\ d.provider \in Providers
      /\ d.id \in 1..(nextId'[d.provider] - 1) /\ d.at \in Nat
  <2>1. r \in Runs /\ CallOK(r, calls[r][k])' /\ d \in Call
    BY <1>2, RunsAre DEF FanInv, Shapes, RunOK
  <2>2. QED
    BY <1>2, <2>1 DEF CallOK, Begun, Call
<1>4. d.id \in Open(d.provider)'
  <2>1. nextId'[d.provider] \in 1..(MaxId + 1)
    BY <1>3 DEF FanInv, Shapes
  <2>2. d.id \in 1..MaxId
    BY <1>3, <2>1, ConstantsAre
  <2>3. QED
    BY <1>2, <2>2 DEF Open
<1>5. CallStep(r, k)
  BY <1>3, CallsStep DEF Safe
<1>6. ASSUME k \in DOMAIN calls[r], calls[r][k] \in Call, d = calls[r][k] \/ Ended(calls[r][k], d)
      PROVE  \E e \in entries'[d.provider] :
               e.id = d.id /\ e.at = d.at /\ e.granted = d.tokens + OverheadTokens
  <2> DEFINE c == calls[r][k]
  <2>1. /\ c.state \in {"sent", "failed"} /\ c.provider = d.provider /\ c.id = d.id
        /\ c.at = d.at /\ c.tokens = d.tokens
    BY <1>2, <1>6, EndedIs DEF Ended
  <2>2. now < c.at + DayMs
    BY <1>1, <1>2, <1>3, <2>1
  <2>3. Recorded(c)
    BY <1>6, <2>1, <2>2 DEF LedgerInv
  <2> HIDE DEF c
  <2>4. PICK e \in entries[d.provider] :
          e.id = d.id /\ e.at = d.at /\ e.granted = d.tokens + OverheadTokens
    BY <2>1, <2>3 DEF Recorded
  <2>5. e.at > now - DayMs
    BY <1>1, <1>3, <2>1, <2>2, <2>4
  <2>6. KeyStep(d.provider)
    BY <1>3, KeysStep DEF Safe
  <2>7. e \in entries'[d.provider]
    BY <1>3, <1>4, <2>4, <2>5, <2>6, EntriesKept
  <2>8. QED
    BY <2>4, <2>7
<1>7. ASSUME NEW p, Sends(r, k, p), d.provider = p, d.id = nextId[p], d.at = now,
             d.tokens = calls[r][k].tokens
      PROVE  \E e \in entries'[d.provider] :
               e.id = d.id /\ e.at = d.at /\ e.granted = d.tokens + OverheadTokens
  <2> DEFINE spent == calls[r][k].tokens + OverheadTokens
             e == Pushed(p, spent, spent)
  <2>1. e \in entries'[p]
    BY <1>7 DEF Sends
  <2>2. e.id = d.id /\ e.at = d.at /\ e.granted = d.tokens + OverheadTokens
    BY <1>7 DEF Pushed
  <2> HIDE DEF e
  <2>3. QED
    BY <1>7, <2>1, <2>2
<1>8. CASE k \in DOMAIN calls[r] /\ calls[r][k] \in Call /\ d = [calls[r][k] EXCEPT !.state = "over_budget"]
  BY <1>2, <1>8 DEF Call
<1>9. QED
  BY <1>2, <1>5, <1>6, <1>7, <1>8 DEF CallStep

(* However the runs of all reviews reserve, fail, are aborted, answer and  *)
(* are charged: what a call may have spent counts on its key, with its     *)
(* whole estimate, as long as any window does, and no two calls share it   *)
(* (settleCall; quota-budget.ts settle, release, prune).                   *)
THEOREM UnansweredCallsAreCounted == Spec => []UnansweredCallsCount
<1>1. Init => LedgerInv
  BY RunsAre DEF Init, LedgerInv
<1>2. Safe /\ LedgerInv /\ FanInv' /\ [Next]_vars => LedgerInv'
  BY LedgerStep
<1>3. Safe /\ LedgerInv => UnansweredCallsCount
  <2>1. SUFFICES ASSUME Safe, LedgerInv, NEW r \in LlmRuns, NEW k \in DOMAIN calls[r],
                        NEW c, c = calls[r][k], c.state \in {"sent", "failed"}, now < c.at + DayMs
                 PROVE  /\ \E e \in entries[c.provider] :
                             e.id = c.id /\ e.at = c.at /\ e.tokens = c.tokens + OverheadTokens
                        /\ \A q \in LlmRuns : \A i \in DOMAIN calls[q] :
                             calls[q][i].provider = c.provider /\ calls[q][i].id = c.id
                               => <<q, i>> = <<r, k>>
    BY DEF UnansweredCallsCount
  <2>2. Begun(c) /\ c.provider \in Providers /\ FanInv
    <3>1. r \in Runs /\ CallOK(r, c) /\ Begun(c)
      BY <2>1, RunsAre DEF Safe, FanInv, RunOK, Begun
    <3>2. QED
      BY <2>1, <3>1 DEF CallOK, Safe
  <2>3. c.id \in Open(c.provider)
    BY <2>1, <2>2, OpenIs
  <2>4. PICK e \in entries[c.provider] :
          e.id = c.id /\ e.at = c.at /\ e.granted = c.tokens + OverheadTokens
    BY <2>1 DEF LedgerInv, Recorded
  <2>5. e.tokens = c.tokens + OverheadTokens
    BY <2>1, <2>2, <2>3, <2>4 DEF Safe, KeysInv, KeyInv
  <2>6. ASSUME NEW q \in LlmRuns, NEW i \in DOMAIN calls[q],
               calls[q][i].provider = c.provider, calls[q][i].id = c.id
        PROVE  <<q, i>> = <<r, k>>
    <3>1. CallOK(q, calls[q][i])
      BY <2>2, RunsAre DEF FanInv, RunOK
    <3>2. Begun(calls[q][i])
      BY <2>2, <2>6, <3>1, FanOutAssumption DEF CallOK
    <3>3. q = r /\ i = k
      BY <2>1, <2>2, <2>6, <3>2 DEF FanInv, IdsOfTheirOwn
    <3>4. QED
      BY <3>3
  <2>7. QED
    BY <2>4, <2>5, <2>6
<1>4. QED
  BY <1>1, <1>2, <1>3, SafeAlways, FanSafe, PTL DEF Spec
---------------------------------------------------------------------------------
(* The runs of a review with a report are in, and stay as they were.       *)
ReportInv ==
  \A v \in Reviews :
    report[v] \in {"completed", "partial", "failed"} => \A a \in Agents : RunDone(<<v, a>>)

ReportTrue == ReportInv /\ StatusTellsTheTruth

(* The states of a run that is in.                                         *)
LEMMA StatesAre ==
  ASSUME FanInv, NEW r \in Runs, RunDone(r)
  PROVE  States(r) \subseteq {"ok", "failed", "over_budget"}
<1>1. SUFFICES ASSUME NEW k \in DOMAIN calls[r]
               PROVE  calls[r][k].state \in {"ok", "failed", "over_budget"}
  BY DEF States, Range
<1>2. calls[r][k] \in Call /\ calls[r][k].state # "planned"
  BY DEF FanInv, Shapes, RunOK, RunDone
<1>3. calls[r][k].state # "sent"
  BY DEF RunDone, States, Range
<1>4. QED
  BY <1>2, <1>3 DEF Call, CallState

(* A report tells what the runs did when it was made.                      *)
LEMMA AggregateTells ==
  ASSUME FanInv, NEW v \in Reviews, Aggregate(v), NEW a \in Agents
  PROVE  /\ RunDone(<<v, a>>)
         /\ report'[v] = "completed" => States(<<v, a>>) \subseteq {"ok"}
         /\ report'[v] = "failed" => (Sent(<<v, a>>) => "failed" \in States(<<v, a>>))
<1> DEFINE r == <<v, a>>
<1>1. RunDone(r) /\ r \in Runs /\ r \in {v} \X Agents
  BY DEF Aggregate, Runs
<1>2. States(r) \subseteq {"ok", "failed", "over_budget"}
  BY <1>1, StatesAre
<1>3. report'[v] = DeriveStatus(v)
  BY DEF Aggregate, FanInv, Shapes
<1>4. ASSUME report'[v] = "completed" PROVE States(r) \subseteq {"ok"}
  <2>1. RunStatus(r) # "failed" /\ ~CutShort(r)
    BY <1>1, <1>3, <1>4 DEF DeriveStatus
  <2>2. "over_budget" \notin States(r)
    BY <2>1 DEF CutShort, Exhausted
  <2>3. "failed" \notin States(r)
    BY <2>1 DEF RunStatus, Sent
  <2>4. QED
    BY <1>2, <2>2, <2>3
<1>5. ASSUME report'[v] = "failed", Sent(r) PROVE "failed" \in States(r)
  <2>1. RunStatus(r) # "succeeded"
    BY <1>1, <1>3, <1>5 DEF DeriveStatus
  <2>2. QED
    BY <1>5, <2>1 DEF RunStatus
<1>6. QED
  BY <1>1, <1>4, <1>5

(* A run that is in does not change while its report is made or kept.      *)
LEMMA DoneKept ==
  ASSUME FanInv, [Next]_vars, NEW v \in Reviews, NEW a \in Agents, RunDone(<<v, a>>),
         report[v] # "none"
  PROVE  calls'[<<v, a>>] = calls[<<v, a>>] /\ phase'[<<v, a>>] = phase[<<v, a>>]
<1> DEFINE r == <<v, a>>
<1>1. /\ r \in Runs /\ phase[r] = "collecting" /\ r[1] = v
      /\ \A k \in DOMAIN calls[r] : calls[r][k].state # "sent"
  BY DEF Runs, RunDone, States, Range
<1> HIDE DEF r
<1>2. ASSUME NEW u \in Reviews, NEW batches, Starts(u, batches)
      PROVE  calls'[r] = calls[r] /\ phase'[r] = phase[r]
  <2>1. r[1] # u
    BY <1>1, <1>2 DEF Starts
  <2>2. QED
    BY <1>1, <1>2, <2>1, StartCalls
<1>3. ASSUME NEW u \in Reviews, Abort(u) PROVE calls'[r] = calls[r] /\ phase'[r] = phase[r]
  <2>1. report[u] = "none"
    BY <1>3, AbortIs
  <2>2. u # v
    BY <2>1
  <2>3. phase'[r] = phase[r]
    BY <1>1, <1>3, AbortIs
  <2>4. /\ DOMAIN calls'[r] = DOMAIN calls[r] /\ calls'[r] \in Seq(Call) /\ calls[r] \in Seq(Call)
        /\ \A k \in DOMAIN calls[r] : calls'[r][k] = calls[r][k]
    <3>1. calls' \in [Runs -> Seq(Call)] /\ DOMAIN calls'[r] = DOMAIN calls[r]
      BY <1>1, <1>3, AbortIs
    <3>2. calls \in [Runs -> Seq(Call)]
      BY DEF FanInv, Shapes
    <3>3. ASSUME NEW k \in DOMAIN calls[r] PROVE calls'[r][k] = calls[r][k]
      <4>1. IF r[1] = u /\ calls[r][k].state = "sent"
            THEN Ended(calls[r][k], calls'[r][k]) /\ calls'[r][k].state = "failed"
            ELSE calls'[r][k] = calls[r][k]
        BY <1>1, <1>3, AbortIs
      <4>2. QED
        BY <1>1, <4>1
    <3>4. QED
      BY <1>1, <3>1, <3>2, <3>3
  <2>5. calls'[r] = calls[r]
    <3>1. Len(calls'[r]) = Len(calls[r]) /\ \A k \in 1..Len(calls'[r]) : calls'[r][k] = calls[r][k]
      BY <2>4
    <3>2. QED
      BY <2>4, <3>1, SeqEqual
  <2>6. QED
    BY <2>3, <2>5
<1>4. ASSUME UNCHANGED <<calls, phase>> PROVE calls'[r] = calls[r] /\ phase'[r] = phase[r]
  BY <1>4
<1>5. ASSUME NEW q \in Runs, NEW i, NEW p, Sends(q, i, p)
      PROVE  calls'[r] = calls[r] /\ phase'[r] = phase[r]
  <2>1. q # r
    BY <1>1, <1>5 DEF Sends, Trying
  <2>2. QED
    BY <1>1, <1>5, <2>1 DEF Sends, FanInv, Shapes
<1>6. ASSUME NEW q \in Runs, WaitForQuota(q) \/ GiveUp(q) \/ Wake(q) \/ ThrowIfAborted(q)
      PROVE  calls'[r] = calls[r] /\ phase'[r] = phase[r]
  <2>1. q # r
    BY <1>1, <1>6 DEF WaitForQuota, GiveUp, Wake, ThrowIfAborted, Trying
  <2>2. QED
    BY <1>1, <1>6, <2>1 DEF WaitForQuota, GiveUp, Wake, ThrowIfAborted, FanInv, Shapes
<1>7. ASSUME NEW q \in Runs, NEW i \in DOMAIN calls[q], CallFails(q, i) \/ CallAnswers(q, i)
      PROVE  calls'[r] = calls[r] /\ phase'[r] = phase[r]
  <2>1. Ends(q, i)
    BY <1>7, FailIs, AnswerIs
  <2>2. q # r
    BY <1>1, <2>1 DEF Ends
  <2>3. QED
    BY <1>1, <2>1, <2>2, EndCalls DEF Ends
<1>8. CASE UNCHANGED vars
  BY <1>4, <1>8 DEF vars, runVars
<1>9. CASE Next
  <2>1. Steps
    BY <1>9, StepIs
  <2>2. ASSUME NEW u \in Reviews, ReviewStep(u) PROVE UNCHANGED <<calls, phase>>
    BY <2>2 DEF ReviewStep, Aggregate, InvokeRejects, runVars
  <2>3. Tick => UNCHANGED <<calls, phase>>
    BY DEF Tick, runVars
  <2>4. QED
    BY <1>2, <1>3, <1>4, <1>5, <1>6, <1>7, <2>1, <2>2, <2>3 DEF Steps, r
<1>10. QED
  BY <1>8, <1>9 DEF r

(* Every step keeps it.                                                    *)
LEMMA ReportStep == ASSUME FanInv, ReportTrue, [Next]_vars PROVE ReportTrue'
<1>1. ASSUME NEW v \in Reviews, NEW a \in Agents, report'[v] = report[v],
             report[v] \in {"completed", "partial", "failed"}
      PROVE  /\ RunDone(<<v, a>>)' /\ States(<<v, a>>)' = States(<<v, a>>)
  <2>1. RunDone(<<v, a>>) /\ report[v] # "none"
    BY <1>1 DEF ReportTrue, ReportInv
  <2>2. calls'[<<v, a>>] = calls[<<v, a>>] /\ phase'[<<v, a>>] = phase[<<v, a>>]
    BY <2>1, DoneKept
  <2>3. QED
    BY <2>1, <2>2 DEF RunDone, States
<1>2. ASSUME NEW v \in Reviews, report'[v] # report[v]
      PROVE  report'[v] = "rejected" \/ (Aggregate(v) /\ UNCHANGED <<calls, phase>>)
  <2>1. CASE UNCHANGED vars
    BY <1>2, <2>1 DEF vars
  <2>2. CASE Next
    <3>1. Steps
      BY <2>2, StepIs
    <3>2. PICK u \in Reviews : ReviewStep(u)
      BY <1>2, <3>1 DEF Steps, Starts, Abort, Sends, WaitForQuota, GiveUp, Wake, ThrowIfAborted,
                        CallFails, CallAnswers, Tick
    <3>3. u = v
      BY <1>2, <3>2 DEF ReviewStep, Aggregate, InvokeRejects, FanInv, Shapes
    <3>4. QED
      BY <3>2, <3>3 DEF ReviewStep, Aggregate, InvokeRejects, runVars, FanInv, Shapes
  <2>3. QED
    BY <2>1, <2>2
<1>3. ASSUME NEW v \in Reviews, NEW a \in Agents
      PROVE  /\ report'[v] \in {"completed", "partial", "failed"} => RunDone(<<v, a>>)'
             /\ report'[v] = "completed" => States(<<v, a>>)' \subseteq {"ok"}
             /\ report'[v] = "failed" => (Sent(<<v, a>>)' => "failed" \in States(<<v, a>>)')
  <2>1. CASE report'[v] = report[v] /\ report[v] \in {"completed", "partial", "failed"}
    <3>1. RunDone(<<v, a>>)' /\ States(<<v, a>>)' = States(<<v, a>>)
      BY <1>1, <2>1
    <3>2. Sent(<<v, a>>)' <=> Sent(<<v, a>>)
      BY <3>1 DEF Sent
    <3>3. /\ report[v] = "completed" => States(<<v, a>>) \subseteq {"ok"}
          /\ report[v] = "failed" => (Sent(<<v, a>>) => "failed" \in States(<<v, a>>))
      BY DEF ReportTrue, StatusTellsTheTruth
    <3>4. QED
      BY <2>1, <3>1, <3>2, <3>3
  <2>2. CASE report'[v] = report[v] /\ report[v] \notin {"completed", "partial", "failed"}
    BY <2>2
  <2>3. CASE report'[v] = "rejected"
    BY <2>3
  <2>4. CASE Aggregate(v) /\ UNCHANGED <<calls, phase>>
    <3>1. /\ RunDone(<<v, a>>)
          /\ report'[v] = "completed" => States(<<v, a>>) \subseteq {"ok"}
          /\ report'[v] = "failed" => (Sent(<<v, a>>) => "failed" \in States(<<v, a>>))
      BY <2>4, AggregateTells
    <3>2. /\ RunDone(<<v, a>>)' <=> RunDone(<<v, a>>)
          /\ States(<<v, a>>)' = States(<<v, a>>)
          /\ Sent(<<v, a>>)' <=> Sent(<<v, a>>)
      BY <2>4 DEF RunDone, Sent, States
    <3>3. QED
      BY <3>1, <3>2
  <2>5. QED
    BY <1>2, <2>1, <2>2, <2>3, <2>4
<1>4. ReportInv'
  BY <1>3 DEF ReportInv
<1>5. StatusTellsTheTruth'
  BY <1>3 DEF StatusTellsTheTruth
<1>6. QED
  BY <1>4, <1>5 DEF ReportTrue

(* The status of a review is the truth about its runs, when it is given    *)
(* and ever after: nothing was left out of a completed one, and no agent   *)
(* of a failed one had all its calls answered (aggregate's status).        *)
THEOREM StatusIsTrue == Spec => []StatusTellsTheTruth
<1>1. Init => ReportTrue
  BY DEF Init, ReportTrue, ReportInv, StatusTellsTheTruth
<1>2. FanInv /\ ReportTrue /\ [Next]_vars => ReportTrue'
  BY ReportStep
<1>3. ReportTrue => StatusTellsTheTruth
  BY DEF ReportTrue
<1>4. QED
  BY <1>1, <1>2, <1>3, FanSafe, PTL DEF Spec
---------------------------------------------------------------------------------
(* A key refuses, now and till a millisecond before it said to come back,  *)
(* because one of its windows is too full or too small.                    *)
LEMMA FullTillThen ==
  ASSUME FanInv, KeysInv, NEW r \in LlmRuns, NEW k \in DOMAIN calls[r],
         NEW tokens, tokens = calls[r][k].tokens, NEW p \in Candidates(tokens),
         NEW t \in Nat, t >= now,
         RetryOn(p, tokens) = Never \/ t <= RetryOn(p, tokens) - 2
  PROVE  \E w \in Windows(Limits[p]) :
           Used(w, entries[p], t) + Cost(tokens)[w.field] > w.limit
<1> DEFINE E == Prune(entries[p], now)
           cost == Cost(tokens)
           windows == Windows(Limits[p])
           at == RetryOn(p, tokens)
<1>1. now \in Nat
  BY ConstantsAre DEF FanInv, Shapes
<1>2. IsCost(cost)
  <2>1. tokens + OverheadTokens \in Nat
    BY CostAre, AmountsAre, RunsAre
  <2>2. QED
    BY <2>1 DEF Cost, IsCost, Fields
<1>3. p \in Providers /\ IsLimits(Limits[p]) /\ \A w \in windows : IsWindow(w)
  <2>1. p \in Providers /\ IsLimits(Limits[p])
    BY FanOutAssumption DEF Candidates, IsLimits
  <2>2. QED
    BY <2>1, WindowsAre
<1>4. WellFormed(entries[p], now) /\ E \in SUBSET entries[p]
  BY <1>3 DEF KeysInv, KeyInv, Prune
<1>5. WellFormed(E, now) /\ WellFormed(E, t) /\ WellFormed(entries[p], t)
  <2> HIDE DEF E
  <2>1. entries[p] \in SUBSET entries[p]
    OBVIOUS
  <2>2. QED
    BY <1>1, <1>4, <2>1, StillWellFormed
<1>6. ASSUME NEW w \in windows
      PROVE  /\ Used(w, E, t) = Used(w, entries[p], t) /\ Used(w, E, t) \in Nat
             /\ cost[w.field] \in Nat /\ w.limit \in Nat
             /\ Excess(w, E, cost, t) = Used(w, E, t) + cost[w.field] - w.limit
  <2>1. IsWindow(w)
    BY <1>3
  <2>2. InWindow(w, E, t) = InWindow(w, entries[p], t)
    <3>1. w.span \in Int /\ w.span <= DayMs /\ DayMs \in Int
      BY <2>1, WindowAssumption DEF IsWindow
    <3>2. \A e \in entries[p] : e.at \in Int /\ (e.at > t - w.span => e.at > now - DayMs)
      BY <1>1, <1>4, <3>1 DEF WellFormed
    <3>3. QED
      BY <3>2 DEF InWindow, Prune
  <2> HIDE DEF E, cost
  <2>3. QED
    BY <1>2, <1>5, <2>1, <2>2, UsedIs DEF Used
<1>7. at = RetryAt(windows, E, cost, now)
  BY DEF RetryOn
<1> HIDE DEF E, cost, windows, at
<1>8. CASE at = Never
  <2>1. \A m \in Nat : m # Never
    BY WindowAssumption
  <2>2. PICK w \in windows : cost[w.field] > w.limit
    <3>1. SUFFICES ASSUME \A w \in windows : ~(cost[w.field] > w.limit) PROVE FALSE
      OBVIOUS
    <3>2. \A w \in windows : cost[w.field] <= w.limit
      BY <1>6, <3>1
    <3>3. at \in Nat
      BY <1>1, <1>2, <1>3, <1>5, <1>7, <3>2, RetryIs
    <3>4. QED
      BY <1>8, <2>1, <3>3
  <2>3. Used(w, entries[p], t) + cost[w.field] > w.limit
    BY <1>6, <2>2
  <2>4. QED
    BY <2>3 DEF cost, windows
<1>9. CASE at # Never
  <2>1. at \in Nat
    <3>1. \A w \in windows : cost[w.field] <= w.limit
      BY <1>6, <1>7, <1>9 DEF RetryAt
    <3>2. QED
      BY <1>1, <1>2, <1>3, <1>5, <1>7, <3>1, RetryIs
  <2>2. t \in now..(at - 2)
    BY <1>1, <1>9, <2>1 DEF at
  <2>3. RetryAt(windows, E, cost, t) # t
    BY <1>1, <1>2, <1>3, <1>5, <1>7, <1>9, <2>2, RetryIsExact
  <2>4. PICK w \in windows : ~(cost[w.field] <= w.limit /\ Excess(w, E, cost, t) <= 0)
    BY <1>2, <1>3, <1>5, <2>3, RoomIs
  <2>5. Used(w, entries[p], t) + cost[w.field] > w.limit
    BY <1>6, <2>4
  <2>6. QED
    BY <2>5 DEF cost, windows
<1>10. QED
  BY <1>8, <1>9

(* A run gives up on a batch when none of the keys it may use will have    *)
(* room at any time that leaves MIN_CALL_MS (but for the millisecond that  *)
(* retryAt adds to a departure): reserveBatch's over_budget.               *)
THEOREM GivesUpForAReason == Spec => GivesUpOnlyWhenHopeless
<1> DEFINE Hopeless(r) ==
             \A p \in Candidates(calls[r][Next1(r)].tokens),
                t \in now..(deadline[r] - MinCallMs - 1) :
               LET cost == Cost(calls[r][Next1(r)].tokens)
               IN  \E w \in Windows(Limits[p]) :
                     Used(w, entries[p], t) + cost[w.field] > w.limit
           Reasons == \A r \in LlmRuns : phase[r] = "reserving" /\ Exhausted(r)' => Hopeless(r)
<1>1. ASSUME FanInv, [Next]_vars, NEW r \in LlmRuns, phase[r] = "reserving", Exhausted(r)'
      PROVE  GiveUp(r)
  <2>1. r \in Runs
    BY RunsAre
  <2>2. At(r, Next1(r))
    BY <1>1, <2>1, NextIs DEF FanInv
  <2>3. calls'[r] \in Seq(Call)
    BY <1>1, <2>1, FanStep DEF FanInv, Shapes
  <2>4. PICK k \in DOMAIN calls'[r] : calls'[r][k].state = "over_budget"
    <3>1. \E k \in DOMAIN calls'[r] : calls'[r][k].state = "over_budget"
      BY <1>1 DEF Exhausted, States, Range
    <3>2. QED
      BY <3>1
  <2>5. CallStep(r, k)
    BY <1>1, <2>1, CallsStep
  <2>6. k \in DOMAIN calls[r] => calls[r][k].state # "over_budget"
    <3>1. k \in DOMAIN calls[r] => k \in Int /\ Next1(r) \in Int
      BY <1>1, <2>1, <2>2 DEF FanInv, Shapes, At
    <3>2. QED
      BY <2>2, <3>1 DEF At, Begun
  <2>7. QED
    <3>1. CASE /\ k \in DOMAIN calls[r]
               /\ calls'[r][k] = calls[r][k] \/ Ended(calls[r][k], calls'[r][k])
      <4>1. calls[r][k] \in Call
        BY <1>1, <2>1, <3>1 DEF FanInv, Shapes
      <4>2. calls'[r][k].state \in {calls[r][k].state, "ok", "failed"}
        BY <3>1, <4>1, EndedIs
      <4>3. QED
        BY <2>4, <2>6, <3>1, <4>2
    <3>2. CASE calls'[r][k].state = "sent" \/ phase[r] = "idle"
      BY <1>1, <2>4, <3>2
    <3>3. CASE GiveUp(r)
      BY <3>3
    <3>4. QED
      BY <2>5, <3>1, <3>2, <3>3 DEF CallStep
<1>2. ASSUME FanInv, KeysInv, NEW r \in LlmRuns, GiveUp(r) PROVE Hopeless(r)
  <2> DEFINE tokens == calls[r][Next1(r)].tokens
             times == RetryTimes(tokens)
  <2>1. /\ phase[r] = "reserving" /\ Room(tokens) = {}
        /\ times # {} => Min(times) > deadline[r] - MinCallMs
    BY <1>2 DEF GiveUp, Trying
  <2>2. r \in Runs /\ Next1(r) \in DOMAIN calls[r]
    BY <1>2, <2>1, RunsAre, NextIs DEF FanInv, At
  <2>3. deadline[r] \in Nat /\ MinCallMs \in Nat
    BY <1>2, <2>2, ConstantsAre DEF FanInv, Shapes
  <2>4. SUFFICES ASSUME NEW p \in Candidates(tokens), NEW t \in now..(deadline[r] - MinCallMs - 1)
                 PROVE  \E w \in Windows(Limits[p]) :
                          Used(w, entries[p], t) + Cost(tokens)[w.field] > w.limit
    OBVIOUS
  <2>5. tokens = calls[r][Next1(r)].tokens
    OBVIOUS
  <2> HIDE DEF tokens
  <2>6. now \in Nat /\ times \in SUBSET Int /\ IsFiniteSet(times)
    BY <1>2, <2>2, <2>5, RetriesAre
  <2>7. RetryOn(p, tokens) = Never \/ RetryOn(p, tokens) > deadline[r] - MinCallMs
    <3>1. SUFFICES ASSUME RetryOn(p, tokens) # Never
                   PROVE  RetryOn(p, tokens) > deadline[r] - MinCallMs
      OBVIOUS
    <3>2. RetryOn(p, tokens) \in times
      BY <3>1 DEF RetryTimes
    <3> HIDE DEF times
    <3>3. Min(times) \in times /\ \A x \in times : Min(times) <= x
      BY <2>6, <3>2, MinIsLeast
    <3>4. Min(times) \in Int /\ RetryOn(p, tokens) \in Int /\ Min(times) <= RetryOn(p, tokens)
      BY <2>6, <3>2, <3>3
    <3>5. QED
      BY <2>1, <2>3, <3>2, <3>4
  <2>8. t \in Nat /\ t >= now /\ (RetryOn(p, tokens) = Never \/ t <= RetryOn(p, tokens) - 2)
    <3>1. RetryOn(p, tokens) = Never \/ RetryOn(p, tokens) \in Nat
      BY <1>2, <2>2, <2>5, RetriesAre
    <3>2. QED
      BY <2>3, <2>6, <2>7, <3>1
  <2>9. QED
    BY <1>2, <2>2, <2>5, <2>8, FullTillThen
<1>3. FanInv /\ KeysInv /\ [Next]_vars => [Reasons]_vars
  BY <1>1, <1>2
<1>4. QED
  BY <1>3, FanSafe, KeysSafe, PTL DEF Spec, GivesUpOnlyWhenHopeless
=================================================================================
