------------------------------ MODULE AgentService ------------------------------
(***************************************************************************)
(* An agent's process, LLM agent or Style Agent, as the orchestrator sees  *)
(* it: a batch of a review, and the health calls of GET /agents/health     *)
(* (routes/agents-health.ts, agent-kit app.ts), which it answers only      *)
(* while it does not scan.  The process may crash and is started again.    *)
(* The router caches the promise of a round of calls: a round is one       *)
(* record, and every request that finds it young enough awaits it.         *)
(***************************************************************************)
EXTENDS StyleSandbox

CONSTANTS
  HealthTimeoutMs, CacheMs,   \* timeoutMs and cacheMs of the router
  MaxRounds, MaxCrashes,      \* bounds on rounds in flight and on crashes
  LastPollAt                  \* no round begins later

ASSUME AgentServiceAssumption ==
  /\ {HealthTimeoutMs, CacheMs, MaxCrashes, LastPollAt} \subseteq Nat
  /\ MaxRounds \in Nat \ {0}
  /\ None \notin {"ok", "degraded", "unavailable"}

Slots == 1..MaxRounds

VARIABLES
  kind,      \* "llm" or "style"
  up,        \* the process runs
  crashes,
  rounds,    \* the cached round, and any other that is still in flight
  cached     \* the slot of the cached one

processVars == <<kind, up, crashes>>
reviewVars  == <<now, agentVars, callVars, sandboxVars>>
roundVars   == <<rounds, cached>>
serviceVars == <<reviewVars, processVars, roundVars>>

Probe  == {"none", "sent", "inspecting", "replied", "done"}
Status == {"ok", "degraded", "unavailable"}

(* age and heard: time since the round began, and since the agent spoke;   *)
(* trouble: the agent was deaf or the network broke in this round.         *)
Round == [age : 0..CacheMs, heard : 0..CacheMs, probe : Probe,
          status : Status \cup {None}, trouble : BOOLEAN]

(* No round is as good as one that is over and too old.                    *)
NoRound == [age |-> CacheMs, heard |-> 0, probe |-> "none", status |-> None, trouble |-> FALSE]

ServiceTypeOK ==
  /\ TypeOK /\ SandboxTypeOK
  /\ kind \in {"llm", "style"} /\ up \in BOOLEAN /\ crashes \in 0..MaxCrashes
  /\ rounds \in [Slots -> Round] /\ cached \in Slots
  /\ \A i \in Slots :
       rounds[i].status = None <=> rounds[i].probe \in {"none", "sent", "inspecting"}

ServiceInit ==
  /\ Init /\ SandboxInit
  /\ kind \in {"llm", "style"} /\ (kind = "style" => reserved = None /\ keys = {})
  /\ up = TRUE /\ crashes = 0
  /\ rounds = [i \in Slots |-> NoRound] /\ cached = 1

(* The agent's event loop is free to run a handler.                        *)
Free == up /\ phase # "scanning"

InFlight(round) == round.probe \notin {"none", "done"}

(* Mutant: the answer is cached, not the promise of it.                    *)
MNeedsPollWhileInFlight == InFlight(rounds[cached]) \/ rounds[cached].age >= CacheMs

NeedsPoll == rounds[cached].age >= CacheMs

(* GET /agents/health that finds no round or an old one; any other awaits  *)
(* the cached round and changes nothing.                                   *)
GetHealth ==
  /\ NeedsPoll /\ now <= LastPollAt
  /\ \E i \in Slots :
       /\ ~InFlight(rounds[i])
       /\ InFlight(rounds[cached]) \/ i = cached
       /\ rounds' = [rounds EXCEPT ![i] =
            [age |-> 0, heard |-> 0, probe |-> "sent", status |-> None, trouble |-> FALSE]]
       /\ cached' = i
  /\ UNCHANGED <<reviewVars, processVars>>

Becomes(i, round) == rounds' = [rounds EXCEPT ![i] = round] /\ UNCHANGED cached

(* Mutant: an agent without an LLM key counts as down.                     *)
MHealthOf == IF keys = {} THEN "unavailable" ELSE "ok"

(* checkHealth of an LLM agent.                                            *)
HealthOf == IF keys = {} THEN "degraded" ELSE "ok"

(* GET /healthz reaches the agent; the Style Agent asks docker first.      *)
HealthAsked(i) ==
  LET round == rounds[i]
  IN  /\ round.probe = "sent" /\ Free
      /\ Becomes(i, IF kind = "style" THEN [round EXCEPT !.probe = "inspecting"]
                    ELSE [round EXCEPT !.probe = "replied", !.status = HealthOf])
      /\ UNCHANGED <<reviewVars, processVars>>

(* `docker image inspect` ends, well or not.                               *)
Inspected(i) ==
  LET round == rounds[i]
  IN  /\ round.probe = "inspecting" /\ Free
      /\ \E ok \in BOOLEAN :
           Becomes(i, [round EXCEPT !.probe = "replied",
                                    !.status = IF ok THEN "ok" ELSE "unavailable",
                                    !.trouble = @ \/ ~ok])
      /\ UNCHANGED <<reviewVars, processVars>>

Unavailable(round) == [round EXCEPT !.probe = "done", !.status = "unavailable", !.heard = 0]

(* A body arrives, with a 200 or a 503; what is not one, or cannot be had, *)
(* is an agent that is unavailable.                                        *)
HealthAnswered(i) ==
  /\ rounds[i].probe = "replied"
  /\ Becomes(i, IF rounds[i].status = "unavailable" THEN Unavailable(rounds[i])
                ELSE [rounds[i] EXCEPT !.probe = "done", !.trouble = FALSE])
  /\ UNCHANGED <<reviewVars, processVars>>

HealthBreaks(i) ==
  /\ InFlight(rounds[i])
  /\ Becomes(i, Unavailable([rounds[i] EXCEPT !.trouble = TRUE]))
  /\ UNCHANGED <<reviewVars, processVars>>

HealthTimesOut(i) ==
  /\ InFlight(rounds[i]) /\ rounds[i].age >= HealthTimeoutMs
  /\ Becomes(i, Unavailable(rounds[i]))
  /\ UNCHANGED <<reviewVars, processVars>>

HealthStep ==
  \/ GetHealth
  \/ \E i \in Slots :
       HealthAsked(i) \/ Inspected(i) \/ HealthAnswered(i) \/ HealthBreaks(i) \/ HealthTimesOut(i)
---------------------------------------------------------------------------------
(* The process dies with all it knew of a request it has not answered, but *)
(* not its container, nor its directory.  A connection it holds breaks.    *)
(* On a signal it answers what it has and refuses the rest before it ends: *)
(* a call that breaks, and the end.                                        *)
AgentCrashes ==
  /\ up /\ crashes < MaxCrashes
  /\ up' = FALSE /\ crashes' = crashes + 1
  /\ IF phase \in {"answered", "refused"}
     THEN UNCHANGED <<agentVars, sandboxVars>>
     ELSE /\ phase' = "lost"
          /\ deadline' = 0 /\ left' = 0 /\ reached' = 0 /\ scanEnd' = 0 /\ stopped' = FALSE
          /\ asking' = None /\ askedAt' = 0 /\ until' = 0 /\ asked' = {} /\ error' = None
          /\ stage' = (IF stage = "none" THEN "none" ELSE "lost")
          /\ cmdUntil' = 0 /\ sandboxError' = None /\ kill' = "none"
          /\ UNCHANGED <<keys, reserved, usage, repliedAt, container, dir>>
  /\ rounds' = [i \in Slots |->
                  IF rounds[i].probe = "inspecting" THEN Unavailable([rounds[i] EXCEPT !.trouble = TRUE])
                  ELSE rounds[i]]
  /\ UNCHANGED <<now, callVars, kind, cached>>

AgentStarts ==
  /\ ~up /\ up' = TRUE
  /\ UNCHANGED <<reviewVars, kind, crashes, roundVars>>

(* A round, one moment later.                                              *)
Later(round) ==
  [round EXCEPT
    !.age = Min({@ + 1, CacheMs}),
    !.heard = IF round.probe = "replied" \/ (round.probe = "done" /\ round.status # "unavailable")
              THEN Min({@ + 1, CacheMs}) ELSE @,
    !.trouble = @ \/ (InFlight(round) /\ (~Free \/ round.probe = "inspecting"))]

(* What nobody awaits or can be told any more is forgotten.                *)
Aged(i) ==
  LET round == Later(rounds[i])
  IN  IF InFlight(round) \/ (i = cached /\ round.age < CacheMs) THEN round ELSE NoRound

ServiceTick ==
  /\ TimePasses /\ SandboxTime
  /\ \A i \in Slots :
       LET round == rounds[i]
       IN  /\ InFlight(round) => round.age < HealthTimeoutMs + LagMs
           /\ round.probe = "sent" /\ Free => round.age < TravelMs
           /\ round.probe = "replied" => round.heard < TravelMs
  /\ rounds' = [i \in Slots |-> Aged(i)]
  /\ UNCHANGED <<agentVars, callVars, sandboxVars, processVars, cached>>

ReviewStep ==
  /\ \/ up /\ Receive /\ UNCHANGED sandboxVars
     \/ kind = "llm" /\ LlmAgentStep /\ UNCHANGED sandboxVars
     \/ kind = "style" /\ StyleStep
     \/ CallStep /\ UNCHANGED sandboxVars
  /\ UNCHANGED <<processVars, roundVars>>

ServiceNext == ReviewStep \/ HealthStep \/ AgentCrashes \/ AgentStarts \/ ServiceTick

ServiceSpec == ServiceInit /\ [][ServiceNext]_serviceVars
---------------------------------------------------------------------------------
(* Requests for the agents' health share a round of calls                  *)
(* (agents-health.ts:26 "concurrent requests share one round of health     *)
(* calls") and are answered when it is over, which its own timeout sees to *)
(* even while an agent is deaf or its docker hangs.  What they are told    *)
(* from the cache is no older than cacheMs, and an agent is called         *)
(* unavailable only after a round in which it was deaf: it was down,       *)
(* scanned without a pause, waited for docker, or could not be reached.  A *)
(* missing LLM key is none of these (app.ts:101 "degraded, not down").     *)
HealthTellsTheTruth ==
  /\ \A i, j \in Slots : InFlight(rounds[i]) /\ InFlight(rounds[j]) => i = j
  /\ \A i \in Slots : InFlight(rounds[i]) => rounds[i].age <= HealthTimeoutMs + LagMs
  /\ ~NeedsPoll /\ ~InFlight(rounds[cached]) =>
       IF rounds[cached].status = "unavailable"
       THEN rounds[cached].trouble \/ 2 * TravelMs >= HealthTimeoutMs
       ELSE rounds[cached].heard < CacheMs
=================================================================================
