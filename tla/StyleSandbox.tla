------------------------------ MODULE StyleSandbox ------------------------------
(***************************************************************************)
(* The Style Agent's part of a request (style-agent agent.ts, sandbox.ts): *)
(* the hunks are written to a directory of their own, a container formats  *)
(* them, and a deadline, a hang-up or the sandbox's own cap ends the       *)
(* docker client, which is followed by a `docker kill`.  The docker daemon *)
(* works on by itself: a container it was asked for starts, whatever has   *)
(* become of the client that asked.                                        *)
(***************************************************************************)
EXTENDS AgentReview

CONSTANTS
  SandboxMs,   \* timeoutMs of DockerSandbox
  KillMs       \* what `docker kill` may take

ASSUME StyleSandboxAssumption ==
  {SandboxMs, KillMs} \subseteq Nat /\ None \notin {"abort", "failed"}

VARIABLES
  stage,         \* how far run() is
  container,     \* "coming": asked for, but not there to be killed yet
  dir,           \* the directory exists
  cmdUntil,      \* when the docker command in flight is aborted
  sandboxError,  \* what run() throws, None when it returns
  kill           \* what became of `docker kill`

sandboxVars == <<stage, container, dir, cmdUntil, sandboxError, kill>>

(* What the sandbox leaves alone of the request.                           *)
requestVars == <<now, keys, reserved, deadline, left, reached, stopped, llmVars, callVars>>

SandboxTypeOK ==
  /\ stage \in {"none", "preparing", "running", "killing", "cleaning", "ended", "lost"}
  /\ container \in {"none", "coming", "running", "gone"}
  /\ dir \in BOOLEAN /\ cmdUntil \in Nat
  /\ sandboxError \in {None, "abort", "failed"} /\ kill \in {"none", "done", "missed", "failed"}
  /\ stage \in {"preparing", "running", "killing", "cleaning"} <=> phase = "sandboxed"
  /\ stage \in {"running", "killing"} => dir

SandboxInit ==
  /\ stage = "none" /\ container = "none" /\ dir = FALSE
  /\ cmdUntil = 0 /\ sandboxError = None /\ kill = "none"

(* analyze: no hunk has an added line, or the fragments go to the sandbox. *)
(* buildFragments does not yield.                                          *)
Analyze ==
  /\ phase = "scanning"
  /\ scanEnd' = now
  /\ \/ Reply(None) /\ UNCHANGED stage
     \/ phase' = "sandboxed" /\ stage' = "preparing" /\ UNCHANGED <<usage, repliedAt>>
  /\ UNCHANGED <<requestVars, container, dir, cmdUntil, sandboxError, kill>>

(* The files are written, and `docker run` begins: what took till now was  *)
(* deaf to the signal.                                                     *)
Prepared ==
  /\ stage = "preparing"
  /\ dir' = TRUE
  /\ stage' = "running" /\ cmdUntil' = now + SandboxMs
  /\ scanEnd' = now
  /\ UNCHANGED <<requestVars, phase, usage, repliedAt, container, sandboxError, kill>>

CleanUp(thrown) == stage' = "cleaning" /\ sandboxError' = thrown

(* mkdtemp or writeFile rejects, with or without a directory to remove.    *)
PrepareFails ==
  /\ stage = "preparing"
  /\ dir' \in BOOLEAN
  /\ CleanUp("failed") /\ scanEnd' = now
  /\ UNCHANGED <<requestVars, phase, usage, repliedAt, container, cmdUntil, kill>>

(* The docker client has asked for the container.                          *)
ContainerAsked ==
  /\ stage = "running" /\ container = "none"
  /\ container' = "coming"
  /\ UNCHANGED <<requestVars, phase, scanEnd, usage, repliedAt, stage, dir, cmdUntil, sandboxError, kill>>

(* The daemon's part: it starts what it was asked for, and removes it when *)
(* it has run (--rm).                                                      *)
ContainerMoves ==
  /\ \/ container = "coming" /\ container' = "running"
     \/ container = "running" /\ container' = "gone"
  /\ UNCHANGED <<requestVars, phase, scanEnd, usage, repliedAt, stage, dir, cmdUntil, sandboxError, kill>>

(* The client ends with the container, its output fit to be parsed or not. *)
RunEnds ==
  /\ stage = "running" /\ container = "gone"
  /\ \E thrown \in {None, "failed"} : CleanUp(thrown)
  /\ UNCHANGED <<requestVars, phase, scanEnd, usage, repliedAt, container, dir, cmdUntil, kill>>

(* The client fails by itself, with a container or without: no daemon, no  *)
(* image, more output than maxBuffer.                                      *)
RunFails ==
  /\ stage = "running"
  /\ CleanUp("failed")
  /\ UNCHANGED <<requestVars, phase, scanEnd, usage, repliedAt, container, dir, cmdUntil, kill>>

(* Mutant: an abort needs no kill.                                         *)
MAbortsWithoutKill ==
  /\ stage = "running"
  /\ now >= deadline \/ hungUp \/ now >= cmdUntil
  /\ CleanUp("abort")
  /\ UNCHANGED <<requestVars, phase, scanEnd, usage, repliedAt, container, dir, cmdUntil, kill>>

(* AbortSignal.any: the deadline, a hang-up, or the cap ends the client,   *)
(* and the container is to be killed by its name.                          *)
RunAborts ==
  /\ stage = "running"
  /\ now >= deadline \/ hungUp \/ now >= cmdUntil
  /\ stage' = "killing" /\ cmdUntil' = now + KillMs
  /\ sandboxError' = "abort"
  /\ UNCHANGED <<requestVars, phase, scanEnd, usage, repliedAt, container, dir, kill>>

(* `docker kill` finds the container running, finds none, or is no help    *)
(* within its time; an error is swallowed.                                 *)
Kill ==
  /\ stage = "killing"
  /\ \/ container = "running" /\ container' = "gone" /\ kill' = "done"
     \/ container # "running" /\ kill' = "missed" /\ UNCHANGED container
     \/ kill' = "failed" /\ UNCHANGED container
  /\ stage' = "cleaning"
  /\ UNCHANGED <<requestVars, phase, scanEnd, usage, repliedAt, dir, cmdUntil, sandboxError>>

(* `finally`, and the answer of analyze: findings, every file over_budget, *)
(* or a 503.  A directory that cannot be removed is an error as well.      *)
CleanedUp ==
  /\ stage = "cleaning"
  /\ stage' = "ended"
  /\ \E left_behind \in {FALSE, dir} :
       /\ dir' = left_behind
       /\ sandboxError' = IF left_behind THEN "failed" ELSE sandboxError
  /\ IF sandboxError' = "failed"
     THEN phase' = "refused" /\ repliedAt' = now /\ UNCHANGED usage
     ELSE Reply(None)
  /\ UNCHANGED <<requestVars, scanEnd, container, cmdUntil, kill>>

StyleStep ==
  \/ Analyze \/ Prepared \/ PrepareFails \/ ContainerAsked \/ ContainerMoves
  \/ RunEnds \/ RunFails \/ RunAborts \/ Kill \/ CleanedUp

(* Timers are at most LagMs late, and what `finally` does takes no time.   *)
SandboxTime ==
  /\ stage # "cleaning"
  /\ stage = "running" => now < cmdUntil + LagMs /\ now < deadline + Max({1, LagMs})
  /\ stage = "killing" => now < cmdUntil + LagMs
---------------------------------------------------------------------------------
(* A request's directory goes with it, and so does its container, unless   *)
(* docker itself failed or the kill did not find or stop it: whichever of  *)
(* deadline, hang-up and cap came first, and however far the container was *)
(* (sandbox.ts:55 "the container is removed afterwards and killed at the   *)
(* deadline").                                                             *)
NothingOutlivesTheRequest ==
  phase \in {"answered", "refused"} =>
    /\ dir => sandboxError = "failed"
    /\ container \in {"coming", "running"} =>
         sandboxError = "failed" \/ kill \in {"missed", "failed"}

(* What the kill has taken of the margin.                                  *)
KillTime ==
  IF kill = "none" /\ stage # "killing" THEN 0
  ELSE (IF phase = "sandboxed" THEN now ELSE repliedAt) - (cmdUntil - KillMs)

(* The margin does what it is for: an agent that is done with what cannot  *)
(* be interrupted by its deadline is never abandoned, however slow or      *)
(* broken its providers and its sandbox are, unless the sandbox's kill     *)
(* uses up the margin, so its findings or skips reach the review           *)
(* (defaults.ts:18 "so it has time to send what it has before the          *)
(* orchestrator abandons the call").                                       *)
PartialResultsArrive ==
  outcome = "timed_out" /\ 2 * TravelMs + Max({1, LagMs}) + KillTime < DeadlineMarginMs =>
    \/ phase \in {"scanning", "lost"} \/ stage = "preparing"
    \/ scanEnd > deadline
=================================================================================
