----------------------------- MODULE ReviewedFiles ------------------------------
(***************************************************************************)
(* Which files of a pull request are reviewed: the gateway's filter        *)
(* (webhooks/file-filter.ts), what the planner and the agents leave out    *)
(* (budget/plan.ts, graph/fan-out-node.ts, agent-kit review.ts), and what  *)
(* the report says of it (skipped-files.ts, coverage.ts).  A changed file  *)
(* is [path, status, generated, binary, patch, language, fate]; `patch` is *)
(* "none" or its size, `fate` what becomes of its LLM batch.               *)
(***************************************************************************)
EXTENDS Integers, Sequences, SequencesExt, FiniteSetsExt

Statuses  == {"added", "renamed", "removed"}
Patches   == {"none", "small", "large", "huge"}   \* large: over LLM_MAX_FILE_TOKENS
Languages == {"python", "unknown"}                \* huge: over an agent's maxFileTokens
Fates     == {"ok", "failed", "over_budget"}

(* CHANGE_TYPES: deleted files and pure renames have nothing to review.    *)
HasChange(f) == f.status # "removed" /\ (f.status = "renamed" => f.patch # "none")

GatewaySkip(f) ==
  IF f.generated THEN "generated_file"
  ELSE IF f.patch # "none" THEN "sent"
  ELSE IF f.binary THEN "binary" ELSE "too_large"

Skip(agent, f, reason) == [agent |-> agent, path |-> f.path, reason |-> reason]

GatewaySkips(changed) ==
  {Skip("gateway", f, GatewaySkip(f)) :
     f \in {g \in changed : HasChange(g) /\ GatewaySkip(g) # "sent"}}

Files(changed) == {f \in changed : HasChange(f) /\ GatewaySkip(f) = "sent"}
---------------------------------------------------------------------------------
(* The Security Agent: planned batches, each answered, failed or left for  *)
(* want of quota; it takes every language.                                 *)
SecurityFate(f) == IF f.patch \in {"large", "huge"} THEN "too_large" ELSE f.fate

SecurityStatus(files) ==
  LET fates == {SecurityFate(f) : f \in files}
  IN  IF fates \cap {"ok", "failed"} = {} THEN "skipped"
      ELSE IF "failed" \in fates THEN "failed" ELSE "succeeded"

(* Mutant: batches left for want of quota are not listed.                  *)
MSecuritySkipsPlanned(files) ==
  {Skip("security", f, SecurityFate(f)) : f \in {g \in files : SecurityFate(g) = "too_large"}}

SecuritySkips(files) ==
  {Skip("security", f, SecurityFate(f)) :
     f \in {g \in files : SecurityFate(g) \in {"too_large", "over_budget"}}}

(* The Style Agent: one request with every file, answered, failed, or      *)
(* answered at its deadline with nothing; runReview leaves out what it     *)
(* cannot take.                                                            *)
StyleFate(f, answer) ==
  IF f.language = "unknown" THEN "unsupported_language"
  ELSE IF f.patch = "huge" THEN "too_large"
  ELSE IF answer = "stopped" THEN "over_budget" ELSE answer

StyleStatus(answer) == IF answer = "failed" THEN "failed" ELSE "succeeded"

StyleSkips(files, answer) ==
  IF answer = "failed" THEN {}
  ELSE {Skip("style", f, StyleFate(f, answer)) : f \in {g \in files : StyleFate(g, answer) # "ok"}}

(* The fan-out runs the agents the request names; one without a client is  *)
(* skipped (agent_not_configured).                                         *)
RunStatuses(request, answer) ==
  [agent \in request.enabledAgents |->
     CASE agent = "security" -> SecurityStatus(request.files)
       [] agent = "style" -> StyleStatus(answer)
       [] OTHER -> "skipped"]

AllSkips(request, answer) ==
  request.skippedFiles
  \cup {s \in SecuritySkips(request.files) \cup StyleSkips(request.files, answer) :
          s.agent \in request.enabledAgents}
---------------------------------------------------------------------------------
Entry(path, reason, agents) == [path |-> path, reason |-> reason, agents |-> agents]

(* mergeSkippedFiles: one entry per path and reason of the gateway, and    *)
(* one per path and reason of the agents, naming them.                     *)
MergeSkippedFiles(skips) ==
  LET agentSkips == {s \in skips : s.agent # "gateway"}
  IN  {Entry(s.path, s.reason, {}) : s \in skips \ agentSkips}
      \cup {Entry(s.path, s.reason,
                  {t.agent : t \in {u \in agentSkips : u.path = s.path /\ u.reason = s.reason}}) :
             s \in agentSkips}

(* Mutant: any agent's run counts.                                         *)
MReviewedByAny(files, status, skips) ==
  {f \in files : \E a \in DOMAIN status : ~\E s \in skips : s.agent = a /\ s.path = f.path}

(* buildCoverage: the files some agent that succeeded did not skip.        *)
Reviewed(files, status, skips) ==
  {f \in files : \E a \in DOMAIN status :
     status[a] = "succeeded" /\ ~\E s \in skips : s.agent = a /\ s.path = f.path}

FilesTotal(changed) == Cardinality(Files(changed)) + Cardinality(GatewaySkips(changed))
=================================================================================
