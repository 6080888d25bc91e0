---------------------------- MODULE SecurityFindings ----------------------------
(***************************************************************************)
(* The Security Agent's findings in one file: what its rules match         *)
(* (security-agent scan.ts), the LLM's answer made usable (llm-pass.ts),   *)
(* and the two merged (agent.ts).  A finding is [issue, from, to, fix]:    *)
(* `issue` is its CWE, or else its rule id, and a fix replaces the lines   *)
(* from..to.  Findings of different files never meet.                      *)
(***************************************************************************)
EXTENDS Arrays, SequencesExt, FiniteSetsExt

CONSTANTS DuplicateLines, MaxSpan   \* DUPLICATE_LINES, MAX_SPAN

ASSUME SpanAssumption == {DuplicateLines, MaxSpan} \subseteq Nat

Found(issue, from, to, fix) == [issue |-> issue, from |-> from, to |-> to, fix |-> fix]

(* scanFile: one finding per secret, and per rule, on each added line; the *)
(* matches [issue, line] come in line order.                               *)
RuleFindings(matches) ==
  [i \in DOMAIN matches |-> Found(matches[i].issue, matches[i].line, matches[i].line, FALSE)]

(* A range given backwards is one line, a long one is clipped.             *)
LastLine(item) == Min({Max({item.to, item.from}), item.from + MaxSpan})

(* Mutant: a fix needs its first line to be added.                         *)
MUsableFix(item, added) == item.code = "new" /\ item.from \in added

(* aiSuggestion: `code` is "new" unless it is blank, has a masked secret   *)
(* or changes nothing.                                                     *)
UsableFix(item, added) == item.code = "new" /\ item.from..LastLine(item) \subseteq added

(* The items of a well-formed answer that start on an added line.          *)
LlmFindings(answer, added) ==
  LET kept == Filter(answer, LAMBDA item : item.from \in added)
  IN  [i \in DOMAIN kept |->
         Found(kept[i].issue, kept[i].from, LastLine(kept[i]), UsableFix(kept[i], added))]

IsDuplicate(finding, rules) ==
  \E i \in DOMAIN rules :
    /\ rules[i].issue = finding.issue
    /\ rules[i].from - finding.from \in -DuplicateLines..DuplicateLines

(* Mutant: also a rule finding that has a fix takes another one.           *)
MAdopters(finding, rules) ==
  {i \in DOMAIN rules : /\ finding.fix
                        /\ rules[i].issue = finding.issue
                        /\ rules[i].from \in finding.from..finding.to}

(* The rule findings without a fix on a line this one's fix covers.        *)
Adopters(finding, rules) ==
  {i \in DOMAIN rules : /\ finding.fix /\ ~rules[i].fix
                        /\ rules[i].issue = finding.issue
                        /\ rules[i].from \in finding.from..finding.to}

(* adoptSuggestion: the first of them takes the fix, and its lines.        *)
AdoptSuggestion(finding, rules) ==
  LET adopters == Adopters(finding, rules)
  IN  [i \in DOMAIN rules |->
         IF i \in adopters /\ \A n \in adopters : i <= n THEN finding ELSE rules[i]]

MergeLlm(merged, finding) ==
  IF IsDuplicate(finding, merged.rules)
  THEN [merged EXCEPT !.rules = AdoptSuggestion(finding, @)]
  ELSE [merged EXCEPT !.extra = Append(@, finding)]

SecurityReport(matches, answer, added) ==
  LET merged == FoldLeft(MergeLlm, [rules |-> RuleFindings(matches), extra |-> <<>>],
                         LlmFindings(answer, added))
  IN  merged.rules \o merged.extra
=================================================================================
