------------------------------ MODULE ReviewInputs ------------------------------
(***************************************************************************)
(* The computations of a review, each over every small input: a request's  *)
(* files for the planner, agents' findings for the report, changed files   *)
(* for the filters, a file's edits, a hunk and all a formatter can make of *)
(* it, and rule matches with an LLM's answer.  An input grows by one       *)
(* element at a time.  Nothing reads two of these inputs together, so no   *)
(* state has two.                                                          *)
(***************************************************************************)
EXTENDS ReviewPlan, Aggregation, ReviewedFiles, Patches, StyleFixes, SecurityFindings,
        RepositorySettings

CONSTANTS
  Sizes, MaxRequest,                                                   \* planner
  FindingKeys, Confidences, Thresholds, MaxFindings,                   \* report
  MaxFiles,                                                            \* filters
  MaxEdits,                                                            \* patch
  Tokens, MaxTokens,                                                   \* formatter
  Issues, MaxLine, AddedLines, MaxMatches, MaxItems                    \* security

ASSUME InputsAssumption ==
  /\ Sizes \subseteq Nat /\ Confidences \cup Thresholds \subseteq Int /\ None \notin Thresholds
  /\ AddedLines \subseteq SUBSET Nat /\ MaxTokens \in Nat

VARIABLES
  request,   \* the files planLlmReview is given, each [tokens, source]
  raw,       \* state.rawFindings
  changed,   \* the pull request's files
  answer,    \* how the Style Agent's request ended
  settings,  \* the repository's
  edits,     \* what turns a file into the new one, line by line
  hunk,      \* a hunk's new side, each line [code, layout, added]
  formatted, \* the formatter's output for it, the wrapper cut off
  matches,   \* what the security rules match, in line order
  items,     \* the findings in the LLM's answer
  added      \* the file's added lines

formatVars   == <<hunk, formatted>>
securityVars == <<matches, items, added>>
vars == <<request, raw, changed, answer, settings, edits, formatVars, securityVars>>

Default == [override |-> None, organization |-> None, disabled |-> {}]

Init ==
  /\ request = <<>> /\ raw = <<>> /\ changed = {} /\ edits = <<>> /\ hunk = <<>> /\ formatted = <<>>
  /\ matches = <<>> /\ items = <<>> /\ added = {}
  /\ answer \in {"ok", "stopped", "failed"}
  /\ \/ settings \in [override : Thresholds \cup {None}, organization : Thresholds \cup {None}, disabled : {{}}]
     \/ \E agents \in SUBSET AgentKinds : settings = [Default EXCEPT !.disabled = agents]

(* At most one input has been begun, the one `mine`.                       *)
Only(mine) ==
  /\ request = <<>> \/ mine = "request"
  /\ raw = <<>> \/ mine = "raw"
  /\ changed = {} \/ mine = "changed"
  /\ edits = <<>> \/ mine = "edits"
  /\ hunk = <<>> \/ mine = "hunk"
  /\ added = {} \/ mine = "security"
  /\ answer = "ok" \/ mine = "changed"
  /\ settings.disabled = {} \/ mine = "changed"
  /\ [settings EXCEPT !.disabled = {}] = Default \/ mine = "raw"

Config == EffectiveConfig(settings)

AddRequestFile ==
  /\ Only("request") /\ Len(request) < MaxRequest
  /\ \E n \in Sizes, s \in BOOLEAN : request' = Append(request, [tokens |-> n, source |-> s])
  /\ UNCHANGED <<raw, changed, answer, settings, edits, formatVars, securityVars>>

AddFinding ==
  /\ Only("raw") /\ Len(raw) < (IF settings = Default THEN MaxFindings ELSE MaxFindings - 1)
  /\ \E finding \in Reportable(FindingKeys, Confidences) : raw' = Append(raw, finding)
  /\ UNCHANGED <<request, changed, answer, settings, edits, formatVars, securityVars>>

AddFile ==
  /\ Only("changed") /\ Cardinality(changed) < MaxFiles
  /\ Reviewable(Config)
  /\ "style" \in settings.disabled => answer = "ok"
  /\ \E s \in Statuses, g, b \in BOOLEAN, p \in Patches, l \in Languages, x \in Fates :
       /\ "style" \in settings.disabled => l = "python"
       /\ "security" \in settings.disabled => x = "ok"
       /\ changed' = changed \cup
         {[path |-> Cardinality(changed) + 1, status |-> s, generated |-> g, binary |-> b,
           patch |-> p, language |-> l, fate |-> x]}
  /\ UNCHANGED <<request, raw, answer, settings, edits, formatVars, securityVars>>

AddEdit ==
  /\ Only("edits") /\ Len(edits) < MaxEdits
  /\ \E e \in Edits : edits' = Append(edits, e)
  /\ UNCHANGED <<request, raw, changed, answer, settings, formatVars, securityVars>>

Code(text) == FlattenSeq([i \in DOMAIN text |-> text[i].code])

AddLine ==
  /\ Only("hunk") /\ formatted = <<>>
  /\ Len(hunk) < MaxTokens
  /\ \E n \in 0..(MaxTokens - Len(Code(hunk))) :
       \E code \in [1..n -> Tokens], layout \in {"own", "standard"}, plus \in BOOLEAN :
         hunk' = Append(hunk, [code |-> code, layout |-> layout, added |-> plus])
  /\ UNCHANGED <<request, raw, changed, answer, settings, edits, formatted, securityVars>>

(* A formatter keeps the fragment's tokens in their order, and chooses the *)
(* lines, the layout and at most one blank line.  A wrapper's brace gets a *)
(* line of its own, unless the block is empty.                             *)
Outputs(code, wrapper) ==
  LET last == Len(code)
      own == {i \in 1..(last - 1) : \/ i <= wrapper.unmatchedClose /\ code[i + 1] # "}"
                                    \/ i >= last - wrapper.unclosed /\ code[i] # "{"}
      Line(from, to) == [code |-> SubSeq(code, from, to), layout |-> "standard"]
      Broken(ends) == [k \in DOMAIN ends |-> Line(IF k = 1 THEN 1 ELSE ends[k - 1] + 1, ends[k])]
      texts == {Broken(Ascending(breaks \cup own \cup {last})) : breaks \in SUBSET (1..(last - 1))}
      blank == [code |-> <<>>, layout |-> "standard"]
  IN  texts \cup UNION {{InsertAt(text, k, blank) : k \in 2..Len(text)} : text \in texts}

Format ==
  /\ Code(hunk) # <<>> /\ formatted = <<>>
  /\ \E python \in BOOLEAN :
       \E wrapper \in {Wrapper(Code(hunk), python)} :
         \E output \in Outputs(Fragment(Code(hunk), wrapper), wrapper) :
           formatted' \in StripWrapper(output, wrapper)
  /\ UNCHANGED <<request, raw, changed, answer, settings, edits, hunk, securityVars>>

(* A patch with added lines, and the rules' matches on them.               *)
Patch ==
  /\ Only("security") /\ added = {}
  /\ added' \in AddedLines
  /\ UNCHANGED <<request, raw, changed, answer, settings, edits, formatVars, matches, items>>

AddMatch ==
  /\ items = <<>> /\ Len(matches) < MaxMatches
  /\ \E issue \in Issues, line \in added :
       /\ matches # <<>> => Last(matches).line <= line
       /\ matches' = Append(matches, [issue |-> issue, line |-> line])
  /\ UNCHANGED <<request, raw, changed, answer, settings, edits, formatVars, items, added>>

(* Whatever the model answers that fits the schema.                        *)
AddItem ==
  /\ added # {} /\ Len(items) < MaxItems
  /\ \E issue \in Issues, from, to \in 1..MaxLine, code \in {"new", "none"} :
       items' = Append(items, [issue |-> issue, from |-> from, to |-> to, code |-> code])
  /\ UNCHANGED <<request, raw, changed, answer, settings, edits, formatVars, matches, added>>

Next ==
  \/ AddRequestFile \/ AddFinding \/ AddFile \/ AddEdit \/ AddLine \/ Format
  \/ Patch \/ AddMatch \/ AddItem

Spec == Init /\ [][Next]_vars
---------------------------------------------------------------------------------
(* The planner.                                                            *)
Plan == PlanLlmReview(request)

Size(F) ==
  LET tokens == [i \in DOMAIN request |-> request[i].tokens]
  IN  MapThenSumSet(LAMBDA i : tokens[i], F)

Sent == UNION {b.files : b \in Range(Plan.batches)}

(* Each file is sent in exactly one batch, or skipped for a reason that is *)
(* true of it: nothing is reviewed twice, lost, or dropped while the       *)
(* review has room for it.  A batch's size is that of its files, and the   *)
(* review stays within its budget.  plan.ts:33 says "packed in that order  *)
(* into batches of at most `maxBatchTokens`"; the code keeps to that for   *)
(* batches of two files or more only: a file over the batch size that the  *)
(* file cap admits is a batch of its own and exceeds it, as some do here.  *)
EveryFileOnce ==
  request # <<>> =>
    LET plan == Plan
        Batches(i) == {b \in DOMAIN plan.batches : i \in plan.batches[b].files}
        Skips(i) == {s \in plan.skipped : s.path = i}
        sent == Size(Sent)
    IN  /\ \A i \in DOMAIN request :
             /\ Cardinality(Batches(i)) + Cardinality(Skips(i)) = 1
             /\ \A s \in Skips(i) :
                  IF request[i].tokens > MaxFileTokens THEN s.reason = "too_large"
                  ELSE s.reason = "over_budget" /\ sent + request[i].tokens > ReviewMaxTokens
        /\ \A b \in Range(plan.batches) :
             /\ b.tokens = Size(b.files)
             /\ b.tokens > MaxBatchTokens => Cardinality(b.files) = 1
        /\ sent <= ReviewMaxTokens

(* "so the review budget covers as many real files as possible"            *)
(* (plan.ts): no choice of files within the budget has more source files   *)
(* than the plan, and none with as many source files has more files.       *)
CoversMost ==
  request # <<>> =>
    LET sent == Sent
        eligible == {i \in DOMAIN request : request[i].tokens <= MaxFileTokens}
        Sources(F) == Cardinality({i \in F : request[i].source})
    IN  \A F \in SUBSET eligible :
          Size(F) <= ReviewMaxTokens =>
            \/ Sources(F) < Sources(sent)
            \/ Sources(F) = Sources(sent) /\ Cardinality(F) <= Cardinality(sent)
---------------------------------------------------------------------------------
(* The report.                                                             *)
OfKey(k) == {i \in DOMAIN raw : raw[i].key = k}

(* Merging duplicates loses and invents nothing: each issue is in the      *)
(* report once, as the first of its most confident reports, and the        *)
(* duplicate counts add up to what the agents sent (FR-ORC-03).            *)
DedupeKeepsTheBest ==
  raw # <<>> =>
    LET report == Findings(raw)
    IN  /\ \A k \in FindingKeys :
             Cardinality({i \in DOMAIN report : report[i].finding.key = k})
               = IF OfKey(k) = {} THEN 0 ELSE 1
        /\ \A f \in Range(report) :
             LET same == OfKey(f.finding.key)
                 best == {i \in same : \A n \in same : raw[n].confidence <= raw[i].confidence}
             IN  f.finding = raw[Min(best)] /\ f.duplicateCount = Cardinality(same)

(* Whether an issue is shown depends only on how sure the surest agent is  *)
(* and on the threshold its repository chose, were it zero: a less         *)
(* confident duplicate never hides it, whichever comes first (dedupe in    *)
(* the orchestrator before the threshold in the gateway).  The Check Run   *)
(* counts it either in its title or among the hidden ones, and the report  *)
(* names the threshold that was used.                                      *)
ShownIffSomeAgentIsSure ==
  raw # <<>> =>
    LET chosen == Filter(<<settings.override, settings.organization, PlatformThreshold>>,
                            LAMBDA t : t # None)
        threshold == Head(chosen)
        output == CheckRunOutput(raw, Config.confidenceThreshold)
        known == {raw[i].key : i \in DOMAIN raw}
        sure  == {raw[i].key : i \in {n \in DOMAIN raw : raw[n].confidence >= threshold}}
    IN  /\ {f.finding.key : f \in Range(output.annotations)} = sure
        /\ MapThenSumSet(LAMBDA s : output.title[s], Severities) = Cardinality(sure)
        /\ output.hidden = Cardinality(known \ sure)
        /\ ReportedThreshold(BuildReviewJobRequest(Config, {}, {})) = threshold

(* The comment limit takes the least severe: no finding left out is worse  *)
(* than one that is posted ("highest ranked first"), the note counts       *)
(* exactly those left out, and "see the annotations" finds each of them in *)
(* one of the requests that complete the Check Run, none too long.         *)
WorstArePosted ==
  LET threshold == Config.confidenceThreshold
      posted == ReviewComments(raw, threshold)
      left   == Range(Eligible(raw, threshold)) \ Range(posted)
      requests == CompletionRequests(CheckRunOutput(raw, threshold).annotations)
  IN  /\ \A p \in Range(posted), l \in left :
           /\ Weight[p.finding.severity] >= Weight[l.finding.severity]
           /\ p.finding.severity = l.finding.severity
                => p.finding.confidence >= l.finding.confidence
      /\ Cardinality(left) = DroppedComments(raw, threshold)
      /\ left \subseteq Range(FlattenSeq(requests))
      /\ requests # <<>> /\ \A n \in Range(requests) : Len(n) <= AnnotationsPerRequest

(* The report accounts for every changed file of the pull request, over    *)
(* five independently written filters: one that counts as reviewed was     *)
(* answered for by an agent that took it; one that does not is listed as   *)
(* skipped by the gateway or by every agent that succeeded; and the total  *)
(* of the coverage counts each once.                                       *)
UnreviewedIsExplained ==
  LET job == BuildReviewJobRequest(Config, Files(changed), GatewaySkips(changed))
      status == RunStatuses(job, answer)
      skips == AllSkips(job, answer)
      entries == MergeSkippedFiles(skips)
      counted == Reviewed(job.files, status, skips)
      done == {a \in DOMAIN status : status[a] = "succeeded"}
      Named(f) == UNION {e.agents : e \in {x \in entries : x.path = f.path}}
  IN  /\ FilesTotal(changed) = Cardinality({f \in changed : HasChange(f)})
      /\ \A f \in changed :
           IF f \in counted
           THEN \/ "security" \in job.enabledAgents /\ SecurityFate(f) = "ok"
                \/ "style" \in job.enabledAgents /\ StyleFate(f, answer) = "ok"
           ELSE \/ ~HasChange(f)
                \/ \E e \in entries : e.path = f.path /\ e.agents = {}
                \/ f \in Files(changed) /\ done \subseteq Named(f)

---------------------------------------------------------------------------------
(* The patches.                                                            *)

(* The lines an agent reports on are the new file's: whatever was removed  *)
(* before or between them, and however the patch is framed, the lines      *)
(* parsePatch takes for added are those the pull request adds, and the     *)
(* lines of a hunk are consecutive.                                        *)
AddedLinesAreTheChange ==
  edits # <<>> =>
    LET marker == [kind |-> "marker", start |-> 0]
        blank == [kind |-> "blank", start |-> 0]
        forms == [stripped : BOOLEAN, preamble : {<<>>, <<marker>>},
                  trailer : {<<>>, <<blank>>, <<marker>>}]
    IN  \A form \in forms :
          LET hunks == ParsePatch(Diff(edits, form))
          IN  /\ {x.line : x \in {y \in Range(FlattenSeq(hunks)) : y.added}}
                   = {NewLine(edits, i) : i \in {n \in DOMAIN edits : edits[n] = "add"}}
              /\ \A k \in DOMAIN hunks : \A i \in DOMAIN hunks[k] :
                   hunks[k][i].line = hunks[k][1].line + i - 1
---------------------------------------------------------------------------------
(* The fixes.                                                              *)

(* The blocks are the whole difference: every block replaces a line ("so   *)
(* every block replaces at least one line"), and what no block touches is  *)
(* the same in both texts, in the same order (changedBlocks).              *)
BlocksAreTheDifference ==
  formatted # <<>> =>
    LET blocks == Range(ChangedBlocks(Text(hunk), formatted))
        old == {i \in DOMAIN hunk : \A x \in blocks : i \notin Lines(x)}
        new == {j \in DOMAIN formatted :
                  \A x \in blocks : j \notin x.bStart..(x.bEnd - 1)}
    IN  /\ \A x \in blocks : Lines(x) # {} /\ Lines(x) \subseteq DOMAIN hunk
        /\ ElementsAt(Text(hunk), old) = ElementsAt(formatted, new)

(* What a linter says of a fragment's line, once or twice, is one finding  *)
(* on the hunk's line that was written there, if the pull request added    *)
(* it, and none anywhere else or for a line of the wrapper.                *)
DiagnosticsHitTheirLine ==
  \A python \in BOOLEAN :
    LET wrapper == Wrapper(Code(hunk), python)
        fragment == [n \in 1..wrapper.unmatchedClose |-> 0] \o [i \in DOMAIN hunk |-> i]
                    \o [n \in 1..wrapper.unclosed |-> 0]
        Complaint(n) == [line |-> n, rule |-> "rule"]
    IN  \A n \in DOMAIN fragment :
          LintFindings(hunk, wrapper, <<Complaint(n), Complaint(n)>>)
            = IF fragment[n] # 0 /\ hunk[fragment[n]].added THEN <<Complaint(fragment[n])>> ELSE <<>>

(* "reformatting of unchanged lines is not this PR's business": a fix      *)
(* replaces added lines only, and still every added line the formatter     *)
(* changes is in a fix or in the finding without one (formatFindings).     *)
(* What fixes are cut from is the hunk's code, without any of the wrapper  *)
(* that made it parse, and the linter's findings keep to the added lines.  *)
FixesKeepToThePullRequest ==
  /\ hunk # <<>> /\ formatted = <<>> => DiagnosticsHitTheirLine
  /\ formatted # <<>> =>
       LET fixes == Range(Fixes(hunk, formatted))
           unfixed == TouchesContext(hunk, formatted)
       IN  /\ Code(formatted) = Code(hunk)
           /\ \A x \in fixes : \A i \in Lines(x) : hunk[i].added
           /\ Text(hunk) # formatted =>
                \A x \in Range(ChangedBlocks(Text(hunk), formatted)) : \A i \in Lines(x) :
                  hunk[i].added => (\E y \in fixes : i \in Lines(y)) \/ i \in unfixed

(* findings.ts:56 "the fix below is deterministic and safe to apply": a    *)
(* fix applied on its own leaves the code's tokens as they were (asked of  *)
(* hunks of added lines, no blank ones among them).                        *)
FixesKeepTheCode ==
  /\ formatted # <<>> /\ \A j \in DOMAIN formatted : formatted[j].code # <<>>
  /\ \A i \in DOMAIN hunk : hunk[i].added /\ hunk[i].code # <<>>
  => \A x \in Range(Fixes(hunk, formatted)) :
    Code(SubSeq(Text(hunk), x.aStart, x.aEnd - 1)) = Code(SubSeq(formatted, x.bStart, x.bEnd - 1))
---------------------------------------------------------------------------------
(* The Security Agent.                                                     *)
Report == SecurityReport(matches, items, added)

(* Merging the LLM's findings never moves a rule's finding off the line it *)
(* was found on, no fix replaces a line the pull request did not add, and  *)
(* an LLM finding is left out only for a rule finding of the same issue    *)
(* (adoptSuggestion, aiSuggestion: "never unchanged code").                *)
FixesCoverTheirIssue ==
  LET report == Report
  IN  /\ \A i \in DOMAIN matches :
           /\ report[i].issue = matches[i].issue
           /\ matches[i].line \in report[i].from..report[i].to
      /\ \A f \in Range(report) : f.fix => f.from..f.to \subseteq added
      /\ \A f \in Range(LlmFindings(items, added)) :
           f \in Range(report) \/ \E i \in DOMAIN matches : matches[i].issue = f.issue

(* agent.ts:13 "True when a rule already reported this issue: same file,   *)
(* same CWE (or rule id), within a few lines": what is left out is within  *)
(* DUPLICATE_LINES of a line on which a rule found that issue.             *)
DroppedOnlyNearARule ==
  LET report == Report
  IN  \A f \in Range(LlmFindings(items, added)) :
        f \in Range(report)
        \/ \E i \in DOMAIN matches :
             /\ matches[i].issue = f.issue
             /\ matches[i].line - f.from \in -DuplicateLines..DuplicateLines
=================================================================================
