------------------------------ MODULE Aggregation -------------------------------
(***************************************************************************)
(* What becomes of the agents' findings: dedupe and rank                   *)
(* (aggregation/finding-aggregator.ts, severity-ranker.ts) and what the    *)
(* gateway shows of the report (github/review-output.ts).  A finding is    *)
(* [key, severity, confidence, inline]: `key` stands for file, lines and   *)
(* rule, `inline` for carrying a fix or coming from an agent that is       *)
(* posted inline anyway.                                                   *)
(***************************************************************************)
EXTENDS Arrays, SequencesExt, FiniteSetsExt

CONSTANTS MaxReviewComments,       \* MAX_REVIEW_COMMENTS
          AnnotationsPerRequest    \* ANNOTATIONS_PER_REQUEST

ASSUME AggregationAssumption ==
  MaxReviewComments \in Nat /\ AnnotationsPerRequest \in Nat \ {0}

Severities == {"critical", "warning", "info"}

(* What an agent may report.                                               *)
Reportable(keys, confidences) ==
  [key : keys, severity : Severities, confidence : confidences, inline : BOOLEAN]

Weight == [critical |-> 3, warning |-> 2, info |-> 1]

(* Mutants: the later finding wins a tie; the first one is always kept.    *)
MBetterLater(existing, finding) ==
  IF existing.confidence > finding.confidence THEN existing ELSE finding

MBetterFirst(existing, finding) == existing

Better(existing, finding) ==
  IF existing.confidence >= finding.confidence THEN existing ELSE finding

(* A Map keeps the place of the first finding of a key.                    *)
Merge(kept, finding) ==
  LET same == {i \in DOMAIN kept : kept[i].finding.key = finding.key}
  IN  IF same = {} THEN Append(kept, [finding |-> finding, duplicateCount |-> 1])
      ELSE LET i == CHOOSE n \in same : TRUE
           IN  [kept EXCEPT ![i] = [finding |-> Better(@.finding, finding),
                                    duplicateCount |-> @.duplicateCount + 1]]

Dedupe(raw) == FoldLeft(Merge, <<>>, raw)

(* Array.prototype.sort is stable: equal findings keep their order.        *)
Above(list, a, b) ==
  LET x == list[a].finding
      y == list[b].finding
  IN  \/ Weight[x.severity] > Weight[y.severity]
      \/ /\ x.severity = y.severity
         /\ \/ x.confidence > y.confidence
            \/ x.confidence = y.confidence /\ a < b

(* Mutant: confidence before severity.                                     *)
MRankByConfidence(list) ==
  LET order == Sort(DOMAIN list, LAMBDA a, b :
                 \/ list[a].finding.confidence > list[b].finding.confidence
                 \/ list[a].finding.confidence = list[b].finding.confidence /\ a < b)
  IN  [i \in DOMAIN order |-> list[order[i]]]

Rank(list) ==
  LET order == Sort(DOMAIN list, LAMBDA a, b : Above(list, a, b))
  IN  [i \in DOMAIN order |-> list[order[i]]]

Findings(raw) == Rank(Dedupe(raw))

(* The gateway's side: what clears the threshold, and is posted inline.    *)
Postable(raw, threshold) ==
  Filter(Findings(raw), LAMBDA f : f.finding.confidence >= threshold)

Eligible(raw, threshold) == Filter(Postable(raw, threshold), LAMBDA f : f.finding.inline)

ReviewComments(raw, threshold) ==
  LET all == Eligible(raw, threshold)
  IN  SubSeq(all, 1, Min({Len(all), MaxReviewComments}))

DroppedComments(raw, threshold) ==
  Max({0, Len(Eligible(raw, threshold)) - MaxReviewComments})

(* buildReviewSummary's counts, which the Check Run's title repeats of the *)
(* findings it shows.                                                      *)
Summary(list) ==
  [s \in Severities |-> Cardinality({i \in DOMAIN list : list[i].finding.severity = s})]

(* Mutant: the comments are the annotations.                               *)
MCheckRunOutput(raw, threshold) ==
  LET shown == ReviewComments(raw, threshold)
  IN  [title |-> Summary(shown), hidden |-> Len(Findings(raw)) - Len(shown), annotations |-> shown]

(* checkRunOutput: every finding over the threshold is an annotation, the  *)
(* others are counted.                                                     *)
CheckRunOutput(raw, threshold) ==
  LET shown == Postable(raw, threshold)
  IN  [title |-> Summary(shown), hidden |-> Len(Findings(raw)) - Len(shown), annotations |-> shown]

(* completeCheckRun: the annotations of each request it takes.             *)
CompletionRequests(annotations) ==
  LET Chunk(k) == SubSeq(annotations, (k - 1) * AnnotationsPerRequest + 1,
                         Min({k * AnnotationsPerRequest, Len(annotations)}))
      chunks == (Len(annotations) + AnnotationsPerRequest - 1) \div AnnotationsPerRequest
  IN  IF annotations = <<>> THEN <<<<>>>> ELSE [k \in 1..chunks |-> Chunk(k)]
=================================================================================
