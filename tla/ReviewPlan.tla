------------------------------- MODULE ReviewPlan -------------------------------
(***************************************************************************)
(* planLlmReview (services/orchestrator/src/budget/plan.ts): which changed *)
(* files an LLM agent is sent, in which batches, and which it is not.  A   *)
(* file is [tokens, source]: its estimated size (patch plus context) and   *)
(* whether its language is known; it is named by its place in `files`.     *)
(***************************************************************************)
EXTENDS Arrays, SequencesExt

CONSTANTS MaxFileTokens, MaxBatchTokens, ReviewMaxTokens   \* PlanLimits

ASSUME PlanAssumption ==
  {MaxFileTokens, MaxBatchTokens, ReviewMaxTokens} \subseteq Nat \ {0}

SourceRank(file) == IF file.source THEN 0 ELSE 1

(* Mutant: smallest first, whatever the language.                          *)
MBeforeBySize(files, a, b) ==
  \/ files[a].tokens < files[b].tokens
  \/ files[a].tokens = files[b].tokens /\ a < b

(* Source files first, then smallest first, then in the given order.       *)
Before(files, a, b) ==
  \/ SourceRank(files[a]) < SourceRank(files[b])
  \/ /\ SourceRank(files[a]) = SourceRank(files[b])
     /\ \/ files[a].tokens < files[b].tokens
        \/ files[a].tokens = files[b].tokens /\ a < b

Sized(files) == Sort(DOMAIN files, LAMBDA a, b : Before(files, a, b))

EmptyPlan == [batches |-> <<>>, skipped |-> {}, used |-> 0]

SkipFile(plan, i, reason) ==
  [plan EXCEPT !.skipped = @ \cup {[path |-> i, reason |-> reason]}]

(* Mutants: the last batch takes any file; every file opens a batch; a     *)
(* file is put both in the last batch and in one of its own.               *)
MPackNoCap(plan, i, tokens) ==
  LET n == Len(plan.batches)
  IN  [plan EXCEPT
         !.used = @ + tokens,
         !.batches = IF n = 0 THEN <<[files |-> {i}, tokens |-> tokens]>>
                     ELSE [@ EXCEPT ![n] = [files |-> @.files \cup {i},
                                            tokens |-> @.tokens + tokens]]]

MPackTwice(plan, i, tokens) ==
  LET n == Len(plan.batches)
  IN  [plan EXCEPT
         !.used = @ + tokens,
         !.batches = Append(IF n = 0 THEN @ ELSE [@ EXCEPT ![n].files = @ \cup {i}],
                            [files |-> {i}, tokens |-> tokens])]

(* The last batch takes the file when it has room; else a new one is made. *)
Pack(plan, i, tokens) ==
  LET n == Len(plan.batches)
      fits == n > 0 /\ plan.batches[n].tokens + tokens <= MaxBatchTokens
  IN  [batches |->
         IF fits
         THEN [plan.batches EXCEPT
                 ![n] = [files |-> @.files \cup {i}, tokens |-> @.tokens + tokens]]
         ELSE Append(plan.batches, [files |-> {i}, tokens |-> tokens]),
       skipped |-> plan.skipped,
       used |-> plan.used + tokens]

MPlaceStop(plan, i, tokens) ==
  IF tokens > MaxFileTokens THEN SkipFile(plan, i, "too_large")
  ELSE IF plan.used + tokens > ReviewMaxTokens
          \/ \E s \in plan.skipped : s.reason = "over_budget"
       THEN SkipFile(plan, i, "over_budget")
  ELSE Pack(plan, i, tokens)

Place(plan, i, tokens) ==
  IF tokens > MaxFileTokens THEN SkipFile(plan, i, "too_large")
  ELSE IF plan.used + tokens > ReviewMaxTokens THEN SkipFile(plan, i, "over_budget")
  ELSE Pack(plan, i, tokens)

PlanLlmReview(files) ==
  FoldLeft(LAMBDA plan, i : Place(plan, i, files[i].tokens), EmptyPlan, Sized(files))
=================================================================================
