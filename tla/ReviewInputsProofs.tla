--------------------------- MODULE ReviewInputsProofs ---------------------------
(***************************************************************************)
(* A review's computations, for every request, every agents' findings,     *)
(* every set of changed files, every diff, hunk and answer: the planner,   *)
(* the report, the coverage, the patches, the fixes and the merge of the   *)
(* Security Agent's findings.                                              *)
(***************************************************************************)
EXTENDS ReviewInputs, StyleFixesProofs

(* The planner takes the files in order, and its plan is well typed, sends *)
(* or skips each file once, and covers as many files as the review's       *)
(* budget allows.                                                          *)
File == [tokens : Nat, source : BOOLEAN]

(* The plans over n files.                                                 *)
Reasons == {"too_large", "over_budget"}
Batches(n) == [files : SUBSET (1..n), tokens : Nat]
Plans(n) ==
  [batches : Seq(Batches(n)), skipped : SUBSET [path : 1..n, reason : Reasons], used : Nat]

(* The order is a strict total one, so every file comes once, in order.    *)
LEMMA SizedLists ==
  ASSUME NEW files \in Seq(File)
  PROVE  /\ Len(files) \in Nat
         /\ Sized(files) \in [1..Len(files) -> 1..Len(files)]
         /\ Sized(files) \in Seq(1..Len(files)) /\ Len(Sized(files)) = Len(files)
         /\ \A i \in 1..Len(files) : \E k \in 1..Len(files) : Sized(files)[k] = i
         /\ \A j, k \in 1..Len(files) : Before(files, Sized(files)[j], Sized(files)[k]) <=> j < k
<1> DEFINE n == Len(files)
           S == 1..n
           before == [x \in S |-> {y \in S : Before(files, y, x)}]
           p == [k \in 1..Cardinality(S) |-> CHOOSE x \in S : Cardinality(before[x]) = k - 1]
<1>1. n \in Nat /\ DOMAIN files = S /\ \A i \in S : files[i] \in File
  <2>1. n \in Nat /\ DOMAIN files = S
    BY LenProperties
  <2>2. \A i \in S : files[i] \in File
    BY ElementOfSeq
  <2>3. QED
    BY <2>1, <2>2
<1>2. IsFiniteSet(S) /\ Cardinality(S) = n
  BY <1>1, PrefixCounts
<1>3. \A x \in S : before[x] = {y \in S : Before(files, y, x)}
  OBVIOUS
<1>4. \A i \in S : files[i].tokens \in Nat /\ files[i].source \in BOOLEAN
                   /\ SourceRank(files[i]) \in 0..1 /\ i \in Nat
  BY <1>1 DEF File, SourceRank
<1>5. /\ \A x \in S : ~Before(files, x, x)
      /\ \A x, y, z \in S : Before(files, x, y) /\ Before(files, y, z) => Before(files, x, z)
      /\ \A x, y \in S : x = y \/ Before(files, x, y) \/ Before(files, y, x)
  <2> DEFINE R(i) == SourceRank(files[i])
             T(i) == files[i].tokens
  <2>1. \A x, y \in S : Before(files, x, y) <=>
          \/ R(x) < R(y)
          \/ R(x) = R(y) /\ (T(x) < T(y) \/ (T(x) = T(y) /\ x < y))
    BY DEF Before
  <2>2. \A i \in S : R(i) \in Int /\ T(i) \in Int /\ i \in Int
    BY <1>4
  <2> HIDE DEF R, T, S
  <2>3. QED
    BY <2>1, <2>2
<1>6. Orders(before, S)
  <2> HIDE DEF before, S
  <2>1. QED
    BY <1>3, <1>5 DEF Orders
<1>7. Lists(p, S, before)
  <2> HIDE DEF before, S
  <2>1. QED
    BY <1>2, <1>6, SortLists
<1>8. Sized(files) = p
  <2> HIDE DEF before
  <2>1. \A k \in 1..Cardinality(S) :
          (CHOOSE x \in S : Cardinality(before[x]) = k - 1)
            = (CHOOSE x \in S : Cardinality({y \in S : Before(files, y, x)}) = k - 1)
    BY <1>3
  <2> HIDE DEF S, n
  <2>2. Sized(files) = Sort(S, LAMBDA a, b : Before(files, a, b))
    BY <1>1, Zenon DEF Sized
  <2>3. QED
    BY <2>1, <2>2 DEF Sort
<1> HIDE DEF before, p
<1>9. p \in [1..n -> 1..n] /\ (\A i \in 1..n : \E k \in 1..n : p[k] = i)
      /\ \A j, k \in 1..n : p[j] \in before[p[k]] <=> j < k
  BY <1>2, <1>7 DEF Lists
<1>10. \A j, k \in 1..n : Before(files, p[j], p[k]) <=> j < k
  BY <1>3, <1>9
<1>11. p \in Seq(1..n) /\ Len(p) = n
  BY <1>1, <1>9, ListOfFunction
<1>12. QED
  BY <1>1, <1>8, <1>9, <1>10, <1>11

(* Every step of the loop leaves a well-typed plan.                        *)
LEMMA PlaceKeepsType ==
  ASSUME NEW n \in Nat, NEW plan \in Plans(n), NEW i \in 1..n, NEW t \in Nat
  PROVE  Place(plan, i, t) \in Plans(n)
<1>1. plan.batches \in Seq(Batches(n)) /\ plan.used \in Nat
      /\ plan.skipped \in SUBSET [path : 1..n, reason : Reasons]
  BY DEF Plans
<1>2. ASSUME NEW reason \in Reasons PROVE SkipFile(plan, i, reason) \in Plans(n)
  <2>1. [path |-> i, reason |-> reason] \in [path : 1..n, reason : Reasons]
    OBVIOUS
  <2>2. plan.skipped \cup {[path |-> i, reason |-> reason]} \in SUBSET [path : 1..n, reason : Reasons]
    BY <1>1, <2>1
  <2>3. QED
    BY <2>2 DEF SkipFile, Plans
<1>3. Pack(plan, i, t) \in Plans(n)
  <2> DEFINE m == Len(plan.batches)
             last == plan.batches[m]
  <2>1. m \in Nat
    BY <1>1, LenProperties
  <2>2. Append(plan.batches, [files |-> {i}, tokens |-> t]) \in Seq(Batches(n))
    <3>1. [files |-> {i}, tokens |-> t] \in Batches(n)
      BY DEF Batches
    <3>2. QED
      BY <1>1, <3>1, AppendProperties
  <2>3. ASSUME m > 0
        PROVE  [plan.batches EXCEPT ![m] = [files |-> @.files \cup {i}, tokens |-> @.tokens + t]]
                 \in Seq(Batches(n))
    <3>1. m \in 1..m /\ last \in Batches(n)
      BY <1>1, <2>1, <2>3, ElementOfSeq
    <3>2. [files |-> last.files \cup {i}, tokens |-> last.tokens + t] \in Batches(n)
      BY <3>1 DEF Batches
    <3>3. QED
      BY <1>1, <3>1, <3>2, ExceptSeq
  <2>4. QED
    BY <1>1, <2>1, <2>2, <2>3 DEF Pack, Plans
<1>4. QED
  BY <1>2, <1>3 DEF Place, Reasons

(* The plan is what the last of n steps leaves, each taking the next file. *)
LEMMA PlanFolds ==
  ASSUME NEW files \in Seq(File)
  PROVE  \E h \in [0..Len(files) -> Plans(Len(files))] :
           /\ h[0] = EmptyPlan /\ h[Len(files)] = PlanLlmReview(files)
           /\ \A k \in 1..Len(files) :
                h[k] = Place(h[k - 1], Sized(files)[k], files[Sized(files)[k]].tokens)
<1> DEFINE n == Len(files)
           p == Sized(files)
           A == Plans(n)
           Op(a, i) == Place(a, i, files[i].tokens)
           step == [k \in 1..n |-> [a \in A |-> Op(a, p[k])]]
           Eq(it) == it = [s \in SUBSET (DOMAIN p) |-> IF s = {} THEN EmptyPlan
                                ELSE Op(it[s \ {Max(s)}], p[Max(s)])]
           iter == CHOOSE it : Eq(it)
<1>1. /\ n \in Nat /\ p \in [1..n -> 1..n]
      /\ \A i \in 1..n : files[i].tokens \in Nat
  <2>1. \A i \in 1..n : files[i] \in File
    BY ElementOfSeq
  <2>2. QED
    BY <2>1, SizedLists DEF File
<1>2. EmptyPlan \in A
  <2>1. <<>> \in Seq(Batches(n)) /\ 0 \in Nat
    OBVIOUS
  <2>2. QED
    BY <2>1 DEF EmptyPlan, Plans
<1>3. \A k \in 1..n : \A a \in A : Op(a, p[k]) \in A
  <2> SUFFICES ASSUME NEW k \in 1..n, NEW a \in A PROVE Op(a, p[k]) \in A
    OBVIOUS
  <2>1. p[k] \in 1..n /\ files[p[k]].tokens \in Nat
    BY <1>1
  <2> HIDE DEF n, p
  <2>2. QED
    BY <1>1, <2>1, PlaceKeepsType
<1>4. KeepsTo(A, step, 1..n) /\ \A k \in 1..n : \A a \in A : step[k][a] = Op(a, p[k])
  <2>1. \A k \in 1..n : \A a \in A : step[k][a] = Op(a, p[k])
    OBVIOUS
  <2> HIDE DEF step, Op
  <2>2. QED
    BY <1>3, <2>1 DEF KeepsTo
<1> HIDE DEF step
<1>5. PICK g \in [SUBSET (1..n) -> A] : IsLeftFold(g, n, EmptyPlan, step)
  <2> HIDE DEF n, A, p, Op
  <2>1. QED
    BY <1>1, <1>2, <1>4, LeftFoldExists
<1>6. \A T \in SUBSET (1..n) : T # {} => Max(T) \in T
  <2> SUFFICES ASSUME NEW T \in SUBSET (1..n), T # {} PROVE Max(T) \in T
    OBVIOUS
  <2>0. IsFiniteSet(1..n)
    BY <1>1, PrefixCounts
  <2>1. IsFiniteSet(T)
    BY <2>0, FS_Subset
  <2>2. T \in SUBSET Int
    OBVIOUS
  <2>3. QED
    BY <2>1, <2>2, MaxIsGreatest
<1>7. Eq(g)
  <2> HIDE DEF Op, A, p
  <2>1. DOMAIN p = 1..n
    BY <1>1
  <2>2. \A T \in SUBSET (1..n) : g[T] = IF T = {} THEN EmptyPlan ELSE Op(g[T \ {Max(T)}], p[Max(T)])
    <3> SUFFICES ASSUME NEW T \in SUBSET (1..n), T # {}
                 PROVE  g[T] = Op(g[T \ {Max(T)}], p[Max(T)])
      BY <1>5 DEF IsLeftFold
    <3>1. Max(T) \in 1..n /\ T \ {Max(T)} \in SUBSET (1..n)
      BY <1>6
    <3>2. g[T \ {Max(T)}] \in A
      BY <1>5, <3>1
    <3>3. QED
      BY <1>4, <1>5, <3>1, <3>2 DEF IsLeftFold
  <2> HIDE DEF n
  <2>3. QED
    BY <1>5, <2>1, <2>2
<1>8. Eq(iter)
  <2> HIDE DEF Eq
  <2>1. QED
    BY <1>7
<1>9. PlanLlmReview(files) = iter[1..n]
  <2>1. DOMAIN p = 1..n
    BY <1>1
  <2>2. PlanLlmReview(files) = iter[DOMAIN p]
    BY Zenon DEF PlanLlmReview, FoldLeft, MapThenFoldSet
  <2>3. QED
    BY <2>1, <2>2
<1>10. iter[{}] = EmptyPlan
  <2>1. {} \in SUBSET (DOMAIN p)
    OBVIOUS
  <2> HIDE DEF iter, Op, p
  <2>2. QED
    BY <1>8, <2>1
<1>11. ASSUME NEW k \in 1..n, iter[1..(k - 1)] \in A
       PROVE  iter[1..k] = step[k][iter[1..(k - 1)]]
  <2>1. Max(1..k) = k /\ (1..k) \ {Max(1..k)} = 1..(k - 1) /\ 1..k # {}
    BY SMTT(60), <1>1, MaxOfPrefix
  <2>2. 1..k \in SUBSET (DOMAIN p)
    BY <1>1
  <2> HIDE DEF iter, Op, p, A
  <2>3. iter[1..k] = Op(iter[(1..k) \ {Max(1..k)}], p[Max(1..k)])
    BY <1>8, <2>1, <2>2
  <2>4. iter[1..k] = Op(iter[1..(k - 1)], p[k])
    BY <2>1, <2>3
  <2>5. QED
    BY <1>4, <1>11, <2>4
<1>12. Unrolls(iter, n, A, EmptyPlan, step)
  <2> HIDE DEF iter, n, A
  <2>1. QED
    BY <1>10, <1>11 DEF Unrolls
<1> HIDE DEF iter, A, Op
<1>13. PICK h \in [0..n -> A] : Accumulates(h, n, EmptyPlan, step) /\ h[n] = iter[1..n]
  <2> HIDE DEF n, p
  <2>1. QED
    BY <1>1, <1>2, <1>4, <1>12, LeftFoldPrefixes
<1>14. \A k \in 1..n : h[k] = Op(h[k - 1], p[k])
  <2> SUFFICES ASSUME NEW k \in 1..n PROVE h[k] = Op(h[k - 1], p[k])
    OBVIOUS
  <2>1. k - 1 \in 0..n
    BY <1>1
  <2>2. h[k - 1] \in A
    BY <1>13, <2>1
  <2>3. QED
    BY <1>4, <1>13, <2>2 DEF Accumulates
<1>15. h \in [0..n -> A] /\ h[0] = EmptyPlan /\ h[n] = PlanLlmReview(files)
  BY <1>9, <1>13 DEF Accumulates
<1>16. QED
  BY <1>14, <1>15 DEF A, Op, n, p
---------------------------------------------------------------------------------
(* What is true of a plan once the files of P are placed.                  *)
TokensOf(files) == [i \in 1..Len(files) |-> files[i].tokens]
Held(batches) == UNION {batches[b].files : b \in DOMAIN batches}

BatchesAreSound(w, batches) ==
  /\ \A b, c \in DOMAIN batches : b # c => batches[b].files \cap batches[c].files = {}
  /\ \A b \in DOMAIN batches :
       /\ batches[b].tokens = SumOf(w, batches[b].files)
       /\ batches[b].tokens > MaxBatchTokens => \E i \in batches[b].files : batches[b].files = {i}

SkipsAreSound(files, held, skipped) ==
  /\ \A s, t \in skipped : s.path = t.path => s = t
  /\ \A s \in skipped :
       /\ s.path \notin held
       /\ IF TokensOf(files)[s.path] > MaxFileTokens THEN s.reason = "too_large"
          ELSE /\ s.reason = "over_budget"
               /\ SumOf(TokensOf(files), {y \in held : Before(files, y, s.path)})
                    + TokensOf(files)[s.path] > ReviewMaxTokens

PlanIsSound(files, plan, P) ==
  LET held == Held(plan.batches)
      w == TokensOf(files)
  IN  /\ P = held \cup {s.path : s \in plan.skipped}
      /\ BatchesAreSound(w, plan.batches)
      /\ SkipsAreSound(files, held, plan.skipped)
      /\ plan.used = SumOf(w, held) /\ plan.used <= ReviewMaxTokens
      /\ \A i \in held : w[i] <= MaxFileTokens

(* Batches are sound still when one of them, an old or a new one, takes a  *)
(* file no batch had, and has room for it or is the file's own.            *)
Takes(w, B, C, l, i) ==
  /\ l \in DOMAIN C /\ \A b \in DOMAIN B : b \in DOMAIN C
  /\ \A b \in DOMAIN C : b # l => b \in DOMAIN B /\ C[b] = B[b]
  /\ C[l].files = {i} \cup (IF l \in DOMAIN B THEN B[l].files ELSE {})
  /\ C[l].tokens = SumOf(w, C[l].files)
  /\ C[l].tokens > MaxBatchTokens => C[l].files = {i}

(* Batches stay sound when one of them takes file i.                       *)
LEMMA TakingOneIsSound ==
  ASSUME NEW w, NEW B, NEW C, NEW l, NEW i, BatchesAreSound(w, B), i \notin Held(B), Takes(w, B, C, l, i)
  PROVE  BatchesAreSound(w, C) /\ Held(C) = Held(B) \cup {i}
<1>1. \A b \in DOMAIN B : i \notin B[b].files
  BY DEF Held
<1>2. \A b, c \in DOMAIN C : b # c => C[b].files \cap C[c].files = {}
  BY <1>1 DEF BatchesAreSound, Takes
<1>3. ASSUME NEW b \in DOMAIN C
      PROVE  /\ C[b].tokens = SumOf(w, C[b].files)
             /\ C[b].tokens > MaxBatchTokens => \E k \in C[b].files : C[b].files = {k}
  <2>1. CASE b = l
    BY <2>1 DEF Takes
  <2>2. CASE b # l
    BY <2>2 DEF BatchesAreSound, Takes
  <2>3. QED
    BY <2>1, <2>2
<1>4. Held(C) \subseteq Held(B) \cup {i}
  BY DEF Held, Takes
<1>5. i \in Held(C)
  BY DEF Held, Takes
<1>6. Held(B) \subseteq Held(C)
  BY DEF Held, Takes
<1>7. QED
  BY <1>2, <1>3, <1>4, <1>5, <1>6 DEF BatchesAreSound

(* A new file in the last batch, or in one of its own, keeps the batches   *)
(* sound.                                                                  *)
LEMMA PackIsSound ==
  ASSUME NEW n \in Nat, NEW w, Weighs(w, 1..n), NEW plan \in Plans(n),
         BatchesAreSound(w, plan.batches), NEW i \in 1..n, i \notin Held(plan.batches)
  PROVE  /\ BatchesAreSound(w, Pack(plan, i, w[i]).batches)
         /\ Held(Pack(plan, i, w[i]).batches) = Held(plan.batches) \cup {i}
<1> DEFINE B == plan.batches
           m == Len(B)
           t == w[i]
           one == [files |-> {i}, tokens |-> t]
           C == Pack(plan, i, t).batches
<1>1. IsFiniteSet(1..n) /\ t \in Nat
  BY PrefixCounts DEF Weighs
<1>2. B \in Seq(Batches(n)) /\ m \in Nat /\ DOMAIN B = 1..m
      /\ \A b \in 1..m : B[b].files \in SUBSET (1..n) /\ B[b].tokens \in Nat
  <2>1. B \in Seq(Batches(n))
    BY DEF Plans
  <2>2. m \in Nat /\ DOMAIN B = 1..m
    BY <2>1, LenProperties
  <2>3. \A b \in 1..m : B[b] \in Batches(n)
    BY <2>1, ElementOfSeq
  <2>4. QED
    BY <2>1, <2>2, <2>3 DEF Batches
<1>3. \A T \in SUBSET (1..n) : i \notin T => SumOf(w, T \cup {i}) = SumOf(w, T) + t
  <2> DEFINE S == 1..n
  <2>1. IsFiniteSet(S) /\ Weighs(w, S) /\ i \in S
    BY <1>1
  <2> HIDE DEF S, t
  <2>2. \A T \in SUBSET S : \A x \in S \ T : SumOf(w, T \cup {x}) = SumOf(w, T) + w[x]
    BY ZenonT(60), <2>1, SumAdds
  <2>3. QED
    BY <2>1, <2>2 DEF S, t
<1>4. SumOf(w, {i}) = t
  <2>1. SumOf(w, {}) = 0
    BY <1>1, SumAdds
  <2>2. SumOf(w, {} \cup {i}) = SumOf(w, {}) + t
    BY <1>3
  <2>3. {} \cup {i} = {i}
    OBVIOUS
  <2> HIDE DEF t
  <2>4. QED
    BY <1>1, <2>1, <2>2, <2>3
<1>5. \A b \in 1..m : i \notin B[b].files
  BY <1>2 DEF Held
<1>6. CASE m > 0 /\ B[m].tokens + t <= MaxBatchTokens
  <2> DEFINE more == [files |-> B[m].files \cup {i}, tokens |-> B[m].tokens + t]
  <2>1. C = [B EXCEPT ![m] = more]
    BY <1>6 DEF Pack
  <2> HIDE DEF C, B, m, t
  <2>2. m \in DOMAIN B
    BY <1>2, <1>6
  <2>3. DOMAIN C = DOMAIN B /\ C[m] = more /\ \A b \in DOMAIN C : b # m => C[b] = B[b]
    BY <2>1, <2>2
  <2>4. more.files = {i} \cup B[m].files
    OBVIOUS
  <2>5. more.tokens = SumOf(w, more.files) /\ ~(more.tokens > MaxBatchTokens)
    <3>1. B[m].tokens = SumOf(w, B[m].files)
      BY <2>2 DEF BatchesAreSound, B
    <3>2. B[m].files \in SUBSET (1..n) /\ i \notin B[m].files /\ B[m].tokens \in Nat
      BY <1>2, <1>5, <2>2
    <3>3. SumOf(w, B[m].files \cup {i}) = B[m].tokens + t
      BY <1>3, <3>1, <3>2
    <3>4. more.tokens = B[m].tokens + t /\ more.files = B[m].files \cup {i}
      OBVIOUS
    <3> HIDE DEF more
    <3>5. more.tokens \in Nat /\ MaxBatchTokens \in Nat
      BY <1>1, <3>2, <3>4, PlanAssumption
    <3>6. QED
      BY <1>6, <3>3, <3>4, <3>5
  <2>6. BatchesAreSound(w, B) /\ i \notin Held(B)
    BY DEF B
  <2> HIDE DEF more
  <2>9. Takes(w, B, C, m, i)
    BY <2>2, <2>3, <2>4, <2>5 DEF Takes
  <2>7. BatchesAreSound(w, C) /\ Held(C) = Held(B) \cup {i}
    BY <2>6, <2>9, TakingOneIsSound
  <2>8. QED
    BY <2>7 DEF B, C, t
<1>7. CASE ~(m > 0 /\ B[m].tokens + t <= MaxBatchTokens)
  <2>1. C = Append(B, one)
    BY <1>7 DEF Pack
  <2>2. one \in Batches(n) /\ one.files = {i} /\ one.tokens = t
    BY <1>1 DEF Batches
  <2> HIDE DEF C, B, m, t, one
  <2>3. C \in Seq(Batches(n)) /\ Len(C) = m + 1 /\ C[m + 1] = one /\ \A b \in 1..m : C[b] = B[b]
    BY <1>2, <2>1, <2>2, AppendProperties DEF m
  <2>4. DOMAIN C = 1..(m + 1)
    BY <2>3, LenProperties
  <2>5. m + 1 \in DOMAIN C /\ m + 1 \notin DOMAIN B /\ \A b \in DOMAIN B : b \in DOMAIN C
    BY <1>2, <2>4
  <2>6. \A b \in DOMAIN C : b # m + 1 => b \in DOMAIN B /\ C[b] = B[b]
    BY <1>2, <2>3, <2>4
  <2>7. BatchesAreSound(w, B) /\ i \notin Held(B)
    BY DEF B
  <2>8. C[m + 1].files = {i} /\ C[m + 1].tokens = SumOf(w, C[m + 1].files)
    BY <1>4, <2>2, <2>3
  <2>11. Takes(w, B, C, m + 1, i)
    BY <2>5, <2>6, <2>8 DEF Takes
  <2>9. BatchesAreSound(w, C) /\ Held(C) = Held(B) \cup {i}
    BY <2>7, <2>11, TakingOneIsSound
  <2>10. QED
    BY <2>9 DEF B, C, t
<1>8. QED
  BY <1>6, <1>7

(* Every file has its tokens, a number.                                    *)
LEMMA TokensAreNumbers ==
  ASSUME NEW files \in Seq(File)
  PROVE  /\ Weighs(TokensOf(files), 1..Len(files)) /\ Len(files) \in Nat
         /\ \A i \in 1..Len(files) :
              TokensOf(files)[i] = files[i].tokens /\ TokensOf(files)[i] \in Nat
<1>1. \A k \in 1..Len(files) : files[k] \in File
  BY ElementOfSeq
<1>2. Len(files) \in Nat
  BY LenProperties
<1>3. QED
  BY <1>1, <1>2 DEF Weighs, TokensOf, File

(* A turn of the loop keeps the plan sound when the file it places comes   *)
(* after those that were placed.                                           *)
LEMMA PlaceIsSound ==
  ASSUME NEW files \in Seq(File), NEW plan \in Plans(Len(files)), NEW P \in SUBSET (1..Len(files)),
         PlanIsSound(files, plan, P), NEW i \in (1..Len(files)) \ P,
         \A y \in P : Before(files, y, i) /\ ~Before(files, i, y)
  PROVE  PlanIsSound(files, Place(plan, i, files[i].tokens), P \cup {i})
<1> DEFINE n == Len(files)
           w == TokensOf(files)
           t == w[i]
           held == Held(plan.batches)
           skipped == plan.skipped
           new == Place(plan, i, t)
<1>1. n \in Nat /\ Weighs(w, 1..n) /\ t = files[i].tokens /\ t \in Nat /\ IsFiniteSet(1..n)
  BY TokensAreNumbers, PrefixCounts
<1>2. /\ P = held \cup {s.path : s \in skipped} /\ held \in SUBSET (1..n) /\ i \notin held
      /\ BatchesAreSound(w, plan.batches) /\ SkipsAreSound(files, held, skipped)
      /\ plan.used = SumOf(w, held) /\ plan.used <= ReviewMaxTokens
      /\ \A k \in held : w[k] <= MaxFileTokens
  BY DEF PlanIsSound
<1>3. {MaxFileTokens, MaxBatchTokens, ReviewMaxTokens} \subseteq Nat /\ plan.used \in Nat
  BY PlanAssumption DEF Plans
<1>4. ASSUME NEW reason, t <= MaxFileTokens => reason = "over_budget" /\ plan.used + t > ReviewMaxTokens,
             t > MaxFileTokens => reason = "too_large"
      PROVE  PlanIsSound(files, SkipFile(plan, i, reason), P \cup {i})
  <2> DEFINE skip == [path |-> i, reason |-> reason]
             after == SkipFile(plan, i, reason)
  <2>1. after.batches = plan.batches /\ after.skipped = skipped \cup {skip} /\ after.used = plan.used
    BY DEF SkipFile, Plans
  <2>2. skip.path = i /\ skip.reason = reason
    OBVIOUS
  <2> HIDE DEF skip, after
  <2>3. \A s \in skipped : s.path # i
    BY <1>2
  <2>4. {y \in held : Before(files, y, i)} = held
    BY <1>2
  <2>5. SkipsAreSound(files, held, skipped \cup {skip})
    <3>1. \A s, u \in skipped \cup {skip} : s.path = u.path => s = u
      BY <1>2, <2>2, <2>3 DEF SkipsAreSound
    <3>2. IF w[i] > MaxFileTokens THEN skip.reason = "too_large"
          ELSE /\ skip.reason = "over_budget"
               /\ SumOf(w, {y \in held : Before(files, y, i)}) + w[i] > ReviewMaxTokens
      <4>1. SumOf(w, {y \in held : Before(files, y, i)}) = plan.used
        BY <1>2, <2>4
      <4>2. t \in Nat /\ MaxFileTokens \in Nat /\ t = w[i]
        BY <1>1, <1>3
      <4> HIDE DEF w, t, held
      <4>3. QED
        BY <1>4, <2>2, <4>1, <4>2
    <3> HIDE DEF held, skipped
    <3>3. QED
      BY <1>2, <2>2, <3>1, <3>2 DEF SkipsAreSound
  <2>6. P \cup {i} = held \cup {s.path : s \in skipped \cup {skip}}
    <3> HIDE DEF held, skipped
    <3>1. QED
      BY <1>2, <2>2
  <2>7. QED
    BY <1>2, <2>1, <2>5, <2>6 DEF PlanIsSound, after
<1>5. ASSUME t <= MaxFileTokens, plan.used + t <= ReviewMaxTokens
      PROVE  PlanIsSound(files, Pack(plan, i, t), P \cup {i})
  <2> DEFINE after == Pack(plan, i, t)
             now == Held(after.batches)
  <2>1. BatchesAreSound(w, after.batches) /\ now = held \cup {i}
    <3> HIDE DEF w
    <3>1. QED
      BY <1>1, <1>2, PackIsSound
  <2>2. after.skipped = skipped /\ after.used = plan.used + t
    BY DEF Pack
  <2> HIDE DEF after, now
  <2>3. SumOf(w, held \cup {i}) = plan.used + t
    <3> DEFINE S == 1..n
    <3>1. IsFiniteSet(S) /\ Weighs(w, S) /\ held \in SUBSET S /\ i \in S \ held
      BY <1>1, <1>2
    <3> HIDE DEF S, w, held
    <3>2. \A T \in SUBSET S : \A x \in S \ T : SumOf(w, T \cup {x}) = SumOf(w, T) + w[x]
      BY <3>1, SumAdds
    <3>3. SumOf(w, held \cup {i}) = SumOf(w, held) + w[i]
      BY <3>1, <3>2
    <3>4. QED
      BY <1>2, <3>3
  <2>4. SkipsAreSound(files, now, skipped)
    <3>1. \A s \in skipped : s.path \in P /\ s.path # i /\ ~Before(files, i, s.path)
      BY <1>2
    <3>2. \A s \in skipped : {y \in now : Before(files, y, s.path)} = {y \in held : Before(files, y, s.path)}
      BY <2>1, <3>1
    <3> HIDE DEF held, skipped, w
    <3>3. \A s \in skipped : s.path \notin now
      BY <1>2, <2>1, <3>1 DEF SkipsAreSound
    <3>4. ASSUME NEW s \in skipped
          PROVE  IF TokensOf(files)[s.path] > MaxFileTokens THEN s.reason = "too_large"
                 ELSE /\ s.reason = "over_budget"
                      /\ SumOf(TokensOf(files), {y \in now : Before(files, y, s.path)})
                           + TokensOf(files)[s.path] > ReviewMaxTokens
      BY <1>2, <3>2 DEF SkipsAreSound
    <3>5. \A s, u \in skipped : s.path = u.path => s = u
      BY <1>2 DEF SkipsAreSound
    <3>6. QED
      BY <3>3, <3>4, <3>5 DEF SkipsAreSound
  <2>5. P \cup {i} = now \cup {s.path : s \in skipped}
    BY <1>2, <2>1
  <2>6. \A k \in now : w[k] <= MaxFileTokens
    BY <1>2, <1>5, <2>1
  <2>7. after.used = SumOf(w, now) /\ after.used <= ReviewMaxTokens
    BY <1>5, <2>1, <2>2, <2>3
  <2>8. QED
    BY <2>1, <2>2, <2>4, <2>5, <2>6, <2>7 DEF PlanIsSound, now, after
<1>6. PlanIsSound(files, new, P \cup {i})
  <2>1. CASE t > MaxFileTokens
    <3>1. new = SkipFile(plan, i, "too_large")
      BY <2>1 DEF Place
    <3>2. ~(t <= MaxFileTokens)
      BY <1>1, <1>3, <2>1
    <3>3. PlanIsSound(files, SkipFile(plan, i, "too_large"), P \cup {i})
      BY <1>4, <3>2
    <3>4. QED
      BY <3>1, <3>3
  <2>2. CASE t <= MaxFileTokens /\ plan.used + t > ReviewMaxTokens
    <3>1. ~(t > MaxFileTokens)
      BY <1>1, <1>3, <2>2
    <3>2. new = SkipFile(plan, i, "over_budget")
      BY <2>2, <3>1 DEF Place
    <3>3. PlanIsSound(files, SkipFile(plan, i, "over_budget"), P \cup {i})
      BY <1>4, <2>2, <3>1
    <3>4. QED
      BY <3>2, <3>3
  <2>3. CASE t <= MaxFileTokens /\ plan.used + t <= ReviewMaxTokens
    <3>1. ~(t > MaxFileTokens) /\ ~(plan.used + t > ReviewMaxTokens)
      BY <1>1, <1>3, <2>3
    <3>2. new = Pack(plan, i, t)
      BY <3>1 DEF Place
    <3>3. QED
      BY <1>5, <2>3, <3>2
  <2>4. QED
    BY <1>1, <1>3, <2>1, <2>2, <2>3
<1>7. QED
  BY <1>1, <1>6

(* The plan sends or skips every file once, for a reason that is true of   *)
(* it, sends none over the file cap, keeps to the review's budget, and     *)
(* leaves out only files for which those sent before them left no room.  A *)
(* batch over the batch size is one file alone.                            *)
THEOREM PlanIsSoundAtLast ==
  ASSUME NEW files \in Seq(File)
  PROVE  /\ PlanLlmReview(files) \in Plans(Len(files))
         /\ PlanIsSound(files, PlanLlmReview(files), 1..Len(files))
<1> DEFINE n == Len(files)
           p == Sized(files)
           Seen(k) == {p[j] : j \in 1..k}
<1>1. n \in Nat /\ p \in [1..n -> 1..n] /\ (\A i \in 1..n : \E k \in 1..n : p[k] = i)
      /\ \A j, k \in 1..n : Before(files, p[j], p[k]) <=> j < k
  BY SizedLists
<1>2. PICK h \in [0..n -> Plans(n)] :
        /\ h[0] = EmptyPlan /\ h[n] = PlanLlmReview(files)
        /\ \A k \in 1..n : h[k] = Place(h[k - 1], p[k], files[p[k]].tokens)
  BY PlanFolds
<1> HIDE DEF n, p
<1> DEFINE Q == {k \in 0..n : PlanIsSound(files, h[k], Seen(k))}
<1>3. 0 \in Q
  <2>1. Seen(0) = {}
    OBVIOUS
  <2>2. EmptyPlan.batches = <<>> /\ EmptyPlan.skipped = {} /\ EmptyPlan.used = 0
    BY DEF EmptyPlan
  <2>3. Held(<<>>) = {} /\ DOMAIN <<>> = {}
    BY DEF Held
  <2>4. SumOf(TokensOf(files), {}) = 0
    <3>1. IsFiniteSet(1..n) /\ Weighs(TokensOf(files), 1..n)
      BY <1>1, PrefixCounts, TokensAreNumbers DEF n
    <3>2. QED
      BY <3>1, SumAdds
  <2>5. 0 <= ReviewMaxTokens
    BY PlanAssumption
  <2>6. BatchesAreSound(TokensOf(files), <<>>)
    BY <2>3 DEF BatchesAreSound
  <2>7. SkipsAreSound(files, {}, {})
    BY DEF SkipsAreSound
  <2>8. PlanIsSound(files, EmptyPlan, {})
    BY <2>2, <2>3, <2>4, <2>5, <2>6, <2>7 DEF PlanIsSound
  <2>9. PlanIsSound(files, h[0], Seen(0))
    <3> HIDE DEF Seen
    <3>1. QED
      BY <1>2, <2>1, <2>8, Zenon
  <2>10. QED
    BY <1>1, <2>9
<1>4. ASSUME NEW k \in 1..n, k - 1 \in Q PROVE k \in Q
  <2> DEFINE P == Seen(k - 1)
             i == p[k]
  <2>1. P \in SUBSET (1..n) /\ i \in (1..n) \ P
    <3>1. \A j \in 1..(k - 1) : j \in 1..n /\ p[j] \in 1..n /\ p[j] # p[k]
      <4> SUFFICES ASSUME NEW j \in 1..(k - 1) PROVE j \in 1..n /\ p[j] \in 1..n /\ p[j] # p[k]
        OBVIOUS
      <4>1. j \in 1..n /\ j < k
        BY <1>1
      <4>2. Before(files, p[j], p[k]) /\ ~Before(files, p[j], p[j])
        BY <1>1, <4>1
      <4>3. QED
        BY <1>1, <4>1, <4>2
    <3>2. QED
      BY ZenonT(60), <1>1, <3>1
  <2>2. \A y \in P : Before(files, y, i) /\ ~Before(files, i, y)
    <3> SUFFICES ASSUME NEW j \in 1..(k - 1) PROVE Before(files, p[j], p[k]) /\ ~Before(files, p[k], p[j])
      OBVIOUS
    <3>1. j \in 1..n /\ j < k /\ ~(k < j)
      BY <1>1
    <3>2. QED
      BY <1>1, <3>1
  <2>3. Seen(k) = P \cup {i}
    <3>1. \A j : j \in 1..k <=> j \in 1..(k - 1) \/ j = k
      BY <1>1
    <3>2. QED
      BY <3>1
  <2>4. k - 1 \in 0..n /\ h[k - 1] \in Plans(n) /\ PlanIsSound(files, h[k - 1], P)
    BY <1>1, <1>2, <1>4
  <2>5. h[k] = Place(h[k - 1], i, files[i].tokens)
    BY <1>2
  <2> HIDE DEF P, i, Seen
  <2>6. PlanIsSound(files, Place(h[k - 1], i, files[i].tokens), P \cup {i})
    BY <2>1, <2>2, <2>4, PlaceIsSound DEF n
  <2>7. PlanIsSound(files, h[k], Seen(k))
    BY <2>3, <2>5, <2>6, Zenon
  <2>8. QED
    BY <1>1, <2>7
<1>5. \A k \in 0..n : k \in Q
  <2> HIDE DEF Q
  <2>1. QED
    BY <1>1, <1>3, <1>4, PrefixInduction
<1>6. Seen(n) = 1..n /\ n \in 0..n
  <2>1. (\A k \in 1..n : p[k] \in 1..n) /\ \A i \in 1..n : \E k \in 1..n : p[k] = i
    BY <1>1
  <2>2. Seen(n) = 1..n
    BY <2>1
  <2>3. QED
    BY SMTT(60), <1>1, <2>2
<1>7. PlanIsSound(files, h[n], 1..n)
  <2>1. n \in Q
    BY <1>5, <1>6
  <2>2. PlanIsSound(files, h[n], Seen(n))
    BY <2>1
  <2> HIDE DEF Seen
  <2>3. QED
    BY <1>6, <2>2
<1>8. h[n] \in Plans(n)
  BY <1>2, <1>6
<1>9. QED
  BY <1>2, <1>7, <1>8 DEF n
---------------------------------------------------------------------------------
(* Any files have a first; of files that are all source files, or all not, *)
(* one is before another only when it is no larger.                        *)
LEMMA FirstOf ==
  ASSUME NEW files \in Seq(File), NEW M \in SUBSET (1..Len(files)), M # {}
  PROVE  \E x \in M : \A z \in M : z = x \/ Before(files, x, z)
<1> DEFINE n == Len(files)
           p == Sized(files)
           K == {k \in 1..n : p[k] \in M}
<1>1. n \in Nat /\ p \in [1..n -> 1..n] /\ (\A i \in 1..n : \E k \in 1..n : p[k] = i)
      /\ \A j, k \in 1..n : Before(files, p[j], p[k]) <=> j < k
  BY SizedLists
<1> HIDE DEF n, p
<1>2. K # {} /\ K \in SUBSET (1..n)
  BY <1>1 DEF n
<1>3. IsFiniteSet(1..n)
  BY <1>1, PrefixCounts
<1>4. IsFiniteSet(K)
  BY <1>2, <1>3, FS_Subset
<1>5. K \in SUBSET Int
  BY <1>2
<1>6. PICK m \in K : \A k \in K : m <= k
  <2> HIDE DEF K
  <2>1. QED
    BY <1>2, <1>4, <1>5, MinIsLeast
<1>7. \A z \in M : z = p[m] \/ Before(files, p[m], z)
  <2> SUFFICES ASSUME NEW z \in M PROVE z = p[m] \/ Before(files, p[m], z)
    OBVIOUS
  <2>1. PICK k \in 1..n : p[k] = z
    BY <1>1 DEF n
  <2>2. k \in K /\ m \in 1..n /\ m <= k
    BY <1>6, <2>1
  <2>3. m = k \/ m < k
    BY <1>1, <2>2
  <2>4. QED
    BY <1>1, <2>1, <2>2, <2>3
<1>8. QED
  BY <1>6, <1>7

(* Of two source files, or two others, the planner takes the smaller       *)
(* first.                                                                  *)
LEMMA SmallestFirst ==
  ASSUME NEW files \in Seq(File), NEW x \in 1..Len(files), NEW y \in 1..Len(files),
         files[x].source = files[y].source
  PROVE  /\ Before(files, y, x) => TokensOf(files)[y] <= TokensOf(files)[x]
         /\ ~Before(files, y, x) => TokensOf(files)[x] <= TokensOf(files)[y]
<1>1. TokensOf(files)[x] = files[x].tokens /\ files[x].tokens \in Nat
      /\ TokensOf(files)[y] = files[y].tokens /\ files[y].tokens \in Nat
  BY TokensAreNumbers
<1>2. SourceRank(files[x]) = SourceRank(files[y])
  BY DEF SourceRank
<1>3. SourceRank(files[x]) \in Int
  BY DEF SourceRank
<1>4. QED
  BY <1>1, <1>2, <1>3 DEF Before

(* A plan's files of one class (source files, or not), and all that are    *)
(* small enough to be sent.                                                *)
Class(files, source) ==
  {i \in 1..Len(files) : TokensOf(files)[i] <= MaxFileTokens /\ files[i].source = source}

(* The first file of its class that is left out, and the sent ones before  *)
(* it, weigh no more than any choice of more files than were sent.         *)
LEMMA LightestOfTheClass ==
  ASSUME NEW files \in Seq(File), NEW source, NEW D \in SUBSET Class(files, source),
         NEW F \in SUBSET Class(files, source), Cardinality(D) < Cardinality(F)
  PROVE  \E x \in Class(files, source) \ D :
           SumOf(TokensOf(files), {y \in D : Before(files, y, x)} \cup {x}) <= SumOf(TokensOf(files), F)
<1> DEFINE n == Len(files)
           S == 1..n
           w == TokensOf(files)
           C == Class(files, source)
<1>1. IsFiniteSet(S) /\ Weighs(w, S) /\ C \in SUBSET S
      /\ \A i \in S : w[i] \in Nat
  BY TokensAreNumbers, PrefixCounts DEF Class
<1>2. IsFiniteSet(C)
  BY <1>1, FS_Subset
<1>3. IsFiniteSet(D) /\ IsFiniteSet(F) /\ Cardinality(D) \in Nat /\ Cardinality(F) \in Nat
  BY <1>2, FS_Subset, FS_CardinalityType
<1>4. C \ D # {}
  <2>1. SUFFICES ASSUME C \ D = {} PROVE FALSE
    OBVIOUS
  <2>2. F \subseteq D
    BY <2>1
  <2>3. Cardinality(F) <= Cardinality(D)
    BY <1>3, <2>2, FS_Subset
  <2>4. QED
    BY <1>3, <2>3
<1>5. PICK x \in C \ D : \A z \in C \ D : z = x \/ Before(files, x, z)
  <2>1. C \ D \in SUBSET (1..Len(files))
    BY <1>1
  <2> HIDE DEF C
  <2>2. QED
    BY <1>4, <2>1, FirstOf
<1> DEFINE Dx == {y \in D : Before(files, y, x)}
           A == Dx \cup {x}
<1>6. /\ \A y \in C : Before(files, y, x) => w[y] <= w[x]
      /\ \A y \in C : ~Before(files, y, x) => w[x] <= w[y]
  <2> SUFFICES ASSUME NEW y \in C
               PROVE  (Before(files, y, x) => w[y] <= w[x]) /\ (~Before(files, y, x) => w[x] <= w[y])
    OBVIOUS
  <2>1. x \in 1..Len(files) /\ y \in 1..Len(files) /\ files[x].source = files[y].source
    BY DEF Class
  <2>2. QED
    BY <2>1, SmallestFirst
<1>7. \A y \in C \ D : y # x => ~Before(files, y, x)
  <2>1. \A y, z \in 1..Len(files) : Before(files, y, z) => ~Before(files, z, y)
    <3>1. \A i \in 1..Len(files) : files[i].tokens \in Nat /\ SourceRank(files[i]) \in Int /\ i \in Nat
      BY TokensAreNumbers DEF SourceRank
    <3>2. QED
      BY <3>1 DEF Before
  <2>2. QED
    BY <1>1, <1>5, <2>1
<1>8. Cardinality(A) <= Cardinality(F)
  <2>1. IsFiniteSet(Dx) /\ Dx \subseteq D /\ x \notin Dx
    BY <1>3, FS_Subset
  <2>2. Cardinality(Dx) \in Nat /\ Cardinality(Dx) <= Cardinality(D)
    BY <1>3, <2>1, FS_Subset, FS_CardinalityType
  <2> HIDE DEF Dx
  <2>3. Cardinality(A) = Cardinality(Dx) + 1
    BY <2>1, FS_AddElement
  <2>4. QED
    BY <1>3, <2>2, <2>3
<1>9. A \in SUBSET S /\ F \in SUBSET S /\ w[x] \in Nat /\ x \in S
  BY <1>1
<1>10. \A y \in A \ F : w[y] <= w[x]
  BY <1>1, <1>6
<1>11. \A y \in F \ A : w[x] <= w[y]
  <2> SUFFICES ASSUME NEW y \in F \ A PROVE w[x] <= w[y]
    OBVIOUS
  <2>1. y \in C /\ y # x /\ ~Before(files, y, x)
    BY <1>7
  <2>2. QED
    BY <1>6, <2>1
<1>12. SumOf(w, A) <= SumOf(w, F)
  <2> HIDE DEF A, w, S, C
  <2>1. QED
    BY <1>1, <1>8, <1>9, <1>10, <1>11, SumOfLighter
<1>13. QED
  BY <1>5, <1>12

(* What a sound plan leaves out had no room left by the files before it.   *)
LEMMA NoRoomForTheRest ==
  ASSUME NEW files \in Seq(File), NEW plan \in Plans(Len(files)), PlanIsSound(files, plan, 1..Len(files))
  PROVE  LET held == Held(plan.batches)
             w == TokensOf(files)
         IN  /\ held \in SUBSET (1..Len(files))
             /\ \A i \in held : w[i] <= MaxFileTokens
             /\ SumOf(w, held) <= ReviewMaxTokens
             /\ \A x \in (1..Len(files)) \ held : w[x] <= MaxFileTokens =>
                  SumOf(w, {y \in held : Before(files, y, x)}) + w[x] > ReviewMaxTokens
<1> DEFINE held == Held(plan.batches)
           w == TokensOf(files)
           skipped == plan.skipped
<1>1. /\ 1..Len(files) = held \cup {s.path : s \in skipped}
      /\ SkipsAreSound(files, held, skipped)
      /\ plan.used = SumOf(w, held) /\ plan.used <= ReviewMaxTokens
      /\ \A i \in held : w[i] <= MaxFileTokens
  BY DEF PlanIsSound
<1>2. \A i \in 1..Len(files) : w[i] \in Nat
  BY TokensAreNumbers
<1> HIDE DEF held, skipped
<1>3. ASSUME NEW x \in (1..Len(files)) \ held, w[x] <= MaxFileTokens
      PROVE  SumOf(w, {y \in held : Before(files, y, x)}) + w[x] > ReviewMaxTokens
  <2>1. PICK s \in skipped : s.path = x
    BY <1>1
  <2>2. ~(w[x] > MaxFileTokens)
    BY <1>2, <1>3, PlanAssumption
  <2>3. QED
    BY <1>1, <2>1, <2>2 DEF SkipsAreSound
<1>4. held \in SUBSET (1..Len(files)) /\ SumOf(w, held) <= ReviewMaxTokens
  BY <1>1
<1>5. QED
  BY <1>1, <1>3, <1>4 DEF held

(* So the files of a class that are sent weigh no more than any choice of  *)
(* as many of them.                                                        *)
LEMMA SentAreTheLightest ==
  ASSUME NEW files \in Seq(File), NEW plan \in Plans(Len(files)), PlanIsSound(files, plan, 1..Len(files)),
         NEW source, NEW F \in SUBSET Class(files, source),
         Cardinality(Held(plan.batches) \cap Class(files, source)) = Cardinality(F)
  PROVE  SumOf(TokensOf(files), Held(plan.batches) \cap Class(files, source)) <= SumOf(TokensOf(files), F)
<1> DEFINE n == Len(files)
           S == 1..n
           w == TokensOf(files)
           C == Class(files, source)
           held == Held(plan.batches)
           D == held \cap C
<1>1. IsFiniteSet(S) /\ Weighs(w, S) /\ C \in SUBSET S
      /\ \A i \in S : w[i] \in Nat
  BY TokensAreNumbers, PrefixCounts DEF Class
<1>2. IsFiniteSet(C)
  BY <1>1, FS_Subset
<1>3. IsFiniteSet(D) /\ IsFiniteSet(F) /\ Cardinality(D) \in Nat /\ Cardinality(F) \in Nat
  BY <1>2, FS_Subset, FS_CardinalityType
<1>4. /\ held \in SUBSET S /\ SumOf(w, held) <= ReviewMaxTokens
      /\ \A x \in S \ held : w[x] <= MaxFileTokens =>
           SumOf(w, {y \in held : Before(files, y, x)}) + w[x] > ReviewMaxTokens
  BY NoRoomForTheRest
<1> HIDE DEF held
<1>5. CASE C \ D = {}
  <2>1. F \subseteq D
    BY <1>5
  <2>2. F = D
    BY <1>3, <2>1, FS_Subset DEF held
  <2>3. SumOf(w, F) \in Nat
    <3>1. F \in SUBSET S
      BY <1>1
    <3> HIDE DEF S, w
    <3>2. QED
      BY <1>1, <3>1, SumAdds
  <2>4. SumOf(w, D) <= SumOf(w, F)
    <3>1. SumOf(w, D) = SumOf(w, F)
      BY <2>2
    <3> HIDE DEF w, D
    <3>2. QED
      BY <2>3, <3>1
  <2>5. QED
    BY <2>4 DEF held
<1>6. CASE C \ D # {}
  <2>1. PICK x \in C \ D : \A z \in C \ D : z = x \/ Before(files, x, z)
    <3>1. C \ D \in SUBSET (1..Len(files))
      BY <1>1
    <3> HIDE DEF C, D
    <3>2. QED
      BY <1>6, <3>1, FirstOf
  <2> DEFINE Hx == {y \in held : Before(files, y, x)}
  <2>2. x \in S \ held /\ w[x] <= MaxFileTokens /\ SumOf(w, Hx) + w[x] > ReviewMaxTokens
    BY <1>4 DEF Class
  <2>3. \A y \in C : (Before(files, y, x) => w[y] <= w[x]) /\ (~Before(files, y, x) => w[x] <= w[y])
    <3> SUFFICES ASSUME NEW y \in C
                 PROVE  (Before(files, y, x) => w[y] <= w[x]) /\ (~Before(files, y, x) => w[x] <= w[y])
      OBVIOUS
    <3>1. x \in 1..Len(files) /\ y \in 1..Len(files) /\ files[x].source = files[y].source
      BY DEF Class
    <3>2. QED
      BY <3>1, SmallestFirst
  <2>4. ASSUME NEW y \in D PROVE Before(files, y, x)
    <3>1. SUFFICES ASSUME ~Before(files, y, x) PROVE FALSE
      OBVIOUS
    <3>2. w[x] <= w[y] /\ y \in S \ Hx /\ y \in held
      BY <1>1, <2>3, <3>1
    <3>3. Hx \in SUBSET S /\ Hx \cup {y} \in SUBSET held
      BY <1>4, <3>2
    <3> HIDE DEF Hx, w, S, D, C
    <3>4. \A T \in SUBSET S : \A z \in S \ T : SumOf(w, T \cup {z}) = SumOf(w, T) + w[z]
      BY <1>1, SumAdds
    <3>5. SumOf(w, Hx \cup {y}) = SumOf(w, Hx) + w[y]
      BY <3>2, <3>3, <3>4
    <3>6. SumOf(w, Hx \cup {y}) <= SumOf(w, held)
      BY <1>1, <1>4, <3>3, SumGrows
    <3>7. SumOf(w, Hx) \in Nat /\ SumOf(w, held) \in Nat /\ w[x] \in Nat /\ w[y] \in Nat
      BY <1>1, <1>4, <2>2, <3>2, <3>3, SumAdds
    <3>8. ReviewMaxTokens \in Nat
      BY PlanAssumption
    <3>9. QED
      BY <1>4, <2>2, <3>2, <3>5, <3>6, <3>7, <3>8
  <2>5. \A y \in D \ F : w[y] <= w[x]
    BY <2>3, <2>4
  <2>6. \A y \in F \ D : w[x] <= w[y]
    <3> SUFFICES ASSUME NEW y \in F \ D PROVE w[x] <= w[y]
      OBVIOUS
    <3>1. y \in C \ D /\ (y = x \/ Before(files, x, y))
      BY <2>1
    <3>2. \A i \in 1..Len(files) : files[i].tokens \in Nat /\ SourceRank(files[i]) \in Int /\ i \in Nat
      BY TokensAreNumbers DEF SourceRank
    <3>3. x \in 1..Len(files) /\ y \in 1..Len(files)
      BY <1>1, <3>1
    <3>4. ~Before(files, y, x)
      BY <3>1, <3>2, <3>3 DEF Before
    <3>5. QED
      BY <2>3, <3>1, <3>4
  <2>7. D \in SUBSET S /\ F \in SUBSET S /\ w[x] \in Nat /\ Cardinality(D) <= Cardinality(F)
    BY <1>1, <1>3, <2>2 DEF held
  <2>8. SumOf(w, D) <= SumOf(w, F)
    <3> HIDE DEF D, w, S, C
    <3>1. QED
      BY <1>1, <2>5, <2>6, <2>7, SumOfLighter
  <2>9. QED
    BY <2>8 DEF held
<1>7. QED
  BY <1>5, <1>6

(* The review's budget covers as many source files as any choice of files  *)
(* within it, and no choice with as many of them has more files.           *)
THEOREM PlanCoversMost ==
  ASSUME NEW files \in Seq(File), NEW F \in SUBSET (1..Len(files)),
         \A i \in F : TokensOf(files)[i] <= MaxFileTokens,
         SumOf(TokensOf(files), F) <= ReviewMaxTokens
  PROVE  LET sent == Held(PlanLlmReview(files).batches)
             Sources(G) == Cardinality({i \in G : files[i].source})
         IN  \/ Sources(F) < Sources(sent)
             \/ Sources(F) = Sources(sent) /\ Cardinality(F) <= Cardinality(sent)
<1> DEFINE n == Len(files)
           S == 1..n
           w == TokensOf(files)
           plan == PlanLlmReview(files)
           held == Held(plan.batches)
           Of(source) == Class(files, source)
           Fs == F \cap Of(TRUE)
           Fo == F \cap Of(FALSE)
           Ds == held \cap Of(TRUE)
           Do == held \cap Of(FALSE)
<1>0. IsFiniteSet(S) /\ Weighs(w, S)
  BY TokensAreNumbers, PrefixCounts
<1>1. \A i \in S : w[i] \in Nat /\ files[i].source \in BOOLEAN
  <2>1. \A i \in S : files[i] \in File
    BY ElementOfSeq
  <2>2. QED
    BY <2>1, TokensAreNumbers DEF File
<1>2. plan \in Plans(n) /\ PlanIsSound(files, plan, S)
  BY PlanIsSoundAtLast
<1>3. /\ held \in SUBSET S /\ SumOf(w, held) <= ReviewMaxTokens
      /\ \A i \in held : w[i] <= MaxFileTokens
      /\ \A x \in S \ held : w[x] <= MaxFileTokens =>
           SumOf(w, {y \in held : Before(files, y, x)}) + w[x] > ReviewMaxTokens
  <2> HIDE DEF plan
  <2>1. QED
    BY <1>2, NoRoomForTheRest
<1>4. /\ held = Ds \cup Do /\ Ds \cap Do = {} /\ F = Fs \cup Fo /\ Fs \cap Fo = {}
      /\ {i \in held : files[i].source} = Ds /\ {i \in F : files[i].source} = Fs
  <2> HIDE DEF held, w
  <2>1. \A i \in held \cup F : i \in S /\ w[i] <= MaxFileTokens
    BY <1>3 DEF w
  <2>2. \A i \in held \cup F : (i \in Of(TRUE) <=> files[i].source) /\ (i \in Of(FALSE) <=> ~files[i].source)
    BY <1>1, <2>1 DEF Class, w
  <2>3. QED
    BY <2>2
<1>5. Fs \in SUBSET Of(TRUE) /\ Fo \in SUBSET Of(FALSE) /\ Ds \in SUBSET Of(TRUE) /\ Do \in SUBSET Of(FALSE)
      /\ Fs \in SUBSET S /\ Fo \in SUBSET S /\ Ds \in SUBSET S /\ Do \in SUBSET S
      /\ \A b : Of(b) \in SUBSET S
  BY DEF Class
<1>6. /\ IsFiniteSet(Fs) /\ IsFiniteSet(Fo) /\ IsFiniteSet(Ds) /\ IsFiniteSet(Do)
      /\ Cardinality(Fs) \in Nat /\ Cardinality(Fo) \in Nat
      /\ Cardinality(Ds) \in Nat /\ Cardinality(Do) \in Nat
  <2> HIDE DEF Fs, Fo, Ds, Do, S
  <2>1. IsFiniteSet(Fs) /\ IsFiniteSet(Fo) /\ IsFiniteSet(Ds) /\ IsFiniteSet(Do)
    BY <1>0, <1>5, FS_Subset
  <2>2. QED
    BY <2>1, FS_CardinalityType
<1>7. Cardinality(F) = Cardinality(Fs) + Cardinality(Fo) /\ Cardinality(held) = Cardinality(Ds) + Cardinality(Do)
  <2> HIDE DEF Fs, Fo, Ds, Do, held
  <2>1. Cardinality(Fs \cup Fo) = Cardinality(Fs) + Cardinality(Fo) - Cardinality(Fs \cap Fo)
    BY <1>6, FS_Union
  <2>2. Cardinality(Ds \cup Do) = Cardinality(Ds) + Cardinality(Do) - Cardinality(Ds \cap Do)
    BY <1>6, FS_Union
  <2>3. Cardinality({}) = 0
    BY FS_EmptySet
  <2>4. Cardinality(F) = Cardinality(Fs \cup Fo) /\ Cardinality(held) = Cardinality(Ds \cup Do)
    BY <1>4, Zenon
  <2>5. Cardinality(Fs \cap Fo) = 0 /\ Cardinality(Ds \cap Do) = 0
    BY <1>4, <2>3, Zenon
  <2>6. QED
    BY <1>6, <2>1, <2>2, <2>4, <2>5
<1>8. SumOf(w, F) = SumOf(w, Fs) + SumOf(w, Fo) /\ SumOf(w, Fs) \in Nat /\ SumOf(w, Fo) \in Nat
  <2> HIDE DEF Fs, Fo, w, S
  <2>0. Fs \cap Fo = {}
    BY <1>4
  <2>1. SumOf(w, Fs \cup Fo) = SumOf(w, Fs) + SumOf(w, Fo)
    BY <1>0, <1>5, <2>0, SumOfUnion
  <2>2. \A T \in SUBSET S : SumOf(w, T) \in Nat
    BY <1>0, SumAdds
  <2>3. SumOf(w, F) = SumOf(w, Fs \cup Fo)
    BY <1>4, Zenon
  <2>4. QED
    BY <1>5, <2>1, <2>2, <2>3
<1>9. ReviewMaxTokens \in Nat
  BY PlanAssumption
<1>10. ~(Cardinality(Ds) < Cardinality(Fs))
  <2>1. SUFFICES ASSUME Cardinality(Ds) < Cardinality(Fs) PROVE FALSE
    OBVIOUS
  <2>2. PICK x \in Of(TRUE) \ Ds : SumOf(w, {y \in Ds : Before(files, y, x)} \cup {x}) <= SumOf(w, Fs)
    <3> HIDE DEF Ds, Fs
    <3>1. QED
      BY <1>5, <2>1, LightestOfTheClass
  <2> DEFINE Hx == {y \in held : Before(files, y, x)}
  <2>3. x \in S \ held /\ w[x] <= MaxFileTokens
    BY DEF Class
  <2>4. SumOf(w, Hx) + w[x] > ReviewMaxTokens
    BY <1>3, <2>3
  <2>5. \A y \in held : Before(files, y, x) => y \in Ds
    <3>1. \A y \in Do : ~Before(files, y, x)
      BY DEF Before, Class, SourceRank
    <3> HIDE DEF Ds, Do
    <3>2. QED
      BY <1>4, <3>1
  <2>6. {y \in Ds : Before(files, y, x)} = Hx
    BY <2>5
  <2>7. SumOf(w, Hx \cup {x}) <= SumOf(w, Fs)
    BY <2>2, <2>6
  <2>8. Hx \in SUBSET S /\ x \in S \ Hx
    BY <1>3, <2>3
  <2> HIDE DEF Hx, w, S, Fs, Fo
  <2>9. \A T \in SUBSET S : \A z \in S \ T : SumOf(w, T \cup {z}) = SumOf(w, T) + w[z]
    BY <1>0, SumAdds
  <2>10. SumOf(w, Hx) \in Nat /\ w[x] \in Nat
    BY <1>0, <1>1, <2>8, SumAdds
  <2>11. SumOf(w, F) <= ReviewMaxTokens
    BY DEF w
  <2>12. SumOf(w, Hx \cup {x}) = SumOf(w, Hx) + w[x]
    BY <2>8, <2>9
  <2>13. QED
    BY <1>8, <1>9, <2>4, <2>7, <2>10, <2>11, <2>12
<1>11. ASSUME Cardinality(Fs) = Cardinality(Ds), Cardinality(Do) < Cardinality(Fo) PROVE FALSE
  <2>1. SumOf(w, Ds) <= SumOf(w, Fs)
    <3> HIDE DEF Fs, plan
    <3>1. QED
      BY <1>2, <1>5, <1>11, SentAreTheLightest
  <2>2. PICK x \in Of(FALSE) \ Do : SumOf(w, {y \in Do : Before(files, y, x)} \cup {x}) <= SumOf(w, Fo)
    <3> HIDE DEF Do, Fo
    <3>1. QED
      BY <1>5, <1>11, LightestOfTheClass
  <2> DEFINE Hx == {y \in held : Before(files, y, x)}
             Ax == {y \in Do : Before(files, y, x)} \cup {x}
  <2>3. x \in S \ held /\ w[x] <= MaxFileTokens
    BY DEF Class
  <2>4. SumOf(w, Hx) + w[x] > ReviewMaxTokens
    BY <1>3, <2>3
  <2>5. \A y \in Ds : Before(files, y, x)
    BY DEF Before, Class, SourceRank
  <2>6. Hx \cup {x} = Ds \cup Ax /\ Ds \cap Ax = {}
    BY ZenonT(60), <1>4, <2>3, <2>5
  <2>7. Hx \in SUBSET S /\ x \in S \ Hx /\ Ax \in SUBSET S
    BY <1>3, <1>5, <2>3
  <2>8. SumOf(w, Ax) <= SumOf(w, Fo)
    BY <2>2
  <2> HIDE DEF Hx, Ax, w, S, Fs, Fo, Ds, Do
  <2>9. \A T \in SUBSET S : \A z \in S \ T : SumOf(w, T \cup {z}) = SumOf(w, T) + w[z]
    BY <1>0, SumAdds
  <2>10. \A T \in SUBSET S : SumOf(w, T) \in Nat
    BY <1>0, SumAdds
  <2>11. SumOf(w, Ds \cup Ax) = SumOf(w, Ds) + SumOf(w, Ax)
    BY <1>0, <1>5, <2>6, <2>7, SumOfUnion
  <2>12. SumOf(w, Hx \cup {x}) = SumOf(w, Hx) + w[x]
    BY <2>7, <2>9
  <2>13. SumOf(w, Hx \cup {x}) = SumOf(w, Ds \cup Ax)
    BY <2>6, Zenon
  <2>14. SumOf(w, Hx) \in Nat /\ SumOf(w, Ds) \in Nat /\ SumOf(w, Ax) \in Nat /\ w[x] \in Nat
    BY <1>1, <1>5, <2>7, <2>10
  <2>15. SumOf(w, F) <= ReviewMaxTokens
    BY DEF w
  <2>16. QED
    BY <1>8, <1>9, <2>1, <2>4, <2>8, <2>11, <2>12, <2>13, <2>14, <2>15
<1>12. \/ Cardinality(Fs) < Cardinality(Ds)
       \/ Cardinality(Fs) = Cardinality(Ds) /\ Cardinality(F) <= Cardinality(held)
  <2> HIDE DEF Fs, Fo, Ds, Do, held
  <2>1. QED
    BY <1>6, <1>7, <1>10, <1>11
<1>13. QED
  BY <1>4, <1>12
---------------------------------------------------------------------------------
(* The inputs: what the rules match, the LLM's items, the changed files.   *)
RuleMatch == [issue : Issues, line : Nat]
Item == [issue : Issues, from : 1..MaxLine, to : 1..MaxLine, code : {"new", "none"}]

ChangedFile == [path : Nat, status : Statuses, generated : BOOLEAN, binary : BOOLEAN,
                patch : Patches, language : Languages, fate : Fates]

(* A pull request has a file once: a path names one of its files.          *)
ChangedAre ==
  /\ changed \in SUBSET ChangedFile /\ IsFiniteSet(changed)
  /\ \A f \in changed : f.path <= Cardinality(changed)
  /\ \A f, g \in changed : f.path = g.path => f = g

(* A hunk's lines, and a formatter's, which may have some of the wrapper.  *)
HunkRow == [code : Seq(Tokens), layout : {"own", "standard"}, added : BOOLEAN]
AllTokens == Tokens \cup {WrapperOpen, "}"}
Formatted == Seq(TextLine(AllTokens))

(* What the inputs are, whatever their bounds.  A formatter's text has the *)
(* hunk's tokens and nothing else.                                         *)
InputsAre ==
  /\ ChangedAre
  /\ request \in Seq(File)
  /\ raw \in Seq(Reportable(FindingKeys, Confidences))
  /\ settings.override \in Thresholds \cup {None} /\ settings.organization \in Thresholds \cup {None}
  /\ edits \in Seq(Edits)
  /\ hunk \in Seq(HunkRow) /\ formatted \in Formatted
  /\ formatted # <<>> => Code(hunk) # <<>> /\ Code(formatted) = Code(hunk)
  /\ added \in SUBSET Nat
  /\ matches \in Seq(RuleMatch) /\ \A i \in DOMAIN matches : matches[i].line \in added
  /\ items \in Seq(Item)

(* The code of a text is its lines' tokens.                                *)
LEMMA CodeIsTokens ==
  ASSUME NEW T, NEW X, NEW text \in Seq(X), \A x \in X : x.code \in Seq(T)
  PROVE  Code(text) \in Seq(T)
<1> DEFINE n == Len(text)
           codes == [i \in DOMAIN text |-> text[i].code]
<1>1. n \in Nat /\ DOMAIN text = 1..n /\ \A i \in 1..n : text[i] \in X
  BY LenProperties, ElementOfSeq
<1>2. codes \in [1..n -> Seq(T)]
  BY <1>1
<1> HIDE DEF n, codes
<1>3. codes \in Seq(Seq(T))
  BY <1>1, <1>2, ListOfFunction
<1>4. FlattenSeq(codes) \in Seq(T)
  BY <1>3, FlattenRange
<1>5. QED
  BY <1>4 DEF Code, codes

(* A formatter's output is the fragment's tokens, cut up into lines.       *)
LEMMA OutputsAreCutUp ==
  ASSUME NEW T, NEW source \in Seq(T), source # <<>>, NEW w, NEW output \in Outputs(source, w)
  PROVE  CutUp(output, T, source)
<1> DEFINE last == Len(source)
           own == {i \in 1..(last - 1) : \/ i <= w.unmatchedClose /\ source[i + 1] # "}"
                                         \/ i >= last - w.unclosed /\ source[i] # "{"}
           Line(from, to) == [code |-> SubSeq(source, from, to), layout |-> "standard"]
           Broken(ends) == [k \in DOMAIN ends |-> Line(IF k = 1 THEN 1 ELSE ends[k - 1] + 1, ends[k])]
           texts == {Broken(Ascending(breaks \cup own \cup {last})) : breaks \in SUBSET (1..(last - 1))}
           blank == [code |-> <<>>, layout |-> "standard"]
<1>1. last \in Nat /\ last # 0
  BY LenProperties, EmptySeq
<1>2. ASSUME NEW text \in texts PROVE CutUp(text, T, source)
  <2>1. PICK breaks \in SUBSET (1..(last - 1)) :
          text = Broken(Ascending(breaks \cup own \cup {last}))
    OBVIOUS
  <2> DEFINE B == breaks \cup own \cup {last}
             ends == Ascending(B)
  <2>2. B \in SUBSET (1..last) /\ last \in B
    <3>1. own \subseteq 1..(last - 1)
      OBVIOUS
    <3> HIDE DEF last, own
    <3>2. QED
      BY <1>1, <3>1
  <2>3. text = [k \in DOMAIN ends |->
                  [code |-> SubSeq(source, IF k = 1 THEN 1 ELSE ends[k - 1] + 1, ends[k]),
                   layout |-> "standard"]]
    BY <2>1, Zenon
  <2> HIDE DEF B
  <2>4. QED
    BY ZenonT(60), <2>2, <2>3, BrokenIsCut
<1>3. Outputs(source, w) = texts \cup UNION {{InsertAt(text, k, blank) : k \in 2..Len(text)} : text \in texts}
  BY Zenon DEF Outputs
<1>4. output \in texts \/ \E text \in texts : \E k \in 2..Len(text) : output = InsertAt(text, k, blank)
  <2> HIDE DEF texts, blank
  <2>1. QED
    BY <1>3, Zenon
<1> HIDE DEF texts, last
<1>5. ASSUME NEW text \in texts, NEW k \in 2..Len(text), output = InsertAt(text, k, blank)
      PROVE  CutUp(output, T, source)
  <2>1. CutUp(text, T, source)
    BY <1>2
  <2>2. CutUp(InsertAt(text, k, blank), T, source)
    BY <2>1, BlankIsCut
  <2>3. QED
    BY <1>5, <2>2, Zenon
<1>6. QED
  BY <1>2, <1>4, <1>5

(* A formatter's text of a hunk has the hunk's tokens.                     *)
LEMMA FormatKeepsTheCode ==
  ASSUME hunk \in Seq(HunkRow), Format
  PROVE  formatted' \in Formatted /\ Code(formatted') = Code(hunk)
<1>0. PICK python \in BOOLEAN :
        \E w \in {Wrapper(Code(hunk), python)} :
          \E output \in Outputs(Fragment(Code(hunk), w), w) : formatted' \in StripWrapper(output, w)
  BY Zenon DEF Format
<1> DEFINE w == Wrapper(Code(hunk), python)
<1>1. PICK output \in Outputs(Fragment(Code(hunk), w), w) : formatted' \in StripWrapper(output, w)
  BY <1>0, Zenon
<1> HIDE DEF w
<1> DEFINE source == Code(hunk)
           T == AllTokens
           f == Fragment(source, w)
           text == formatted'
<1>2. source \in Seq(T)
  <2>1. \A x \in HunkRow : x.code \in Seq(Tokens)
    BY DEF HunkRow
  <2>2. Code(hunk) \in Seq(Tokens)
    BY <2>1, CodeIsTokens
  <2>3. Tokens \subseteq AllTokens
    BY DEF AllTokens
  <2>4. QED
    BY <2>2, <2>3, SeqMonotonic
<1>3. source # <<>>
  BY DEF Format
<1>4. HasBraces(T)
  BY DEF HasBraces, AllTokens
<1> HIDE DEF source, T
<1>5. WrapperIs(w)
  <2>1. WrapperIs(Wrapper(source, python))
    BY <1>2, WrapperCounts
  <2>2. QED
    BY <2>1 DEF source, w
<1>6. f \in Seq(T) /\ f # <<>>
  <2>1. /\ f \in Seq(T) /\ Len(f) = w.unmatchedClose + Len(source) + w.unclosed
    BY <1>2, <1>4, <1>5, FragmentWraps DEF WrapsIn
  <2>2. w.unmatchedClose \in Nat /\ w.unclosed \in Nat /\ Len(source) \in Nat /\ Len(source) # 0
    BY <1>2, <1>3, <1>5, LenProperties, EmptySeq DEF WrapperIs
  <2> HIDE DEF f
  <2>3. Len(f) # 0
    BY <2>1, <2>2
  <2>4. QED
    BY <2>1, <2>3, EmptySeq
<1> HIDE DEF f
<1>7. CutUp(output, T, f)
  <2>1. output \in Outputs(f, w)
    BY <1>1 DEF f, source
  <2>2. QED
    BY <1>6, <2>1, OutputsAreCutUp
<1> HIDE DEF text
<1>8. StrippedTo(text, source, T)
  <2>1. text \in StripWrapper(output, w)
    BY <1>1 DEF text
  <2>2. CutUp(output, T, Fragment(source, w))
    BY <1>7 DEF f
  <2>3. QED
    BY <1>2, <1>3, <1>4, <1>5, <2>1, <2>2, StrippedHasTheCode
<1>9. text \in Formatted /\ Code(text) = source
  BY <1>8 DEF StrippedTo, Formatted, Code, T
<1>10. QED
  BY <1>9 DEF text, source

(* Nothing is in the inputs at first.                                      *)
LEMMA InputsInit == Init => InputsAre
<1> SUFFICES ASSUME Init PROVE InputsAre
  OBVIOUS
<1>1. \A S : <<>> \in Seq(S)
  OBVIOUS
<1>2. settings.override \in Thresholds \cup {None} /\ settings.organization \in Thresholds \cup {None}
  BY DEF Init, Default
<1>3. ChangedAre
  BY FS_EmptySet DEF Init, ChangedAre
<1>4. QED
  BY <1>1, <1>2, <1>3 DEF Init, InputsAre, Formatted

(* A file that is added has a path of its own.                             *)
LEMMA AddFileKeepsPaths ==
  ASSUME ChangedAre, AddFile
  PROVE  ChangedAre'
<1> DEFINE n == Cardinality(changed)
<1>1. PICK f \in ChangedFile : f.path = n + 1 /\ changed' = changed \cup {f}
  <2>1. n + 1 \in Nat
    BY FS_CardinalityType DEF ChangedAre
  <2>2. PICK s \in Statuses, g, b \in BOOLEAN, p \in Patches, l \in Languages, x \in Fates :
          changed' = changed \cup {[path |-> n + 1, status |-> s, generated |-> g, binary |-> b,
                                    patch |-> p, language |-> l, fate |-> x]}
    BY DEF AddFile
  <2> HIDE DEF n
  <2>3. QED
    BY <2>1, <2>2 DEF ChangedFile
<1>2. n \in Nat /\ \A g \in changed : g.path \in Nat /\ g.path <= n
  BY FS_CardinalityType DEF ChangedAre, ChangedFile
<1>3. f \notin changed
  <2> HIDE DEF n
  <2>1. QED
    BY <1>1, <1>2
<1>4. IsFiniteSet(changed') /\ Cardinality(changed') = n + 1
  <2>1. IsFiniteSet(changed \cup {f}) /\ Cardinality(changed \cup {f}) = n + 1
    BY <1>3, FS_AddElement DEF ChangedAre
  <2> HIDE DEF n
  <2>2. QED
    BY <1>1, <2>1
<1> HIDE DEF n
<1>5. \A g \in changed' : g.path <= n + 1
  BY <1>1, <1>2
<1>6. \A g, h \in changed' : g.path = h.path => g = h
  <2>1. \A g, h \in changed : g.path = h.path => g = h
    BY DEF ChangedAre
  <2>2. \A g \in changed : g.path # n + 1
    BY <1>2
  <2>3. QED
    BY <1>1, <2>1, <2>2
<1>7. changed' \in SUBSET ChangedFile
  BY <1>1 DEF ChangedAre
<1>8. QED
  BY <1>4, <1>5, <1>6, <1>7 DEF ChangedAre

(* Every step adds an element of its input's kind.                         *)
LEMMA InputsNext == InputsAre /\ [Next]_vars => InputsAre'
<1> SUFFICES ASSUME InputsAre, [Next]_vars PROVE InputsAre'
  OBVIOUS
<1>0. changed' = changed => ChangedAre'
  BY DEF InputsAre, ChangedAre
<1>1. CASE AddRequestFile
  <2>1. PICK n \in Sizes, s \in BOOLEAN : request' = Append(request, [tokens |-> n, source |-> s])
    BY <1>1 DEF AddRequestFile
  <2>2. [tokens |-> n, source |-> s] \in File
    BY InputsAssumption DEF File
  <2>3. request' \in Seq(File)
    BY <2>1, <2>2, AppendProperties DEF InputsAre
  <2>4. QED
    BY <1>0, <1>1, <2>3 DEF AddRequestFile, InputsAre, formatVars, securityVars
<1>2. CASE AddFinding
  <2>1. raw' \in Seq(Reportable(FindingKeys, Confidences))
    BY <1>2, AppendProperties DEF AddFinding, InputsAre
  <2>2. QED
    BY <1>0, <1>2, <2>1 DEF AddFinding, InputsAre, formatVars, securityVars
<1>3. CASE AddFile
  <2>1. ChangedAre'
    BY <1>3, AddFileKeepsPaths DEF InputsAre
  <2>2. QED
    BY <1>3, <2>1 DEF AddFile, InputsAre, securityVars, formatVars
<1>4. CASE AddEdit
  <2>1. edits' \in Seq(Edits)
    BY <1>4, AppendProperties DEF AddEdit, InputsAre
  <2>2. QED
    BY <1>0, <1>4, <2>1 DEF AddEdit, InputsAre, formatVars, securityVars
<1>5. CASE AddLine
  <2>0. PICK n \in 0..(MaxTokens - Len(Code(hunk))) :
          \E code \in [1..n -> Tokens], layout \in {"own", "standard"}, plus \in BOOLEAN :
            hunk' = Append(hunk, [code |-> code, layout |-> layout, added |-> plus])
    BY <1>5 DEF AddLine
  <2>1. PICK code \in [1..n -> Tokens], layout \in {"own", "standard"}, plus \in BOOLEAN :
          hunk' = Append(hunk, [code |-> code, layout |-> layout, added |-> plus])
    BY <2>0
  <2>2. n \in Nat
    <3>1. \A x \in HunkRow : x.code \in Seq(Tokens)
      BY DEF HunkRow
    <3>2. Code(hunk) \in Seq(Tokens)
      BY <3>1, CodeIsTokens DEF InputsAre
    <3>3. Len(Code(hunk)) \in Nat /\ MaxTokens \in Nat
      BY <3>2, LenProperties, InputsAssumption
    <3>4. QED
      BY <3>3
  <2>3. code \in Seq(Tokens)
    BY <2>2, ListOfFunction
  <2>4. [code |-> code, layout |-> layout, added |-> plus] \in HunkRow
    BY <2>3 DEF HunkRow
  <2>5. hunk' \in Seq(HunkRow)
    BY <2>1, <2>4, AppendProperties DEF InputsAre
  <2>6. formatted' = <<>> /\ formatted' \in Formatted
    BY <1>5 DEF AddLine, InputsAre
  <2>7. QED
    BY <1>0, <1>5, <2>5, <2>6 DEF AddLine, InputsAre, formatVars, securityVars
<1>6. CASE Format
  <2>1. formatted' \in Formatted /\ Code(formatted') = Code(hunk) /\ Code(hunk) # <<>> /\ hunk' = hunk
    BY <1>6, FormatKeepsTheCode DEF Format, InputsAre
  <2>2. QED
    BY <1>0, <1>6, <2>1 DEF Format, InputsAre, securityVars
<1>7. CASE Patch
  <2>1. added = {} /\ added' \in SUBSET Nat
    BY <1>7, InputsAssumption DEF Patch
  <2>2. \A i \in DOMAIN matches : matches[i].line \in added'
    BY <2>1 DEF InputsAre
  <2>3. QED
    BY <1>0, <1>7, <2>1, <2>2 DEF Patch, InputsAre, formatVars
<1>8. CASE AddMatch
  <2>1. PICK issue \in Issues, line \in added : matches' = Append(matches, [issue |-> issue, line |-> line])
    BY <1>8 DEF AddMatch
  <2>2. [issue |-> issue, line |-> line] \in RuleMatch /\ matches \in Seq(RuleMatch)
    BY DEF RuleMatch, InputsAre
  <2>3. matches' \in Seq(RuleMatch) /\ Len(matches') = Len(matches) + 1
        /\ matches'[Len(matches) + 1] = [issue |-> issue, line |-> line]
        /\ \A i \in 1..Len(matches) : matches'[i] = matches[i]
    BY <2>1, <2>2, AppendProperties
  <2>4. Len(matches) \in Nat /\ DOMAIN matches = 1..Len(matches) /\ DOMAIN matches' = 1..Len(matches')
    BY <2>2, <2>3, LenProperties
  <2>5. \A i \in DOMAIN matches' : matches'[i].line \in added
    <3> SUFFICES ASSUME NEW i \in DOMAIN matches' PROVE matches'[i].line \in added
      OBVIOUS
    <3>1. i \in 1..Len(matches) \/ i = Len(matches) + 1
      BY <2>3, <2>4
    <3>2. QED
      BY <2>3, <2>4, <3>1 DEF InputsAre
  <2>6. QED
    BY <1>0, <1>8, <2>3, <2>5 DEF AddMatch, InputsAre, formatVars
<1>9. CASE AddItem
  <2>1. items' \in Seq(Item)
    BY <1>9, AppendProperties DEF AddItem, InputsAre, Item
  <2>2. QED
    BY <1>0, <1>9, <2>1 DEF AddItem, InputsAre, formatVars
<1>10. CASE UNCHANGED vars
  BY <1>0, <1>10 DEF vars, formatVars, securityVars, InputsAre
<1>11. QED
  BY <1>1, <1>2, <1>3, <1>4, <1>5, <1>6, <1>7, <1>8, <1>9, <1>10 DEF Next

(* The inputs are well typed.                                              *)
THEOREM TypesOfInputs == Spec => []InputsAre
<1>1. QED
  BY InputsInit, InputsNext, PTL DEF Spec
---------------------------------------------------------------------------------
(* The planner's names for what the request's plan is.                     *)
LEMMA PlanOfTheRequest ==
  ASSUME InputsAre
  PROVE  /\ request \in Seq(File) /\ DOMAIN request = 1..Len(request)
         /\ \A F : Size(F) = SumOf(TokensOf(request), F)
         /\ Sent = Held(Plan.batches)
         /\ \A i \in DOMAIN request : TokensOf(request)[i] = request[i].tokens /\ request[i].tokens \in Nat
<1>1. request \in Seq(File)
  BY DEF InputsAre
<1>2. DOMAIN request = 1..Len(request)
  BY <1>1, LenProperties
<1>3. [i \in DOMAIN request |-> request[i].tokens] = TokensOf(request)
  BY <1>2 DEF TokensOf
<1>4. \A F : Size(F) = SumOf(TokensOf(request), F)
  <2> SUFFICES ASSUME NEW F PROVE Size(F) = SumOf(TokensOf(request), F)
    OBVIOUS
  <2> DEFINE w == [i \in DOMAIN request |-> request[i].tokens]
  <2>1. Size(F) = MapThenSumSet(LAMBDA i : w[i], F)
    BY DEF Size
  <2> HIDE DEF w
  <2>2. MapThenSumSet(LAMBDA i : w[i], F) = SumOf(w, F)
    BY DEF SumOf
  <2>3. w = TokensOf(request)
    BY <1>3 DEF w
  <2>4. QED
    BY <2>1, <2>2, <2>3, Zenon
<1>5. Sent = Held(Plan.batches)
  BY DEF Sent, Held, Range
<1>6. \A i \in DOMAIN request : TokensOf(request)[i] = request[i].tokens /\ request[i].tokens \in Nat
  BY <1>1, <1>2, TokensAreNumbers
<1>7. QED
  BY <1>1, <1>2, <1>4, <1>5, <1>6

(* The plan of a request is sound: what is true of any files is true of    *)
(* its own.                                                                *)
LEMMA FilesOnce == InputsAre => EveryFileOnce
<1> SUFFICES ASSUME InputsAre, request # <<>> PROVE EveryFileOnce
  BY DEF EveryFileOnce
<1> DEFINE n == Len(request)
           w == TokensOf(request)
           plan == Plan
           held == Held(plan.batches)
           In(i) == {b \in DOMAIN plan.batches : i \in plan.batches[b].files}
           Skips(i) == {s \in plan.skipped : s.path = i}
<1>1. /\ request \in Seq(File) /\ DOMAIN request = 1..n
      /\ \A F : Size(F) = SumOf(w, F)
      /\ Sent = held
      /\ \A i \in DOMAIN request : w[i] = request[i].tokens /\ request[i].tokens \in Nat
  BY PlanOfTheRequest
<1>2. plan \in Plans(n) /\ PlanIsSound(request, plan, 1..n)
  BY <1>1, PlanIsSoundAtLast DEF Plan
<1> HIDE DEF plan
<1>3. /\ 1..n = held \cup {s.path : s \in plan.skipped}
      /\ BatchesAreSound(w, plan.batches) /\ SkipsAreSound(request, held, plan.skipped)
      /\ plan.used = SumOf(w, held) /\ plan.used <= ReviewMaxTokens
  BY <1>2 DEF PlanIsSound
<1>4. ASSUME NEW i \in 1..n PROVE Cardinality(In(i)) + Cardinality(Skips(i)) = 1
  <2>0. \A x : Cardinality({x}) = 1
    BY FS_Singleton
  <2>1. CASE i \in held
    <3>1. PICK b \in DOMAIN plan.batches : i \in plan.batches[b].files
      BY <2>1 DEF Held
    <3>2. In(i) = {b}
      BY <1>3, <3>1 DEF BatchesAreSound
    <3>3. Skips(i) = {}
      BY <1>3, <2>1 DEF SkipsAreSound
    <3> HIDE DEF In, Skips
    <3>4. Cardinality(In(i)) = 1 /\ Cardinality(Skips(i)) = 0
      BY <2>0, <3>2, <3>3, FS_EmptySet, Zenon
    <3>5. QED
      BY <3>4
  <2>2. CASE i \notin held
    <3>1. PICK s \in plan.skipped : s.path = i
      BY <1>3, <2>2
    <3>2. Skips(i) = {s}
      BY <1>3, <3>1 DEF SkipsAreSound
    <3>3. In(i) = {}
      BY <2>2 DEF Held
    <3> HIDE DEF In, Skips
    <3>4. Cardinality(In(i)) = 0 /\ Cardinality(Skips(i)) = 1
      BY <2>0, <3>2, <3>3, FS_EmptySet, Zenon
    <3>5. QED
      BY <3>4
  <2>3. QED
    BY <2>1, <2>2
<1>5. ASSUME NEW i \in 1..n, NEW s \in Skips(i)
      PROVE  IF request[i].tokens > MaxFileTokens THEN s.reason = "too_large"
             ELSE s.reason = "over_budget" /\ SumOf(w, held) + request[i].tokens > ReviewMaxTokens
  <2>1. s \in plan.skipped /\ s.path = i /\ w[i] = request[i].tokens /\ w[i] \in Nat
    BY <1>1
  <2>2. /\ IF w[i] > MaxFileTokens THEN s.reason = "too_large"
           ELSE /\ s.reason = "over_budget"
                /\ SumOf(w, {y \in held : Before(request, y, i)}) + w[i] > ReviewMaxTokens
    BY <1>3, <2>1 DEF SkipsAreSound
  <2> DEFINE H == {y \in held : Before(request, y, i)}
             S == 1..n
  <2>3. H \in SUBSET held /\ held \in SUBSET S
    BY <1>3
  <2>4. IsFiniteSet(S) /\ Weighs(w, S)
    BY <1>1, TokensAreNumbers, PrefixCounts
  <2> HIDE DEF H, S, held, w
  <2>5. SumOf(w, H) <= SumOf(w, held)
    BY <2>3, <2>4, SumGrows
  <2>6. H \in SUBSET S
    BY <2>3
  <2>7. SumOf(w, H) \in Nat /\ SumOf(w, held) \in Nat
    BY <2>3, <2>4, <2>6, SumAdds
  <2>8. ReviewMaxTokens \in Nat
    BY PlanAssumption
  <2>9. QED
    BY <2>1, <2>2, <2>5, <2>7, <2>8 DEF H
<1>6. ASSUME NEW b \in Range(plan.batches)
      PROVE  /\ b.tokens = SumOf(w, b.files)
             /\ b.tokens > MaxBatchTokens => Cardinality(b.files) = 1
  <2>1. PICK k \in DOMAIN plan.batches : plan.batches[k] = b
    BY DEF Range
  <2>2. /\ b.tokens = SumOf(w, b.files)
        /\ b.tokens > MaxBatchTokens => \E i \in b.files : b.files = {i}
    BY <1>3, <2>1 DEF BatchesAreSound
  <2>3. QED
    BY <2>2, FS_Singleton
<1>7. SumOf(w, held) <= ReviewMaxTokens
  BY <1>3
<1>8. EveryFileOnce
  BY <1>1, <1>4, <1>5, <1>6, <1>7 DEF EveryFileOnce, plan
<1>9. QED
  BY <1>8

(* Every request's plan sends or skips each file once, for a true reason,  *)
(* and keeps to the review's budget; only a file alone in its batch may    *)
(* exceed the batch size.                                                  *)
THEOREM FilesArePlannedOnce == Spec => []EveryFileOnce
<1>1. QED
  BY TypesOfInputs, FilesOnce, PTL

(* plan.ts:33 "packed in that order into batches of at most                *)
(* `maxBatchTokens`": every batch keeps to it.                             *)
BatchesKeepToTheLimit ==
  request # <<>> => \A b \in Range(Plan.batches) : b.tokens <= MaxBatchTokens

(* A batch over the batch size would be one file, and no file is sent that *)
(* is over the file cap.                                                   *)
LEMMA BatchesKeep == InputsAre /\ MaxFileTokens <= MaxBatchTokens => BatchesKeepToTheLimit
<1> SUFFICES ASSUME InputsAre, MaxFileTokens <= MaxBatchTokens, request # <<>>,
                    NEW b \in Range(Plan.batches)
             PROVE  b.tokens <= MaxBatchTokens
  BY DEF BatchesKeepToTheLimit
<1> DEFINE n == Len(request)
           w == TokensOf(request)
           plan == Plan
<1>1. request \in Seq(File) /\ DOMAIN request = 1..n /\ plan = PlanLlmReview(request)
  BY PlanOfTheRequest DEF Plan
<1>2. plan \in Plans(n) /\ PlanIsSound(request, plan, 1..n)
  BY <1>1, PlanIsSoundAtLast
<1>3. PICK k \in DOMAIN plan.batches : plan.batches[k] = b
  BY DEF Range
<1> HIDE DEF plan
<1>4. /\ b.tokens = SumOf(w, b.files)
      /\ b.tokens > MaxBatchTokens => \E i \in b.files : b.files = {i}
      /\ \A i \in b.files : i \in 1..n /\ w[i] <= MaxFileTokens
  <2>1. b.files \subseteq Held(plan.batches)
    BY <1>3 DEF Held
  <2>2. QED
    BY <1>2, <1>3, <2>1 DEF PlanIsSound, BatchesAreSound
<1>5. IsFiniteSet(1..n) /\ Weighs(w, 1..n)
  BY <1>1, TokensAreNumbers, PrefixCounts
<1>6. MaxFileTokens \in Nat /\ MaxBatchTokens \in Nat
  BY PlanAssumption
<1>7. ASSUME b.tokens > MaxBatchTokens PROVE FALSE
  <2>1. PICK i \in 1..n : b.files = {i} /\ w[i] <= MaxFileTokens
    BY <1>4, <1>7
  <2> DEFINE S == 1..n
  <2> HIDE DEF S, w
  <2>2. SumOf(w, {}) = 0 /\ SumOf(w, {} \cup {i}) = SumOf(w, {}) + w[i] /\ w[i] \in Nat
    <3>1. IsFiniteSet(S) /\ Weighs(w, S) /\ i \in S
      BY <1>5 DEF S
    <3>2. SumOf(w, {}) = 0 /\ \A T \in SUBSET S : \A x \in S \ T : SumOf(w, T \cup {x}) = SumOf(w, T) + w[x]
      BY ZenonT(60), <3>1, SumAdds
    <3>3. w[i] \in Nat
      BY <3>1 DEF Weighs
    <3>4. QED
      BY <3>1, <3>2, <3>3
  <2>3. {} \cup {i} = b.files
    BY <2>1
  <2>4. b.tokens = w[i]
    <3>1. b.tokens = SumOf(w, {} \cup {i})
      BY <1>4, <2>3
    <3> DEFINE before == SumOf(w, {})
               all    == SumOf(w, {} \cup {i})
    <3>2. before = 0 /\ all = before + w[i] /\ w[i] \in Nat /\ b.tokens = all
      BY <2>2, <3>1
    <3> HIDE DEF before, all
    <3>3. QED
      BY <3>2
  <2>5. QED
    BY <1>6, <1>7, <2>1, <2>2, <2>4
<1>8. b.tokens \in Nat
  <2>1. plan.batches \in Seq(Batches(n))
    BY <1>2 DEF Plans
  <2>2. plan.batches[k] \in Batches(n)
    BY <2>1, <1>3, ElementOfSeq
  <2>3. QED
    BY <1>3, <2>2 DEF Batches
<1>9. QED
  BY <1>6, <1>7, <1>8

(* Every batch keeps to the batch size (plan.ts:33), however many files it *)
(* holds, in a configuration whose file cap is no larger.  Nothing in the  *)
(* code asks that of the two limits.                                       *)
THEOREM BatchesKeepToTheLimitIfFilesDo ==
  ASSUME MaxFileTokens <= MaxBatchTokens
  PROVE  Spec => []BatchesKeepToTheLimit
<1>1. InputsAre => BatchesKeepToTheLimit
  BY BatchesKeep
<1>2. QED
  BY <1>1, TypesOfInputs, PTL

(* The plan of a request covers the most.                                  *)
LEMMA Covers == InputsAre => CoversMost
<1> SUFFICES ASSUME InputsAre, request # <<>> PROVE CoversMost
  BY DEF CoversMost
<1> DEFINE w == TokensOf(request)
           Sources(G) == Cardinality({i \in G : request[i].source})
<1>1. /\ request \in Seq(File) /\ DOMAIN request = 1..Len(request)
      /\ \A F : Size(F) = SumOf(w, F)
      /\ Sent = Held(Plan.batches)
      /\ \A i \in DOMAIN request : w[i] = request[i].tokens /\ request[i].tokens \in Nat
  BY PlanOfTheRequest
<1>2. ASSUME NEW F \in SUBSET {i \in DOMAIN request : request[i].tokens <= MaxFileTokens},
             Size(F) <= ReviewMaxTokens
      PROVE  \/ Sources(F) < Sources(Sent)
             \/ Sources(F) = Sources(Sent) /\ Cardinality(F) <= Cardinality(Sent)
  <2>1. F \in SUBSET (1..Len(request)) /\ \A i \in F : TokensOf(request)[i] <= MaxFileTokens
    BY <1>1
  <2>2. SumOf(TokensOf(request), F) <= ReviewMaxTokens
    BY <1>1, <1>2
  <2>3. LET sent == Held(PlanLlmReview(request).batches)
        IN  \/ Sources(F) < Sources(sent)
            \/ Sources(F) = Sources(sent) /\ Cardinality(F) <= Cardinality(sent)
    BY <1>1, <2>1, <2>2, PlanCoversMost
  <2>4. QED
    BY <1>1, <2>3 DEF Plan
<1>3. CoversMost
  BY <1>2 DEF CoversMost
<1>4. QED
  BY <1>3

(* No choice of files within the review's budget has more source files     *)
(* than the plan, and none with as many has more files.                    *)
THEOREM PlansCoverMost == Spec => []CoversMost
<1>1. QED
  BY TypesOfInputs, Covers, PTL
---------------------------------------------------------------------------------
(* The Security Agent's findings: the rules' and the LLM's, and the two    *)
(* merged for a file in which the rules match m times.                     *)
Finding == [issue : Issues, from : Nat, to : Nat, fix : BOOLEAN]
Merged(m) == [rules : [1..m -> Finding], extra : Seq(Finding)]

(* A merged finding leaves as many rule findings as there were.            *)
LEMMA MergeKeepsType ==
  ASSUME NEW m \in Nat, NEW merged \in Merged(m), NEW f \in Finding
  PROVE  MergeLlm(merged, f) \in Merged(m)
<1>1. merged.rules \in [1..m -> Finding] /\ merged.extra \in Seq(Finding)
  BY DEF Merged
<1>2. AdoptSuggestion(f, merged.rules) \in [1..m -> Finding]
  BY <1>1 DEF AdoptSuggestion
<1>3. Append(merged.extra, f) \in Seq(Finding)
  BY <1>1, AppendProperties
<1>4. QED
  BY <1>1, <1>2, <1>3 DEF MergeLlm, Merged

(* The merge takes the LLM's findings one by one.                          *)
LEMMA MergeLlmFolds ==
  ASSUME NEW m \in Nat, NEW rules \in [1..m -> Finding], NEW list \in Seq(Finding)
  PROVE  \E h \in [0..Len(list) -> Merged(m)] :
           /\ h[0] = [rules |-> rules, extra |-> <<>>]
           /\ h[Len(list)] = FoldLeft(MergeLlm, [rules |-> rules, extra |-> <<>>], list)
           /\ \A k \in 1..Len(list) : h[k] = MergeLlm(h[k - 1], list[k])
<1> DEFINE n == Len(list)
           p == list
           A == Merged(m)
           base == [rules |-> rules, extra |-> <<>>]
           Op(a, x) == MergeLlm(a, x)
           step == [k \in 1..n |-> [a \in A |-> Op(a, p[k])]]
           Eq(it) == it = [s \in SUBSET (DOMAIN p) |-> IF s = {} THEN base
                                ELSE Op(it[s \ {Max(s)}], p[Max(s)])]
           iter == CHOOSE it : Eq(it)
<1>1. n \in Nat /\ DOMAIN p = 1..n
  BY LenProperties
<1>2. base \in A
  BY DEF Merged
<1>3. \A k \in 1..n : \A a \in A : Op(a, p[k]) \in A
  <2>1. \A k \in 1..n : p[k] \in Finding
    BY ElementOfSeq
  <2> HIDE DEF n, p
  <2>2. QED
    BY <2>1, MergeKeepsType
<1>4. KeepsTo(A, step, 1..n) /\ \A k \in 1..n : \A a \in A : step[k][a] = Op(a, p[k])
  <2>1. \A k \in 1..n : \A a \in A : step[k][a] = Op(a, p[k])
    OBVIOUS
  <2> HIDE DEF step, Op
  <2>2. QED
    BY <1>3, <2>1 DEF KeepsTo
<1> HIDE DEF step, base
<1>5. PICK g \in [SUBSET (1..n) -> A] : IsLeftFold(g, n, base, step)
  <2> HIDE DEF n, A, p, Op
  <2>1. QED
    BY <1>1, <1>2, <1>4, LeftFoldExists
<1>6. \A T \in SUBSET (1..n) : T # {} => Max(T) \in T
  BY <1>1, MaxInPrefix
<1>7. Eq(g)
  <2> HIDE DEF Op, A, p
  <2>1. \A T \in SUBSET (1..n) : g[T] = IF T = {} THEN base ELSE Op(g[T \ {Max(T)}], p[Max(T)])
    <3> SUFFICES ASSUME NEW T \in SUBSET (1..n), T # {}
                 PROVE  g[T] = Op(g[T \ {Max(T)}], p[Max(T)])
      BY <1>5 DEF IsLeftFold
    <3>1. Max(T) \in 1..n /\ T \ {Max(T)} \in SUBSET (1..n)
      BY <1>6
    <3>2. g[T \ {Max(T)}] \in A
      BY <1>5, <3>1
    <3>3. QED
      BY <1>4, <1>5, <3>1, <3>2 DEF IsLeftFold
  <2> HIDE DEF n
  <2>2. QED
    BY <1>1, <1>5, <2>1
<1>8. Eq(iter)
  <2> HIDE DEF Eq
  <2>1. QED
    BY <1>7
<1>9. FoldLeft(MergeLlm, base, p) = iter[1..n]
  <2>1. FoldLeft(MergeLlm, base, p) = iter[DOMAIN p]
    BY Zenon DEF FoldLeft, MapThenFoldSet
  <2>2. QED
    BY <1>1, <2>1
<1>10. Unrolls(iter, n, A, base, step)
  <2>1. iter[{}] = base
    <3>1. {} \in SUBSET (DOMAIN p)
      OBVIOUS
    <3> HIDE DEF iter, Op, p
    <3>2. QED
      BY <1>8, <3>1
  <2>2. ASSUME NEW k \in 1..n, iter[1..(k - 1)] \in A
        PROVE  iter[1..k] = step[k][iter[1..(k - 1)]]
    <3>1. Max(1..k) = k /\ (1..k) \ {Max(1..k)} = 1..(k - 1) /\ 1..k # {}
      <4> HIDE DEF iter, Op, n, p, A, step
      <4>1. k \in Nat \ {0}
        BY <1>1
      <4>2. QED
        BY <4>1, MaxOfPrefix
    <3>2. 1..k \in SUBSET (DOMAIN p)
      <4> HIDE DEF iter, Op, n, p, A
      <4>1. QED
        BY <1>1
    <3> HIDE DEF iter, Op, p, A
    <3>3. iter[1..k] = Op(iter[(1..k) \ {Max(1..k)}], p[Max(1..k)])
      BY <1>8, <3>1, <3>2
    <3>4. iter[1..k] = Op(iter[1..(k - 1)], p[k])
      BY <3>1, <3>3
    <3>5. QED
      BY <1>4, <2>2, <3>4
  <2> HIDE DEF iter, n, A
  <2>3. QED
    BY <2>1, <2>2 DEF Unrolls
<1> HIDE DEF iter, A, Op
<1>11. PICK h \in [0..n -> A] : Accumulates(h, n, base, step) /\ h[n] = iter[1..n]
  <2> HIDE DEF n, p
  <2>1. QED
    BY <1>1, <1>2, <1>4, <1>10, LeftFoldPrefixes
<1>12. \A k \in 1..n : h[k] = Op(h[k - 1], p[k])
  <2> SUFFICES ASSUME NEW k \in 1..n PROVE h[k] = Op(h[k - 1], p[k])
    OBVIOUS
  <2>1. k - 1 \in 0..n
    BY <1>1
  <2>2. h[k - 1] \in A
    BY <1>11, <2>1
  <2>3. QED
    BY <1>4, <1>11, <2>2 DEF Accumulates
<1>13. h \in [0..n -> A] /\ h[0] = base /\ h[n] = FoldLeft(MergeLlm, base, p)
  BY <1>9, <1>11 DEF Accumulates
<1>14. QED
  BY <1>12, <1>13 DEF A, Op, n, p, base

(* An item's range is no range backwards, and starts where the item does.  *)
LEMMA LastLineOfItem ==
  ASSUME NEW item \in Item
  PROVE  LastLine(item) \in Nat /\ item.from <= LastLine(item) /\ item.from \in Nat
<1>1. item.from \in 1..MaxLine /\ item.to \in 1..MaxLine /\ MaxSpan \in Nat
  BY SpanAssumption DEF Item
<1>2. Max({item.to, item.from}) = IF item.to >= item.from THEN item.to ELSE item.from
  BY <1>1, MaxOfTwo
<1> DEFINE a == Max({item.to, item.from})
           b == item.from + MaxSpan
<1>3. a \in Int /\ b \in Int /\ item.from <= a /\ item.from <= b /\ item.from \in Nat
  BY <1>1, <1>2
<1> HIDE DEF a, b
<1>4. Min({a, b}) = IF a <= b THEN a ELSE b
  BY <1>3, MinOfTwo
<1>5. LastLine(item) = Min({a, b})
  BY DEF LastLine, a, b
<1>6. QED
  BY <1>3, <1>4, <1>5

(* The LLM's usable findings start on added lines, and their fixes replace *)
(* added lines only.                                                       *)
LEMMA LlmFindingsAreSound ==
  ASSUME NEW given \in Seq(Item), NEW plus \in SUBSET Nat
  PROVE  /\ LlmFindings(given, plus) \in Seq(Finding)
         /\ \A i \in DOMAIN LlmFindings(given, plus) :
              LET f == LlmFindings(given, plus)[i] IN f.fix => f.from..f.to \subseteq plus
<1> DEFINE where == {i \in DOMAIN given : given[i].from \in plus}
           kept == ElementsAt(given, where)
           c == Cardinality(where)
           F(item) == Found(item.issue, item.from, LastLine(item), UsableFix(item, plus))
           list == [i \in 1..c |-> F(kept[i])]
<1>1. kept \in Seq(Item) /\ Len(kept) = c
  <2>1. where \in SUBSET (1..Len(given))
    BY LenProperties
  <2> HIDE DEF where
  <2>2. QED
    BY <2>1, ElementsAtLists
<1>2. c \in Nat /\ DOMAIN kept = 1..c /\ \A i \in 1..c : kept[i] \in Item
  <2> HIDE DEF kept
  <2>1. c \in Nat /\ DOMAIN kept = 1..c
    BY <1>1, LenProperties
  <2>2. QED
    BY <1>1, <2>1, ElementOfSeq
<1>3. LlmFindings(given, plus) = list
  BY <1>2 DEF LlmFindings, Filter
<1> HIDE DEF kept, c
<1>4. ASSUME NEW item \in Item
      PROVE  F(item) \in Finding /\ (F(item).fix => F(item).from..F(item).to \subseteq plus)
  <2>1. LastLine(item) \in Nat /\ item.from \in Nat
    BY LastLineOfItem
  <2>2. item.issue \in Issues
    BY DEF Item
  <2>3. QED
    BY <2>1, <2>2 DEF Found, Finding, UsableFix
<1>5. list \in [1..c -> Finding]
  <2> HIDE DEF F
  <2>1. QED
    BY <1>2, <1>4
<1>6. list \in Seq(Finding) /\ DOMAIN list = 1..c
  <2> HIDE DEF list
  <2>1. QED
    BY <1>2, <1>5, ListOfFunction
<1>7. \A i \in 1..c : list[i].fix => list[i].from..list[i].to \subseteq plus
  <2>1. \A i \in 1..c : list[i] = F(kept[i])
    OBVIOUS
  <2> HIDE DEF list, F
  <2>2. QED
    BY <1>2, <1>4, <2>1
<1>8. QED
  BY <1>3, <1>6, <1>7

(* What the merge keeps: a rule's finding covers the line it was found on, *)
(* and is on no other line until it takes a fix; a fix replaces added      *)
(* lines; each of the LLM's findings in `heard` is in the report, or has   *)
(* its issue found by a rule.                                              *)
MergeIsSound(merged, found, plus, heard) ==
  /\ \A i \in DOMAIN merged.rules :
       /\ merged.rules[i].issue = found[i].issue
       /\ found[i].line \in merged.rules[i].from..merged.rules[i].to
       /\ ~merged.rules[i].fix => merged.rules[i].from = found[i].line
       /\ merged.rules[i].fix => merged.rules[i].from..merged.rules[i].to \subseteq plus
  /\ \A i \in DOMAIN merged.extra :
       merged.extra[i].fix => merged.extra[i].from..merged.extra[i].to \subseteq plus
  /\ \A f \in heard : \/ \E i \in DOMAIN merged.extra : merged.extra[i] = f
                      \/ \E i \in DOMAIN merged.rules : found[i].issue = f.issue

(* The next LLM finding moves a rule finding to added lines around its     *)
(* match, is kept beside them, or repeats an issue.                        *)
LEMMA MergeKeepsSound ==
  ASSUME NEW m \in Nat, NEW found, NEW plus, NEW merged \in Merged(m), NEW heard,
         MergeIsSound(merged, found, plus, heard),
         NEW f \in Finding, f.fix => f.from..f.to \subseteq plus
  PROVE  MergeIsSound(MergeLlm(merged, f), found, plus, heard \cup {f})
<1> DEFINE rules == merged.rules
           extra == merged.extra
           new == MergeLlm(merged, f)
<1>1. rules \in [1..m -> Finding] /\ extra \in Seq(Finding)
  BY DEF Merged
<1>2. CASE IsDuplicate(f, rules)
  <2>1. new.rules = AdoptSuggestion(f, rules) /\ new.extra = extra
    BY <1>2 DEF MergeLlm, Merged
  <2>2. DOMAIN new.rules = DOMAIN rules
    BY <2>1 DEF AdoptSuggestion
  <2>3. ASSUME NEW i \in DOMAIN rules
        PROVE  /\ new.rules[i].issue = found[i].issue
               /\ found[i].line \in new.rules[i].from..new.rules[i].to
               /\ ~new.rules[i].fix => new.rules[i].from = found[i].line
               /\ new.rules[i].fix => new.rules[i].from..new.rules[i].to \subseteq plus
    <3>1. new.rules[i] = rules[i] \/ (new.rules[i] = f /\ i \in Adopters(f, rules))
      BY <2>1 DEF AdoptSuggestion
    <3>2. CASE new.rules[i] = rules[i]
      BY <3>2 DEF MergeIsSound
    <3>3. CASE new.rules[i] = f /\ i \in Adopters(f, rules)
      <4>1. f.fix /\ ~rules[i].fix /\ rules[i].issue = f.issue /\ rules[i].from \in f.from..f.to
        BY <3>3 DEF Adopters
      <4>2. rules[i].from = found[i].line /\ rules[i].issue = found[i].issue
        BY <4>1 DEF MergeIsSound
      <4>3. QED
        BY <3>3, <4>1, <4>2
    <3>4. QED
      BY <3>1, <3>2, <3>3
  <2>4. \E i \in DOMAIN rules : found[i].issue = f.issue
    BY <1>2 DEF IsDuplicate, MergeIsSound
  <2>5. \A g \in heard \cup {f} : \/ \E i \in DOMAIN new.extra : new.extra[i] = g
                                  \/ \E i \in DOMAIN new.rules : found[i].issue = g.issue
    BY <2>1, <2>2, <2>4 DEF MergeIsSound
  <2> HIDE DEF new
  <2>6. QED
    BY <2>1, <2>2, <2>3, <2>5 DEF MergeIsSound, new
<1>3. CASE ~IsDuplicate(f, rules)
  <2>1. new.rules = rules /\ new.extra = Append(extra, f)
    BY <1>3 DEF MergeLlm, Merged
  <2> DEFINE l == Len(extra)
  <2>2. l \in Nat /\ DOMAIN extra = 1..l
    BY <1>1, LenProperties
  <2>3. /\ Append(extra, f) \in Seq(Finding) /\ Len(Append(extra, f)) = l + 1
        /\ Append(extra, f)[l + 1] = f /\ \A i \in 1..l : Append(extra, f)[i] = extra[i]
    BY <1>1, AppendProperties
  <2>4. DOMAIN Append(extra, f) = 1..(l + 1)
    BY <2>3, LenProperties
  <2>5. \A i \in 1..(l + 1) : i \in 1..l \/ i = l + 1
    BY <2>2
  <2>6. l + 1 \in 1..(l + 1) /\ \A i \in 1..l : i \in 1..(l + 1)
    BY <2>2
  <2> HIDE DEF new, l
  <2>7. \A i \in DOMAIN new.extra : new.extra[i].fix => new.extra[i].from..new.extra[i].to \subseteq plus
    BY <2>1, <2>2, <2>3, <2>4, <2>5 DEF MergeIsSound
  <2>8. \A g \in heard \cup {f} : \/ \E i \in DOMAIN new.extra : new.extra[i] = g
                                  \/ \E i \in DOMAIN new.rules : found[i].issue = g.issue
    <3>1. \E i \in DOMAIN new.extra : new.extra[i] = f
      BY <2>1, <2>3, <2>4, <2>6
    <3>2. \A i \in DOMAIN extra : i \in DOMAIN new.extra /\ new.extra[i] = extra[i]
      BY <2>1, <2>2, <2>3, <2>4, <2>6
    <3>3. QED
      BY <2>1, <3>1, <3>2 DEF MergeIsSound
  <2>9. QED
    BY <2>1, <2>7, <2>8 DEF MergeIsSound, new
<1>4. QED
  BY <1>2, <1>3

(* So it is after all of the LLM's findings.                               *)
LEMMA FixesCover == InputsAre => FixesCoverTheirIssue
<1> SUFFICES ASSUME InputsAre PROVE FixesCoverTheirIssue
  OBVIOUS
<1> DEFINE m == Len(matches)
           rules == RuleFindings(matches)
           list == LlmFindings(items, added)
           n == Len(list)
           base == [rules |-> rules, extra |-> <<>>]
           end == FoldLeft(MergeLlm, base, list)
           report == Report
<1>1. /\ m \in Nat /\ DOMAIN matches = 1..m /\ added \in SUBSET Nat /\ items \in Seq(Item)
      /\ \A i \in 1..m : matches[i].issue \in Issues /\ matches[i].line \in Nat
  <2>1. matches \in Seq(RuleMatch)
    BY DEF InputsAre
  <2>2. \A i \in 1..m : matches[i] \in RuleMatch
    BY <2>1, ElementOfSeq
  <2>3. m \in Nat /\ DOMAIN matches = 1..m
    BY <2>1, LenProperties
  <2>4. QED
    BY <2>2, <2>3 DEF InputsAre, RuleMatch
<1>2. rules \in [1..m -> Finding] /\ \A i \in 1..m :
        /\ rules[i].issue = matches[i].issue /\ ~rules[i].fix
        /\ rules[i].from = matches[i].line /\ rules[i].to = matches[i].line
  BY <1>1 DEF RuleFindings, Found, Finding
<1>3. list \in Seq(Finding) /\ \A i \in DOMAIN list : list[i].fix => list[i].from..list[i].to \subseteq added
  BY <1>1, LlmFindingsAreSound
<1>4. n \in Nat /\ DOMAIN list = 1..n /\ \A k \in 1..n : list[k] \in Finding
  <2> HIDE DEF list
  <2>1. n \in Nat /\ DOMAIN list = 1..n
    BY <1>3, LenProperties
  <2>2. QED
    BY <1>3, <2>1, ElementOfSeq
<1> HIDE DEF m, rules, list, n
<1>5. PICK h \in [0..n -> Merged(m)] :
        /\ h[0] = base /\ h[n] = end
        /\ \A k \in 1..n : h[k] = MergeLlm(h[k - 1], list[k])
  BY <1>1, <1>2, <1>3, MergeLlmFolds DEF n
<1> DEFINE Heard(k) == {list[j] : j \in 1..k}
           Q == {k \in 0..n : MergeIsSound(h[k], matches, added, Heard(k))}
<1>6. 0 \in Q
  <2>1. base.rules = rules /\ base.extra = <<>>
    OBVIOUS
  <2> HIDE DEF base
  <2>2. MergeIsSound(base, matches, added, {})
    <3>1. \A i \in 1..m : matches[i].line \in rules[i].from..rules[i].to
      BY <1>1, <1>2
    <3>2. QED
      BY <1>2, <2>1, <3>1 DEF MergeIsSound
  <2>3. Heard(0) = {}
    OBVIOUS
  <2> HIDE DEF Heard
  <2>4. MergeIsSound(h[0], matches, added, Heard(0))
    BY <1>5, <2>2, <2>3, Zenon
  <2>5. QED
    BY <1>4, <2>4
<1>7. ASSUME NEW k \in 1..n, k - 1 \in Q PROVE k \in Q
  <2>1. k - 1 \in 0..n /\ h[k - 1] \in Merged(m) /\ list[k] \in Finding
        /\ (list[k].fix => list[k].from..list[k].to \subseteq added)
    BY SMTT(60), <1>3, <1>4, <1>5
  <2>2. MergeIsSound(h[k - 1], matches, added, Heard(k - 1))
    BY <1>7
  <2>3. Heard(k) = Heard(k - 1) \cup {list[k]}
    <3>1. \A j : j \in 1..k <=> j \in 1..(k - 1) \/ j = k
      BY <1>4
    <3>2. QED
      BY <3>1
  <2> HIDE DEF Heard
  <2>4. MergeIsSound(MergeLlm(h[k - 1], list[k]), matches, added, Heard(k - 1) \cup {list[k]})
    BY <1>1, <2>1, <2>2, MergeKeepsSound
  <2>5. MergeIsSound(h[k], matches, added, Heard(k))
    BY <1>5, <2>3, <2>4, Zenon
  <2>6. QED
    BY <1>4, <2>5
<1>8. MergeIsSound(end, matches, added, Heard(n)) /\ end \in Merged(m)
  <2>1. \A k \in 0..n : k \in Q
    <3> HIDE DEF Q
    <3>1. QED
      BY <1>4, <1>6, <1>7, PrefixInduction
  <2>2. n \in 0..n
    BY <1>4
  <2>3. n \in Q
    BY <2>1, <2>2
  <2> HIDE DEF Heard
  <2>4. MergeIsSound(h[n], matches, added, Heard(n))
    BY <2>3
  <2>5. QED
    BY <1>5, <2>2, <2>4
<1>9. report = end.rules \o end.extra
  BY DEF Report, SecurityReport, rules, list
<1> HIDE DEF end, report
<1>10. /\ end.rules \in [1..m -> Finding] /\ end.extra \in Seq(Finding)
       /\ end.rules \in Seq(Finding) /\ Len(end.rules) = m
  <2>1. end.rules \in [1..m -> Finding] /\ end.extra \in Seq(Finding)
    BY <1>8 DEF Merged
  <2>2. QED
    BY <1>1, <2>1, ListOfFunction
<1> DEFINE x == Len(end.extra)
<1>11. /\ x \in Nat /\ DOMAIN end.extra = 1..x /\ DOMAIN report = 1..(m + x)
       /\ \A i \in 1..(m + x) : report[i] = IF i <= m THEN end.rules[i] ELSE end.extra[i - m]
  <2>1. x \in Nat /\ DOMAIN end.extra = 1..x
    BY <1>10, LenProperties
  <2>2. report \in Seq(Finding) /\ Len(report) = m + x
        /\ \A i \in 1..(m + x) : report[i] = IF i <= m THEN end.rules[i] ELSE end.extra[i - m]
    BY ZenonT(60), <1>9, <1>10, ConcatProperties
  <2>3. DOMAIN report = 1..(m + x)
    BY <2>2, LenProperties
  <2>4. QED
    BY <2>1, <2>2, <2>3
<1> HIDE DEF x
<1>12. \A i \in 1..m : i \in DOMAIN report /\ report[i] = end.rules[i]
  BY <1>1, <1>11
<1>13. \A i \in 1..x : m + i \in DOMAIN report /\ report[m + i] = end.extra[i]
  <2> SUFFICES ASSUME NEW i \in 1..x PROVE m + i \in DOMAIN report /\ report[m + i] = end.extra[i]
    OBVIOUS
  <2>1. m + i \in 1..(m + x) /\ ~(m + i <= m) /\ (m + i) - m = i
    BY <1>1, <1>11
  <2>2. QED
    BY <1>11, <2>1
<1>14. \A i \in DOMAIN report : \/ i \in 1..m /\ report[i] = end.rules[i]
                                \/ \E j \in 1..x : report[i] = end.extra[j]
  <2> SUFFICES ASSUME NEW i \in 1..(m + x)
               PROVE  \/ i \in 1..m /\ report[i] = end.rules[i]
                      \/ \E j \in 1..x : report[i] = end.extra[j]
    BY <1>11
  <2>1. CASE i <= m
    BY <1>1, <1>11, <2>1
  <2>2. CASE ~(i <= m)
    <3>1. i - m \in 1..x
      BY <1>1, <1>11, <2>2
    <3>2. QED
      BY <1>11, <2>2, <3>1
  <2>3. QED
    BY <2>1, <2>2
<1>15. \A i \in DOMAIN matches :
         report[i].issue = matches[i].issue /\ matches[i].line \in report[i].from..report[i].to
  BY <1>1, <1>8, <1>10, <1>12 DEF MergeIsSound
<1>16. ASSUME NEW f \in Range(report) PROVE f.fix => f.from..f.to \subseteq added
  <2>1. PICK i \in DOMAIN report : report[i] = f
    BY DEF Range
  <2>2. \/ \E j \in 1..m : f = end.rules[j]
        \/ \E j \in 1..x : f = end.extra[j]
    BY <1>14, <2>1
  <2>3. \A j \in 1..m : end.rules[j].fix => end.rules[j].from..end.rules[j].to \subseteq added
    BY <1>8, <1>10 DEF MergeIsSound
  <2>4. \A j \in 1..x : end.extra[j].fix => end.extra[j].from..end.extra[j].to \subseteq added
    BY <1>8, <1>11 DEF MergeIsSound
  <2>5. CASE \E j \in 1..m : f = end.rules[j]
    BY <2>3, <2>5
  <2>6. CASE \E j \in 1..x : f = end.extra[j]
    BY <2>4, <2>6
  <2>7. QED
    BY <2>2, <2>5, <2>6
<1>17. \A f \in Range(list) : f \in Range(report) \/ \E i \in DOMAIN matches : matches[i].issue = f.issue
  <2> SUFFICES ASSUME NEW f \in Range(list)
               PROVE  f \in Range(report) \/ \E i \in DOMAIN matches : matches[i].issue = f.issue
    OBVIOUS
  <2>1. f \in Heard(n)
    BY <1>4 DEF Range
  <2>2. \/ \E i \in 1..x : end.extra[i] = f
        \/ \E i \in 1..m : matches[i].issue = f.issue
    BY <1>8, <1>10, <1>11, <2>1 DEF MergeIsSound
  <2>3. QED
    BY <1>1, <1>13, <2>2 DEF Range
<1>18. FixesCoverTheirIssue
  BY <1>15, <1>16, <1>17 DEF FixesCoverTheirIssue, report, list
<1>19. QED
  BY <1>18

(* Whatever the LLM answers, a rule's finding stays on its line, fixes     *)
(* replace added lines only, and what is left out repeats a rule's issue.  *)
THEOREM FixesAlwaysCoverTheirIssue == Spec => []FixesCoverTheirIssue
<1>1. QED
  BY TypesOfInputs, FixesCover, PTL
---------------------------------------------------------------------------------
(* The report: what the agents report, and what dedupe keeps of it.        *)
Reported == Reportable(FindingKeys, Confidences)
Kept == [finding : Reported, duplicateCount : Nat]

(* The better of two reports of an issue is one of the two.                *)
LEMMA BetterIsOneOfThem ==
  ASSUME NEW x \in Reported, NEW y \in Reported, x.key = y.key
  PROVE  Better(x, y) \in Reported /\ Better(x, y).key = y.key
BY DEF Better

(* A finding of a new key is appended; another one replaces or counts for  *)
(* the one of its key.                                                     *)
LEMMA MergeCases ==
  ASSUME NEW kept \in Seq(Kept), NEW f \in Reported
  PROVE  \/ /\ \A i \in DOMAIN kept : kept[i].finding.key # f.key
            /\ Merge(kept, f) = Append(kept, [finding |-> f, duplicateCount |-> 1])
         \/ \E i \in DOMAIN kept :
              /\ kept[i].finding.key = f.key
              /\ Merge(kept, f) = [kept EXCEPT ![i] = [finding |-> Better(kept[i].finding, f),
                                                       duplicateCount |-> kept[i].duplicateCount + 1]]
<1> DEFINE same == {i \in DOMAIN kept : kept[i].finding.key = f.key}
<1>1. CASE same = {}
  BY <1>1 DEF Merge
<1>2. CASE same # {}
  <2> DEFINE c == CHOOSE n \in same : TRUE
  <2>1. c \in same
    BY <1>2
  <2>2. Merge(kept, f) = [kept EXCEPT ![c] = [finding |-> Better(@.finding, f),
                                              duplicateCount |-> @.duplicateCount + 1]]
    BY <1>2 DEF Merge
  <2> HIDE DEF c
  <2>3. [kept EXCEPT ![c] = [finding |-> Better(@.finding, f), duplicateCount |-> @.duplicateCount + 1]]
          = [kept EXCEPT ![c] = [finding |-> Better(kept[c].finding, f),
                                 duplicateCount |-> kept[c].duplicateCount + 1]]
    OBVIOUS
  <2>4. QED
    BY <2>1, <2>2, <2>3
<1>3. QED
  BY <1>1, <1>2

(* The next report leaves a list of kept findings one.                     *)
LEMMA DedupeKeepsType ==
  ASSUME NEW kept \in Seq(Kept), NEW f \in Reported
  PROVE  Merge(kept, f) \in Seq(Kept)
<1>1. Len(kept) \in Nat /\ DOMAIN kept = 1..Len(kept)
  BY LenProperties
<1>2. CASE Merge(kept, f) = Append(kept, [finding |-> f, duplicateCount |-> 1])
  <2>1. [finding |-> f, duplicateCount |-> 1] \in Kept
    BY DEF Kept
  <2>2. QED
    BY <1>2, <2>1, AppendProperties
<1>3. ASSUME NEW i \in DOMAIN kept, kept[i].finding.key = f.key,
             Merge(kept, f) = [kept EXCEPT ![i] = [finding |-> Better(kept[i].finding, f),
                                                   duplicateCount |-> kept[i].duplicateCount + 1]]
      PROVE  Merge(kept, f) \in Seq(Kept)
  <2>1. kept[i] \in Kept
    BY <1>1, ElementOfSeq
  <2>2. kept[i].finding \in Reported /\ kept[i].duplicateCount + 1 \in Nat
    BY <2>1 DEF Kept
  <2>3. Better(kept[i].finding, f) \in Reported
    BY <1>3, <2>2, BetterIsOneOfThem
  <2>4. [finding |-> Better(kept[i].finding, f), duplicateCount |-> kept[i].duplicateCount + 1] \in Kept
    BY <2>2, <2>3 DEF Kept
  <2>5. QED
    BY <1>1, <1>3, <2>4, ExceptSeq
<1>4. QED
  BY <1>2, <1>3, MergeCases

(* dedupe takes the agents' findings one by one.                           *)
LEMMA DedupeFolds ==
  ASSUME NEW list \in Seq(Reported)
  PROVE  \E h \in [0..Len(list) -> Seq(Kept)] :
           /\ h[0] = <<>> /\ h[Len(list)] = Dedupe(list)
           /\ \A k \in 1..Len(list) : h[k] = Merge(h[k - 1], list[k])
<1> DEFINE n == Len(list)
           p == list
           A == Seq(Kept)
           base == <<>>
           Op(a, x) == Merge(a, x)
           step == [k \in 1..n |-> [a \in A |-> Op(a, p[k])]]
           Eq(it) == it = [s \in SUBSET (DOMAIN p) |-> IF s = {} THEN base
                                ELSE Op(it[s \ {Max(s)}], p[Max(s)])]
           iter == CHOOSE it : Eq(it)
<1>1. n \in Nat /\ DOMAIN p = 1..n
  BY LenProperties
<1>2. base \in A
  OBVIOUS
<1>3. \A k \in 1..n : \A a \in A : Op(a, p[k]) \in A
  <2>1. \A k \in 1..n : p[k] \in Reported
    BY ElementOfSeq
  <2>2. \A k \in 1..n : \A a \in A : Merge(a, p[k]) \in A
    <3> HIDE DEF n, p
    <3>1. QED
      BY <2>1, DedupeKeepsType
  <2>3. QED
    BY <2>2
<1>4. KeepsTo(A, step, 1..n) /\ \A k \in 1..n : \A a \in A : step[k][a] = Op(a, p[k])
  <2>1. \A k \in 1..n : \A a \in A : step[k][a] = Op(a, p[k])
    OBVIOUS
  <2> HIDE DEF step, Op
  <2>2. QED
    BY <1>3, <2>1 DEF KeepsTo
<1> HIDE DEF step, base
<1>5. PICK g \in [SUBSET (1..n) -> A] : IsLeftFold(g, n, base, step)
  <2> HIDE DEF n, A, p, Op
  <2>1. QED
    BY <1>1, <1>2, <1>4, LeftFoldExists
<1>6. \A T \in SUBSET (1..n) : T # {} => Max(T) \in T
  BY <1>1, MaxInPrefix
<1>7. Eq(g)
  <2> HIDE DEF Op, A, p
  <2>1. \A T \in SUBSET (1..n) : g[T] = IF T = {} THEN base ELSE Op(g[T \ {Max(T)}], p[Max(T)])
    <3> SUFFICES ASSUME NEW T \in SUBSET (1..n), T # {}
                 PROVE  g[T] = Op(g[T \ {Max(T)}], p[Max(T)])
      BY <1>5 DEF IsLeftFold
    <3>1. Max(T) \in 1..n /\ T \ {Max(T)} \in SUBSET (1..n)
      BY <1>6
    <3>2. g[T \ {Max(T)}] \in A
      BY <1>5, <3>1
    <3>3. QED
      BY <1>4, <1>5, <3>1, <3>2 DEF IsLeftFold
  <2> HIDE DEF n
  <2>2. QED
    BY <1>1, <1>5, <2>1
<1>8. Eq(iter)
  <2> HIDE DEF Eq
  <2>1. QED
    BY <1>7
<1>9. Dedupe(p) = iter[1..n]
  <2>1. Dedupe(p) = iter[DOMAIN p]
    BY Zenon DEF Dedupe, FoldLeft, MapThenFoldSet, base
  <2>2. QED
    BY <1>1, <2>1
<1>10. Unrolls(iter, n, A, base, step)
  <2>1. iter[{}] = base
    <3>1. {} \in SUBSET (DOMAIN p)
      OBVIOUS
    <3> HIDE DEF iter, Op, p
    <3>2. QED
      BY <1>8, <3>1
  <2>2. ASSUME NEW k \in 1..n, iter[1..(k - 1)] \in A
        PROVE  iter[1..k] = step[k][iter[1..(k - 1)]]
    <3>1. Max(1..k) = k /\ (1..k) \ {Max(1..k)} = 1..(k - 1) /\ 1..k # {}
      <4> HIDE DEF iter, Op, n, p, A, step
      <4>1. k \in Nat \ {0}
        BY <1>1
      <4>2. QED
        BY <4>1, MaxOfPrefix
    <3>2. 1..k \in SUBSET (DOMAIN p)
      <4> HIDE DEF iter, Op, n, p, A
      <4>1. QED
        BY <1>1
    <3> HIDE DEF iter, Op, p, A
    <3>3. iter[1..k] = Op(iter[(1..k) \ {Max(1..k)}], p[Max(1..k)])
      BY <1>8, <3>1, <3>2
    <3>4. iter[1..k] = Op(iter[1..(k - 1)], p[k])
      BY <3>1, <3>3
    <3>5. QED
      BY <1>4, <2>2, <3>4
  <2> HIDE DEF iter, n, A
  <2>3. QED
    BY <2>1, <2>2 DEF Unrolls
<1> HIDE DEF iter, A, Op
<1>11. PICK h \in [0..n -> A] : Accumulates(h, n, base, step) /\ h[n] = iter[1..n]
  <2> HIDE DEF n, p
  <2>1. QED
    BY <1>1, <1>2, <1>4, <1>10, LeftFoldPrefixes
<1>12. \A k \in 1..n : h[k] = Op(h[k - 1], p[k])
  <2> SUFFICES ASSUME NEW k \in 1..n PROVE h[k] = Op(h[k - 1], p[k])
    OBVIOUS
  <2>1. k - 1 \in 0..n
    BY <1>1
  <2>2. h[k - 1] \in A
    BY <1>11, <2>1
  <2>3. QED
    BY <1>4, <1>11, <2>2 DEF Accumulates
<1>13. h \in [0..n -> A] /\ h[0] = base /\ h[n] = Dedupe(p)
  BY <1>9, <1>11 DEF Accumulates
<1>14. QED
  BY <1>12, <1>13 DEF A, Op, n, p, base

(* What is kept of the first k findings: each key once, with the first of  *)
(* its most confident findings and how many it has.                        *)
Same(list, k, key) == {n \in 1..k : list[n].key = key}

IsBest(list, S, b) ==
  b \in S /\ \A n \in S : /\ list[n].confidence <= list[b].confidence
                          /\ n < b => list[n].confidence < list[b].confidence

KeptIsSound(kept, list, k) ==
  /\ \A i, j \in DOMAIN kept : kept[i].finding.key = kept[j].finding.key => i = j
  /\ \A n \in 1..k : \E i \in DOMAIN kept : kept[i].finding.key = list[n].key
  /\ \A i \in DOMAIN kept :
       LET S == Same(list, k, kept[i].finding.key)
       IN  /\ kept[i].duplicateCount = Cardinality(S)
           /\ \E b \in S : kept[i].finding = list[b] /\ IsBest(list, S, b)

(* The next report is the best of its issue so far, or counted.            *)
LEMMA MergeKeepsTheBest ==
  ASSUME NEW list \in Seq(Reported), NEW k \in 1..Len(list), NEW kept \in Seq(Kept),
         KeptIsSound(kept, list, k - 1)
  PROVE  KeptIsSound(Merge(kept, list[k]), list, k)
<1> DEFINE f == list[k]
           l == Len(kept)
           new == Merge(kept, f)
           Old(key) == Same(list, k - 1, key)
           Now(key) == Same(list, k, key)
<1>1. /\ Len(list) \in Nat /\ f \in Reported /\ k \in Nat /\ l \in Nat /\ DOMAIN kept = 1..l
      /\ \A n \in 1..Len(list) : list[n] \in Reported /\ list[n].confidence \in Int
  <2>1. \A n \in 1..Len(list) : list[n] \in Reported
    BY ElementOfSeq
  <2>2. Len(list) \in Nat /\ l \in Nat /\ DOMAIN kept = 1..l
    BY LenProperties
  <2>3. \A g \in Reported : g.confidence \in Int
    BY InputsAssumption DEF Reported, Reportable
  <2>4. QED
    BY <2>1, <2>2, <2>3
<1>2. /\ \A key : key # f.key => Now(key) = Old(key)
      /\ Now(f.key) = Old(f.key) \cup {k} /\ k \notin Old(f.key)
      /\ \A key : Old(key) \in SUBSET (1..(k - 1))
  <2>1. \A n : n \in 1..k <=> n \in 1..(k - 1) \/ n = k
    BY <1>1
  <2>2. k \notin 1..(k - 1)
    BY <1>1
  <2>3. QED
    BY <2>1, <2>2 DEF Same
<1>3. \A key : IsFiniteSet(Old(key)) /\ Cardinality(Old(key)) \in Nat
  <2>1. IsFiniteSet(1..(k - 1))
    BY <1>1, FS_Interval
  <2> HIDE DEF Old
  <2>2. \A key : IsFiniteSet(Old(key))
    BY <1>2, <2>1, FS_Subset
  <2>3. QED
    BY <2>2, FS_CardinalityType
<1>4. \A i \in 1..l : /\ kept[i].duplicateCount = Cardinality(Old(kept[i].finding.key))
                      /\ \E b \in Old(kept[i].finding.key) :
                           kept[i].finding = list[b] /\ IsBest(list, Old(kept[i].finding.key), b)
  BY <1>1 DEF KeptIsSound
<1>5. /\ \A i, j \in 1..l : kept[i].finding.key = kept[j].finding.key => i = j
      /\ \A n \in 1..(k - 1) : \E i \in 1..l : kept[i].finding.key = list[n].key
  BY <1>1 DEF KeptIsSound
<1>6. ASSUME \A i \in 1..l : kept[i].finding.key # f.key,
             new = Append(kept, [finding |-> f, duplicateCount |-> 1])
      PROVE  KeptIsSound(new, list, k)
  <2> DEFINE one == [finding |-> f, duplicateCount |-> 1]
  <2>1. /\ Len(new) = l + 1 /\ new[l + 1] = one /\ (\A i \in 1..l : new[i] = kept[i])
        /\ DOMAIN new = 1..(l + 1)
    <3>1. one \in Kept
      BY <1>1 DEF Kept
    <3>2. /\ new \in Seq(Kept) /\ Len(new) = l + 1
          /\ new[l + 1] = one /\ \A i \in 1..l : new[i] = kept[i]
      BY <1>6, <3>1, AppendProperties
    <3>3. QED
      BY <3>2, LenProperties
  <2>2. one.finding = f /\ one.duplicateCount = 1 /\ l + 1 \in 1..(l + 1)
        /\ (\A i \in 1..(l + 1) : i \in 1..l \/ i = l + 1) /\ \A i \in 1..l : i \in 1..(l + 1)
    BY <1>1
  <2> HIDE DEF new, one
  <2>3. \A i, j \in DOMAIN new : new[i].finding.key = new[j].finding.key => i = j
    BY <1>5, <1>6, <2>1, <2>2
  <2>4. \A n \in 1..k : \E i \in DOMAIN new : new[i].finding.key = list[n].key
    <3> SUFFICES ASSUME NEW n \in 1..k PROVE \E i \in DOMAIN new : new[i].finding.key = list[n].key
      OBVIOUS
    <3>1. CASE n = k
      BY <2>1, <2>2, <3>1
    <3>2. CASE n # k
      <4>1. n \in 1..(k - 1)
        BY <1>1, <3>2
      <4>2. PICK i \in 1..l : kept[i].finding.key = list[n].key
        BY <1>5, <4>1
      <4>3. i \in DOMAIN new /\ new[i] = kept[i]
        BY <2>1, <2>2
      <4>4. QED
        BY <4>2, <4>3
    <3>3. QED
      BY <3>1, <3>2
  <2>5. Old(f.key) = {}
    <3>1. \A n \in 1..(k - 1) : list[n].key # f.key
      BY <1>5, <1>6
    <3>2. QED
      BY <3>1 DEF Same
  <2>6. Now(f.key) = {k}
    BY <1>2, <2>5
  <2>7. Cardinality(Now(f.key)) = 1 /\ k \in Now(f.key) /\ IsBest(list, Now(f.key), k)
    <3>1. Cardinality({k}) = 1
      BY FS_Singleton
    <3>2. f.confidence <= f.confidence /\ ~(k < k) /\ list[k] = f
      BY <1>1
    <3> HIDE DEF Now, f
    <3>3. Cardinality(Now(f.key)) = 1
      BY <2>6, <3>1, Zenon
    <3>4. IsBest(list, Now(f.key), k)
      BY <2>6, <3>2 DEF IsBest
    <3>5. QED
      BY <2>6, <3>3, <3>4
  <2>8. ASSUME NEW i \in 1..(l + 1)
        PROVE  /\ new[i].duplicateCount = Cardinality(Now(new[i].finding.key))
               /\ \E b \in Now(new[i].finding.key) :
                    new[i].finding = list[b] /\ IsBest(list, Now(new[i].finding.key), b)
    <3>1. CASE i = l + 1
      <4>1. new[i].finding = list[k] /\ new[i].finding = f /\ new[i].duplicateCount = 1
        BY <2>1, <2>2, <3>1
      <4> HIDE DEF Now, f
      <4>2. QED
        BY <2>7, <4>1
    <3>2. CASE i \in 1..l
      <4>1. new[i] = kept[i] /\ kept[i].finding.key # f.key
        BY <1>6, <2>1, <3>2
      <4>2. Now(new[i].finding.key) = Old(new[i].finding.key)
        BY <1>2, <4>1
      <4> HIDE DEF Now, Old, f
      <4>3. QED
        BY <1>4, <3>2, <4>1, <4>2
    <3>3. QED
      BY <2>2, <3>1, <3>2
  <2>9. QED
    BY <2>1, <2>3, <2>4, <2>8 DEF KeptIsSound, new
<1>7. ASSUME NEW i \in 1..l, kept[i].finding.key = f.key,
             new = [kept EXCEPT ![i] = [finding |-> Better(kept[i].finding, f),
                                        duplicateCount |-> kept[i].duplicateCount + 1]]
      PROVE  KeptIsSound(new, list, k)
  <2> DEFINE better == [finding |-> Better(kept[i].finding, f),
                        duplicateCount |-> kept[i].duplicateCount + 1]
  <2>1. DOMAIN new = 1..l /\ new[i] = better /\ \A j \in 1..l : j # i => new[j] = kept[j]
    BY <1>1, <1>7
  <2>2. kept[i].finding \in Reported
    <3>1. kept[i] \in Kept
      BY <1>1, ElementOfSeq
    <3>2. QED
      BY <3>1 DEF Kept
  <2>3. better.finding = Better(kept[i].finding, f) /\ better.duplicateCount = kept[i].duplicateCount + 1
    OBVIOUS
  <2>4. better.finding.key = f.key
    BY <1>1, <1>7, <2>2, <2>3, BetterIsOneOfThem
  <2> HIDE DEF new, better
  <2>5. \A j \in 1..l : new[j].finding.key = kept[j].finding.key
    BY <1>7, <2>1, <2>4
  <2>6. \A j \in 1..l : j # i => kept[j].finding.key # f.key
    BY <1>5, <1>7
  <2>7. \A m, j \in DOMAIN new : new[m].finding.key = new[j].finding.key => m = j
    BY <1>5, <2>1, <2>5
  <2>8. \A n \in 1..k : \E j \in DOMAIN new : new[j].finding.key = list[n].key
    <3> SUFFICES ASSUME NEW n \in 1..k PROVE \E j \in DOMAIN new : new[j].finding.key = list[n].key
      OBVIOUS
    <3>1. CASE n = k
      BY <1>7, <2>1, <2>5, <3>1
    <3>2. CASE n # k
      <4>1. n \in 1..(k - 1)
        BY <1>1, <3>2
      <4>2. QED
        BY <1>5, <2>1, <2>5, <4>1
    <3>3. QED
      BY <3>1, <3>2
  <2>9. PICK b \in Old(f.key) : kept[i].finding = list[b] /\ IsBest(list, Old(f.key), b)
    BY <1>4, <1>7
  <2>10. b \in 1..(k - 1) /\ b \in 1..Len(list) /\ b < k /\ b \in Int
    <3>1. b \in 1..(k - 1)
      BY <1>2, <2>9
    <3>2. QED
      BY <1>1, <3>1
  <2>11. Cardinality(Now(f.key)) = kept[i].duplicateCount + 1
    <3>1. kept[i].duplicateCount = Cardinality(Old(f.key))
      BY <1>4, <1>7
    <3> HIDE DEF Now, Old, f
    <3>2. Cardinality(Old(f.key) \cup {k}) = Cardinality(Old(f.key)) + 1
      BY <1>2, <1>3, FS_AddElement
    <3>3. QED
      BY <1>2, <3>1, <3>2
  <2>12. \E c \in Now(f.key) : better.finding = list[c] /\ IsBest(list, Now(f.key), c)
    <3>0. \A n \in Old(f.key) : n \in 1..Len(list) /\ n < k /\ n \in Int
      <4>1. \A n \in 1..(k - 1) : n \in 1..Len(list) /\ n < k /\ n \in Int
        BY <1>1
      <4>2. QED
        BY <1>2, <4>1
    <3>1. list[b].confidence \in Int /\ f.confidence \in Int /\ k \in Int /\ list[k] = f
          /\ \A n \in Old(f.key) : list[n].confidence \in Int
      BY <1>1, <2>10, <3>0
    <3>2. CASE list[b].confidence >= f.confidence
      <4>1. better.finding = list[b]
        BY <2>3, <2>9, <3>2 DEF Better
      <4> HIDE DEF Now, Old, f
      <4>2. IsBest(list, Now(f.key), b)
        BY <1>2, <2>9, <2>10, <3>1, <3>2 DEF IsBest
      <4>3. QED
        BY <1>2, <2>9, <4>1, <4>2
    <3>3. CASE ~(list[b].confidence >= f.confidence)
      <4>1. better.finding = list[k]
        BY <2>3, <2>9, <3>3 DEF Better
      <4> HIDE DEF Now, Old, f
      <4>2. \A n \in Old(f.key) : list[n].confidence < f.confidence
        BY <2>9, <3>1, <3>3 DEF IsBest
      <4>3. IsBest(list, Now(f.key), k)
        BY <1>2, <3>1, <4>2 DEF IsBest
      <4>4. QED
        BY <1>2, <4>1, <4>3
    <3>4. QED
      BY <3>2, <3>3
  <2>13. ASSUME NEW j \in 1..l
         PROVE  /\ new[j].duplicateCount = Cardinality(Now(new[j].finding.key))
                /\ \E c \in Now(new[j].finding.key) :
                     new[j].finding = list[c] /\ IsBest(list, Now(new[j].finding.key), c)
    <3>1. CASE j = i
      <4> HIDE DEF Now, f
      <4>1. new[j] = better
        BY <2>1, <3>1
      <4>2. QED
        BY <2>3, <2>4, <2>11, <2>12, <4>1
    <3>2. CASE j # i
      <4>1. new[j] = kept[j] /\ kept[j].finding.key # f.key
        BY <2>1, <2>6, <3>2
      <4>2. Now(new[j].finding.key) = Old(new[j].finding.key)
        BY <1>2, <4>1
      <4> HIDE DEF Now, Old, f
      <4>3. QED
        BY <1>4, <4>1, <4>2
    <3>3. QED
      BY <3>1, <3>2
  <2>14. QED
    BY <2>1, <2>7, <2>8, <2>13 DEF KeptIsSound, new
<1>8. \/ /\ \A i \in 1..l : kept[i].finding.key # f.key
         /\ new = Append(kept, [finding |-> f, duplicateCount |-> 1])
      \/ \E i \in 1..l :
           /\ kept[i].finding.key = f.key
           /\ new = [kept EXCEPT ![i] = [finding |-> Better(kept[i].finding, f),
                                         duplicateCount |-> kept[i].duplicateCount + 1]]
  <2>1. DOMAIN kept = 1..l
    BY <1>1
  <2>2. f \in Reported
    BY <1>1
  <2> HIDE DEF f, l
  <2>3. \/ /\ \A i \in DOMAIN kept : kept[i].finding.key # f.key
           /\ Merge(kept, f) = Append(kept, [finding |-> f, duplicateCount |-> 1])
        \/ \E i \in DOMAIN kept :
             /\ kept[i].finding.key = f.key
             /\ Merge(kept, f) = [kept EXCEPT ![i] = [finding |-> Better(kept[i].finding, f),
                                                      duplicateCount |-> kept[i].duplicateCount + 1]]
    BY <2>2, MergeCases, Zenon
  <2>4. QED
    BY <2>1, <2>3, Zenon
<1>9. KeptIsSound(new, list, k)
  <2> HIDE DEF new
  <2>1. QED
    BY <1>6, <1>7, <1>8
<1>10. QED
  BY <1>9

(* Dedupe keeps the best of all the reports.                               *)
LEMMA DedupeIsSound ==
  ASSUME NEW list \in Seq(Reported)
  PROVE  Dedupe(list) \in Seq(Kept) /\ KeptIsSound(Dedupe(list), list, Len(list))
<1> DEFINE n == Len(list)
<1>1. n \in Nat
  BY LenProperties
<1>2. PICK h \in [0..n -> Seq(Kept)] :
        /\ h[0] = <<>> /\ h[n] = Dedupe(list)
        /\ \A k \in 1..n : h[k] = Merge(h[k - 1], list[k])
  BY DedupeFolds
<1> DEFINE Q == {k \in 0..n : KeptIsSound(h[k], list, k)}
<1>3. 0 \in Q
  <2>1. KeptIsSound(<<>>, list, 0)
    BY DEF KeptIsSound
  <2>2. KeptIsSound(h[0], list, 0)
    BY <1>2, <2>1, Zenon
  <2>3. QED
    BY <1>1, <2>2
<1>4. ASSUME NEW k \in 1..n, k - 1 \in Q PROVE k \in Q
  <2>1. h[k - 1] \in Seq(Kept) /\ KeptIsSound(h[k - 1], list, k - 1)
    BY <1>1, <1>2, <1>4
  <2>2. KeptIsSound(Merge(h[k - 1], list[k]), list, k)
    BY <2>1, MergeKeepsTheBest
  <2>3. KeptIsSound(h[k], list, k)
    BY <1>2, <2>2
  <2>4. QED
    BY <1>1, <2>3
<1>5. \A k \in 0..n : k \in Q
  <2> HIDE DEF Q, n
  <2>1. QED
    BY <1>1, <1>3, <1>4, PrefixInduction
<1>6. n \in 0..n /\ n \in Q
  BY <1>1, <1>5
<1>7. QED
  BY <1>2, <1>6

(* Array.prototype.sort: the findings rearranged, each after those that    *)
(* rank above it.                                                          *)
LEMMA WeightsOfSeverities ==
  /\ \A s \in Severities : Weight[s] \in Nat
  /\ \A s, t \in Severities : Weight[s] = Weight[t] => s = t
<1>1. Weight["critical"] = 3 /\ Weight["warning"] = 2 /\ Weight["info"] = 1
  BY DEF Weight
<1>2. QED
  BY <1>1 DEF Severities

(* Ranking reorders the kept findings, the higher before the lower.        *)
LEMMA RankLists ==
  ASSUME NEW list \in Seq(Kept)
  PROVE  \E p \in [1..Len(list) -> 1..Len(list)] :
           /\ \A i \in 1..Len(list) : \E k \in 1..Len(list) : p[k] = i
           /\ \A j, k \in 1..Len(list) : Above(list, p[j], p[k]) <=> j < k
           /\ Rank(list) = [i \in 1..Len(list) |-> list[p[i]]]
<1> DEFINE n == Len(list)
           S == 1..n
           before == [x \in S |-> {y \in S : Above(list, y, x)}]
           p == [k \in 1..Cardinality(S) |-> CHOOSE x \in S : Cardinality(before[x]) = k - 1]
<1>1. n \in Nat /\ DOMAIN list = S /\ \A i \in S : list[i] \in Kept
  <2>1. n \in Nat /\ DOMAIN list = S
    BY LenProperties
  <2>2. \A i \in S : list[i] \in Kept
    BY ElementOfSeq
  <2>3. QED
    BY <2>1, <2>2
<1>2. IsFiniteSet(S) /\ Cardinality(S) = n
  BY <1>1, PrefixCounts
<1>3. \A x \in S : before[x] = {y \in S : Above(list, y, x)}
  OBVIOUS
<1>4. \A i \in S : /\ list[i].finding.severity \in Severities
                   /\ list[i].finding.confidence \in Int /\ i \in Int
  BY <1>1, InputsAssumption DEF Kept, Reported, Reportable
<1>5. /\ \A x \in S : ~Above(list, x, x)
      /\ \A x, y, z \in S : Above(list, x, y) /\ Above(list, y, z) => Above(list, x, z)
      /\ \A x, y \in S : x = y \/ Above(list, x, y) \/ Above(list, y, x)
  <2> DEFINE R(i) == Weight[list[i].finding.severity]
             T(i) == list[i].finding.confidence
  <2>0. \A x, y \in S : list[x].finding.severity = list[y].finding.severity <=> R(x) = R(y)
    BY <1>4, WeightsOfSeverities
  <2>1. \A x, y \in S : Above(list, x, y) <=>
          \/ R(x) > R(y)
          \/ R(x) = R(y) /\ (T(x) > T(y) \/ (T(x) = T(y) /\ x < y))
    BY <2>0 DEF Above
  <2>2. \A i \in S : R(i) \in Int /\ T(i) \in Int /\ i \in Int
    BY <1>4, WeightsOfSeverities
  <2> HIDE DEF R, T, S
  <2>3. QED
    BY <2>1, <2>2
<1>6. Orders(before, S)
  <2> HIDE DEF before, S
  <2>1. QED
    BY <1>3, <1>5 DEF Orders
<1>7. Lists(p, S, before)
  <2> HIDE DEF before, S
  <2>1. QED
    BY <1>2, <1>6, SortLists
<1>8. Sort(DOMAIN list, LAMBDA a, b : Above(list, a, b)) = p
  <2> HIDE DEF before
  <2>1. \A k \in 1..Cardinality(S) :
          (CHOOSE x \in S : Cardinality(before[x]) = k - 1)
            = (CHOOSE x \in S : Cardinality({y \in S : Above(list, y, x)}) = k - 1)
    BY <1>3
  <2> HIDE DEF S, n
  <2>2. Sort(DOMAIN list, LAMBDA a, b : Above(list, a, b)) = Sort(S, LAMBDA a, b : Above(list, a, b))
    BY <1>1, Zenon
  <2>3. QED
    BY <2>1, <2>2 DEF Sort
<1> HIDE DEF before, p
<1>9. p \in [1..n -> 1..n] /\ (\A i \in 1..n : \E k \in 1..n : p[k] = i)
      /\ \A j, k \in 1..n : p[j] \in before[p[k]] <=> j < k
  BY <1>2, <1>7 DEF Lists
<1>10. \A j, k \in 1..n : Above(list, p[j], p[k]) <=> j < k
  BY <1>3, <1>9
<1>11. Rank(list) = [i \in 1..n |-> list[p[i]]]
  <2>1. DOMAIN p = 1..n
    BY <1>9
  <2> DEFINE order == Sort(DOMAIN list, LAMBDA a, b : Above(list, a, b))
  <2>2. Rank(list) = [i \in DOMAIN order |-> list[order[i]]]
    BY DEF Rank
  <2> HIDE DEF order
  <2>3. order = p
    BY <1>8 DEF order
  <2>4. QED
    BY <2>1, <2>2, <2>3
<1>12. QED
  BY <1>9, <1>10, <1>11

(* The worse comes first, and of the same severity the surer.              *)
Ranked(report) ==
  \A j, k \in DOMAIN report : j < k =>
    /\ Weight[report[j].finding.severity] >= Weight[report[k].finding.severity]
    /\ report[j].finding.severity = report[k].finding.severity
         => report[j].finding.confidence >= report[k].finding.confidence

(* The report is what dedupe keeps, ranked.                                *)
LEMMA FindingsAreSound ==
  ASSUME NEW list \in Seq(Reported)
  PROVE  /\ Findings(list) \in Seq(Kept)
         /\ KeptIsSound(Findings(list), list, Len(list))
         /\ Ranked(Findings(list))
<1> DEFINE kept == Dedupe(list)
           n == Len(kept)
           report == Findings(list)
<1>1. kept \in Seq(Kept) /\ KeptIsSound(kept, list, Len(list))
  BY DedupeIsSound
<1>2. n \in Nat /\ DOMAIN kept = 1..n /\ \A i \in 1..n : kept[i] \in Kept
  <2> HIDE DEF kept
  <2>1. n \in Nat /\ DOMAIN kept = 1..n
    BY <1>1, LenProperties
  <2>2. \A i \in 1..n : kept[i] \in Kept
    BY <1>1, ElementOfSeq
  <2>3. QED
    BY <2>1, <2>2
<1> HIDE DEF kept
<1>3. PICK p \in [1..n -> 1..n] :
        /\ \A i \in 1..n : \E k \in 1..n : p[k] = i
        /\ \A j, k \in 1..n : Above(kept, p[j], p[k]) <=> j < k
        /\ Rank(kept) = [i \in 1..n |-> kept[p[i]]]
  BY <1>1, RankLists
<1>4. report = [i \in 1..n |-> kept[p[i]]]
  BY <1>3 DEF Findings, kept
<1> HIDE DEF report
<1>5. report \in Seq(Kept) /\ DOMAIN report = 1..n /\ \A i \in 1..n : p[i] \in 1..n /\ report[i] = kept[p[i]]
  <2>1. \A i \in 1..n : p[i] \in 1..n /\ report[i] = kept[p[i]]
    BY <1>3, <1>4
  <2>2. report \in [1..n -> Kept]
    BY <1>2, <1>3, <1>4
  <2>3. report \in Seq(Kept) /\ DOMAIN report = 1..n
    BY <1>2, <2>2, ListOfFunction
  <2>4. QED
    BY <2>1, <2>3
<1>6. \A j, k \in 1..n : p[j] = p[k] => j = k
  <2> SUFFICES ASSUME NEW j \in 1..n, NEW k \in 1..n, p[j] = p[k] PROVE j = k
    OBVIOUS
  <2>1. /\ Above(kept, p[j], p[k]) <=> j < k
        /\ Above(kept, p[k], p[j]) <=> k < j
        /\ Above(kept, p[j], p[j]) <=> j < j
    BY <1>3
  <2>2. ~(j < k) /\ ~(k < j)
    BY <1>2, <2>1
  <2>3. QED
    BY <1>2, <2>2
<1>7. KeptIsSound(report, list, Len(list))
  <2> DEFINE N == Len(list)
  <2>1. \A i, j \in 1..n : kept[i].finding.key = kept[j].finding.key => i = j
    BY <1>1, <1>2 DEF KeptIsSound
  <2>2. \A m \in 1..N : \E i \in 1..n : kept[i].finding.key = list[m].key
    BY <1>1, <1>2 DEF KeptIsSound
  <2>3. \A i \in 1..n : /\ kept[i].duplicateCount = Cardinality(Same(list, N, kept[i].finding.key))
                        /\ \E b \in Same(list, N, kept[i].finding.key) :
                             kept[i].finding = list[b] /\ IsBest(list, Same(list, N, kept[i].finding.key), b)
    BY <1>1, <1>2 DEF KeptIsSound
  <2> HIDE DEF N
  <2>4. \A i, j \in 1..n : report[i].finding.key = report[j].finding.key => i = j
    <3> SUFFICES ASSUME NEW i \in 1..n, NEW j \in 1..n,
                        report[i].finding.key = report[j].finding.key
                 PROVE  i = j
      OBVIOUS
    <3>1. p[i] \in 1..n /\ p[j] \in 1..n /\ report[i] = kept[p[i]] /\ report[j] = kept[p[j]]
      BY <1>5
    <3>2. kept[p[i]].finding.key = kept[p[j]].finding.key
      BY <3>1
    <3>3. p[i] = p[j]
      BY <2>1, <3>1, <3>2
    <3>4. QED
      BY <1>6, <3>3
  <2>5. \A m \in 1..N : \E i \in 1..n : report[i].finding.key = list[m].key
    <3> SUFFICES ASSUME NEW m \in 1..N PROVE \E i \in 1..n : report[i].finding.key = list[m].key
      OBVIOUS
    <3>1. PICK i \in 1..n : kept[i].finding.key = list[m].key
      BY <2>2
    <3>2. PICK k \in 1..n : p[k] = i
      BY <1>3
    <3>3. report[k].finding.key = list[m].key
      BY <1>5, <3>1, <3>2
    <3>4. QED
      BY <3>3
  <2>6. \A i \in 1..n : /\ report[i].duplicateCount = Cardinality(Same(list, N, report[i].finding.key))
                        /\ \E b \in Same(list, N, report[i].finding.key) :
                             report[i].finding = list[b] /\ IsBest(list, Same(list, N, report[i].finding.key), b)
    <3> DEFINE Sound(x) == /\ x.duplicateCount = Cardinality(Same(list, N, x.finding.key))
                           /\ \E b \in Same(list, N, x.finding.key) :
                                x.finding = list[b] /\ IsBest(list, Same(list, N, x.finding.key), b)
    <3>1. \A i \in 1..n : Sound(kept[i])
      BY <2>3
    <3> HIDE DEF Sound
    <3>2. \A i \in 1..n : Sound(report[i])
      BY <1>5, <3>1
    <3>3. QED
      BY <3>2 DEF Sound
  <2>7. QED
    BY <1>5, <2>4, <2>5, <2>6 DEF KeptIsSound, N
<1>8. Ranked(report)
  <2> SUFFICES ASSUME NEW j \in 1..n, NEW k \in 1..n, j < k
               PROVE  /\ Weight[report[j].finding.severity] >= Weight[report[k].finding.severity]
                      /\ report[j].finding.severity = report[k].finding.severity
                           => report[j].finding.confidence >= report[k].finding.confidence
    BY <1>5 DEF Ranked
  <2> DEFINE x == kept[p[j]].finding
             y == kept[p[k]].finding
  <2>1. Above(kept, p[j], p[k])
    BY <1>3
  <2>2. x \in Reported /\ y \in Reported
    BY <1>2, <1>5 DEF Kept
  <2>3. Weight[x.severity] \in Nat /\ Weight[y.severity] \in Nat
        /\ x.confidence \in Int /\ y.confidence \in Int
    BY <2>2, WeightsOfSeverities, InputsAssumption DEF Reported, Reportable
  <2>4. Weight[x.severity] >= Weight[y.severity] /\ (x.severity = y.severity => x.confidence >= y.confidence)
    <3>1. \/ Weight[x.severity] > Weight[y.severity]
          \/ Weight[x.severity] = Weight[y.severity] /\ x.confidence > y.confidence
          \/ Weight[x.severity] = Weight[y.severity] /\ x.confidence = y.confidence
      BY <2>1 DEF Above
    <3> HIDE DEF x, y
    <3>2. QED
      BY <2>3, <3>1
  <2>5. report[j].finding = x /\ report[k].finding = y
    BY <1>5
  <2> HIDE DEF x, y
  <2>6. QED
    BY <2>4, <2>5
<1>9. QED
  BY <1>5, <1>7, <1>8 DEF report

(* The report is what dedupe keeps, ranked.                                *)
LEMMA KeepsTheBest == InputsAre => DedupeKeepsTheBest
<1> SUFFICES ASSUME InputsAre PROVE DedupeKeepsTheBest
  OBVIOUS
<1> DEFINE report == Findings(raw)
           n == Len(raw)
<1>1. raw \in Seq(Reported) /\ n \in Nat /\ DOMAIN raw = 1..n
  BY LenProperties DEF InputsAre, Reported
<1>2. report \in Seq(Kept) /\ KeptIsSound(report, raw, n)
  BY <1>1, FindingsAreSound
<1>3. DOMAIN report = 1..Len(report) /\ \A i \in DOMAIN report : report[i] \in Kept
  <2> HIDE DEF report
  <2>1. DOMAIN report = 1..Len(report)
    BY <1>2, LenProperties
  <2>2. \A i \in 1..Len(report) : report[i] \in Kept
    BY <1>2, ElementOfSeq
  <2>3. QED
    BY <2>1, <2>2
<1>4. \A k : OfKey(k) = Same(raw, n, k)
  BY <1>1 DEF OfKey, Same
<1> HIDE DEF report, n
<1>5. ASSUME NEW k \in FindingKeys
      PROVE  Cardinality({i \in DOMAIN report : report[i].finding.key = k})
               = IF OfKey(k) = {} THEN 0 ELSE 1
  <2> DEFINE S == {i \in DOMAIN report : report[i].finding.key = k}
  <2>1. \A i, j \in S : i = j
    BY <1>2 DEF KeptIsSound
  <2>2. OfKey(k) # {} => S # {}
    <3> SUFFICES ASSUME NEW m \in OfKey(k) PROVE S # {}
      OBVIOUS
    <3>1. m \in 1..n /\ raw[m].key = k
      BY <1>1 DEF OfKey
    <3>2. QED
      BY <1>2, <3>1 DEF KeptIsSound
  <2>3. S # {} => OfKey(k) # {}
    <3> SUFFICES ASSUME NEW i \in S PROVE OfKey(k) # {}
      OBVIOUS
    <3>1. \E b : b \in Same(raw, n, report[i].finding.key)
      BY <1>2 DEF KeptIsSound
    <3>2. QED
      BY <1>4, <3>1
  <2> HIDE DEF S
  <2>4. CASE S = {}
    <3>1. Cardinality(S) = 0
      BY <2>4, FS_EmptySet
    <3>2. QED
      BY <2>2, <2>4, <3>1 DEF S
  <2>5. CASE S # {}
    <3>1. PICK i : S = {i}
      BY <2>1, <2>5
    <3>2. Cardinality({i}) = 1
      BY FS_Singleton
    <3>3. Cardinality(S) = 1
      BY <3>1, <3>2, Zenon
    <3>4. QED
      BY <2>3, <2>5, <3>3 DEF S
  <2>6. QED
    BY <2>4, <2>5
<1>6. ASSUME NEW i \in DOMAIN report
      PROVE  LET same == OfKey(report[i].finding.key)
                 best == {m \in same : \A o \in same : raw[o].confidence <= raw[m].confidence}
             IN  report[i].finding = raw[Min(best)] /\ report[i].duplicateCount = Cardinality(same)
  <2> DEFINE same == OfKey(report[i].finding.key)
             best == {m \in same : \A o \in same : raw[o].confidence <= raw[m].confidence}
  <2>1. same = Same(raw, n, report[i].finding.key)
    BY <1>4
  <2>2. report[i].duplicateCount = Cardinality(Same(raw, n, report[i].finding.key))
    BY <1>2 DEF KeptIsSound
  <2>3. PICK b \in same : report[i].finding = raw[b] /\ IsBest(raw, same, b)
    BY <1>2, <2>1 DEF KeptIsSound
  <2>4. same \subseteq 1..n
    BY <1>1 DEF OfKey
  <2>5. \A m \in 1..n : raw[m].confidence \in Int /\ m \in Int
    <3>1. \A m \in 1..n : raw[m] \in Reported
      BY <1>1, ElementOfSeq DEF n
    <3>2. \A f \in Reported : f.confidence \in Int
      BY InputsAssumption DEF Reported, Reportable
    <3>3. QED
      BY <1>1, <3>1, <3>2
  <2> HIDE DEF same
  <2>6. b \in best
    BY <2>3 DEF IsBest
  <2>7. \A m \in best : b <= m
    <3> SUFFICES ASSUME NEW m \in best, ~(b <= m) PROVE FALSE
      OBVIOUS
    <3>1. m \in same /\ raw[b].confidence <= raw[m].confidence
      BY <2>3
    <3>2. m < b
      BY <2>3, <2>4, <2>5, <3>1
    <3>3. raw[m].confidence < raw[b].confidence
      BY <2>3, <3>1, <3>2 DEF IsBest
    <3>4. QED
      BY <2>3, <2>4, <2>5, <3>1, <3>3
  <2>8. \A m \in best : m \in Int
    BY <2>4, <2>5
  <2>9. Min(best) = b
    <3> HIDE DEF best
    <3>1. \A m \in best : (\A y \in best : m <= y) => m = b
      BY <2>6, <2>7, <2>8
    <3>2. QED
      BY <2>6, <2>7, <3>1 DEF Min
  <2>10. report[i].finding = raw[Min(best)]
    BY <2>3, <2>9
  <2>11. report[i].duplicateCount = Cardinality(same)
    BY <2>1, <2>2
  <2> HIDE DEF best
  <2>12. QED
    BY <2>10, <2>11 DEF same, best
<1>7. QED
  BY <1>5, <1>6 DEF DedupeKeepsTheBest, report, Range

(* However often and in whatever order the agents repeat an issue, the     *)
(* report has it once, as the first of its surest reports, and counts      *)
(* them all.                                                               *)
THEOREM DedupeAlwaysKeepsTheBest == Spec => []DedupeKeepsTheBest
<1>1. QED
  BY TypesOfInputs, KeepsTheBest, PTL
---------------------------------------------------------------------------------
(* FlattenSeq has every element of every list.                             *)
LEMMA FlattenKeepsAll ==
  ASSUME NEW A, NEW seqs \in Seq(Seq(A))
  PROVE  \A i \in DOMAIN seqs : \A j \in DOMAIN seqs[i] :
           \E k \in DOMAIN FlattenSeq(seqs) : FlattenSeq(seqs)[k] = seqs[i][j]
<1> SUFFICES ASSUME NEW i \in DOMAIN seqs, NEW j \in DOMAIN seqs[i]
             PROVE  \E k \in DOMAIN FlattenSeq(seqs) : FlattenSeq(seqs)[k] = seqs[i][j]
  OBVIOUS
<1>1. seqs[i][j] \in Range(seqs[i])
  BY DEF Range
<1>2. seqs[i][j] \in Range(FlattenSeq(seqs))
  BY <1>1, FlattenRange
<1>3. QED
  BY <1>2 DEF Range

---------------------------------------------------------------------------------
(* What the gateway shows: the findings that clear the threshold, in the   *)
(* report's order, and of those the ones posted inline.                    *)
SureOf(list, t) == {list[i].key : i \in {n \in DOMAIN list : list[n].confidence >= t}}

(* What is shown are the sure enough of the report, in its order.          *)
LEMMA PostableArePlaces ==
  ASSUME NEW list \in Seq(Reported), NEW t \in Int
  PROVE  /\ Postable(list, t) \in Seq(Kept)
         /\ \E p : PlacesOf(p, Postable(list, t), Findings(list),
                            {i \in DOMAIN Findings(list) : Findings(list)[i].finding.confidence >= t})
<1> DEFINE report == Findings(list)
           where == {i \in DOMAIN report : report[i].finding.confidence >= t}
<1>1. report \in Seq(Kept)
  BY FindingsAreSound
<1>2. Postable(list, t) = ElementsAt(report, where)
  BY Zenon DEF Postable, Filter
<1>3. where \in SUBSET (1..Len(report))
  <2> HIDE DEF report
  <2>1. DOMAIN report = 1..Len(report)
    BY <1>1, LenProperties
  <2>2. QED
    BY <2>1
<1> HIDE DEF report, where
<1>4. ElementsAt(report, where) \in Seq(Kept) /\ \E p : PlacesOf(p, ElementsAt(report, where), report, where)
  BY <1>1, <1>3, ElementsAtLists, ElementsAtPlaces
<1>5. QED
  BY <1>2, <1>4 DEF report, where

(* What may be posted inline are those of them with a line, in their       *)
(* order.                                                                  *)
LEMMA EligibleArePlaces ==
  ASSUME NEW list \in Seq(Reported), NEW t \in Int
  PROVE  /\ Eligible(list, t) \in Seq(Kept)
         /\ \E p : PlacesOf(p, Eligible(list, t), Postable(list, t),
                            {i \in DOMAIN Postable(list, t) : Postable(list, t)[i].finding.inline})
<1> DEFINE shown == Postable(list, t)
           where == {i \in DOMAIN shown : shown[i].finding.inline}
<1>1. shown \in Seq(Kept)
  BY PostableArePlaces
<1>2. Eligible(list, t) = ElementsAt(shown, where)
  BY Zenon DEF Eligible, Filter
<1>3. where \in SUBSET (1..Len(shown))
  <2> HIDE DEF shown
  <2>1. DOMAIN shown = 1..Len(shown)
    BY <1>1, LenProperties
  <2>2. QED
    BY <2>1
<1> HIDE DEF shown, where
<1>4. ElementsAt(shown, where) \in Seq(Kept) /\ \E p : PlacesOf(p, ElementsAt(shown, where), shown, where)
  BY <1>1, <1>3, ElementsAtLists, ElementsAtPlaces
<1>5. QED
  BY <1>2, <1>4 DEF shown, where

(* Some places of a ranked list without repeats are one.                   *)
OneOfEach(list) == \A j, k \in DOMAIN list : list[j].finding.key = list[k].finding.key => j = k

(* Part of a ranked list is ranked, and has no finding twice if that has   *)
(* none.                                                                   *)
LEMMA PlacesStayRanked ==
  ASSUME NEW part, NEW list, NEW where \in SUBSET DOMAIN list, NEW p,
         PlacesOf(p, part, list, where), OneOfEach(list), Ranked(list)
  PROVE  OneOfEach(part) /\ Ranked(part)
<1>1. \A k \in DOMAIN part : p[k] \in DOMAIN list /\ part[k] = list[p[k]]
  BY DEF PlacesOf
<1>2. OneOfEach(part)
  BY <1>1 DEF PlacesOf, OneOfEach
<1>3. Ranked(part)
  <2> SUFFICES ASSUME NEW j \in DOMAIN part, NEW k \in DOMAIN part, j < k
               PROVE  /\ Weight[part[j].finding.severity] >= Weight[part[k].finding.severity]
                      /\ part[j].finding.severity = part[k].finding.severity
                           => part[j].finding.confidence >= part[k].finding.confidence
    BY DEF Ranked
  <2>1. p[j] < p[k]
    BY DEF PlacesOf
  <2>2. QED
    BY <1>1, <2>1 DEF Ranked
<1>4. QED
  BY <1>2, <1>3

(* The surest report of an issue is the one dedupe keeps, so what is shown *)
(* is what some agent is sure of, each issue once and ranked.              *)
LEMMA TheSureAreShown ==
  ASSUME NEW list \in Seq(Reported), NEW t \in Int
  PROVE  /\ OneOfEach(Findings(list)) /\ OneOfEach(Postable(list, t)) /\ Ranked(Postable(list, t))
         /\ \A i \in DOMAIN Findings(list) : \E n \in DOMAIN list : Findings(list)[i].finding.key = list[n].key
         /\ \A n \in DOMAIN list : \E i \in DOMAIN Findings(list) : Findings(list)[i].finding.key = list[n].key
         /\ \A k \in DOMAIN Postable(list, t) : Postable(list, t)[k].finding.key \in SureOf(list, t)
         /\ \A key \in SureOf(list, t) :
              \E k \in DOMAIN Postable(list, t) : Postable(list, t)[k].finding.key = key
<1> DEFINE report == Findings(list)
           shown == Postable(list, t)
           where == {i \in DOMAIN report : report[i].finding.confidence >= t}
           N == Len(list)
<1>1. report \in Seq(Kept) /\ KeptIsSound(report, list, N) /\ Ranked(report)
  BY FindingsAreSound
<1>2. PICK p : PlacesOf(p, shown, report, where)
  BY PostableArePlaces
<1>3. DOMAIN list = 1..N /\ \A n \in 1..N : list[n].confidence \in Int
  <2>1. \A n \in 1..N : list[n] \in Reported
    BY ElementOfSeq
  <2>2. \A f \in Reported : f.confidence \in Int
    BY InputsAssumption DEF Reported, Reportable
  <2>3. QED
    BY <2>1, <2>2, LenProperties
<1> HIDE DEF report, shown, N
<1>4. OneOfEach(report)
  BY <1>1 DEF KeptIsSound, OneOfEach
<1>5. OneOfEach(shown) /\ Ranked(shown)
  <2>1. where \in SUBSET DOMAIN report
    OBVIOUS
  <2> HIDE DEF where
  <2>2. QED
    BY <1>1, <1>2, <1>4, <2>1, PlacesStayRanked
<1>6. \A n \in 1..N : \E i \in DOMAIN report : report[i].finding.key = list[n].key
  BY <1>1 DEF KeptIsSound
<1>7. \A i \in DOMAIN report : \E b \in 1..N :
        /\ list[b].key = report[i].finding.key /\ report[i].finding = list[b]
        /\ \A n \in 1..N : list[n].key = report[i].finding.key => list[n].confidence <= list[b].confidence
  <2> SUFFICES ASSUME NEW i \in DOMAIN report
               PROVE  \E b \in 1..N :
                        /\ list[b].key = report[i].finding.key /\ report[i].finding = list[b]
                        /\ \A n \in 1..N : list[n].key = report[i].finding.key
                                             => list[n].confidence <= list[b].confidence
    OBVIOUS
  <2> DEFINE S == Same(list, N, report[i].finding.key)
  <2>1. PICK b \in S : report[i].finding = list[b] /\ IsBest(list, S, b)
    BY <1>1 DEF KeptIsSound
  <2>2. b \in 1..N /\ list[b].key = report[i].finding.key
    BY DEF Same
  <2>3. \A n \in 1..N : list[n].key = report[i].finding.key => n \in S
    BY DEF Same
  <2> HIDE DEF S
  <2>4. \A n \in 1..N : list[n].key = report[i].finding.key => list[n].confidence <= list[b].confidence
    BY <2>1, <2>3 DEF IsBest
  <2>5. QED
    BY <2>1, <2>2, <2>4
<1>8. ASSUME NEW k \in DOMAIN shown PROVE shown[k].finding.key \in SureOf(list, t)
  <2>1. p[k] \in where /\ shown[k] = report[p[k]]
    BY <1>2 DEF PlacesOf
  <2>2. PICK b \in 1..N : list[b].key = report[p[k]].finding.key /\ report[p[k]].finding = list[b]
    BY <1>7, <2>1
  <2>3. list[b].confidence >= t
    BY <2>1, <2>2
  <2>4. list[b].key \in SureOf(list, t)
    BY <1>3, <2>3 DEF SureOf
  <2>5. QED
    BY <2>1, <2>2, <2>4
<1>9. ASSUME NEW key \in SureOf(list, t) PROVE \E k \in DOMAIN shown : shown[k].finding.key = key
  <2>1. PICK n \in 1..N : list[n].key = key /\ list[n].confidence >= t
    BY <1>3 DEF SureOf
  <2>2. PICK i \in DOMAIN report : report[i].finding.key = list[n].key
    BY <1>6
  <2>3. PICK b \in 1..N : /\ report[i].finding = list[b]
                          /\ list[n].confidence <= list[b].confidence
    BY <1>7, <2>2
  <2>4. report[i].finding.confidence >= t
    BY <1>3, <2>1, <2>3
  <2>5. i \in where
    BY <2>4
  <2> HIDE DEF where
  <2>6. PICK k \in 1..Cardinality(where) : p[k] = i
    BY <1>2, <2>5 DEF PlacesOf
  <2>7. k \in DOMAIN shown /\ shown[k] = report[i]
    BY <1>2, <2>6 DEF PlacesOf
  <2>8. QED
    BY <2>1, <2>2, <2>7
<1>10. \A i \in DOMAIN report : \E n \in DOMAIN list : report[i].finding.key = list[n].key
  BY <1>3, <1>7
<1>11. \A n \in DOMAIN list : \E i \in DOMAIN report : report[i].finding.key = list[n].key
  BY <1>3, <1>6
<1>12. QED
  BY <1>4, <1>5, <1>8, <1>9, <1>10, <1>11 DEF report, shown

(* The counts by severity count every finding of a list.                   *)
LEMMA SummaryCountsAll ==
  ASSUME NEW list \in Seq(Kept)
  PROVE  MapThenSumSet(LAMBDA s : Summary(list)[s], Severities) = Len(list)
<1> DEFINE n == Len(list)
           Of(s) == {i \in DOMAIN list : list[i].finding.severity = s}
           w == Summary(list)
           C == Of("critical")
           W == Of("warning")
           I == Of("info")
<1>1. n \in Nat /\ DOMAIN list = 1..n /\ \A i \in 1..n : list[i].finding.severity \in Severities
  <2>1. \A i \in 1..n : list[i] \in Kept
    BY ElementOfSeq
  <2>2. \A i \in 1..n : list[i].finding.severity \in Severities
    BY <2>1 DEF Kept, Reported, Reportable
  <2>3. QED
    BY <2>2, LenProperties
<1>2. IsFiniteSet(1..n) /\ Cardinality(1..n) = n
  BY <1>1, PrefixCounts
<1>3. \A s \in Severities : w[s] = Cardinality(Of(s))
  BY DEF Summary
<1>4. Of("critical") \in SUBSET (1..n) /\ Of("warning") \in SUBSET (1..n) /\ Of("info") \in SUBSET (1..n)
  BY <1>1
<1>5. /\ C \cap W = {} /\ (C \cup W) \cap I = {} /\ (C \cup W) \cup I = 1..n
  BY <1>1 DEF Severities
<1> HIDE DEF C, W, I, n, w
<1>6. /\ IsFiniteSet(C) /\ Cardinality(C) \in Nat
      /\ IsFiniteSet(W) /\ Cardinality(W) \in Nat
      /\ IsFiniteSet(I) /\ Cardinality(I) \in Nat
  <2>1. IsFiniteSet(C) /\ IsFiniteSet(W) /\ IsFiniteSet(I)
    BY <1>2, <1>4, FS_Subset DEF C, W, I
  <2>2. QED
    BY <2>1, FS_CardinalityType
<1>7. Cardinality(C \cup W) = Cardinality(C) + Cardinality(W) /\ IsFiniteSet(C \cup W)
  <2>1. Cardinality(C \cap W) = 0
    BY <1>5, FS_EmptySet, Zenon
  <2>2. Cardinality(C \cup W) = Cardinality(C) + Cardinality(W) - Cardinality(C \cap W)
        /\ IsFiniteSet(C \cup W)
    BY <1>6, FS_Union
  <2>3. QED
    BY <1>6, <2>1, <2>2
<1>8. n = Cardinality(C) + Cardinality(W) + Cardinality(I)
  <2>1. Cardinality((C \cup W) \cap I) = 0
    BY <1>5, FS_EmptySet, Zenon
  <2>2. Cardinality((C \cup W) \cup I)
          = Cardinality(C \cup W) + Cardinality(I) - Cardinality((C \cup W) \cap I)
    BY <1>6, <1>7, FS_Union
  <2>3. Cardinality((C \cup W) \cup I) = n
    BY <1>2, <1>5, Zenon
  <2>4. QED
    BY <1>6, <1>7, <2>1, <2>2, <2>3
<1>9. w["critical"] = Cardinality(C) /\ w["warning"] = Cardinality(W) /\ w["info"] = Cardinality(I)
  BY <1>3 DEF Severities, C, W, I
<1>10. IsFiniteSet(Severities)
  <2>1. IsFiniteSet({"critical"} \cup {"warning"})
    BY FS_Singleton, FS_Union
  <2>2. IsFiniteSet(({"critical"} \cup {"warning"}) \cup {"info"})
    BY <2>1, FS_Singleton, FS_Union
  <2>3. ({"critical"} \cup {"warning"}) \cup {"info"} = Severities
    BY DEF Severities
  <2>4. QED
    BY <2>2, <2>3
<1>11. Weighs(w, Severities)
  BY <1>6, <1>9 DEF Severities, Weighs
<1>12. /\ SumOf(w, {}) = 0
       /\ \A T \in SUBSET Severities : SumOf(w, T) \in Nat
       /\ \A T \in SUBSET Severities : \A x \in Severities \ T : SumOf(w, T \cup {x}) = SumOf(w, T) + w[x]
  BY <1>10, <1>11, SumAdds
<1>13. SumOf(w, Severities) = w["critical"] + w["warning"] + w["info"]
  <2>1. /\ {} \in SUBSET Severities /\ "critical" \in Severities \ {}
        /\ {"critical"} \in SUBSET Severities /\ "warning" \in Severities \ {"critical"}
        /\ {"critical", "warning"} \in SUBSET Severities /\ "info" \in Severities \ {"critical", "warning"}
        /\ {} \cup {"critical"} = {"critical"}
        /\ {"critical"} \cup {"warning"} = {"critical", "warning"}
        /\ {"critical", "warning"} \cup {"info"} = Severities
    BY DEF Severities
  <2>2. SumOf(w, {"critical"}) = SumOf(w, {}) + w["critical"]
    BY <1>12, <2>1, Zenon
  <2>3. SumOf(w, {"critical", "warning"}) = SumOf(w, {"critical"}) + w["warning"]
    BY <1>12, <2>1, Zenon
  <2>4. SumOf(w, Severities) = SumOf(w, {"critical", "warning"}) + w["info"]
    BY <1>12, <2>1, Zenon
  <2>5. w["critical"] \in Nat
    BY <1>6, <1>9
  <2>6. QED
    BY <1>12, <2>2, <2>3, <2>4, <2>5
<1>14. SumOf(w, Severities) = n
  BY <1>6, <1>8, <1>9, <1>13
<1>15. MapThenSumSet(LAMBDA s : Summary(list)[s], Severities) = SumOf(w, Severities)
  BY DEF SumOf, w
<1>16. QED
  BY <1>14, <1>15 DEF n

(* The first threshold that is set, the repository's first.                *)
LEMMA TheFirstThreshold ==
  ASSUME InputsAre
  PROVE  /\ FirstThreshold(settings) \in Int
         /\ Head(Filter(<<settings.override, settings.organization, PlatformThreshold>>,
                        LAMBDA t : t # None)) = FirstThreshold(settings)
<1> DEFINE A == Thresholds \cup {None, PlatformThreshold}
           list == <<settings.override, settings.organization, PlatformThreshold>>
           where == {i \in DOMAIN list : list[i] # None}
           part == ElementsAt(list, where)
           m == Cardinality(where)
<1>1. list \in Seq(A) /\ Len(list) = 3 /\ DOMAIN list = 1..3
      /\ list[1] = settings.override /\ list[2] = settings.organization /\ list[3] = PlatformThreshold
  BY DEF InputsAre
<1>2. Filter(list, LAMBDA t : t # None) = part
  BY Zenon DEF Filter
<1>3. FirstThreshold(settings) \in Int
  BY InputsAssumption, SettingsAssumption DEF InputsAre, FirstThreshold
<1> HIDE DEF list
<1>4. where \in SUBSET (1..Len(list)) /\ 3 \in where /\ (\A i \in where : i \in 1..3)
      /\ (1 \in where <=> settings.override # None) /\ (2 \in where <=> settings.organization # None)
  BY <1>1, SettingsAssumption
<1> HIDE DEF where
<1>5. PICK p : PlacesOf(p, part, list, where)
  <2> HIDE DEF A
  <2>1. QED
    BY <1>1, <1>4, ElementsAtPlaces
<1> HIDE DEF part
<1>6. m \in Nat /\ m # 0 /\ Len(part) = m /\ DOMAIN part = 1..m
      /\ (\A j, k \in 1..m : p[j] < p[k] <=> j < k) /\ (\A i \in where : \E k \in 1..m : p[k] = i)
      /\ p \in [1..m -> where] /\ \A k \in 1..m : part[k] = list[p[k]]
  <2>1. m \in Nat /\ (\A i \in where : \E k \in 1..m : p[k] = i)
    BY <1>5 DEF PlacesOf
  <2>2. m # 0
    BY <1>4, <2>1
  <2>3. QED
    BY <1>5, <2>1, <2>2 DEF PlacesOf
<1> HIDE DEF m
<1>7. 1 \in 1..m /\ p[1] \in where /\ part[1] = list[p[1]]
  BY <1>6
<1>8. \A i \in where : p[1] <= i
  <2> SUFFICES ASSUME NEW i \in where PROVE p[1] <= i
    OBVIOUS
  <2>1. PICK k \in 1..m : p[k] = i
    BY <1>6
  <2>2. ~(k < 1)
    BY <1>6
  <2>3. p[1] \in where /\ p[k] \in where
    BY <1>7, <2>1
  <2>4. p[1] \in 1..3 /\ p[k] \in 1..3
    BY <1>4, <2>3
  <2>5. ~(p[k] < p[1])
    BY <1>6, <1>7, <2>2
  <2>6. QED
    BY <2>1, <2>4, <2>5
<1>9. list[p[1]] = FirstThreshold(settings)
  <2>1. p[1] \in 1..3
    BY <1>4, <1>7
  <2>2. CASE settings.override # None
    <3>1. p[1] = 1
      BY <1>4, <1>8, <2>1, <2>2
    <3>2. QED
      BY <1>1, <2>2, <3>1 DEF FirstThreshold
  <2>3. CASE settings.override = None /\ settings.organization # None
    <3>1. p[1] = 2
      BY <1>4, <1>7, <1>8, <2>1, <2>3
    <3>2. QED
      BY <1>1, <2>3, <3>1 DEF FirstThreshold
  <2>4. CASE settings.override = None /\ settings.organization = None
    <3>1. p[1] = 3
      BY <1>4, <1>7, <2>1, <2>4
    <3>2. QED
      BY <1>1, <2>4, <3>1 DEF FirstThreshold
  <2>5. QED
    BY <2>2, <2>3, <2>4
<1>10. Head(part) = part[1]
  OBVIOUS
<1>11. QED
  BY <1>2, <1>3, <1>7, <1>9, <1>10 DEF list

(* What is shown, counted in the title and hidden follows from the surest  *)
(* report of each issue, which dedupe has kept.                            *)
LEMMA ShowsTheSure == InputsAre => ShownIffSomeAgentIsSure
<1> SUFFICES ASSUME InputsAre PROVE ShownIffSomeAgentIsSure
  OBVIOUS
<1> DEFINE t == Config.confidenceThreshold
           report == Findings(raw)
           shown == Postable(raw, t)
           n == Len(shown)
           m == Len(report)
           sure == SureOf(raw, t)
           known == {raw[i].key : i \in DOMAIN raw}
<1>1. raw \in Seq(Reported)
  BY DEF InputsAre, Reported
<1>2. t \in Int /\ t = FirstThreshold(settings)
  BY TheFirstThreshold DEF Config, EffectiveConfig
<1>3. /\ OneOfEach(report) /\ OneOfEach(shown)
      /\ \A i \in DOMAIN report : \E x \in DOMAIN raw : report[i].finding.key = raw[x].key
      /\ \A x \in DOMAIN raw : \E i \in DOMAIN report : report[i].finding.key = raw[x].key
      /\ \A k \in DOMAIN shown : shown[k].finding.key \in sure
      /\ \A key \in sure : \E k \in DOMAIN shown : shown[k].finding.key = key
  <2> HIDE DEF t
  <2>1. QED
    BY <1>1, <1>2, TheSureAreShown
<1>4. report \in Seq(Kept) /\ shown \in Seq(Kept)
  <2> HIDE DEF t
  <2>1. QED
    BY <1>1, <1>2, FindingsAreSound, PostableArePlaces
<1> HIDE DEF report, shown
<1>5. n \in Nat /\ DOMAIN shown = 1..n /\ m \in Nat /\ DOMAIN report = 1..m
  BY <1>4, LenProperties
<1>6. sure \subseteq known
  BY DEF SureOf
<1> HIDE DEF sure, n, m
<1>7. IsFiniteSet(sure) /\ Cardinality(sure) = n
  <2> DEFINE f == [k \in 1..n |-> shown[k].finding.key]
             S == 1..n
  <2>1. /\ f \in [S -> sure] /\ (\A x, y \in S : f[x] = f[y] => x = y)
        /\ \A key \in sure : \E x \in S : f[x] = key
    BY <1>3, <1>5 DEF OneOfEach
  <2>2. IsFiniteSet(S) /\ Cardinality(S) = n
    BY <1>5, PrefixCounts
  <2> HIDE DEF f, S
  <2>3. IsFiniteSet(sure) /\ Cardinality(sure) = Cardinality(S)
    BY <2>1, <2>2, ImageCounts
  <2>4. QED
    BY <2>2, <2>3
<1>8. IsFiniteSet(known) /\ Cardinality(known) = m
  <2> DEFINE f == [k \in 1..m |-> report[k].finding.key]
             S == 1..m
  <2>1. \A k \in S : report[k].finding.key \in known
    BY <1>3, <1>5
  <2>2. \A key \in known : \E x \in S : report[x].finding.key = key
    BY <1>3, <1>5
  <2> HIDE DEF known
  <2>3. /\ f \in [S -> known] /\ (\A x, y \in S : f[x] = f[y] => x = y)
        /\ \A key \in known : \E x \in S : f[x] = key
    BY <1>3, <1>5, <2>1, <2>2 DEF OneOfEach
  <2>4. IsFiniteSet(S) /\ Cardinality(S) = m
    BY <1>5, PrefixCounts
  <2> HIDE DEF f, S
  <2>5. IsFiniteSet(known) /\ Cardinality(known) = Cardinality(S)
    BY <2>3, <2>4, ImageCounts
  <2>6. QED
    BY <2>4, <2>5
<1>9. Cardinality(known \ sure) = m - n
  <2> HIDE DEF known
  <2>1. known \cap sure = sure
    BY <1>6
  <2>2. Cardinality(known \ sure) = Cardinality(known) - Cardinality(known \cap sure)
    BY <1>8, FS_Difference
  <2>3. Cardinality(known \cap sure) = n
    BY <1>7, <2>1, Zenon
  <2>4. QED
    BY <1>8, <2>2, <2>3
<1>10. {f.finding.key : f \in Range(shown)} = sure
  BY <1>3 DEF Range
<1>11. MapThenSumSet(LAMBDA s : Summary(shown)[s], Severities) = Cardinality(sure)
  BY <1>4, <1>7, SummaryCountsAll DEF n
<1>12. CheckRunOutput(raw, t) = [title |-> Summary(shown), hidden |-> m - n, annotations |-> shown]
  BY DEF CheckRunOutput, shown, report, m, n
<1>13. ReportedThreshold(BuildReviewJobRequest(Config, {}, {})) = t
  BY DEF ReportedThreshold, BuildReviewJobRequest
<1>14. Head(Filter(<<settings.override, settings.organization, PlatformThreshold>>,
                   LAMBDA x : x # None)) = t
  BY <1>2, TheFirstThreshold
<1> DEFINE output == CheckRunOutput(raw, t)
<1>15. output.annotations = shown /\ output.hidden = m - n
       /\ MapThenSumSet(LAMBDA s : output.title[s], Severities) = Cardinality(sure)
  <2>1. output.annotations = shown /\ output.hidden = m - n /\ output.title = Summary(shown)
    BY <1>12
  <2> HIDE DEF output
  <2>2. QED
    BY <1>11, <2>1
<1>16. sure = {raw[i].key : i \in {x \in DOMAIN raw : raw[x].confidence >= t}}
  BY DEF sure, SureOf
<1> HIDE DEF t
<1>17. /\ {f.finding.key : f \in Range(output.annotations)} = sure
       /\ output.hidden = Cardinality(known \ sure)
  BY <1>9, <1>10, <1>15
<1>18. QED
  BY <1>13, <1>14, <1>15, <1>16, <1>17 DEF ShownIffSomeAgentIsSure, output, t

(* What is shown is what some agent is sure enough of, for every threshold *)
(* the repository, its organization or the platform may have set.          *)
THEOREM ShownIffSureAlways == Spec => []ShownIffSomeAgentIsSure
<1>1. QED
  BY TypesOfInputs, ShowsTheSure, PTL

(* completeCheckRun's requests carry every annotation, none too many.      *)
LEMMA RequestsCarryAll ==
  ASSUME NEW list \in Seq(Kept)
  PROVE  LET requests == CompletionRequests(list)
         IN  /\ requests \in Seq(Seq(Kept)) /\ requests # <<>>
             /\ \A c \in DOMAIN requests : Len(requests[c]) <= AnnotationsPerRequest
             /\ \A i \in DOMAIN list : \E c \in DOMAIN requests :
                  \E j \in DOMAIN requests[c] : requests[c][j] = list[i]
<1> DEFINE requests == CompletionRequests(list)
           n == Len(list)
           A == AnnotationsPerRequest
           from(k) == (k - 1) * A + 1
           to(k) == Min({k * A, n})
           Chunk(k) == SubSeq(list, from(k), to(k))
           chunks == (n + A - 1) \div A
<1>1. n \in Nat /\ DOMAIN list = 1..n /\ \A i \in 1..n : list[i] \in Kept
  <2>1. \A i \in 1..n : list[i] \in Kept
    BY ElementOfSeq
  <2>2. QED
    BY <2>1, LenProperties
<1>2. A \in Nat \ {0}
  BY AggregationAssumption
<1>3. CASE list = <<>>
  <2>1. requests = <<<<>>>>
    BY <1>3 DEF CompletionRequests
  <2>2. <<>> \in Seq(Kept) /\ DOMAIN list = {}
    BY <1>3
  <2>3. requests \in Seq(Seq(Kept)) /\ requests # <<>> /\ DOMAIN requests = 1..1 /\ requests[1] = <<>>
    BY <2>1, <2>2
  <2>4. \A c \in DOMAIN requests : Len(requests[c]) <= A
    BY <1>2, <2>3
  <2>5. QED
    BY <2>2, <2>3, <2>4
<1>4. CASE list # <<>>
  <2>1. requests = [k \in 1..chunks |-> Chunk(k)]
    BY <1>4 DEF CompletionRequests
  <2>2. n # 0
    BY <1>4, EmptySeq
  <2>3. chunks \in Nat /\ chunks * A <= n + A - 1 /\ n + A - 1 < chunks * A + A
    <3>1. n + A - 1 \in Nat
      BY <1>1, <1>2
    <3>2. \A x \in Nat : x \div A \in Nat /\ (x \div A) * A <= x /\ x < (x \div A) * A + A
      BY <1>2
    <3>3. QED
      BY <3>1, <3>2
  <2>4. chunks # 0
    <3> HIDE DEF chunks
    <3>1. QED
      BY <1>1, <1>2, <2>2, <2>3
  <2> HIDE DEF chunks, A, n
  <2>5. ASSUME NEW k \in 1..chunks
        PROVE  /\ from(k) \in Nat /\ 1 <= from(k) /\ to(k) \in Int /\ to(k) <= n /\ to(k) <= k * A
               /\ (to(k) = k * A \/ to(k) = n) /\ from(k) = k * A - A + 1
               /\ Chunk(k) \in Seq(Kept) /\ Len(Chunk(k)) <= A
               /\ \A i \in from(k)..to(k) :
                    i - from(k) + 1 \in DOMAIN Chunk(k) /\ Chunk(k)[i - from(k) + 1] = list[i]
    <3>1. k \in Nat /\ k - 1 \in Nat /\ k * A \in Nat /\ (k - 1) * A \in Nat /\ (k - 1) * A = k * A - A
      BY <1>2, <2>3
    <3>2. to(k) = IF k * A <= n THEN k * A ELSE n
      BY <1>1, <3>1, MinOfTwo
    <3>3. from(k) \in Nat /\ 1 <= from(k) /\ to(k) \in Int /\ to(k) <= n /\ to(k) <= k * A
          /\ (to(k) = k * A \/ to(k) = n) /\ from(k) = k * A - A + 1
      <4> DEFINE a == (k - 1) * A
                 b == k * A
      <4> HIDE DEF a, b
      <4>1. a \in Nat /\ b \in Nat /\ a = b - A /\ to(k) = (IF b <= n THEN b ELSE n) /\ from(k) = a + 1
        BY <3>1, <3>2 DEF a, b
      <4>2. QED
        BY <1>1, <1>2, <4>1 DEF b
    <3> HIDE DEF from, to
    <3>4. \A i \in from(k)..to(k) : list[i] \in Kept
      BY <1>1, <3>3
    <3>5. /\ Chunk(k) \in Seq(Kept)
          /\ Len(Chunk(k)) = IF from(k) <= to(k) THEN to(k) - from(k) + 1 ELSE 0
          /\ \A i \in 1..(to(k) - from(k) + 1) : Chunk(k)[i] = list[from(k) + i - 1]
      BY <3>3, <3>4, SubSeqProperties
    <3> HIDE DEF Chunk
    <3>6. Len(Chunk(k)) <= A
      <4> DEFINE b == k * A
                 x == from(k)
                 y == to(k)
                 z == Len(Chunk(k))
      <4>1. b \in Int /\ x = b - A + 1 /\ y <= b
        BY <3>1, <3>3
      <4>2. x \in Int /\ y \in Int /\ z = IF x <= y THEN y - x + 1 ELSE 0
        BY <3>3, <3>5
      <4> HIDE DEF b, x, y, z
      <4>3. z <= A
        BY <1>2, <4>1, <4>2
      <4>4. QED
        BY <4>3 DEF z
    <3>7. ASSUME NEW i \in from(k)..to(k)
          PROVE  i - from(k) + 1 \in DOMAIN Chunk(k) /\ Chunk(k)[i - from(k) + 1] = list[i]
      <4>1. i - from(k) + 1 \in 1..(to(k) - from(k) + 1) /\ from(k) <= to(k)
            /\ from(k) + (i - from(k) + 1) - 1 = i
        BY <3>3
      <4>2. DOMAIN Chunk(k) = 1..(to(k) - from(k) + 1)
        BY <3>5, <4>1, LenProperties
      <4>3. QED
        BY <3>5, <4>1, <4>2
    <3>8. QED
      BY <3>3, <3>5, <3>6, <3>7
  <2>6. requests \in Seq(Seq(Kept)) /\ Len(requests) = chunks /\ DOMAIN requests = 1..chunks
        /\ \A k \in 1..chunks : requests[k] = Chunk(k)
    <3> HIDE DEF Chunk, requests
    <3>1. [k \in 1..chunks |-> Chunk(k)] \in [1..chunks -> Seq(Kept)]
      BY <2>5
    <3>2. requests \in [1..chunks -> Seq(Kept)] /\ \A k \in 1..chunks : requests[k] = Chunk(k)
      BY <2>1, <3>1
    <3>3. QED
      BY <2>3, <3>2, ListOfFunction
  <2>7. requests # <<>>
    <3> HIDE DEF requests
    <3>1. QED
      BY <2>3, <2>4, <2>6
  <2> HIDE DEF requests
  <2>8. ASSUME NEW i \in 1..n
        PROVE  \E c \in 1..chunks : \E j \in DOMAIN Chunk(c) : Chunk(c)[j] = list[i]
    <3> DEFINE q == (i - 1) \div A
               c == q + 1
    <3>1. q \in Nat /\ q * A <= i - 1 /\ i - 1 < q * A + A
      <4>1. i - 1 \in Nat
        BY <1>1
      <4>2. \A x \in Nat : x \div A \in Nat /\ (x \div A) * A <= x /\ x < (x \div A) * A + A
        BY <1>2
      <4>3. QED
        BY <4>1, <4>2
    <3> HIDE DEF q
    <3>2. \A x, y \in Nat : y <= x => y * A <= x * A
      BY <1>2
    <3>3. q < chunks
      <4> SUFFICES ASSUME chunks <= q PROVE FALSE
        BY <2>3, <3>1
      <4>1. chunks * A <= q * A /\ chunks * A \in Nat /\ q * A \in Nat
        BY <1>2, <2>3, <3>1, <3>2
      <4> DEFINE a == chunks * A
                 b == q * A
      <4> HIDE DEF a, b
      <4>2. a <= b /\ a \in Nat /\ b \in Nat /\ b <= i - 1 /\ n + A - 1 < a + A
        BY <2>3, <3>1, <4>1 DEF a, b
      <4>3. QED
        BY <1>1, <1>2, <4>2
    <3>4. c \in 1..chunks /\ c * A = q * A + A
      BY <1>2, <2>3, <3>1, <3>3
    <3>5. i \in from(c)..to(c)
      <4> DEFINE b == q * A
                 e == c * A
      <4>1. b \in Nat /\ e = b + A /\ b <= i - 1 /\ i - 1 < b + A
        BY <1>2, <3>1, <3>4
      <4>2. from(c) = e - A + 1 /\ to(c) \in Int /\ (to(c) = e \/ to(c) = n)
        BY <2>5, <3>4
      <4> HIDE DEF b, e, from, to, c
      <4>3. QED
        BY <1>1, <1>2, <4>1, <4>2
    <3> HIDE DEF from, to, Chunk, c
    <3>6. i - from(c) + 1 \in DOMAIN Chunk(c) /\ Chunk(c)[i - from(c) + 1] = list[i]
      BY <2>5, <3>4, <3>5
    <3>7. QED
      BY <3>4, <3>6
  <2> HIDE DEF Chunk
  <2>9. \A c \in DOMAIN requests : Len(requests[c]) <= A
    BY <2>5, <2>6
  <2>10. \A i \in DOMAIN list : \E c \in DOMAIN requests : \E j \in DOMAIN requests[c] : requests[c][j] = list[i]
    <3> SUFFICES ASSUME NEW i \in 1..n
                 PROVE  \E c \in DOMAIN requests : \E j \in DOMAIN requests[c] : requests[c][j] = list[i]
      BY <1>1
    <3>1. PICK c \in 1..chunks : \E j \in DOMAIN Chunk(c) : Chunk(c)[j] = list[i]
      BY <2>8
    <3>2. requests[c] = Chunk(c) /\ c \in DOMAIN requests
      BY <2>6
    <3>3. QED
      BY <3>1, <3>2
  <2>11. QED
    BY <2>6, <2>7, <2>9, <2>10 DEF requests, A
<1>5. QED
  BY <1>3, <1>4

(* The posted are the first of a ranked list, and the requests have all    *)
(* that is shown.                                                          *)
LEMMA PostsTheWorst == InputsAre => WorstArePosted
<1> SUFFICES ASSUME InputsAre PROVE WorstArePosted
  OBVIOUS
<1> DEFINE t == Config.confidenceThreshold
           shown == Postable(raw, t)
           all == Eligible(raw, t)
           n == Len(all)
           M == MaxReviewComments
           k == Min({n, M})
           posted == ReviewComments(raw, t)
           left == Range(all) \ Range(posted)
           requests == CompletionRequests(shown)
<1>1. raw \in Seq(Reported)
  BY DEF InputsAre, Reported
<1>2. t \in Int
  BY TheFirstThreshold DEF Config, EffectiveConfig
<1>3. CheckRunOutput(raw, t).annotations = shown
  BY DEF CheckRunOutput
<1> HIDE DEF t
<1>4. shown \in Seq(Kept) /\ OneOfEach(shown) /\ Ranked(shown) /\ all \in Seq(Kept)
  BY <1>1, <1>2, PostableArePlaces, EligibleArePlaces, TheSureAreShown
<1>5. PICK p : PlacesOf(p, all, shown, {i \in DOMAIN shown : shown[i].finding.inline})
  BY <1>1, <1>2, EligibleArePlaces
<1> DEFINE where == {i \in DOMAIN shown : shown[i].finding.inline}
<1>6. OneOfEach(all) /\ Ranked(all) /\ \A i \in DOMAIN all : \E j \in DOMAIN shown : all[i] = shown[j]
  <2> HIDE DEF all, shown
  <2>1. where \in SUBSET DOMAIN shown /\ PlacesOf(p, all, shown, where)
    BY <1>5
  <2> HIDE DEF where
  <2>2. OneOfEach(all) /\ Ranked(all)
    BY <1>4, <2>1, PlacesStayRanked
  <2>3. \A i \in DOMAIN all : p[i] \in DOMAIN shown /\ all[i] = shown[p[i]]
    BY <2>1 DEF PlacesOf
  <2>4. QED
    BY <2>2, <2>3
<1> HIDE DEF where
<1>7. posted = SubSeq(all, 1, k)
  BY DEF ReviewComments
<1>8. DroppedComments(raw, t) = Max({0, n - M})
  BY DEF DroppedComments
<1> HIDE DEF all, shown, posted
<1>9. n \in Nat /\ DOMAIN all = 1..n /\ M \in Nat
  BY <1>4, AggregationAssumption, LenProperties
<1>10. k = (IF n <= M THEN n ELSE M) /\ DroppedComments(raw, t) = n - k
  <2> HIDE DEF n, M
  <2>1. k = IF n <= M THEN n ELSE M
    BY <1>9, MinOfTwo
  <2>2. Max({0, n - M}) = IF 0 >= n - M THEN 0 ELSE n - M
    BY <1>9, MaxOfTwo
  <2> HIDE DEF k
  <2>3. QED
    BY <1>8, <1>9, <2>1, <2>2
<1> HIDE DEF k
<1>11. k \in Nat /\ k <= n
  BY <1>9, <1>10
<1> HIDE DEF n, M
<1>12. DOMAIN posted = 1..k /\ \A i \in 1..k : posted[i] = all[i]
  <2>1. \A i \in 1..k : all[i] \in Kept
    <3>1. \A i \in 1..n : all[i] \in Kept
      BY <1>4, ElementOfSeq DEF n
    <3>2. QED
      BY <1>9, <1>11, <3>1
  <2>2. /\ SubSeq(all, 1, k) \in Seq(Kept)
        /\ Len(SubSeq(all, 1, k)) = IF 1 <= k THEN k - 1 + 1 ELSE 0
        /\ \A i \in 1..(k - 1 + 1) : SubSeq(all, 1, k)[i] = all[1 + i - 1]
    <3>1. 1 \in Int /\ k \in Int
      BY <1>11
    <3>2. QED
      BY <2>1, <3>1, SubSeqProperties
  <2>3. Len(posted) = k /\ \A i \in 1..k : posted[i] = all[i]
    BY <1>7, <1>11, <2>2
  <2>4. DOMAIN posted = 1..Len(posted)
    BY <1>7, <2>2, LenProperties
  <2>5. QED
    BY <2>3, <2>4
<1>13. \A i, j \in 1..n : all[i] = all[j] => i = j
  BY <1>6, <1>9 DEF OneOfEach
<1>14. \A x \in left : \E i \in (k + 1)..n : x = all[i]
  <2> SUFFICES ASSUME NEW x \in left PROVE \E i \in (k + 1)..n : x = all[i]
    OBVIOUS
  <2>1. PICK i \in 1..n : x = all[i]
    BY <1>9 DEF Range
  <2>2. i \notin 1..k
    BY <1>12, <2>1 DEF Range
  <2>3. QED
    BY <1>9, <1>11, <2>1, <2>2
<1>15. \A i \in (k + 1)..n : i \in 1..n /\ i \notin 1..k /\ all[i] \in left
  <2> SUFFICES ASSUME NEW i \in (k + 1)..n PROVE i \in 1..n /\ i \notin 1..k /\ all[i] \in left
    OBVIOUS
  <2>1. i \in 1..n /\ i \notin 1..k /\ \A j \in 1..k : j \in 1..n /\ j # i
    BY <1>9, <1>11
  <2>2. all[i] \in Range(all)
    BY <1>9, <2>1 DEF Range
  <2>3. \A j \in 1..k : posted[j] # all[i]
    BY <1>12, <1>13, <2>1
  <2>4. all[i] \notin Range(posted)
    BY <1>12, <2>3 DEF Range
  <2>5. QED
    BY <2>1, <2>2, <2>4
<1>16. ASSUME NEW x \in Range(posted), NEW y \in left
       PROVE  /\ Weight[x.finding.severity] >= Weight[y.finding.severity]
              /\ x.finding.severity = y.finding.severity
                   => x.finding.confidence >= y.finding.confidence
  <2>1. PICK i \in 1..k : x = all[i]
    BY <1>12 DEF Range
  <2> HIDE DEF left
  <2>2. PICK j \in (k + 1)..n : y = all[j]
    BY <1>14
  <2>3. i \in 1..n /\ j \in 1..n /\ i < j
    BY <1>9, <1>11
  <2>4. QED
    BY <1>6, <1>9, <2>1, <2>2, <2>3 DEF Ranked
<1>17. Cardinality(left) = n - k
  <2> DEFINE S == (k + 1)..n
             f == [i \in S |-> all[i]]
  <2>1. IsFiniteSet(S) /\ Cardinality(S) = n - k
    <3>1. k + 1 \in Int /\ n \in Int
      BY <1>9, <1>11
    <3>2. IsFiniteSet(S) /\ Cardinality(S) = IF k + 1 > n THEN 0 ELSE n - (k + 1) + 1
      BY <3>1, FS_Interval
    <3> HIDE DEF S
    <3>3. QED
      BY <1>9, <1>11, <3>2
  <2> HIDE DEF left
  <2>2. f \in [S -> left] /\ (\A x, y \in S : f[x] = f[y] => x = y)
        /\ \A x \in left : \E i \in S : f[i] = x
    <3>1. \A i \in S : i \in 1..n /\ all[i] \in left
      BY <1>15
    <3>2. \A x \in left : \E i \in S : x = all[i]
      BY <1>14
    <3> HIDE DEF S
    <3>3. QED
      BY <1>13, <3>1, <3>2
  <2> HIDE DEF f, S
  <2>3. QED
    BY <2>1, <2>2, ImageCounts
<1>18. /\ requests \in Seq(Seq(Kept)) /\ requests # <<>>
       /\ \A c \in DOMAIN requests : Len(requests[c]) <= AnnotationsPerRequest
       /\ \A i \in DOMAIN shown : \E c \in DOMAIN requests : \E j \in DOMAIN requests[c] : requests[c][j] = shown[i]
  BY <1>4, RequestsCarryAll
<1> HIDE DEF requests
<1>19. left \subseteq Range(FlattenSeq(requests))
  <2> SUFFICES ASSUME NEW x \in left PROVE x \in Range(FlattenSeq(requests))
    OBVIOUS
  <2>1. PICK i \in DOMAIN all : x = all[i]
    BY DEF Range
  <2>2. PICK j \in DOMAIN shown : x = shown[j]
    BY <1>6, <2>1
  <2>3. PICK c \in DOMAIN requests : \E m \in DOMAIN requests[c] : requests[c][m] = x
    BY <1>18, <2>2
  <2>4. PICK m \in DOMAIN FlattenSeq(requests) : FlattenSeq(requests)[m] = x
    BY <1>18, <2>3, FlattenKeepsAll
  <2>5. QED
    BY <2>4 DEF Range
<1>20. Cardinality(left) = DroppedComments(raw, t)
  BY <1>10, <1>17
<1>21. \A r \in Range(requests) : Len(r) <= AnnotationsPerRequest
  BY <1>18 DEF Range
<1> DEFINE rest == CheckRunOutput(raw, t).annotations
<1>22. rest = shown
  BY <1>3
<1> HIDE DEF rest
<1>23. requests = CompletionRequests(rest)
  BY <1>22 DEF requests
<1>24. QED
  BY <1>16, <1>18, <1>19, <1>20, <1>21, <1>23 DEF WorstArePosted, t, posted, all, rest

(* The comment limit leaves out the least severe findings, counts them and *)
(* carries each in one of the requests that complete the Check Run.        *)
THEOREM WorstAreAlwaysPosted == Spec => []WorstArePosted
<1>1. QED
  BY TypesOfInputs, PostsTheWorst, PTL
---------------------------------------------------------------------------------
(* The coverage: what becomes of each changed file.                        *)

(* A path names one file, so the gateway's skips are as many as the files  *)
(* it leaves out.                                                          *)
LEMMA TotalCountsTheChanged ==
  ASSUME ChangedAre
  PROVE  FilesTotal(changed) = Cardinality({f \in changed : HasChange(f)})
<1> DEFINE H == {f \in changed : HasChange(f)}
           F == Files(changed)
           X == {g \in changed : HasChange(g) /\ GatewaySkip(g) # "sent"}
           G == GatewaySkips(changed)
           s == [f \in X |-> Skip("gateway", f, GatewaySkip(f))]
<1>1. IsFiniteSet(changed) /\ \A f, g \in changed : f.path = g.path => f = g
  BY DEF ChangedAre
<1>2. H \in SUBSET changed /\ X \in SUBSET changed /\ F \in SUBSET H /\ H \ F = X /\ H \cap F = F
  BY DEF Files
<1>3. G = {Skip("gateway", f, GatewaySkip(f)) : f \in X}
  BY DEF GatewaySkips
<1>4. \A f \in X : Skip("gateway", f, GatewaySkip(f)).path = f.path
  BY DEF Skip
<1> HIDE DEF H, F, X, G
<1>5. IsFiniteSet(H) /\ IsFiniteSet(X)
  BY <1>1, <1>2, FS_Subset
<1>6. Cardinality(G) = Cardinality(X)
  <2>1. s \in [X -> G] /\ \A g \in G : \E f \in X : s[f] = g
    BY <1>3
  <2>2. \A f \in X : s[f].path = f.path
    BY <1>4
  <2> HIDE DEF s
  <2>3. \A f, g \in X : s[f] = s[g] => f = g
    BY <1>1, <1>2, <2>2
  <2>4. QED
    BY <1>5, <2>1, <2>3, ImageCounts
<1>7. Cardinality(H \ F) = Cardinality(H) - Cardinality(H \cap F)
  BY <1>5, FS_Difference
<1>8. Cardinality(X) = Cardinality(H) - Cardinality(F)
  BY <1>2, <1>7, Zenon
<1>9. Cardinality(H) \in Nat /\ Cardinality(F) \in Nat
  <2>1. IsFiniteSet(F)
    BY <1>2, <1>5, FS_Subset
  <2>2. QED
    BY <1>5, <2>1, FS_CardinalityType
<1>10. FilesTotal(changed) = Cardinality(F) + Cardinality(G)
  BY DEF FilesTotal, F, G
<1>11. QED
  BY <1>6, <1>8, <1>9, <1>10 DEF H

(* A file some successful agent did not skip was answered for by it.       *)
LEMMA ReviewedWereAnswered ==
  ASSUME ChangedAre, NEW files \in SUBSET changed, NEW enabled, NEW sent, NEW answers,
         NEW f \in files, NEW a \in enabled,
         LET job == [files |-> files, skippedFiles |-> sent, enabledAgents |-> enabled,
                     confidenceThreshold |-> Config.confidenceThreshold]
         IN  /\ RunStatuses(job, answers)[a] = "succeeded"
             /\ \A s \in AllSkips(job, answers) : s.agent = a => s.path # f.path
  PROVE  \/ a = "security" /\ SecurityFate(f) = "ok"
         \/ a = "style" /\ StyleFate(f, answers) = "ok"
<1> DEFINE job == [files |-> files, skippedFiles |-> sent, enabledAgents |-> enabled,
                   confidenceThreshold |-> Config.confidenceThreshold]
           status == RunStatuses(job, answers)
           skips == AllSkips(job, answers)
<1>1. job.files = files /\ job.enabledAgents = enabled
  OBVIOUS
<1>2. status[a] = CASE a = "security" -> SecurityStatus(files)
                    [] a = "style" -> StyleStatus(answers)
                    [] OTHER -> "skipped"
  BY <1>1 DEF RunStatuses
<1>3. \A s \in SecuritySkips(files) \cup StyleSkips(files, answers) : s.agent \in enabled => s \in skips
  BY <1>1 DEF AllSkips
<1> HIDE DEF job, status, skips
<1>4. status[a] = "succeeded" /\ \A s \in skips : s.agent = a => s.path # f.path
  BY DEF job, status, skips
<1>5. CASE a = "security"
  <2>1. SecurityStatus(files) = "succeeded"
    BY <1>2, <1>4, <1>5
  <2>2. SecurityFate(f) # "failed"
    <3>1. SecurityFate(f) \in {SecurityFate(g) : g \in files}
      OBVIOUS
    <3> HIDE DEF SecurityFate
    <3>2. QED
      BY <2>1, <3>1 DEF SecurityStatus
  <2>3. f.fate \in {"ok", "failed", "over_budget"}
    BY DEF ChangedAre, ChangedFile, Fates
  <2>4. SecurityFate(f) \in {"ok", "failed", "over_budget", "too_large"}
    BY <2>3 DEF SecurityFate
  <2>5. SecurityFate(f) \notin {"too_large", "over_budget"}
    <3> SUFFICES ASSUME SecurityFate(f) \in {"too_large", "over_budget"} PROVE FALSE
      OBVIOUS
    <3> DEFINE s == Skip("security", f, SecurityFate(f))
    <3>1. s \in SecuritySkips(files)
      BY DEF SecuritySkips
    <3>2. s.agent = "security" /\ s.path = f.path
      BY DEF Skip
    <3> HIDE DEF s
    <3>3. s \in skips
      BY <1>3, <1>5, <3>1, <3>2
    <3>4. QED
      BY <1>4, <1>5, <3>2, <3>3
  <2>6. QED
    BY <1>5, <2>2, <2>4, <2>5
<1>6. CASE a = "style"
  <2>1. StyleStatus(answers) = "succeeded"
    BY <1>2, <1>4, <1>6
  <2>2. answers # "failed"
    BY <2>1 DEF StyleStatus
  <2>3. ASSUME StyleFate(f, answers) # "ok" PROVE FALSE
    <3> DEFINE s == Skip("style", f, StyleFate(f, answers))
    <3>1. s \in StyleSkips(files, answers)
      BY <2>2, <2>3 DEF StyleSkips
    <3>2. s.agent = "style" /\ s.path = f.path
      BY DEF Skip
    <3> HIDE DEF s
    <3>3. s \in skips
      BY <1>3, <1>6, <3>1, <3>2
    <3>4. QED
      BY <1>4, <1>6, <3>2, <3>3
  <2>4. QED
    BY <1>6, <2>3
<1>7. QED
  BY <1>2, <1>4, <1>5, <1>6

(* Each changed file is followed through the filters, whichever agents     *)
(* there are and however they ended.                                       *)
LEMMA ExplainsTheUnreviewed == InputsAre => UnreviewedIsExplained
<1> SUFFICES ASSUME InputsAre PROVE UnreviewedIsExplained
  OBVIOUS
<1> DEFINE files == Files(changed)
           sent == GatewaySkips(changed)
           enabled == Config.enabledAgents
           job == BuildReviewJobRequest(Config, files, sent)
           status == RunStatuses(job, answer)
           skips == AllSkips(job, answer)
           entries == MergeSkippedFiles(skips)
           counted == Reviewed(job.files, status, skips)
           done == {a \in DOMAIN status : status[a] = "succeeded"}
           Named(f) == UNION {e.agents : e \in {x \in entries : x.path = f.path}}
<1>1. ChangedAre
  BY DEF InputsAre
<1>2. /\ job = [files |-> files, skippedFiles |-> sent, enabledAgents |-> enabled,
                confidenceThreshold |-> Config.confidenceThreshold]
      /\ job.files = files /\ job.enabledAgents = enabled /\ job.skippedFiles = sent
  BY DEF BuildReviewJobRequest
<1>3. FilesTotal(changed) = Cardinality({f \in changed : HasChange(f)})
  BY <1>1, TotalCountsTheChanged
<1>4. files \in SUBSET changed
  BY DEF Files
<1>5. /\ DOMAIN status = enabled
      /\ \A a \in enabled : status[a] = "succeeded" => a \in {"security", "style"}
  <2> HIDE DEF job
  <2>1. DOMAIN status = enabled
    BY <1>2 DEF RunStatuses
  <2>2. \A a \in enabled : a \notin {"security", "style"} => status[a] = "skipped"
    BY <1>2 DEF RunStatuses
  <2> HIDE DEF status
  <2>3. QED
    BY <2>1, <2>2
<1>6. counted = {f \in files : \E a \in enabled :
                   status[a] = "succeeded" /\ ~\E s \in skips : s.agent = a /\ s.path = f.path}
  <2> HIDE DEF status, skips, job
  <2>1. QED
    BY <1>2, <1>5 DEF Reviewed
<1>7. ASSUME NEW f \in counted
      PROVE  \/ "security" \in enabled /\ SecurityFate(f) = "ok"
             \/ "style" \in enabled /\ StyleFate(f, answer) = "ok"
  <2>1. PICK a \in enabled : status[a] = "succeeded" /\ \A s \in skips : s.agent = a => s.path # f.path
    BY <1>6
  <2>2. f \in files
    BY <1>6
  <2> DEFINE record == [files |-> files, skippedFiles |-> sent, enabledAgents |-> enabled,
                        confidenceThreshold |-> Config.confidenceThreshold]
  <2>3. RunStatuses(record, answer)[a] = "succeeded"
        /\ \A s \in AllSkips(record, answer) : s.agent = a => s.path # f.path
    <3>1. record = job
      BY <1>2
    <3> HIDE DEF record, job
    <3>2. QED
      BY <2>1, <3>1
  <2> HIDE DEF files, sent, enabled
  <2>4. \/ a = "security" /\ SecurityFate(f) = "ok"
        \/ a = "style" /\ StyleFate(f, answer) = "ok"
    BY <1>1, <1>4, <2>2, <2>3, ReviewedWereAnswered
  <2>5. QED
    BY <2>4
<1>8. \A s \in sent : s \in skips /\ s.agent = "gateway"
  <2>1. \A s \in sent : s.agent = "gateway"
    BY DEF GatewaySkips, Skip
  <2> HIDE DEF job, sent
  <2>2. \A s \in sent : s \in skips
    BY <1>2 DEF AllSkips
  <2>3. QED
    BY <2>1, <2>2
<1> HIDE DEF files, sent, status, skips, job, counted, enabled
<1>9. ASSUME NEW f \in changed, HasChange(f), f \notin files
      PROVE  \E e \in entries : e.path = f.path /\ e.agents = {}
  <2>1. GatewaySkip(f) # "sent"
    BY <1>9 DEF Files, files
  <2> DEFINE s == Skip("gateway", f, GatewaySkip(f))
             e == Entry(s.path, s.reason, {})
  <2>2. s \in sent
    BY <1>9, <2>1 DEF GatewaySkips, sent
  <2>3. s.path = f.path /\ s \in skips \ {x \in skips : x.agent # "gateway"}
    <3>1. s.path = f.path
      BY DEF Skip
    <3> HIDE DEF s
    <3>2. QED
      BY <1>8, <2>2, <3>1
  <2> HIDE DEF s
  <2>4. e \in entries
    BY <2>3 DEF MergeSkippedFiles
  <2>5. e.path = f.path /\ e.agents = {}
    BY <2>3 DEF Entry
  <2>6. QED
    BY <2>4, <2>5
<1>10. ASSUME NEW f \in files, f \notin counted
       PROVE  done \subseteq Named(f)
  <2> SUFFICES ASSUME NEW a \in done PROVE a \in Named(f)
    OBVIOUS
  <2>1. a \in enabled /\ status[a] = "succeeded" /\ a # "gateway"
    BY <1>5
  <2>2. PICK s \in skips : s.agent = a /\ s.path = f.path
    BY <1>6, <1>10, <2>1
  <2> DEFINE agentSkips == {x \in skips : x.agent # "gateway"}
             agents == {t.agent : t \in {u \in agentSkips : u.path = s.path /\ u.reason = s.reason}}
             e == Entry(s.path, s.reason, agents)
  <2>3. s \in agentSkips /\ a \in agents
    BY <2>1, <2>2
  <2>4. e \in entries
    BY <2>3 DEF MergeSkippedFiles
  <2> HIDE DEF agents, entries
  <2>5. e.path = f.path /\ e.agents = agents
    BY <2>2 DEF Entry
  <2> HIDE DEF e
  <2>6. QED
    BY <2>3, <2>4, <2>5
<1> HIDE DEF entries, done, Named
<1>11. ASSUME NEW f \in changed
       PROVE  IF f \in counted
              THEN \/ "security" \in enabled /\ SecurityFate(f) = "ok"
                   \/ "style" \in enabled /\ StyleFate(f, answer) = "ok"
              ELSE \/ ~HasChange(f)
                   \/ \E e \in entries : e.path = f.path /\ e.agents = {}
                   \/ f \in files /\ done \subseteq Named(f)
  BY <1>7, <1>9, <1>10
<1>12. QED
  BY <1>2, <1>3, <1>11 DEF UnreviewedIsExplained, files, sent, status, skips, job, counted, enabled,
                           entries, done, Named

(* Every changed file is accounted for: reviewed by an agent that took it, *)
(* or listed as skipped by all that might have, whichever are switched on. *)
THEOREM UnreviewedIsAlwaysExplained == Spec => []UnreviewedIsExplained
<1>1. QED
  BY TypesOfInputs, ExplainsTheUnreviewed, PTL
---------------------------------------------------------------------------------
(* The patches: what is read of a diff.                                    *)

(* A patch as it is read: its lines' numbers, from hunk to hunk.           *)
PatchRow == [kind : {"marker", "blank", "header", "add", "keep", "remove"}, start : Nat]
PatchLine == [line : Nat, added : BOOLEAN]
PatchRead == [next : Nat, hunks : Seq(Seq(PatchLine))]

Adds(lines, m) == \E i \in DOMAIN lines : lines[i].added /\ lines[i].line = m
AddedIn(hunks) == {m \in Nat : \E h \in DOMAIN hunks : Adds(hunks[h], m)}
Consecutive(lines) == \A i \in DOMAIN lines : lines[i].line = lines[1].line + i - 1
InStep(patch) == \A h \in DOMAIN patch.hunks : Consecutive(patch.hunks[h])
(* The next line goes on where the last hunk is.                           *)
AtNext(patch) ==
  /\ patch.hunks # <<>>
  /\ LET hunk_ == patch.hunks[Len(patch.hunks)]
     IN  hunk_ # <<>> => hunk_[1].line + Len(hunk_) = patch.next

(* A header starts a hunk without lines.                                   *)
LEMMA HeadersStart ==
  ASSUME NEW patch \in PatchRead, NEW row \in PatchRow, row.kind = "header"
  PROVE  LET read == ReadRow(patch, row)
         IN  /\ read \in PatchRead /\ read.next = row.start
             /\ AddedIn(read.hunks) = AddedIn(patch.hunks)
             /\ InStep(patch) => InStep(read)
             /\ AtNext(read)
<1> DEFINE read == ReadRow(patch, row)
           H == patch.hunks
           n == Len(H)
<1>1. read = [next |-> row.start, hunks |-> Append(H, <<>>)]
  BY DEF ReadRow
<1>2. H \in Seq(Seq(PatchLine)) /\ row.start \in Nat /\ n \in Nat /\ DOMAIN H = 1..n
  <2>1. H \in Seq(Seq(PatchLine)) /\ row.start \in Nat
    BY DEF PatchRead, PatchRow
  <2>2. QED
    BY <2>1, LenProperties
<1> HIDE DEF H, n
<1>3. <<>> \in Seq(PatchLine)
  OBVIOUS
<1>4. read.next = row.start /\ read.hunks = Append(H, <<>>)
  BY <1>1
<1> DEFINE R == read.hunks
<1>5. /\ R \in Seq(Seq(PatchLine)) /\ R # <<>> /\ Len(R) = n + 1
      /\ \A h \in 1..n : R[h] = H[h]
      /\ R[n + 1] = <<>> /\ DOMAIN R = 1..(n + 1)
  <2>1. Append(H, <<>>) \in Seq(Seq(PatchLine))
    BY <1>2, <1>3, AppendProperties
  <2>2. /\ R # <<>> /\ Len(R) = n + 1 /\ R[n + 1] = <<>>
        /\ \A h \in 1..n : R[h] = H[h]
    <3> DEFINE none == <<>>
               longer == Append(H, none)
    <3>1. none \in Seq(PatchLine)
      BY <1>3
    <3> HIDE DEF none
    <3>2. /\ longer # <<>> /\ Len(longer) = Len(H) + 1 /\ longer[Len(H) + 1] = none
          /\ \A h \in 1..Len(H) : longer[h] = H[h]
      BY SMTT(30), <1>2, <3>1, AppendProperties
    <3>3. R = longer
      BY <1>4 DEF none
    <3>4. QED
      BY Zenon, <3>2, <3>3 DEF n, none
  <2>3. R \in Seq(Seq(PatchLine))
    BY <1>4, <2>1
  <2> HIDE DEF R
  <2>4. DOMAIN R = 1..(n + 1)
    BY <2>2, <2>3, LenProperties
  <2>5. QED
    BY <2>2, <2>3, <2>4
<1>6. read \in PatchRead
  BY <1>1, <1>2, <1>4, <1>5 DEF PatchRead
<1> HIDE DEF R, read
<1>7. DOMAIN R[n + 1] = {}
  BY <1>5
<1>8. \A h \in 1..(n + 1) : h \in 1..n \/ h = n + 1
  BY <1>2
<1>9. 1..n \subseteq 1..(n + 1)
  BY <1>2
<1>10. AddedIn(R) = AddedIn(H)
  <2> SUFFICES ASSUME NEW m \in Nat
               PROVE  (\E h \in DOMAIN R : Adds(R[h], m)) <=> (\E h \in DOMAIN H : Adds(H[h], m))
    BY DEF AddedIn
  <2>1. ~Adds(R[n + 1], m)
    BY <1>7 DEF Adds
  <2>2. QED
    BY <1>2, <1>5, <1>8, <1>9, <2>1
<1>11. ASSUME InStep(patch) PROVE InStep(read)
  <2>1. \A h \in DOMAIN R : Consecutive(R[h])
    <3> SUFFICES ASSUME NEW h \in DOMAIN R PROVE Consecutive(R[h])
      OBVIOUS
    <3>1. CASE h = n + 1
      BY <1>7, <3>1 DEF Consecutive
    <3>2. CASE h \in 1..n
      BY <1>2, <1>5, <1>11, <3>2 DEF InStep, H
    <3>3. QED
      BY <1>5, <1>8, <3>1, <3>2
  <2>2. QED
    BY <2>1 DEF InStep, R
<1>12. AtNext(read)
  <2>1. R[Len(R)] = <<>>
    BY <1>5
  <2>2. QED
    BY <1>5, <2>1 DEF AtNext, R
<1>13. QED
  BY <1>4, <1>6, <1>10, <1>11, <1>12 DEF R, H, read

(* A line of the new file is appended to the hunk.                         *)
LEMMA LineIsAppended ==
  ASSUME NEW patch \in PatchRead, NEW row \in PatchRow, row.kind \in {"add", "keep", "blank"},
         patch.hunks # <<>>
  PROVE  LET read == ReadRow(patch, row)
             n == Len(patch.hunks)
             line == [line |-> patch.next, added |-> row.kind = "add"]
         IN  /\ read \in PatchRead /\ read.next = patch.next + 1 /\ line \in PatchLine
             /\ n \in Nat \ {0} /\ Len(read.hunks) = n
             /\ DOMAIN patch.hunks = 1..n /\ DOMAIN read.hunks = 1..n
             /\ patch.hunks[n] \in Seq(PatchLine) /\ read.hunks[n] = Append(patch.hunks[n], line)
             /\ \A h \in 1..n : h # n => read.hunks[h] = patch.hunks[h]
<1> DEFINE read == ReadRow(patch, row)
           H == patch.hunks
           n == Len(H)
           line == [line |-> patch.next, added |-> row.kind = "add"]
           longer == Append(H[n], line)
           R == [H EXCEPT ![n] = longer]
<1>1. H \in Seq(Seq(PatchLine)) /\ patch.next \in Nat /\ line \in PatchLine
  BY DEF PatchRead, PatchLine
<1>2. n \in Nat \ {0} /\ n \in 1..Len(H) /\ DOMAIN H = 1..n
  <2>1. n \in Nat \ {0} /\ DOMAIN H = 1..n
    BY <1>1, EmptySeq, LenProperties
  <2>2. QED
    BY <2>1
<1>3. read = [next |-> patch.next + 1, hunks |-> [H EXCEPT ![n] = Append(@, line)]]
  BY DEF ReadRow
<1>4. read = [next |-> patch.next + 1, hunks |-> R]
  BY <1>3
<1> HIDE DEF read, line, H
<1>5. H[n] \in Seq(PatchLine)
  BY <1>1, <1>2, ElementOfSeq
<1>6. longer \in Seq(PatchLine)
  BY <1>1, <1>5, AppendProperties
<1> HIDE DEF n, longer
<1>7. /\ R \in Seq(Seq(PatchLine)) /\ Len(R) = n
      /\ \A h \in 1..n : R[h] = IF h = n THEN longer ELSE H[h]
  <2>1. n = Len(H)
    BY DEF n
  <2>2. QED
    BY <1>1, <1>2, <1>6, <2>1, ExceptSeq
<1>8. DOMAIN R = 1..n
  BY <1>7, LenProperties
<1>9. R[n] = longer
  BY <1>2, <1>7
<1> HIDE DEF R
<1>10. read \in PatchRead /\ read.next = patch.next + 1 /\ read.hunks = R
  <2>1. patch.next + 1 \in Nat
    BY <1>1
  <2>2. QED
    BY <1>4, <1>7, <2>1 DEF PatchRead
<1>11. Len(read.hunks) = n /\ DOMAIN read.hunks = 1..n /\ read.hunks[n] = Append(H[n], line)
       /\ \A h \in 1..n : h # n => read.hunks[h] = H[h]
  BY <1>7, <1>8, <1>9, <1>10 DEF longer
<1>12. QED
  BY <1>1, <1>2, <1>5, <1>10, <1>11 DEF n, H, line, read

(* One more line of a hunk adds itself, if it is an added one.             *)
LEMMA AddsOfAppended ==
  ASSUME NEW lines \in Seq(PatchLine), NEW line \in PatchLine, NEW m
  PROVE  Adds(Append(lines, line), m) <=> Adds(lines, m) \/ (line.added /\ line.line = m)
<1> DEFINE n == Len(lines)
           longer == Append(lines, line)
<1>1. n \in Nat /\ DOMAIN lines = 1..n
  BY LenProperties
<1>2. /\ longer \in Seq(PatchLine) /\ Len(longer) = n + 1
      /\ \A i \in 1..n : longer[i] = lines[i]
      /\ longer[n + 1] = line
  BY AppendProperties
<1>3. DOMAIN longer = 1..(n + 1)
  BY <1>2, LenProperties
<1> HIDE DEF n, longer
<1>4. 1..n \subseteq 1..(n + 1) /\ n + 1 \in 1..(n + 1) /\ \A i \in 1..(n + 1) : i \in 1..n \/ i = n + 1
  BY <1>1
<1>5. Adds(longer, m) <=> Adds(lines, m) \/ (line.added /\ line.line = m)
  BY <1>1, <1>2, <1>3, <1>4 DEF Adds
<1>6. QED
  BY <1>5 DEF longer

(* It is an added line if its row says so.                                 *)
LEMMA LineIsAdded ==
  ASSUME NEW patch \in PatchRead, NEW row \in PatchRow, row.kind \in {"add", "keep", "blank"},
         patch.hunks # <<>>
  PROVE  AddedIn(ReadRow(patch, row).hunks)
           = AddedIn(patch.hunks) \cup (IF row.kind = "add" THEN {patch.next} ELSE {})
<1> DEFINE R == ReadRow(patch, row).hunks
           H == patch.hunks
           n == Len(H)
           line == [line |-> patch.next, added |-> row.kind = "add"]
<1>1. /\ line \in PatchLine /\ n \in Nat \ {0} /\ DOMAIN H = 1..n /\ DOMAIN R = 1..n
      /\ H[n] \in Seq(PatchLine) /\ R[n] = Append(H[n], line)
      /\ \A h \in 1..n : h # n => R[h] = H[h]
  BY LineIsAppended
<1>2. patch.next \in Nat
  BY DEF PatchRead
<1>3. line.added = (row.kind = "add") /\ line.line = patch.next
  OBVIOUS
<1> HIDE DEF R, H, n, line
<1>4. ASSUME NEW m \in Nat
      PROVE  (\E h \in DOMAIN R : Adds(R[h], m))
               <=> (\E h \in DOMAIN H : Adds(H[h], m)) \/ (row.kind = "add" /\ m = patch.next)
  <2>1. Adds(R[n], m) <=> Adds(H[n], m) \/ (line.added /\ line.line = m)
    <3> DEFINE last == H[n]
    <3>1. last \in Seq(PatchLine) /\ R[n] = Append(last, line)
      BY <1>1
    <3> HIDE DEF last
    <3>2. Adds(Append(last, line), m) <=> Adds(last, m) \/ (line.added /\ line.line = m)
      BY <1>1, <3>1, AddsOfAppended
    <3>3. QED
      BY <3>1, <3>2 DEF last
  <2>2. n \in 1..n
    BY <1>1
  <2>3. QED
    BY <1>1, <1>3, <2>1, <2>2
<1> DEFINE new == IF row.kind = "add" THEN {patch.next} ELSE {}
<1>5. \A m : m \in new <=> row.kind = "add" /\ m = patch.next
  OBVIOUS
<1>6. new \subseteq Nat
  BY <1>2
<1> HIDE DEF new
<1>7. AddedIn(R) = AddedIn(H) \cup new
  BY <1>4, <1>5, <1>6 DEF AddedIn
<1>8. QED
  BY <1>7 DEF R, H, new

(* It is the hunk's next line.                                             *)
LEMMA LineGoesOn ==
  ASSUME NEW patch \in PatchRead, NEW row \in PatchRow, row.kind \in {"add", "keep", "blank"},
         AtNext(patch), InStep(patch)
  PROVE  InStep(ReadRow(patch, row)) /\ AtNext(ReadRow(patch, row))
<1> DEFINE read == ReadRow(patch, row)
           H == patch.hunks
           R == read.hunks
           n == Len(H)
           last == H[n]
           k == Len(last)
           line == [line |-> patch.next, added |-> row.kind = "add"]
<1>1. H # <<>> /\ (last # <<>> => last[1].line + k = patch.next)
  BY DEF AtNext
<1>2. /\ line \in PatchLine /\ n \in Nat \ {0} /\ DOMAIN H = 1..n /\ DOMAIN R = 1..n /\ Len(R) = n
      /\ last \in Seq(PatchLine) /\ R[n] = Append(last, line)
      /\ \A h \in 1..n : h # n => R[h] = H[h]
      /\ read.next = patch.next + 1
  BY <1>1, LineIsAppended
<1>3. patch.next \in Nat /\ line.line = patch.next
  BY DEF PatchRead
<1>4. \A h \in 1..n : Consecutive(H[h])
  BY <1>2 DEF InStep
<1> HIDE DEF H, n, line, R, read
<1>5. k \in Nat /\ DOMAIN last = 1..k /\ (last # <<>> => k # 0) /\ \A i \in 1..k : last[i].line \in Nat
  <2>1. k \in Nat /\ DOMAIN last = 1..k /\ (last # <<>> => k # 0)
    BY <1>2, LenProperties, EmptySeq
  <2>2. \A i \in 1..k : last[i] \in PatchLine
    BY <1>2, ElementOfSeq
  <2>3. QED
    BY <2>1, <2>2 DEF PatchLine
<1>6. /\ R[n] # <<>> /\ Len(R[n]) = k + 1
      /\ \A i \in 1..k : R[n][i] = last[i]
      /\ R[n][k + 1] = line /\ DOMAIN R[n] = 1..(k + 1)
  <2>1. /\ Append(last, line) \in Seq(PatchLine) /\ Append(last, line) # <<>>
        /\ Len(Append(last, line)) = k + 1
        /\ \A i \in 1..k : Append(last, line)[i] = last[i]
        /\ Append(last, line)[k + 1] = line
    BY <1>2, AppendProperties
  <2>2. DOMAIN Append(last, line) = 1..(k + 1)
    BY <2>1, LenProperties
  <2>3. QED
    BY <1>2, <2>1, <2>2
<1>7. Consecutive(last)
  BY <1>2, <1>4
<1> DEFINE longer == R[n]
<1>8. k = 0 => longer[1] = line
  BY <1>6
<1>9. k # 0 => /\ longer[1] = last[1] /\ last[1].line \in Nat /\ last[1].line + k = patch.next
               /\ \A i \in 1..k : last[i].line = last[1].line + i - 1
  <2>1. k # 0 => 1 \in 1..k /\ last # <<>>
    BY <1>5
  <2>2. QED
    BY <1>1, <1>5, <1>6, <1>7, <2>1 DEF Consecutive
<1> HIDE DEF k, last
<1> DEFINE first == longer[1].line
<1>10. first \in Nat /\ first + k = patch.next
  <2>1. CASE k = 0
    <3>1. first = patch.next
      BY <1>3, <1>8, <2>1
    <3>2. QED
      BY <1>3, <2>1, <3>1
  <2>2. CASE k # 0
    <3>1. first = last[1].line
      BY <1>9, <2>2
    <3>2. QED
      BY <1>9, <2>2, <3>1
  <2>3. QED
    BY <2>1, <2>2
<1>101. first + (k + 1) = patch.next + 1
  <2>1. k \in Nat
    BY <1>5
  <2> HIDE DEF first
  <2>2. QED
    BY <1>3, <1>10, <2>1
<1>11. Consecutive(longer)
  <2>1. ASSUME NEW i \in 1..(k + 1) PROVE longer[i].line = longer[1].line + i - 1
    <3>1. CASE i = k + 1
      <4>1. longer[i].line = patch.next
        BY <1>3, <1>6, <3>1
      <4> HIDE DEF first, longer
      <4>2. i \in Int /\ first + i - 1 = patch.next
        BY <1>3, <1>5, <1>10, <3>1
      <4>3. QED
        BY <4>1, <4>2 DEF first
    <3>2. CASE i \in 1..k
      <4>1. k # 0
        BY <1>5, <3>2
      <4>2. QED
        BY <1>6, <1>9, <3>2, <4>1
    <3>3. QED
      BY <1>5, <3>1, <3>2
  <2> HIDE DEF longer
  <2>2. QED
    BY <1>6, <2>1 DEF Consecutive, longer
<1>12. \A h \in DOMAIN R : Consecutive(R[h])
  BY <1>2, <1>4, <1>11
<1>13. R # <<>>
  BY <1>2
<1>14. QED
  BY <1>2, <1>6, <1>101, <1>12, <1>13 DEF InStep, AtNext, R, read

Unread == [next |-> 0, hunks |-> <<>>]
Read(rows) == FoldLeft(ReadRow, Unread, rows)

(* Reading a row leaves hunks of numbered lines.                           *)
LEMMA ReadingKeepsType ==
  ASSUME NEW patch \in PatchRead, NEW row \in PatchRow
  PROVE  ReadRow(patch, row) \in PatchRead
<1>1. CASE row.kind = "header"
  BY <1>1, HeadersStart
<1>2. CASE patch.hunks # <<>> /\ row.kind \in {"add", "keep", "blank"}
  BY <1>2, LineIsAppended
<1>3. CASE row.kind # "header" /\ ~(patch.hunks # <<>> /\ row.kind \in {"add", "keep", "blank"})
  <2>1. ReadRow(patch, row) = patch
    BY <1>3 DEF ReadRow
  <2>2. QED
    BY <2>1
<1>4. QED
  BY <1>1, <1>2, <1>3

(* A patch is read row by row.                                             *)
LEMMA ReadingFolds ==
  ASSUME NEW rows \in Seq(PatchRow)
  PROVE  \E h \in [0..Len(rows) -> PatchRead] :
           /\ h[0] = Unread
           /\ h[Len(rows)] = Read(rows)
           /\ \A k \in 1..Len(rows) : h[k] = ReadRow(h[k - 1], rows[k])
<1> DEFINE n == Len(rows)
           p == rows
           A == PatchRead
           base == Unread
           Op(a, x) == ReadRow(a, x)
           step == [k \in 1..n |-> [a \in A |-> Op(a, p[k])]]
           Eq(it) == it = [s \in SUBSET (DOMAIN p) |-> IF s = {} THEN base
                                ELSE Op(it[s \ {Max(s)}], p[Max(s)])]
           iter == CHOOSE it : Eq(it)
<1>1. n \in Nat /\ DOMAIN p = 1..n
  BY LenProperties
<1>2. base \in A
  BY DEF Unread, PatchRead
<1>3. \A k \in 1..n : \A a \in A : Op(a, p[k]) \in A
  <2>1. \A k \in 1..n : p[k] \in PatchRow
    BY ElementOfSeq
  <2> HIDE DEF n, p
  <2>2. QED
    BY <2>1, ReadingKeepsType
<1>4. KeepsTo(A, step, 1..n) /\ \A k \in 1..n : \A a \in A : step[k][a] = Op(a, p[k])
  <2>1. \A k \in 1..n : \A a \in A : step[k][a] = Op(a, p[k])
    OBVIOUS
  <2> HIDE DEF step, Op
  <2>2. QED
    BY <1>3, <2>1 DEF KeepsTo
<1> HIDE DEF step, base
<1>5. PICK g \in [SUBSET (1..n) -> A] : IsLeftFold(g, n, base, step)
  <2> HIDE DEF n, A, p, Op
  <2>1. QED
    BY <1>1, <1>2, <1>4, LeftFoldExists
<1>6. \A T \in SUBSET (1..n) : T # {} => Max(T) \in T
  BY <1>1, MaxInPrefix
<1>7. Eq(g)
  <2> HIDE DEF Op, A, p
  <2>1. \A T \in SUBSET (1..n) : g[T] = IF T = {} THEN base ELSE Op(g[T \ {Max(T)}], p[Max(T)])
    <3> SUFFICES ASSUME NEW T \in SUBSET (1..n), T # {}
                 PROVE  g[T] = Op(g[T \ {Max(T)}], p[Max(T)])
      BY <1>5 DEF IsLeftFold
    <3>1. Max(T) \in 1..n /\ T \ {Max(T)} \in SUBSET (1..n)
      BY <1>6
    <3>2. g[T \ {Max(T)}] \in A
      BY <1>5, <3>1
    <3>3. QED
      BY <1>4, <1>5, <3>1, <3>2 DEF IsLeftFold
  <2> HIDE DEF n
  <2>2. QED
    BY <1>1, <1>5, <2>1
<1>8. Eq(iter)
  <2> HIDE DEF Eq
  <2>1. QED
    BY <1>7
<1>9. FoldLeft(ReadRow, base, p) = iter[1..n]
  <2>1. FoldLeft(ReadRow, base, p) = iter[DOMAIN p]
    BY Zenon DEF FoldLeft, MapThenFoldSet
  <2>2. QED
    BY <1>1, <2>1
<1>10. Unrolls(iter, n, A, base, step)
  <2>1. iter[{}] = base
    <3>1. {} \in SUBSET (DOMAIN p)
      OBVIOUS
    <3> HIDE DEF iter, Op, p
    <3>2. QED
      BY <1>8, <3>1
  <2>2. ASSUME NEW k \in 1..n, iter[1..(k - 1)] \in A
        PROVE  iter[1..k] = step[k][iter[1..(k - 1)]]
    <3>1. Max(1..k) = k /\ (1..k) \ {Max(1..k)} = 1..(k - 1) /\ 1..k # {}
      <4> HIDE DEF iter, Op, n, p, A, step
      <4>1. k \in Nat \ {0}
        BY <1>1
      <4>2. QED
        BY <4>1, MaxOfPrefix
    <3>2. 1..k \in SUBSET (DOMAIN p)
      <4> HIDE DEF iter, Op, n, p, A
      <4>1. QED
        BY <1>1
    <3> HIDE DEF iter, Op, p, A
    <3>3. iter[1..k] = Op(iter[(1..k) \ {Max(1..k)}], p[Max(1..k)])
      BY <1>8, <3>1, <3>2
    <3>4. iter[1..k] = Op(iter[1..(k - 1)], p[k])
      BY <3>1, <3>3
    <3>5. QED
      BY <1>4, <2>2, <3>4
  <2> HIDE DEF iter, n, A
  <2>3. QED
    BY <2>1, <2>2 DEF Unrolls
<1> HIDE DEF iter, A, Op
<1>11. PICK h \in [0..n -> A] : Accumulates(h, n, base, step) /\ h[n] = iter[1..n]
  <2> HIDE DEF n, p
  <2>1. QED
    BY <1>1, <1>2, <1>4, <1>10, LeftFoldPrefixes
<1>12. \A k \in 1..n : h[k] = Op(h[k - 1], p[k])
  <2> SUFFICES ASSUME NEW k \in 1..n PROVE h[k] = Op(h[k - 1], p[k])
    OBVIOUS
  <2>1. k - 1 \in 0..n
    BY <1>1
  <2>2. h[k - 1] \in A
    BY <1>11, <2>1
  <2>3. QED
    BY <1>4, <1>11, <2>2 DEF Accumulates
<1>13. h \in [0..n -> A] /\ h[0] = base /\ h[n] = FoldLeft(ReadRow, base, p)
  BY <1>9, <1>11 DEF Accumulates
<1>14. QED
  BY <1>12, <1>13 DEF A, Op, n, p, base, Read

(* A row more is read after the others.                                    *)
LEMMA ReadingGoesOn ==
  ASSUME NEW rows \in Seq(PatchRow), NEW row \in PatchRow
  PROVE  /\ Read(rows) \in PatchRead
         /\ Read(Append(rows, row)) = ReadRow(Read(rows), row)
<1> DEFINE n == Len(rows)
           longer == Append(rows, row)
<1>1. n \in Nat
  BY LenProperties
<1>2. /\ longer \in Seq(PatchRow) /\ Len(longer) = n + 1
      /\ \A k \in 1..n : longer[k] = rows[k]
      /\ longer[n + 1] = row
  BY AppendProperties
<1> HIDE DEF n, longer
<1>3. PICK g \in [0..n -> PatchRead] :
        /\ g[0] = Unread
        /\ g[n] = Read(rows)
        /\ \A k \in 1..n : g[k] = ReadRow(g[k - 1], rows[k])
  BY Zenon, ReadingFolds DEF n
<1>4. PICK h \in [0..(n + 1) -> PatchRead] :
        /\ h[0] = Unread
        /\ h[n + 1] = Read(longer)
        /\ \A k \in 1..(n + 1) : h[k] = ReadRow(h[k - 1], longer[k])
  <2>1. \E h \in [0..Len(longer) -> PatchRead] :
          /\ h[0] = Unread
          /\ h[Len(longer)] = Read(longer)
          /\ \A k \in 1..Len(longer) : h[k] = ReadRow(h[k - 1], longer[k])
    BY Zenon, <1>2, ReadingFolds
  <2>2. QED
    BY Zenon, <1>2, <2>1
<1> DEFINE P == {k \in 0..n : h[k] = g[k]}
<1>5. 0 \in P
  BY <1>1, <1>3, <1>4
<1>6. ASSUME NEW k \in 1..n, k - 1 \in P PROVE k \in P
  <2>1. k \in 0..n /\ k \in 1..(n + 1) /\ h[k - 1] = g[k - 1]
    BY <1>1, <1>6
  <2>2. QED
    BY <1>2, <1>3, <1>4, <2>1
<1>7. n \in P
  <2>1. n \in 0..n
    BY <1>1
  <2> HIDE DEF P
  <2>2. \A k \in 0..n : k \in P
    BY <1>1, <1>5, <1>6, PrefixInduction
  <2>3. QED
    BY <2>1, <2>2
<1>8. n + 1 \in 1..(n + 1) /\ (n + 1) - 1 = n /\ n \in 0..n
  BY <1>1
<1>9. h[n + 1] = ReadRow(h[n], row)
  <2>1. h[n + 1] = ReadRow(h[(n + 1) - 1], longer[n + 1])
    BY <1>4, <1>8
  <2>2. QED
    BY <1>2, <1>8, <2>1
<1>10. QED
  BY <1>3, <1>4, <1>7, <1>8, <1>9 DEF longer

(* Without a row nothing is read.                                          *)
LEMMA NothingRead == Read(<<>>) = Unread
<1>1. <<>> \in Seq(PatchRow) /\ Len(<<>>) = 0
  OBVIOUS
<1> DEFINE e == <<>>
<1> HIDE DEF e
<1>2. e \in Seq(PatchRow) /\ Len(e) = 0
  BY <1>1 DEF e
<1>3. PICK g \in [0..Len(e) -> PatchRead] : g[0] = Unread /\ g[Len(e)] = Read(e)
  BY <1>2, ReadingFolds
<1>4. QED
  BY <1>2, <1>3 DEF e

(* What git shows of each edit.                                            *)
ShownOf(list, i) == \E n \in DOMAIN list : list[n] # "keep" /\ i - n \in -Context..Context
RowOf(kind) == [kind |-> kind, start |-> 0]
KindOf(list, form, i) == IF list[i] = "keep" /\ form.stripped THEN "blank" ELSE list[i]
RowsOf(list, form, i) ==
  IF ~ShownOf(list, i) THEN <<>>
  ELSE IF i > 1 /\ ShownOf(list, i - 1) THEN <<RowOf(KindOf(list, form, i))>>
  ELSE <<[kind |-> "header", start |-> NewLine(list, i)], RowOf(KindOf(list, form, i))>>

(* An edit makes a line of the new file, unless it removes one.            *)
LEMMA NewLinesCount ==
  ASSUME NEW list \in Seq(Edits), NEW k \in 1..Len(list)
  PROVE  /\ NewLine(list, k) \in Nat
         /\ NewLine(list, k + 1) = IF list[k] = "remove" THEN NewLine(list, k) ELSE NewLine(list, k) + 1
<1> DEFINE S == {n \in 1..(k - 1) : list[n] # "remove"}
           T == {n \in 1..((k + 1) - 1) : list[n] # "remove"}
<1>1. k \in Nat \ {0}
  BY LenProperties
<1>2. IsFiniteSet(S)
  <2>1. IsFiniteSet(1..(k - 1))
    BY <1>1, FS_Interval
  <2>2. S \subseteq 1..(k - 1)
    OBVIOUS
  <2> HIDE DEF S
  <2>3. QED
    BY <2>1, <2>2, FS_Subset
<1>3. k \notin S /\ T = IF list[k] = "remove" THEN S ELSE S \cup {k}
  <2>1. (k + 1) - 1 = k /\ 1..k = (1..(k - 1)) \cup {k} /\ k \notin 1..(k - 1)
    BY <1>1
  <2>2. T = {n \in 1..k : list[n] # "remove"}
    BY <2>1
  <2>3. k \notin S
    BY <2>1
  <2>4. CASE list[k] = "remove"
    BY <2>1, <2>2, <2>4
  <2>5. CASE list[k] # "remove"
    BY <2>1, <2>2, <2>5
  <2>6. QED
    BY <2>3, <2>4, <2>5
<1>4. NewLine(list, k) = 1 + Cardinality(S) /\ NewLine(list, k + 1) = 1 + Cardinality(T)
  BY DEF NewLine
<1> HIDE DEF S, T
<1>5. Cardinality(S) \in Nat
  BY <1>2, FS_CardinalityType
<1>6. Cardinality(S \cup {k}) = Cardinality(S) + 1
  BY <1>2, <1>3, FS_AddElement
<1>7. QED
  BY <1>3, <1>4, <1>5, <1>6

(* What has been read of the first k edits: their added lines, from line   *)
(* to line.                                                                *)
Follows(list, k, patch) ==
  /\ patch \in PatchRead /\ InStep(patch)
  /\ AddedIn(patch.hunks) = {NewLine(list, i) : i \in {n \in 1..k : list[n] = "add"}}
  /\ k # 0 /\ ShownOf(list, k) => AtNext(patch) /\ patch.next = NewLine(list, k + 1)

(* The row of an edit, in a hunk that goes on.                             *)
LEMMA RowIsRead ==
  ASSUME NEW list \in Seq(Edits), NEW k \in 1..Len(list), NEW form, NEW patch \in PatchRead,
         InStep(patch), AtNext(patch), patch.next = NewLine(list, k),
         AddedIn(patch.hunks) = {NewLine(list, i) : i \in {n \in 1..(k - 1) : list[n] = "add"}}
  PROVE  Follows(list, k, ReadRow(patch, RowOf(KindOf(list, form, k))))
<1> DEFINE kind == KindOf(list, form, k)
           row == RowOf(kind)
           read == ReadRow(patch, row)
           A == {n \in 1..(k - 1) : list[n] = "add"}
           B == {n \in 1..k : list[n] = "add"}
<1>1. k \in Nat \ {0} /\ list[k] \in Edits
  BY LenProperties, ElementOfSeq
<1>2. /\ row \in PatchRow /\ row.kind = kind
      /\ kind = "add" <=> list[k] = "add"
      /\ kind = "remove" <=> list[k] = "remove"
      /\ kind \in {"add", "keep", "blank", "remove"}
  BY <1>1 DEF KindOf, RowOf, PatchRow, Edits
<1> HIDE DEF kind, row
<1>3. patch.hunks # <<>>
  BY DEF AtNext
<1>4. {NewLine(list, i) : i \in B}
        = {NewLine(list, i) : i \in A} \cup (IF list[k] = "add" THEN {NewLine(list, k)} ELSE {})
  <2>1. 1..k = (1..(k - 1)) \cup {k}
    BY <1>1
  <2>2. B = IF list[k] = "add" THEN A \cup {k} ELSE A
    <3>1. CASE list[k] = "add"
      BY <2>1, <3>1
    <3>2. CASE list[k] # "add"
      BY <2>1, <3>2
    <3>3. QED
      BY <3>1, <3>2
  <2> HIDE DEF A, B
  <2>3. CASE list[k] = "add"
    BY <2>2, <2>3
  <2>4. CASE list[k] # "add"
    BY <2>2, <2>4
  <2>5. QED
    BY <2>3, <2>4
<1>5. CASE kind = "remove"
  <2>1. read = patch
    BY <1>2, <1>5 DEF ReadRow
  <2>2. NewLine(list, k + 1) = NewLine(list, k) /\ list[k] # "add"
    BY <1>2, <1>5, NewLinesCount
  <2>3. {NewLine(list, i) : i \in B} = {NewLine(list, i) : i \in A}
    BY <1>4, <2>2
  <2> HIDE DEF read
  <2>4. QED
    BY <2>1, <2>2, <2>3 DEF Follows, read, row, kind
<1>6. CASE kind # "remove"
  <2>1. row.kind \in {"add", "keep", "blank"}
    BY <1>2, <1>6
  <2>2. read \in PatchRead /\ read.next = patch.next + 1
    BY <1>2, <1>3, <2>1, LineIsAppended
  <2>3. InStep(read) /\ AtNext(read)
    BY <1>2, <2>1, LineGoesOn
  <2>4. AddedIn(read.hunks) = AddedIn(patch.hunks) \cup (IF row.kind = "add" THEN {patch.next} ELSE {})
    BY <1>2, <1>3, <2>1, LineIsAdded
  <2>5. NewLine(list, k + 1) = NewLine(list, k) + 1
    BY <1>2, <1>6, NewLinesCount
  <2>6. AddedIn(read.hunks) = {NewLine(list, i) : i \in B}
    <3> HIDE DEF A, B, read
    <3>1. CASE list[k] = "add"
      BY <1>2, <1>4, <2>4, <3>1 DEF A
    <3>2. CASE list[k] # "add"
      BY <1>2, <1>4, <2>4, <3>2 DEF A
    <3>3. QED
      BY <3>1, <3>2
  <2> HIDE DEF read
  <2>7. QED
    BY <2>2, <2>3, <2>5, <2>6 DEF Follows, read, row, kind
<1>7. QED
  BY <1>5, <1>6

(* Two rows at once are one after the other.                               *)
LEMMA AppendTwo ==
  ASSUME NEW A, NEW list \in Seq(A), NEW a \in A, NEW b \in A
  PROVE  list \o <<a, b>> = Append(Append(list, a), b)
<1> DEFINE n == Len(list)
           z == <<a, b>>
           x == list \o z
           first == Append(list, a)
           y == Append(first, b)
<1>1. z \in Seq(A) /\ Len(z) = 2 /\ z[1] = a /\ z[2] = b
  OBVIOUS
<1>2. n \in Nat
  BY LenProperties
<1>3. /\ first \in Seq(A) /\ Len(first) = n + 1 /\ first[n + 1] = a
      /\ \A i \in 1..n : first[i] = list[i]
  BY AppendProperties
<1> HIDE DEF z, first
<1>4. /\ y \in Seq(A) /\ Len(y) = Len(first) + 1 /\ y[Len(first) + 1] = b
      /\ \A i \in 1..Len(first) : y[i] = first[i]
  BY <1>3, AppendProperties
<1>5. /\ x \in Seq(A) /\ Len(x) = Len(list) + Len(z)
      /\ \A i \in 1..(Len(list) + Len(z)) : x[i] = IF i <= Len(list) THEN list[i] ELSE z[i - Len(list)]
  BY <1>1, ConcatProperties
<1> HIDE DEF x, y, n
<1>6. Len(x) = n + 2 /\ Len(y) = n + 2
  BY <1>1, <1>2, <1>3, <1>4, <1>5 DEF n
<1>7. \A i \in 1..(n + 2) : x[i] = IF i <= n THEN list[i] ELSE z[i - n]
  BY <1>1, <1>5 DEF n
<1>8. \A i \in 1..Len(x) : x[i] = y[i]
  <2> SUFFICES ASSUME NEW i \in 1..(n + 2) PROVE x[i] = y[i]
    BY <1>6
  <2>1. CASE i \in 1..n
    BY <1>2, <1>3, <1>4, <1>7, <2>1
  <2>2. CASE i = n + 1
    BY <1>1, <1>2, <1>3, <1>4, <1>7, <2>2
  <2>3. CASE i = n + 2
    BY <1>1, <1>2, <1>3, <1>4, <1>7, <2>3
  <2>4. QED
    BY <1>2, <2>1, <2>2, <2>3
<1>9. x = y
  BY <1>4, <1>5, <1>6, <1>8, SeqEqual
<1>10. QED
  BY <1>9 DEF x, y, z, first

(* What git writes for an edit are rows of a patch.                        *)
LEMMA RowsAreRows ==
  ASSUME NEW list \in Seq(Edits), NEW form, NEW k \in 1..Len(list)
  PROVE  RowsOf(list, form, k) \in Seq(PatchRow)
<1> DEFINE row == RowOf(KindOf(list, form, k))
           header == [kind |-> "header", start |-> NewLine(list, k)]
<1>1. list[k] \in Edits /\ NewLine(list, k) \in Nat
  BY ElementOfSeq, NewLinesCount
<1>2. row \in PatchRow
  BY <1>1 DEF KindOf, RowOf, PatchRow, Edits
<1>3. header \in PatchRow
  BY <1>1 DEF PatchRow
<1> HIDE DEF row, header
<1>4. <<>> \in Seq(PatchRow) /\ <<row>> \in Seq(PatchRow) /\ <<header, row>> \in Seq(PatchRow)
  BY <1>2, <1>3
<1>5. RowsOf(list, form, k) \in {<<>>, <<row>>, <<header, row>>}
  BY DEF RowsOf, row, header
<1>6. QED
  BY <1>4, <1>5

(* The rows of an edit, after what came before it.                         *)
LEMMA EditIsRead ==
  ASSUME NEW list \in Seq(Edits), NEW k \in 1..Len(list), NEW form, NEW rows \in Seq(PatchRow),
         Follows(list, k - 1, Read(rows))
  PROVE  Follows(list, k, Read(rows \o RowsOf(list, form, k)))
<1> DEFINE row == RowOf(KindOf(list, form, k))
           header == [kind |-> "header", start |-> NewLine(list, k)]
           patch == Read(rows)
           new == RowsOf(list, form, k)
<1>1. k \in Nat \ {0} /\ list[k] \in Edits /\ DOMAIN list = 1..Len(list) /\ Len(list) \in Nat
  BY LenProperties, ElementOfSeq
<1>2. row \in PatchRow /\ header \in PatchRow /\ header.kind = "header" /\ header.start = NewLine(list, k)
  <2>1. row \in PatchRow
    BY <1>1 DEF KindOf, RowOf, PatchRow, Edits
  <2>2. NewLine(list, k) \in Nat
    BY NewLinesCount
  <2>3. QED
    BY <2>1, <2>2 DEF PatchRow
<1>3. /\ patch \in PatchRead /\ InStep(patch)
      /\ AddedIn(patch.hunks) = {NewLine(list, i) : i \in {n \in 1..(k - 1) : list[n] = "add"}}
      /\ k - 1 # 0 /\ ShownOf(list, k - 1) => AtNext(patch) /\ patch.next = NewLine(list, (k - 1) + 1)
  BY DEF Follows
<1> HIDE DEF row, header, patch
<1>4. (k - 1) + 1 = k
  BY <1>1
<1>5. CASE ~ShownOf(list, k)
  <2>1. new = <<>>
    BY <1>5 DEF RowsOf
  <2>2. rows \o <<>> = rows /\ <<>> \in Seq(PatchRow)
    BY ConcatEmptySeq
  <2>3. list[k] # "add"
    <3>1. list[k] = "keep"
      BY <1>1, <1>5, ContextAssumption DEF ShownOf
    <3>2. QED
      BY <3>1
  <2>4. {n \in 1..(k - 1) : list[n] = "add"} = {n \in 1..k : list[n] = "add"}
    BY <1>1, <2>3
  <2>5. Follows(list, k, patch)
    BY <1>3, <1>5, <2>4 DEF Follows
  <2>6. QED
    BY <2>1, <2>2, <2>5 DEF patch
<1>6. CASE ShownOf(list, k) /\ k > 1 /\ ShownOf(list, k - 1)
  <2>1. new = <<row>>
    BY <1>6 DEF RowsOf, row
  <2>2. <<row>> \in Seq(PatchRow)
    BY <1>2
  <2>3. rows \o <<row>> = Append(rows, row)
    BY <1>2, AppendIsConcat
  <2>4. Read(Append(rows, row)) = ReadRow(patch, row)
    BY <1>2, ReadingGoesOn DEF patch
  <2>5. AtNext(patch) /\ patch.next = NewLine(list, k)
    BY <1>1, <1>3, <1>4, <1>6
  <2>6. Follows(list, k, ReadRow(patch, row))
    BY <1>3, <2>5, RowIsRead DEF row
  <2>7. QED
    BY <2>1, <2>2, <2>3, <2>4, <2>6
<1>7. CASE ShownOf(list, k) /\ ~(k > 1 /\ ShownOf(list, k - 1))
  <2> DEFINE begun == Append(rows, header)
             start == ReadRow(patch, header)
  <2>1. new = <<header, row>>
    BY <1>7 DEF RowsOf, row, header
  <2>2. <<header, row>> \in Seq(PatchRow) /\ begun \in Seq(PatchRow)
    BY <1>2, AppendProperties
  <2>3. rows \o <<header, row>> = Append(begun, row)
    BY <1>2, AppendTwo
  <2>4. Read(begun) = start
    BY <1>2, ReadingGoesOn DEF patch
  <2>5. Read(Append(begun, row)) = ReadRow(Read(begun), row)
    BY <1>2, <2>2, ReadingGoesOn
  <2>6. /\ start \in PatchRead /\ start.next = NewLine(list, k)
        /\ AddedIn(start.hunks) = AddedIn(patch.hunks) /\ InStep(start) /\ AtNext(start)
    BY <1>2, <1>3, HeadersStart
  <2> HIDE DEF start, begun
  <2>7. Follows(list, k, ReadRow(start, row))
    <3>1. AddedIn(start.hunks) = {NewLine(list, i) : i \in {n \in 1..(k - 1) : list[n] = "add"}}
      BY <1>3, <2>6
    <3>2. QED
      BY <2>6, <3>1, RowIsRead DEF row
  <2>8. Read(rows \o new) = ReadRow(start, row)
    BY Zenon, <2>1, <2>3, <2>4, <2>5
  <2>9. QED
    BY <2>1, <2>2, <2>7, <2>8
<1>8. QED
  BY <1>5, <1>6, <1>7

Marker == [kind |-> "marker", start |-> 0]
Blank == [kind |-> "blank", start |-> 0]
Forms == [stripped : BOOLEAN, preamble : {<<>>, <<Marker>>}, trailer : {<<>>, <<Blank>>, <<Marker>>}]

(* Reading what git shows of the edits follows them to the end.            *)
LEMMA DiffIsRead ==
  ASSUME NEW list \in Seq(Edits), NEW form \in Forms
  PROVE  \E rows \in Seq(PatchRow) :
           /\ Diff(list, form) = rows \o form.trailer
           /\ Follows(list, Len(list), Read(rows))
<1> DEFINE n == Len(list)
           R(i) == RowsOf(list, form, i)
           pre == form.preamble
           seqs == [i \in DOMAIN list |-> R(i)]
<1>1. n \in Nat /\ DOMAIN list = 1..n
  BY LenProperties
<1>2. Diff(list, form) = pre \o FlattenSeq(seqs) \o form.trailer
  BY DEF Diff, RowsOf, ShownOf, KindOf, RowOf
<1>3. Marker \in PatchRow
  BY DEF Marker, PatchRow
<1>4. pre \in Seq(PatchRow) /\ Read(pre) = Unread
  <2>1. CASE pre = <<>>
    BY <2>1, NothingRead
  <2>2. CASE pre = <<Marker>>
    <3>1. <<>> \in Seq(PatchRow) /\ <<Marker>> = Append(<<>>, Marker) /\ <<Marker>> \in Seq(PatchRow)
      BY <1>3
    <3>2. Read(Append(<<>>, Marker)) = ReadRow(Read(<<>>), Marker)
      BY <1>3, <3>1, ReadingGoesOn
    <3>3. ReadRow(Unread, Marker) = Unread
      BY DEF ReadRow, Unread, Marker
    <3>4. Read(<<Marker>>) = Unread
      BY Zenon, <3>1, <3>2, <3>3, NothingRead
    <3>5. QED
      BY <2>2, <3>1, <3>4
  <2>3. QED
    BY <2>1, <2>2 DEF Forms
<1>5. Follows(list, 0, Unread)
  <2>1. Unread \in PatchRead /\ InStep(Unread) /\ AddedIn(Unread.hunks) = {}
    BY DEF Unread, PatchRead, InStep, AddedIn
  <2>2. {i \in 1..0 : list[i] = "add"} = {}
    OBVIOUS
  <2>3. {NewLine(list, i) : i \in {m \in 1..0 : list[m] = "add"}} = {}
    BY <2>2
  <2>4. QED
    BY <2>1, <2>3 DEF Follows
<1> HIDE DEF n, R, pre
<1>6. \A k \in 1..n : R(k) \in Seq(PatchRow)
  <2>1. \A k \in 1..n : k - 1 \in Nat
    BY <1>1
  <2>2. QED
    BY <1>1, <2>1, RowsAreRows DEF n, R
<1>7. seqs \in Seq(Seq(PatchRow)) /\ Len(seqs) = n /\ \A k \in 1..n : seqs[k] = R(k)
  <2>1. seqs \in [1..n -> Seq(PatchRow)] /\ \A k \in 1..n : seqs[k] = R(k)
    BY <1>1, <1>6
  <2> HIDE DEF seqs
  <2>2. QED
    BY <1>1, <2>1, ListOfFunction
<1> HIDE DEF seqs
<1>8. PICK h : Joins(h, PatchRow, seqs) /\ FlattenSeq(seqs) = h[n]
  BY <1>7, FlattenJoins
<1>9. /\ h \in [0..n -> Seq(PatchRow)] /\ h[0] = <<>>
      /\ \A k \in 1..n : h[k] = h[k - 1] \o R(k)
  BY <1>7, <1>8 DEF Joins
<1> DEFINE P == {k \in 0..n : Follows(list, k, Read(pre \o h[k]))}
<1>10. 0 \in P
  <2>1. pre \o <<>> = pre
    BY <1>4, ConcatEmptySeq
  <2>2. Read(pre \o h[0]) = Unread
    BY <1>4, <1>9, <2>1
  <2>3. 0 \in 0..n
    BY <1>1
  <2>4. QED
    BY <1>5, <2>2, <2>3
<1>11. ASSUME NEW k \in 1..n, k - 1 \in P PROVE k \in P
  <2>1. k - 1 \in 0..n /\ k \in 0..n
    BY <1>1
  <2>2. h[k - 1] \in Seq(PatchRow) /\ h[k] = h[k - 1] \o R(k) /\ R(k) \in Seq(PatchRow)
    BY <1>6, <1>9, <2>1
  <2> DEFINE rows == pre \o h[k - 1]
  <2>3. rows \in Seq(PatchRow) /\ rows \o R(k) = pre \o h[k]
    <3>1. rows \in Seq(PatchRow)
      BY <1>4, <2>2, ConcatProperties
    <3>2. rows \o R(k) = pre \o (h[k - 1] \o R(k))
      <4> DEFINE a == h[k - 1]
                 b == R(k)
      <4>0. pre \in Seq(PatchRow)
        BY <1>4
      <4>1. a \in Seq(PatchRow)
        BY <2>2
      <4>11. b \in Seq(PatchRow)
        BY <2>2
      <4> HIDE DEF a, b
      <4>2. \A x, y, z \in Seq(PatchRow) : (x \o y) \o z = x \o (y \o z)
        BY SMTT(30), ConcatAssociative
      <4>3. (pre \o a) \o b = pre \o (a \o b)
        BY <4>0, <4>1, <4>11, <4>2
      <4>4. QED
        BY Zenon, <4>3 DEF a, b
    <3> HIDE DEF rows
    <3>3. rows \o R(k) = pre \o h[k]
      BY Zenon, <2>2, <3>2
    <3>4. QED
      BY <3>1, <3>3
  <2>4. Follows(list, k - 1, Read(rows))
    BY <1>11
  <2> HIDE DEF rows
  <2>5. Follows(list, k, Read(rows \o R(k)))
    BY <2>3, <2>4, EditIsRead DEF n, R
  <2>6. QED
    BY <2>1, <2>3, <2>5
<1>12. n \in P
  <2>1. n \in 0..n
    BY <1>1
  <2> HIDE DEF P
  <2>2. \A k \in 0..n : k \in P
    BY <1>1, <1>10, <1>11, PrefixInduction
  <2>3. QED
    BY <2>1, <2>2
<1>13. h[n] \in Seq(PatchRow)
  BY <1>1, <1>9
<1> DEFINE all == pre \o h[n]
<1>14. all \in Seq(PatchRow)
  BY <1>4, <1>13, ConcatProperties
<1>15. Diff(list, form) = all \o form.trailer
  BY <1>2, <1>8
<1>16. QED
  BY <1>12, <1>14, <1>15 DEF n

(* A list that was appended to has its parts back.                         *)
LEMMA FrontAndLast ==
  ASSUME NEW A, NEW list \in Seq(A), NEW x \in A
  PROVE  Front(Append(list, x)) = list /\ Last(Append(list, x)) = x
<1> DEFINE n == Len(list)
           longer == Append(list, x)
           front == SubSeq(longer, 1, n)
<1>1. n \in Nat
  BY LenProperties
<1>2. longer \in Seq(A) /\ Len(longer) = n + 1 /\ longer[n + 1] = x /\ \A i \in 1..n : longer[i] = list[i]
  BY AppendProperties
<1>3. Last(longer) = x
  BY <1>2 DEF Last
<1>4. Front(longer) = front
  <2>1. (n + 1) - 1 = n
    BY <1>1
  <2> HIDE DEF longer, n
  <2>2. QED
    BY <1>2, <2>1 DEF Front
<1>5. \A i \in 1..n : longer[i] \in A
  BY <1>2, ElementOfSeq
<1> HIDE DEF longer
<1>6. front \in Seq(A) /\ Len(front) = n /\ \A i \in 1..n : front[i] = longer[i]
  <2> HIDE DEF n
  <2>1. /\ front \in Seq(A) /\ Len(front) = IF 1 <= n THEN n - 1 + 1 ELSE 0
        /\ \A i \in 1..(n - 1 + 1) : front[i] = longer[1 + i - 1]
    BY <1>1, <1>5, SubSeqProperties
  <2> HIDE DEF front
  <2>2. \A i \in 1..n : front[i] = longer[i]
    BY <1>1, <2>1
  <2>3. QED
    BY <1>1, <2>1, <2>2
<1> HIDE DEF front
<1>7. \A i \in 1..Len(front) : front[i] = list[i]
  BY <1>2, <1>6
<1>8. front = list
  BY <1>6, <1>7, SeqEqual
<1>9. QED
  BY <1>3, <1>4, <1>8 DEF longer

(* Whether a blank row was read or not, the added lines are the same.      *)
LEMMA BlanksAddNothing ==
  ASSUME NEW patch \in PatchRead, NEW row \in PatchRow, row.kind = "blank",
         InStep(ReadRow(patch, row))
  PROVE  InStep(patch) /\ AddedIn(ReadRow(patch, row).hunks) = AddedIn(patch.hunks)
<1>1. CASE patch.hunks = <<>>
  <2>1. ReadRow(patch, row) = patch
    BY <1>1 DEF ReadRow
  <2>2. QED
    BY <2>1
<1>2. CASE patch.hunks # <<>>
  <2> DEFINE read == ReadRow(patch, row)
             H == patch.hunks
             R == read.hunks
             n == Len(H)
             line == [line |-> patch.next, added |-> row.kind = "add"]
             last == H[n]
  <2>1. AddedIn(R) = AddedIn(H)
    <3>1. AddedIn(R) = AddedIn(H) \cup (IF row.kind = "add" THEN {patch.next} ELSE {})
      BY <1>2, LineIsAdded
    <3> HIDE DEF R, H
    <3>2. QED
      BY <3>1
  <2>2. /\ line \in PatchLine /\ n \in Nat \ {0} /\ DOMAIN H = 1..n /\ DOMAIN R = 1..n
        /\ last \in Seq(PatchLine) /\ R[n] = Append(last, line)
        /\ \A h \in 1..n : h # n => R[h] = H[h]
    BY <1>2, LineIsAppended
  <2>3. \A h \in DOMAIN R : Consecutive(R[h])
    BY DEF InStep
  <2> HIDE DEF read, H, R, n, line
  <2>4. Consecutive(last)
    <3> DEFINE k == Len(last)
    <3>1. k \in Nat /\ DOMAIN last = 1..k
      BY <2>2, LenProperties
    <3>2. /\ R[n] \in Seq(PatchLine) /\ Len(R[n]) = k + 1 /\ \A i \in 1..k : R[n][i] = last[i]
      BY <2>2, AppendProperties
    <3>3. DOMAIN R[n] = 1..(k + 1)
      BY <3>2, LenProperties
    <3>4. Consecutive(R[n])
      <4>1. n \in DOMAIN R
        BY <2>2
      <4>2. QED
        BY <2>3, <4>1
    <3> HIDE DEF k
    <3> DEFINE longer == R[n]
    <3>5. \A i \in 1..k : i \in 1..(k + 1) /\ 1 \in 1..k
      BY <3>1
    <3>6. \A i \in 1..(k + 1) : longer[i].line = longer[1].line + i - 1
      BY <3>3, <3>4 DEF Consecutive
    <3> HIDE DEF longer, last
    <3>7. \A i \in 1..k : last[i].line = last[1].line + i - 1
      <4> SUFFICES ASSUME NEW i \in 1..k PROVE last[i].line = last[1].line + i - 1
        OBVIOUS
      <4>1. longer[i] = last[i] /\ longer[1] = last[1] /\ i \in 1..(k + 1)
        BY <3>2, <3>5 DEF longer
      <4>2. QED
        BY <3>6, <4>1
    <3>8. QED
      BY <3>1, <3>7 DEF Consecutive
  <2>5. \A h \in 1..n : Consecutive(H[h])
    <3> SUFFICES ASSUME NEW h \in 1..n PROVE Consecutive(H[h])
      OBVIOUS
    <3>1. CASE h = n
      BY <2>4, <3>1
    <3>2. CASE h # n
      BY <2>2, <2>3, <3>2
    <3>3. QED
      BY <3>1, <3>2
  <2>6. InStep(patch)
    BY <2>2, <2>5 DEF InStep, H
  <2>7. QED
    BY <2>1, <2>6 DEF R, H, read
<1>3. QED
  BY <1>1, <1>2

(* However the patch is framed, what parsePatch makes of it are the lines  *)
(* the edits add, one after the other in each hunk.                        *)
LEMMA ParsedIsTheChange ==
  ASSUME NEW list \in Seq(Edits), NEW form \in Forms
  PROVE  \E patch \in PatchRead :
           /\ ParsePatch(Diff(list, form)) = patch.hunks
           /\ InStep(patch)
           /\ AddedIn(patch.hunks) = {NewLine(list, i) : i \in {n \in 1..Len(list) : list[n] = "add"}}
<1> DEFINE N == {NewLine(list, i) : i \in {n \in 1..Len(list) : list[n] = "add"}}
           Good(patch) == patch \in PatchRead /\ InStep(patch) /\ AddedIn(patch.hunks) = N
           diff == Diff(list, form)
           cut == IF diff # <<>> /\ Last(diff).kind = "blank" THEN Front(diff) ELSE diff
<1>1. PICK rows \in Seq(PatchRow) : diff = rows \o form.trailer /\ Follows(list, Len(list), Read(rows))
  BY DiffIsRead
<1>2. Good(Read(rows))
  BY <1>1 DEF Follows
<1>3. ParsePatch(diff) = Read(cut).hunks
  BY DEF ParsePatch, Read, Unread
<1>4. Marker \in PatchRow /\ Blank \in PatchRow /\ Marker.kind = "marker" /\ Blank.kind = "blank"
  BY DEF Marker, Blank, PatchRow
<1> HIDE DEF N, diff, Good
<1>5. Good(Read(cut))
  <2>1. CASE form.trailer = <<>>
    <3>1. diff = rows
      BY <1>1, <2>1, ConcatEmptySeq
    <3>2. CASE rows # <<>> /\ Last(rows).kind = "blank"
      <4>1. PICK part \in Seq(PatchRow), row \in PatchRow : rows = Append(part, row)
        BY <3>2, SequenceEmptyOrAppend
      <4>2. Front(rows) = part /\ Last(rows) = row
        BY <4>1, FrontAndLast
      <4>3. cut = part
        BY <3>1, <3>2, <4>2
      <4>4. Read(part) \in PatchRead /\ Read(rows) = ReadRow(Read(part), row)
        BY <4>1, ReadingGoesOn
      <4>5. row.kind = "blank" /\ InStep(ReadRow(Read(part), row))
        BY <1>2, <3>2, <4>2, <4>4 DEF Good
      <4>6. InStep(Read(part)) /\ AddedIn(Read(rows).hunks) = AddedIn(Read(part).hunks)
        BY <4>4, <4>5, BlanksAddNothing
      <4> HIDE DEF cut
      <4>7. QED
        BY <1>2, <4>3, <4>4, <4>6 DEF Good
    <3>3. CASE ~(rows # <<>> /\ Last(rows).kind = "blank")
      <4>1. cut = rows
        BY <3>1, <3>3
      <4> HIDE DEF cut
      <4>2. QED
        BY <1>2, <4>1
    <3>4. QED
      BY <3>2, <3>3
  <2>2. CASE form.trailer = <<Blank>>
    <3>1. diff = Append(rows, Blank) /\ diff # <<>>
      BY <1>1, <1>4, <2>2, AppendIsConcat, AppendProperties
    <3>2. Front(diff) = rows /\ Last(diff) = Blank
      BY <1>4, <3>1, FrontAndLast
    <3>3. cut = rows
      BY <1>4, <3>1, <3>2
    <3> HIDE DEF cut
    <3>4. QED
      BY <1>2, <3>3
  <2>3. CASE form.trailer = <<Marker>>
    <3>1. diff = Append(rows, Marker)
      BY <1>1, <1>4, <2>3, AppendIsConcat
    <3>2. Last(diff) = Marker
      BY <1>4, <3>1, FrontAndLast
    <3>3. cut = diff
      BY <1>4, <3>2
    <3>4. Read(diff) = ReadRow(Read(rows), Marker)
      BY <1>4, <3>1, ReadingGoesOn
    <3>5. ReadRow(Read(rows), Marker) = Read(rows)
      BY <1>4 DEF ReadRow
    <3> HIDE DEF cut
    <3>6. QED
      BY <1>2, <3>3, <3>4, <3>5
  <2>4. QED
    BY <2>1, <2>2, <2>3 DEF Forms
<1>6. QED
  BY <1>3, <1>5 DEF Good, N, diff

(* In every frame, what is read is what the edits add: the frame's rows    *)
(* are none of a hunk's, and after each edit the reader is in step with    *)
(* the new file.                                                           *)
LEMMA AddsTheChange ==
  ASSUME edits \in Seq(Edits)
  PROVE  AddedLinesAreTheChange
<1> DEFINE N == {NewLine(edits, i) : i \in {n \in 1..Len(edits) : edits[n] = "add"}}
<1>1. DOMAIN edits = 1..Len(edits)
  BY LenProperties
<1>2. ASSUME NEW form \in Forms
      PROVE  LET hunks == ParsePatch(Diff(edits, form))
             IN  /\ {x.line : x \in {y \in Range(FlattenSeq(hunks)) : y.added}} = N
                 /\ \A k \in DOMAIN hunks : \A i \in DOMAIN hunks[k] :
                      hunks[k][i].line = hunks[k][1].line + i - 1
  <2> DEFINE H == ParsePatch(Diff(edits, form))
             F == Range(FlattenSeq(H))
  <2>1. PICK patch \in PatchRead : H = patch.hunks /\ InStep(patch) /\ AddedIn(patch.hunks) = N
    BY ParsedIsTheChange
  <2> HIDE DEF H, N
  <2>2. H \in Seq(Seq(PatchLine)) /\ AddedIn(H) = N
    BY <2>1 DEF PatchRead
  <2>3. \A k \in DOMAIN H : \A i \in DOMAIN H[k] : H[k][i].line = H[k][1].line + i - 1
    BY <2>1 DEF InStep, Consecutive
  <2>4. F = UNION {Range(H[i]) : i \in DOMAIN H}
    BY <2>2, FlattenRange
  <2>5. \A h \in DOMAIN H : \A i \in DOMAIN H[h] : H[h][i].line \in Nat
    <3> SUFFICES ASSUME NEW h \in DOMAIN H, NEW i \in DOMAIN H[h] PROVE H[h][i].line \in Nat
      OBVIOUS
    <3>1. h \in 1..Len(H)
      BY <2>2, LenProperties
    <3>2. H[h] \in Seq(PatchLine)
      BY <2>2, <3>1, ElementOfSeq
    <3>3. i \in 1..Len(H[h])
      BY <3>2, LenProperties
    <3>4. H[h][i] \in PatchLine
      BY <3>2, <3>3, ElementOfSeq
    <3>5. QED
      BY <3>4 DEF PatchLine
  <2> HIDE DEF F
  <2>6. \A x : x \in F <=> \E h \in DOMAIN H : \E i \in DOMAIN H[h] : x = H[h][i]
    BY <2>4 DEF Range
  <2>7. {x.line : x \in {y \in F : y.added}} = AddedIn(H)
    <3>1. ASSUME NEW m \in {x.line : x \in {y \in F : y.added}} PROVE m \in AddedIn(H)
      <4>1. PICK x \in F : x.added /\ m = x.line
        BY <3>1
      <4>2. PICK h \in DOMAIN H : \E i \in DOMAIN H[h] : x = H[h][i]
        BY <2>6, <4>1
      <4>3. PICK i \in DOMAIN H[h] : x = H[h][i]
        BY <4>2
      <4>4. m \in Nat /\ Adds(H[h], m)
        BY <2>5, <4>1, <4>3 DEF Adds
      <4>5. QED
        BY <4>4 DEF AddedIn
    <3>2. ASSUME NEW m \in AddedIn(H) PROVE m \in {x.line : x \in {y \in F : y.added}}
      <4>1. PICK h \in DOMAIN H : Adds(H[h], m)
        BY <3>2 DEF AddedIn
      <4>2. PICK i \in DOMAIN H[h] : H[h][i].added /\ H[h][i].line = m
        BY <4>1 DEF Adds
      <4> DEFINE x == H[h][i]
      <4>3. x \in F /\ x.added /\ m = x.line
        BY <2>6, <4>2
      <4> HIDE DEF x
      <4>4. QED
        BY <4>3
    <3>3. QED
      BY <3>1, <3>2
  <2>8. QED
    BY <2>2, <2>3, <2>7 DEF H, F
<1>3. {NewLine(edits, i) : i \in {n \in DOMAIN edits : edits[n] = "add"}} = N
  BY <1>1
<1> HIDE DEF N
<1>4. QED
  BY <1>2, <1>3 DEF AddedLinesAreTheChange, Forms, Marker, Blank

(* However a patch is framed, the added lines it is read for are those the *)
(* pull request adds, numbered as in its files.                            *)
THEOREM AddedLinesAreAlwaysTheChange == Spec => []AddedLinesAreTheChange
<1>1. InputsAre => AddedLinesAreTheChange
  BY AddsTheChange DEF InputsAre
<1>2. QED
  BY <1>1, TypesOfInputs, PTL
---------------------------------------------------------------------------------
(* The formatter's changes.                                                *)

(* A hunk's text, and a formatter's of it.                                 *)
Texts(a, b) ==
  /\ a \in Seq(TextLine(AllTokens)) /\ b \in Seq(TextLine(AllTokens))
  /\ Len(a) \in Nat /\ Len(a) # 0 /\ Len(a) = Len(hunk) /\ Len(b) \in Nat
  /\ DOMAIN a = 1..Len(a) /\ DOMAIN hunk = 1..Len(a) /\ DOMAIN b = 1..Len(b)

(* A hunk that was formatted is not empty, and both texts have lines of    *)
(* tokens.                                                                 *)
LEMMA TextsOfTheHunk ==
  ASSUME InputsAre, formatted # <<>>
  PROVE  Texts(Text(hunk), formatted)
<1> DEFINE n == Len(hunk)
           a == Text(hunk)
           X == TextLine(AllTokens)
<1>1. n \in Nat /\ DOMAIN hunk = 1..n /\ \A i \in 1..n : hunk[i] \in HunkRow
  BY LenProperties, ElementOfSeq DEF InputsAre
<1>2. n # 0
  <2> SUFFICES ASSUME hunk = <<>> PROVE FALSE
    BY EmptySeq DEF InputsAre
  <2>1. DOMAIN hunk = {}
    OBVIOUS
  <2>2. [i \in DOMAIN hunk |-> hunk[i].code] = <<>>
    BY <2>1
  <2>3. <<>> \in Seq(Seq(Tokens)) /\ DOMAIN <<>> = {}
    OBVIOUS
  <2>4. FlattenSeq(<<>>) \in Seq(Tokens) /\ Range(FlattenSeq(<<>>)) = {}
    BY ZenonT(60), <2>3, FlattenRange
  <2>5. FlattenSeq(<<>>) = <<>>
    BY <2>4, EmptySeq, RangeEquality
  <2>6. Code(hunk) = <<>>
    BY <2>2, <2>5 DEF Code
  <2>7. QED
    BY <2>6 DEF InputsAre
<1>3. \A i \in 1..n : [code |-> hunk[i].code, layout |-> hunk[i].layout] \in X
  <2> SUFFICES ASSUME NEW i \in 1..n
               PROVE  [code |-> hunk[i].code, layout |-> hunk[i].layout] \in X
    OBVIOUS
  <2>1. hunk[i].code \in Seq(Tokens) /\ hunk[i].layout \in {"own", "standard"}
    BY <1>1 DEF HunkRow
  <2>2. Tokens \subseteq AllTokens
    BY DEF AllTokens
  <2>3. hunk[i].code \in Seq(AllTokens)
    BY <2>1, <2>2, SeqMonotonic
  <2>4. QED
    BY <2>1, <2>3 DEF TextLine
<1>4. a \in [1..n -> X]
  <2>1. a = [i \in 1..n |-> [code |-> hunk[i].code, layout |-> hunk[i].layout]]
    BY <1>1 DEF Text
  <2> HIDE DEF a, X
  <2>2. QED
    BY <1>3, <2>1
<1>5. formatted \in Seq(X)
  BY DEF InputsAre, Formatted
<1> HIDE DEF n, a, X
<1>6. a \in Seq(X) /\ Len(a) = n /\ DOMAIN a = 1..n
  BY <1>1, <1>4, ListOfFunction
<1>7. Len(formatted) \in Nat /\ DOMAIN formatted = 1..Len(formatted)
  BY <1>5, LenProperties
<1>8. QED
  BY <1>1, <1>2, <1>5, <1>6, <1>7 DEF Texts, n, a, X

(* What no block covers is matched line by line with what is new in none.  *)
LEMMA BlocksDiffer == InputsAre => BlocksAreTheDifference
<1> SUFFICES ASSUME InputsAre, formatted # <<>> PROVE BlocksAreTheDifference
  BY DEF BlocksAreTheDifference
<1> DEFINE a == Text(hunk)
           b == formatted
           bs == ChangedBlocks(a, b)
           blocks == Range(bs)
           old == {i \in DOMAIN hunk : \A x \in blocks : i \notin Lines(x)}
           new == {j \in DOMAIN formatted : \A x \in blocks : j \notin x.bStart..(x.bEnd - 1)}
<1>1. Texts(a, b)
  BY TextsOfTheHunk
<1> HIDE DEF a, b
<1>2. Differ(bs, a, b)
  BY <1>1, ChangedBlocksDiffer DEF Texts
<1> HIDE DEF bs
<1>3. blocks \in SUBSET Whole(Len(a), Len(b))
  BY <1>2, RangeEquality, ElementOfSeq DEF Differ
<1> HIDE DEF blocks
<1>4. \A x \in blocks : Lines(x) # {} /\ Lines(x) \subseteq DOMAIN hunk
  <2> SUFFICES ASSUME NEW x \in blocks PROVE Lines(x) # {} /\ Lines(x) \subseteq DOMAIN hunk
    OBVIOUS
  <2>1. x \in Pieces(Len(a), Len(b)) /\ x.aStart < x.aEnd
    BY <1>3 DEF Whole
  <2>2. Len(a) \in Nat /\ Len(b) \in Nat /\ DOMAIN hunk = 1..Len(a)
    BY <1>1 DEF Texts
  <2>3. /\ x.aStart \in 1..(Len(a) + 1) /\ x.aEnd \in x.aStart..(Len(a) + 1)
        /\ Lines(x) \in SUBSET (1..Len(a))
        /\ \A p \in Int : p \in Lines(x) <=> x.aStart <= p /\ p < x.aEnd
    BY <2>1, <2>2, PieceHas
  <2>4. x.aStart \in Lines(x)
    BY <2>1, <2>2, <2>3
  <2>5. QED
    BY <2>2, <2>3, <2>4
<1>5. old \in SUBSET (1..Len(a)) /\ \A i \in 1..Len(a) : i \in old <=> i \notin Covered(blocks)
  BY <1>1 DEF Covered, Texts
<1>6. new \in SUBSET (1..Len(b)) /\ \A j \in 1..Len(b) : j \in new <=> j \notin NewCovered(blocks)
  BY <1>1 DEF NewCovered, NewLines, Texts, b
<1> HIDE DEF old, new
<1>7. PICK m : Matched(a, b, Len(a) + 1, Len(b) + 1, m, Covered(blocks), NewCovered(blocks))
  BY <1>2 DEF Differ, blocks
<1>8. ElementsAt(a, old) = ElementsAt(b, new)
  <2>1. a \in Seq(TextLine(AllTokens)) /\ b \in Seq(TextLine(AllTokens))
    BY <1>1 DEF Texts
  <2>2. QED
    BY <1>5, <1>6, <1>7, <2>1, TheRestIsTheSame
<1>9. QED
  BY <1>4, <1>8 DEF BlocksAreTheDifference, a, b, bs, blocks, old, new

(* Every block of the formatter's changes replaces a line, and all that no *)
(* block touches is in both texts.                                         *)
THEOREM BlocksAreAlwaysTheDifference == Spec => []BlocksAreTheDifference
<1>1. QED
  BY BlocksDiffer, TypesOfInputs, PTL
---------------------------------------------------------------------------------
(* The fixes keep to the pull request.                                     *)

(* Line i of a hunk of n lines is line i + before of its fragment, and the *)
(* others are the wrapper's.                                               *)
FragmentLines(list, before, n, after) ==
  /\ DOMAIN list = 1..(before + n + after)
  /\ \A k \in DOMAIN list : list[k] = IF k - before \in 1..n THEN k - before ELSE 0

(* A fragment has the hunk's lines after the wrapper's first ones.         *)
LEMMA LinesOfTheFragment ==
  ASSUME NEW before \in Nat, NEW n \in Nat, NEW after \in Nat,
         NEW list, list = [k \in 1..before |-> 0] \o [i \in 1..n |-> i] \o [k \in 1..after |-> 0]
  PROVE  FragmentLines(list, before, n, after)
<1> DEFINE A == [k \in 1..before |-> 0]
           B == [i \in 1..n |-> i]
           C == [k \in 1..after |-> 0]
           D == A \o B
<1>1. A \in Seq(Nat) /\ Len(A) = before /\ \A k \in 1..before : A[k] = 0
  <2>1. A \in [1..before -> Nat]
    OBVIOUS
  <2>2. \A k \in 1..before : A[k] = 0
    OBVIOUS
  <2> HIDE DEF A
  <2>3. QED
    BY <2>1, <2>2, ListOfFunction
<1>2. B \in Seq(Nat) /\ Len(B) = n /\ \A k \in 1..n : B[k] = k
  <2>1. B \in [1..n -> Nat]
    OBVIOUS
  <2>2. \A k \in 1..n : B[k] = k
    OBVIOUS
  <2> HIDE DEF B
  <2>3. QED
    BY <2>1, <2>2, ListOfFunction
<1>3. C \in Seq(Nat) /\ Len(C) = after /\ \A k \in 1..after : C[k] = 0
  <2>1. C \in [1..after -> Nat]
    OBVIOUS
  <2>2. \A k \in 1..after : C[k] = 0
    OBVIOUS
  <2> HIDE DEF C
  <2>3. QED
    BY <2>1, <2>2, ListOfFunction
<1>0. list = D \o C
  OBVIOUS
<1> HIDE DEF A, B, C
<1>4. /\ D \in Seq(Nat) /\ Len(D) = before + n
      /\ \A k \in 1..(before + n) : D[k] = IF k <= before THEN A[k] ELSE B[k - before]
  BY ZenonT(60), <1>1, <1>2, ConcatProperties
<1> HIDE DEF D
<1>5. /\ list \in Seq(Nat) /\ Len(list) = before + n + after
      /\ \A k \in 1..(before + n + after) : list[k] = IF k <= before + n THEN D[k] ELSE C[k - (before + n)]
  <2> DEFINE m == before + n
  <2>1. m \in Nat /\ Len(D) = m
    BY <1>4
  <2> HIDE DEF m
  <2>2. /\ D \o C \in Seq(Nat) /\ Len(D \o C) = m + after
        /\ \A k \in 1..(m + after) : (D \o C)[k] = IF k <= m THEN D[k] ELSE C[k - m]
    BY ZenonT(60), <1>3, <1>4, <2>1, ConcatProperties
  <2>3. QED
    BY <1>0, <2>2, Zenon DEF m
<1>6. DOMAIN list = 1..(before + n + after)
  <2>1. DOMAIN list = 1..Len(list)
    BY <1>5, LenProperties, Zenon
  <2>2. QED
    BY <1>5, <2>1, Zenon
<1>7. ASSUME NEW k \in 1..(before + n + after)
      PROVE  list[k] = IF k - before \in 1..n THEN k - before ELSE 0
  <2>1. CASE k <= before
    BY <1>1, <1>4, <1>5, <2>1
  <2>2. CASE before < k /\ k <= before + n
    BY <1>2, <1>4, <1>5, <2>2
  <2>3. CASE before + n < k
    <3>1. k - (before + n) \in 1..after /\ ~(k <= before + n) /\ k - before \notin 1..n
      BY <2>3
    <3>2. QED
      BY <1>3, <1>5, <3>1
  <2>4. QED
    BY <2>1, <2>2, <2>3
<1>8. QED
  BY <1>6, <1>7 DEF FragmentLines

(* A complaint about a fragment's line is one finding on the hunk's line.  *)
LEMMA DiagnosticsHit == InputsAre => DiagnosticsHitTheirLine
<1> SUFFICES ASSUME InputsAre, NEW python \in BOOLEAN
             PROVE  LET wrapper == Wrapper(Code(hunk), python)
                        fragment == [n \in 1..wrapper.unmatchedClose |-> 0] \o [i \in DOMAIN hunk |-> i]
                                    \o [n \in 1..wrapper.unclosed |-> 0]
                        Complaint(n) == [line |-> n, rule |-> "rule"]
                    IN  \A n \in DOMAIN fragment :
                          LintFindings(hunk, wrapper, <<Complaint(n), Complaint(n)>>)
                            = IF fragment[n] # 0 /\ hunk[fragment[n]].added
                              THEN <<Complaint(fragment[n])>> ELSE <<>>
  BY Zenon DEF DiagnosticsHitTheirLine
<1> DEFINE w == Wrapper(Code(hunk), python)
           before == w.unmatchedClose
           after == w.unclosed
           fragment == [n \in 1..before |-> 0] \o [i \in DOMAIN hunk |-> i] \o [n \in 1..after |-> 0]
           Complaint(n) == [line |-> n, rule |-> "rule"]
<1>1. before \in Nat /\ after \in Nat
  <2>1. \A x \in HunkRow : x.code \in Seq(Tokens)
    BY DEF HunkRow
  <2>2. Code(hunk) \in Seq(Tokens)
    BY <2>1, CodeIsTokens DEF InputsAre
  <2>3. WrapperIs(w)
    BY <2>2, WrapperCounts
  <2> HIDE DEF w
  <2>4. QED
    BY <2>3 DEF WrapperIs
<1> SUFFICES ASSUME NEW n \in DOMAIN fragment
             PROVE  LintFindings(hunk, w, <<Complaint(n), Complaint(n)>>)
                      = IF fragment[n] # 0 /\ hunk[fragment[n]].added
                        THEN <<Complaint(fragment[n])>> ELSE <<>>
  BY Zenon
<1>2. DOMAIN hunk = 1..Len(hunk) /\ Len(hunk) \in Nat
  BY LenProperties DEF InputsAre
<1> HIDE DEF w
<1>3. /\ DOMAIN fragment = 1..(before + Len(hunk) + after)
      /\ \A k \in DOMAIN fragment :
           fragment[k] = IF k - before \in 1..Len(hunk) THEN k - before ELSE 0
  <2>1. fragment = [k \in 1..before |-> 0] \o [i \in 1..Len(hunk) |-> i] \o [k \in 1..after |-> 0]
    BY <1>2
  <2> HIDE DEF fragment, before, after
  <2>2. FragmentLines(fragment, before, Len(hunk), after)
    BY <1>1, <1>2, <2>1, LinesOfTheFragment
  <2>3. QED
    BY <2>2 DEF FragmentLines
<1>4. FoundBy(w, Complaint(n)) = Complaint(n - before) /\ FoundBy(w, Complaint(n)).line = n - before
  BY DEF FoundBy, HunkLine
<1>5. \A k : k \in Int => (k # 0 <=> ~(k = 0))
  OBVIOUS
<1> HIDE DEF fragment, before, after
<1>6. LintFindings(hunk, w, <<Complaint(n), Complaint(n)>>)
        = IF n - before \in DOMAIN hunk /\ hunk[n - before].added
          THEN <<Complaint(n - before)>> ELSE <<>>
  <2> HIDE DEF Complaint
  <2>1. QED
    BY <1>4, RepeatedIsOne
<1> HIDE DEF Complaint
<1>7. CASE n - before \in 1..Len(hunk)
  <2>1. fragment[n] = n - before /\ fragment[n] # 0
    BY <1>1, <1>2, <1>3, <1>7
  <2>2. QED
    BY <1>2, <1>6, <1>7, <2>1
<1>8. CASE n - before \notin 1..Len(hunk)
  <2>1. fragment[n] = 0
    BY <1>3, <1>8
  <2>2. QED
    BY <1>2, <1>6, <1>8, <2>1
<1>9. QED
  BY <1>7, <1>8

FilteredTo(part, list, S, X) == part \in Seq(X) /\ Range(part) = {x \in Range(list) : x \in S}

(* What is kept of a list are its elements that are in the set.            *)
LEMMA FilteredRange ==
  ASSUME NEW X, NEW list \in Seq(X), NEW S, NEW where, where = {i \in DOMAIN list : list[i] \in S}
  PROVE  FilteredTo(ElementsAt(list, where), list, S, X)
<1> DEFINE part == ElementsAt(list, where)
<1>1. DOMAIN list = 1..Len(list) /\ where \in SUBSET (1..Len(list))
  BY LenProperties
<1>2. part \in Seq(X)
  BY <1>1, ElementsAtLists
<1>3. PICK p : PlacesOf(p, part, list, where)
  BY <1>1, ElementsAtPlaces
<1> HIDE DEF part
<1>4. /\ DOMAIN part = 1..Cardinality(where)
      /\ \A k \in 1..Cardinality(where) : p[k] \in where /\ part[k] = list[p[k]]
      /\ \A i \in where : \E k \in 1..Cardinality(where) : p[k] = i
  BY <1>3 DEF PlacesOf
<1>5. Range(part) = {list[i] : i \in where}
  <2>1. ASSUME NEW x \in Range(part) PROVE x \in {list[i] : i \in where}
    BY <1>4 DEF Range
  <2>2. ASSUME NEW i \in where PROVE list[i] \in Range(part)
    <3>1. PICK k \in 1..Cardinality(where) : p[k] = i
      BY <1>4
    <3>2. part[k] = list[i]
      BY <1>4, <3>1
    <3>3. QED
      BY <1>4, <3>2 DEF Range
  <2>3. QED
    BY <2>1, <2>2
<1>6. {list[i] : i \in where} = {x \in Range(list) : x \in S}
  BY DEF Range
<1>7. QED
  BY <1>2, <1>5, <1>6 DEF part, FilteredTo

(* Every fix is joined from fixable blocks, and covers what they cover.    *)
LEMMA FixesKeep == InputsAre => FixesKeepToThePullRequest
<1> SUFFICES ASSUME InputsAre PROVE FixesKeepToThePullRequest
  OBVIOUS
<1>1. DiagnosticsHitTheirLine
  BY DiagnosticsHit
<1>2. ASSUME formatted # <<>>
      PROVE  LET fixes == Range(Fixes(hunk, formatted))
                 unfixed == TouchesContext(hunk, formatted)
             IN  /\ Code(formatted) = Code(hunk)
                 /\ \A x \in fixes : \A i \in Lines(x) : hunk[i].added
                 /\ Text(hunk) # formatted =>
                      \A x \in Range(ChangedBlocks(Text(hunk), formatted)) : \A i \in Lines(x) :
                        hunk[i].added => (\E y \in fixes : i \in Lines(y)) \/ i \in unfixed
  <2> DEFINE a == Text(hunk)
             b == formatted
             bs == ChangedBlocks(a, b)
             own == {x \in Whole(Len(a), Len(b)) : Fixable(hunk, x)}
             where == {i \in DOMAIN bs : bs[i] \in own}
             list == ElementsAt(bs, where)
             fixes == Fixes(hunk, b)
             unfixed == TouchesContext(hunk, b)
  <2>1. Code(b) = Code(hunk)
    BY <1>2 DEF InputsAre
  <2>2. CASE a = b
    <3>1. fixes = <<>> /\ Range(fixes) = {}
      BY <2>2 DEF Fixes, Range
    <3>2. QED
      BY <2>1, <2>2, <3>1
  <2>3. CASE a # b
    <3>1. Texts(a, b)
      BY <1>2, TextsOfTheHunk
    <3>2. fixes = FoldLeft(JoinFix, <<>>, Filter(bs, LAMBDA x : Fixable(hunk, x)))
      BY <2>3, Zenon DEF Fixes
    <3>3. unfixed = UNION {{i \in Lines(x) : hunk[i].added} :
                             x \in {y \in Range(bs) : Cardinality(Lines(y)) > 1 /\ ~Fixable(hunk, y)}}
      BY <2>3, Zenon DEF TouchesContext
    <3>4. Filter(bs, LAMBDA x : Fixable(hunk, x)) = ElementsAt(bs, {i \in DOMAIN bs : Fixable(hunk, bs[i])})
      BY DEF Filter
    <3> HIDE DEF a, b, fixes, unfixed
    <3>5. Differ(bs, a, b)
      BY <3>1, ChangedBlocksDiffer DEF Texts
    <3>6. bs \in Seq(Whole(Len(a), Len(b))) /\ Len(a) \in Nat /\ Len(b) \in Nat
      BY <3>1, <3>5 DEF Differ, Texts
    <3> HIDE DEF bs
    <3>7. \A i \in DOMAIN bs : bs[i] \in Whole(Len(a), Len(b))
      BY <3>6, ElementOfSeq, LenProperties
    <3>8. where = {i \in DOMAIN bs : Fixable(hunk, bs[i])}
      BY <3>7
    <3>9. fixes = FoldLeft(JoinFix, <<>>, list)
      BY <3>2, <3>4, <3>8, Zenon
    <3> HIDE DEF own
    <3>10. list \in Seq(Whole(Len(a), Len(b))) /\ Range(list) = {x \in Range(bs) : x \in own}
      <4>1. where = {i \in DOMAIN bs : bs[i] \in own}
        OBVIOUS
      <4> HIDE DEF where
      <4>2. FilteredTo(list, bs, own, Whole(Len(a), Len(b)))
        BY <3>6, <4>1, FilteredRange
      <4> HIDE DEF list
      <4>3. QED
        BY <4>2 DEF FilteredTo
    <3> HIDE DEF list
    <3>11. Covered(Range(fixes)) = Covered(Range(list))
      BY <3>6, <3>9, <3>10, FixesCoverTheBlocks
    <3>12. ASSUME NEW x \in Range(fixes), NEW i \in Lines(x) PROVE hunk[i].added
      <4>1. i \in Covered(Range(list))
        BY <3>11, <3>12 DEF Covered
      <4>2. PICK y \in Range(list) : i \in Lines(y)
        BY <4>1 DEF Covered
      <4>3. Fixable(hunk, y)
        BY <3>10, <4>2 DEF own
      <4>4. QED
        BY <4>2, <4>3 DEF Fixable
    <3>13. ASSUME NEW x \in Range(bs), NEW i \in Lines(x), hunk[i].added
           PROVE  (\E y \in Range(fixes) : i \in Lines(y)) \/ i \in unfixed
      <4>1. x \in Whole(Len(a), Len(b))
        BY <3>6, RangeEquality, ElementOfSeq
      <4>2. CASE Fixable(hunk, x)
        <5>1. x \in Range(list)
          BY <3>10, <4>1, <4>2 DEF own
        <5>2. i \in Covered(Range(fixes))
          BY <3>11, <3>13, <5>1 DEF Covered
        <5>3. QED
          BY <5>2 DEF Covered
      <4>3. CASE ~Fixable(hunk, x)
        <5>1. PICK j \in Lines(x) : ~hunk[j].added
          BY <4>3 DEF Fixable
        <5>2. i # j
          BY <3>13, <5>1
        <5>3. Cardinality(Lines(x)) \in Nat /\ Cardinality(Lines(x)) > 1
          <6>1. Lines(x) \in SUBSET (1..Len(a))
            BY <3>6, <4>1, PieceHas DEF Whole
          <6>2. IsFiniteSet(Lines(x))
            BY <3>6, <6>1, PrefixCounts, FS_Subset
          <6>3. {i, j} \in SUBSET Lines(x)
            OBVIOUS
          <6>4. Cardinality({i, j}) = 2
            <7>1. IsFiniteSet({i}) /\ Cardinality({i}) = 1 /\ j \notin {i} /\ {i, j} = {i} \cup {j}
              BY <5>2, FS_Singleton
            <7>2. QED
              BY <7>1, FS_AddElement
          <6>5. Cardinality({i, j}) <= Cardinality(Lines(x)) /\ Cardinality(Lines(x)) \in Nat
            BY <6>2, <6>3, FS_Subset, FS_CardinalityType
          <6>6. QED
            BY <6>4, <6>5
        <5>4. x \in {y \in Range(bs) : Cardinality(Lines(y)) > 1 /\ ~Fixable(hunk, y)}
          BY <4>3, <5>3
        <5>5. i \in unfixed
          BY <3>3, <3>13, <5>4
        <5>6. QED
          BY <5>5
      <4>4. QED
        BY <4>2, <4>3
    <3>14. QED
      BY <2>1, <3>12, <3>13 DEF a, b, bs, fixes, unfixed
  <2>4. QED
    BY <2>2, <2>3
<1>3. QED
  BY <1>1, <1>2, Zenon DEF FixesKeepToThePullRequest

(* A linter's finding is on the line it was made about, and a formatter's  *)
(* fix keeps the hunk's code and replaces lines the pull request added,    *)
(* all of those it changes but the ones it says it does not fix.           *)
THEOREM FixesAlwaysKeepToThePullRequest == Spec => []FixesKeepToThePullRequest
<1>1. QED
  BY FixesKeep, TypesOfInputs, PTL
=================================================================================
