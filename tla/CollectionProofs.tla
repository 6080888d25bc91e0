---------------------------- MODULE CollectionProofs ----------------------------
(***************************************************************************)
(* What the operators on sets and sequences return that the modules are    *)
(* built from: Min and Max, folds and sums, and the sorting and filtering  *)
(* of Arrays.  tlapm cannot instantiate a theorem that has an operator for *)
(* a parameter, so these have sets, relations and functions: a property is *)
(* the set of what has it, a fold's step a function of the place and of    *)
(* what has been folded so far.                                            *)
(***************************************************************************)
EXTENDS Arrays, FiniteSetsExt, FiniteSetTheorems, FunctionTheorems, SequenceTheorems, TLAPS

(* The greater of two numbers.                                             *)
LEMMA MaxOfTwo ==
  ASSUME NEW a \in Int, NEW b \in Int
  PROVE  Max({a, b}) = IF a >= b THEN a ELSE b
<1> DEFINE m == IF a >= b THEN a ELSE b
<1>1. m \in {a, b} /\ \A y \in {a, b} : m >= y
  OBVIOUS
<1>2. \A x \in {a, b} : (\A y \in {a, b} : x >= y) => x = m
  OBVIOUS
<1>3. QED
  BY <1>1, <1>2 DEF Max

(* The lesser of two numbers.                                              *)
LEMMA MinOfTwo ==
  ASSUME NEW a \in Int, NEW b \in Int
  PROVE  Min({a, b}) = IF a <= b THEN a ELSE b
<1> DEFINE m == IF a <= b THEN a ELSE b
<1>1. m \in {a, b} /\ \A y \in {a, b} : m <= y
  OBVIOUS
<1>2. \A x \in {a, b} : (\A y \in {a, b} : x <= y) => x = m
  OBVIOUS
<1>3. QED
  BY <1>1, <1>2 DEF Min

(* A finite set of numbers has a least one: the sets of what is no greater *)
(* than one of its numbers are subsets of a finite set, so one of them is  *)
(* minimal.                                                                *)
LEMMA MinIsLeast ==
  ASSUME NEW S \in SUBSET Int, IsFiniteSet(S), S # {}
  PROVE  Min(S) \in S /\ \A x \in S : Min(S) <= x
<1> DEFINE Below(x) == {y \in S : y <= x}
           T == {Below(x) : x \in S}
<1>1. IsWellFoundedOn(StrictSubsetOrdering(S), FiniteSubsetsOf(S))
  BY FS_StrictSubsetOrderingWellFounded
<1>2. T \subseteq FiniteSubsetsOf(S) /\ T # {}
  <2>1. \A x \in S : Below(x) \in SUBSET S /\ IsFiniteSet(Below(x))
    BY FS_Subset
  <2>2. QED
    BY <2>1 DEF FiniteSubsetsOf
<1>3. PICK U \in T : \A V \in T : <<V, U>> \notin StrictSubsetOrdering(S)
  <2> HIDE DEF T
  <2>1. QED
    BY <1>1, <1>2, WFMin
<1>4. PICK m \in S : U = Below(m)
  OBVIOUS
<1>5. ASSUME NEW x \in S, x < m PROVE FALSE
  <2>0. (\A y \in S : y <= x => y <= m) /\ ~(m <= x) /\ m <= m
    <3>1. m \in Int /\ x \in Int /\ \A y \in S : y \in Int
      OBVIOUS
    <3>2. QED
      BY <1>5, <3>1
  <2>1. Below(x) \subseteq Below(m) /\ m \notin Below(x) /\ m \in Below(m)
    BY <2>0
  <2>2. <<Below(x), Below(m)>> \in StrictSubsetOrdering(S)
    BY <2>1 DEF StrictSubsetOrdering
  <2>3. QED
    BY <1>3, <1>4, <2>2
<1>6. m \in S /\ \A x \in S : m <= x
  BY <1>5
<1>7. QED
  BY <1>6 DEF Min

(* It has a greatest one, too.                                             *)
LEMMA MaxIsGreatest ==
  ASSUME NEW S \in SUBSET Int, IsFiniteSet(S), S # {}
  PROVE  Max(S) \in S /\ \A x \in S : x <= Max(S)
<1> DEFINE Above(x) == {y \in S : x <= y}
           T == {Above(x) : x \in S}
<1>1. IsWellFoundedOn(StrictSubsetOrdering(S), FiniteSubsetsOf(S))
  BY FS_StrictSubsetOrderingWellFounded
<1>2. T \subseteq FiniteSubsetsOf(S) /\ T # {}
  <2>1. \A x \in S : Above(x) \in SUBSET S /\ IsFiniteSet(Above(x))
    BY FS_Subset
  <2>2. QED
    BY <2>1 DEF FiniteSubsetsOf
<1>3. PICK U \in T : \A V \in T : <<V, U>> \notin StrictSubsetOrdering(S)
  <2> HIDE DEF T
  <2>1. QED
    BY <1>1, <1>2, WFMin
<1>4. PICK m \in S : U = Above(m)
  OBVIOUS
<1>5. ASSUME NEW x \in S, m < x PROVE FALSE
  <2>0. (\A y \in S : x <= y => m <= y) /\ ~(x <= m) /\ m <= m
    <3>1. m \in Int /\ x \in Int /\ \A y \in S : y \in Int
      OBVIOUS
    <3>2. QED
      BY <1>5, <3>1
  <2>1. Above(x) \subseteq Above(m) /\ m \notin Above(x) /\ m \in Above(m)
    BY <2>0
  <2>2. <<Above(x), Above(m)>> \in StrictSubsetOrdering(S)
    BY <2>1 DEF StrictSubsetOrdering
  <2>3. QED
    BY <1>3, <1>4, <2>2
<1>6. m \in S /\ \A x \in S : m >= x
  BY <1>5
<1>7. Max(S) \in S /\ \A x \in S : Max(S) >= x
  BY <1>6 DEF Max
<1>8. QED
  BY <1>7

---------------------------------------------------------------------------------
(* Induction up to n: what 0 has, and every number with its predecessor,   *)
(* all have, for else the least that has it not would have it.             *)
LEMMA PrefixInduction ==
  ASSUME NEW n \in Nat, NEW P, 0 \in P, \A k \in 1..n : k - 1 \in P => k \in P
  PROVE  \A k \in 0..n : k \in P
<1> DEFINE Bad == {k \in 0..n : k \notin P}
<1>1. SUFFICES ASSUME Bad # {} PROVE FALSE
  OBVIOUS
<1>2. IsFiniteSet(Bad) /\ Bad \in SUBSET Int
  <2>1. IsFiniteSet(0..n) /\ Bad \in SUBSET (0..n)
    BY FS_Interval
  <2>2. IsFiniteSet(Bad)
    BY <2>1, FS_Subset
  <2>3. QED
    BY <2>1, <2>2
<1>3. PICK m \in Bad : \A x \in Bad : m <= x
  <2> HIDE DEF Bad
  <2>1. QED
    BY <1>1, <1>2, MinIsLeast
<1>4. m \in 1..n /\ m - 1 \in 0..n /\ ~(m <= m - 1)
  OBVIOUS
<1>5. m - 1 \in P
  BY <1>3, <1>4
<1>6. QED
  BY <1>4, <1>5

(* Induction over the subsets of a finite set, one element at a time.      *)
LEMMA SubsetInduction ==
  ASSUME NEW S, IsFiniteSet(S), NEW P, {} \in P,
         \A T \in SUBSET S : \A x \in S \ T : T \in P => T \cup {x} \in P
  PROVE  \A T \in SUBSET S : T \in P
<1> DEFINE n == Cardinality(S)
           Q == {k \in 0..n : \A T \in SUBSET S : Cardinality(T) = k => T \in P}
<1>1. n \in Nat
  BY FS_CardinalityType
<1>2. 0 \in Q
  <2>1. \A T \in SUBSET S : Cardinality(T) = 0 => T = {}
    BY FS_Subset, FS_EmptySet
  <2>2. QED
    BY <1>1, <2>1
<1>3. ASSUME NEW k \in 1..n, k - 1 \in Q PROVE k \in Q
  <2>1. SUFFICES ASSUME NEW T \in SUBSET S, Cardinality(T) = k PROVE T \in P
    BY <1>1
  <2>2. IsFiniteSet(T)
    BY FS_Subset
  <2>3. PICK x \in T : TRUE
    BY <2>1, <2>2, FS_EmptySet
  <2>4. Cardinality(T \ {x}) = k - 1
    BY <2>1, <2>2, FS_RemoveElement
  <2>5. T \ {x} \in P /\ T \ {x} \in SUBSET S /\ x \in S \ (T \ {x})
    BY <1>3, <2>4
  <2>6. (T \ {x}) \cup {x} \in P
    BY <2>5
  <2>7. (T \ {x}) \cup {x} = T
    OBVIOUS
  <2>8. QED
    BY <2>6, <2>7
<1>4. \A k \in 0..n : k \in Q
  <2> HIDE DEF n, Q
  <2>1. QED
    BY <1>1, <1>2, <1>3, PrefixInduction
<1>5. ASSUME NEW T \in SUBSET S PROVE T \in P
  <2>1. Cardinality(T) \in 0..n
    BY <1>1, FS_Subset, FS_CardinalityType
  <2>2. QED
    BY <1>4, <2>1
<1>6. QED
  BY <1>5
---------------------------------------------------------------------------------
(* `ch` takes an element of every set, and a fold's step keeps to A.       *)
Picks(ch, S) == \A T \in SUBSET S : T # {} => ch[T] \in T
KeepsTo(A, step, S) == \A x \in S : \A a \in A : step[x][a] \in A
Unfolds(f, A, S, base, ch, step) ==
  /\ f[{}] = base
  /\ \A T \in SUBSET S :
       T # {} /\ f[T \ {ch[T]}] \in A => f[T] = step[ch[T]][f[T \ {ch[T]}]]
IsFold(g, S, base, ch, step) ==
  \A T \in SUBSET S : g[T] = IF T = {} THEN base ELSE step[ch[T]][g[T \ {ch[T]}]]

(* A fold over a finite set is well defined: some function on its subsets  *)
(* satisfies the equation MapThenFoldSet defines it by, whichever element  *)
(* `ch` takes of each.                                                     *)
LEMMA FoldExists ==
  ASSUME NEW S, IsFiniteSet(S), NEW A, NEW base \in A,
         NEW ch, Picks(ch, S), NEW step, KeepsTo(A, step, S)
  PROVE  \E g \in [SUBSET S -> A] : IsFold(g, S, base, ch, step)
<1> DEFINE n == Cardinality(S)
           Small(k) == {T \in SUBSET S : Cardinality(T) <= k}
           Solves(g, k) ==
             \A T \in Small(k) : g[T] = IF T = {} THEN base ELSE step[ch[T]][g[T \ {ch[T]}]]
           P == {k \in 0..n : \E g \in [Small(k) -> A] : Solves(g, k)}
<1>0. n \in Nat /\ \A T \in SUBSET S : IsFiniteSet(T) /\ Cardinality(T) \in Nat
  BY FS_CardinalityType, FS_Subset
<1>1. 0 \in P
  <2>1. \A T \in Small(0) : T = {}
    BY <1>0, FS_EmptySet
  <2> DEFINE g == [T \in Small(0) |-> base]
  <2>2. g \in [Small(0) -> A] /\ \A T \in Small(0) : g[T] = base
    OBVIOUS
  <2>3. Solves(g, 0)
    <3> HIDE DEF g, Small
    <3>1. QED
      BY <2>1, <2>2
  <2>4. \E f \in [Small(0) -> A] : Solves(f, 0)
    <3> HIDE DEF g, Solves
    <3>1. QED
      BY <2>2, <2>3
  <2>5. QED
    <3> HIDE DEF Solves, Small
    <3>1. QED
      BY <1>0, <2>4
<1>2. ASSUME NEW k \in 1..n, k - 1 \in P PROVE k \in P
  <2>1. PICK g \in [Small(k - 1) -> A] : Solves(g, k - 1)
    <3> HIDE DEF Solves, Small
    <3>1. QED
      BY <1>2
  <2> DEFINE h == [T \in Small(k) |-> IF T = {} THEN base ELSE step[ch[T]][g[T \ {ch[T]}]]]
  <2>2. ASSUME NEW T \in Small(k), T # {}
        PROVE  /\ ch[T] \in S /\ T \ {ch[T]} \in Small(k - 1)
               /\ g[T \ {ch[T]}] \in A
    <3>1. ch[T] \in T /\ T \in SUBSET S /\ Cardinality(T) <= k
      BY <2>2 DEF Picks
    <3>2. Cardinality(T \ {ch[T]}) = Cardinality(T) - 1
      BY <1>0, <3>1, FS_RemoveElement
    <3>3. T \ {ch[T]} \in Small(k - 1)
      BY <1>0, <3>1, <3>2
    <3>4. QED
      BY <3>1, <3>3
  <2>3. h \in [Small(k) -> A]
    <3>1. ASSUME NEW T \in Small(k)
          PROVE  (IF T = {} THEN base ELSE step[ch[T]][g[T \ {ch[T]}]]) \in A
      <4> HIDE DEF Small
      <4>1. QED
        BY <2>2 DEF KeepsTo
    <3> HIDE DEF Small
    <3>2. QED
      BY <3>1
  <2>4. ASSUME NEW U \in Small(k - 1) PROVE h[U] = g[U]
    <3>1. U \in Small(k)
      BY <1>0
    <3>2. h[U] = IF U = {} THEN base ELSE step[ch[U]][g[U \ {ch[U]}]]
      BY <3>1
    <3>3. QED
      BY <2>1, <3>2
  <2>5. Solves(h, k)
    <3>1. ASSUME NEW T \in Small(k)
          PROVE  h[T] = IF T = {} THEN base ELSE step[ch[T]][h[T \ {ch[T]}]]
      <4>1. h[T] = IF T = {} THEN base ELSE step[ch[T]][g[T \ {ch[T]}]]
        OBVIOUS
      <4>2. T # {} => h[T \ {ch[T]}] = g[T \ {ch[T]}]
        <5> HIDE DEF h, Small
        <5>1. QED
          BY <2>2, <2>4
      <4> HIDE DEF h
      <4>3. QED
        BY <4>1, <4>2
    <3> HIDE DEF h, Small
    <3>2. QED
      BY <3>1
  <2>6. QED
    <3> HIDE DEF h, Small, Solves
    <3>1. QED
      BY <1>0, <2>3, <2>5
<1>3. n \in P
  <2> HIDE DEF P, n
  <2>1. QED
    BY <1>0, <1>1, <1>2, PrefixInduction
<1>4. Small(n) = SUBSET S
  BY FS_Subset
<1>5. PICK g \in [Small(n) -> A] : Solves(g, n)
  <2> HIDE DEF Small, Solves, n
  <2>1. QED
    BY <1>3
<1>6. g \in [SUBSET S -> A]
  <2> HIDE DEF Small, n
  <2>1. QED
    BY <1>4, <1>5
<1>7. \A T \in SUBSET S : g[T] = IF T = {} THEN base ELSE step[ch[T]][g[T \ {ch[T]}]]
  <2> HIDE DEF Small, n
  <2>1. QED
    BY <1>4, <1>5
<1>8. QED
  BY <1>6, <1>7 DEF IsFold

(* The greatest of the first n numbers is n, and without it they are the   *)
(* first n-1.                                                              *)
LEMMA MaxOfPrefix ==
  ASSUME NEW n \in Nat \ {0}
  PROVE  Max(1..n) = n /\ (1..n) \ {Max(1..n)} = 1..(n - 1) /\ 1..n # {}
<1>1. n \in 1..n /\ 1..n \in SUBSET Int /\ 1..n # {} /\ \A x \in 1..n : x <= n
  OBVIOUS
<1>0. IsFiniteSet(1..n)
  BY FS_Interval
<1>2. Max(1..n) \in 1..n /\ n <= Max(1..n)
  BY <1>0, <1>1, MaxIsGreatest
<1>3. Max(1..n) = n
  BY <1>1, <1>2
<1>4. QED
  BY <1>1, <1>3

(* Any numbers up to n, if there are some, have a greatest.                *)
LEMMA MaxInPrefix ==
  ASSUME NEW n \in Nat
  PROVE  \A T \in SUBSET (1..n) : T # {} => Max(T) \in T
<1> SUFFICES ASSUME NEW T \in SUBSET (1..n), T # {} PROVE Max(T) \in T
  OBVIOUS
<1>1. IsFiniteSet(1..n)
  BY FS_Interval
<1>2. IsFiniteSet(T)
  BY <1>1, FS_Subset
<1>3. T \in SUBSET Int
  OBVIOUS
<1>4. QED
  BY <1>2, <1>3, MaxIsGreatest

(* A left fold over n places takes the last of them last; Unrolls is its   *)
(* equation on the prefixes, and Accumulates gives their values in turn.   *)
IsLeftFold(g, n, base, step) ==
  \A T \in SUBSET (1..n) : g[T] = IF T = {} THEN base ELSE step[Max(T)][g[T \ {Max(T)}]]
Unrolls(iter, n, A, base, step) ==
  /\ iter[{}] = base
  /\ \A k \in 1..n : iter[1..(k - 1)] \in A => iter[1..k] = step[k][iter[1..(k - 1)]]
Accumulates(h, n, base, step) ==
  h[0] = base /\ \A k \in 1..n : h[k] = step[k][h[k - 1]]

(* A left fold over n places is well defined.                              *)
LEMMA LeftFoldExists ==
  ASSUME NEW n \in Nat, NEW A, NEW base \in A,
         NEW step, KeepsTo(A, step, 1..n)
  PROVE  \E g \in [SUBSET (1..n) -> A] : IsLeftFold(g, n, base, step)
<1> DEFINE S == 1..n
           ch == [T \in SUBSET S |-> Max(T)]
<1>1. IsFiniteSet(S) /\ S \subseteq Int
  BY FS_Interval
<1>2. Picks(ch, S)
  <2> SUFFICES ASSUME NEW T \in SUBSET S, T # {} PROVE Max(T) \in T
    BY DEF Picks
  <2>1. IsFiniteSet(T) /\ T \in SUBSET Int
    BY <1>1, FS_Subset
  <2>2. QED
    BY <2>1, MaxIsGreatest
<1>3. \E g \in [SUBSET S -> A] : IsFold(g, S, base, ch, step)
  <2>1. KeepsTo(A, step, S)
    OBVIOUS
  <2> HIDE DEF S, ch
  <2>2. QED
    BY <1>1, <1>2, <2>1, FoldExists
<1>4. \A T \in SUBSET S : ch[T] = Max(T)
  OBVIOUS
<1>5. PICK g \in [SUBSET S -> A] :
        \A T \in SUBSET S : g[T] = IF T = {} THEN base ELSE step[ch[T]][g[T \ {ch[T]}]]
  BY <1>3 DEF IsFold
<1> HIDE DEF ch
<1>6. \A T \in SUBSET S : g[T] = IF T = {} THEN base ELSE step[Max(T)][g[T \ {Max(T)}]]
  BY <1>4, <1>5
<1>7. QED
  BY <1>6 DEF IsLeftFold

(* Its values on the prefixes follow from each other, and stay in any set  *)
(* every step stays in.                                                    *)
LEMMA LeftFoldPrefixes ==
  ASSUME NEW n \in Nat, NEW A, NEW base \in A,
         NEW step, KeepsTo(A, step, 1..n),
         NEW iter, Unrolls(iter, n, A, base, step)
  PROVE  \E h \in [0..n -> A] : Accumulates(h, n, base, step) /\ h[n] = iter[1..n]
<1> DEFINE P == {k \in 0..n : iter[1..k] \in A}
           h == [k \in 0..n |-> iter[1..k]]
<1>1. 0 \in P
  <2>1. 1..0 = {} /\ 0 \in 0..n
    OBVIOUS
  <2>2. iter[1..0] \in A
    BY <2>1 DEF Unrolls
  <2>3. QED
    BY <2>1, <2>2
<1>2. ASSUME NEW k \in 1..n, k - 1 \in P PROVE k \in P
  BY <1>2 DEF KeepsTo, Unrolls
<1>3. \A k \in 0..n : k \in P
  <2> HIDE DEF P
  <2>1. QED
    BY <1>1, <1>2, PrefixInduction
<1>4. h \in [0..n -> A]
  BY <1>3
<1>5. h[0] = base
  <2>1. 1..0 = {}
    OBVIOUS
  <2>2. h[0] = iter[1..0]
    OBVIOUS
  <2>3. QED
    BY <2>1, <2>2 DEF Unrolls
<1>6. ASSUME NEW k \in 1..n PROVE h[k] = step[k][h[k - 1]]
  <2>1. k - 1 \in 0..n /\ k \in 0..n
    OBVIOUS
  <2>2. h[k - 1] = iter[1..(k - 1)] /\ h[k] = iter[1..k] /\ iter[1..(k - 1)] \in A
    BY <1>3, <2>1
  <2>3. QED
    BY <2>2 DEF Unrolls
<1>7. h[n] = iter[1..n]
  OBVIOUS
<1> HIDE DEF h
<1>8. QED
  BY <1>4, <1>5, <1>6, <1>7 DEF Accumulates

---------------------------------------------------------------------------------
(* `before` gives for each element of S those that are before it, in a     *)
(* strict total order; p lists the elements in that order.                 *)
Orders(before, S) ==
  \A x \in S :
    /\ before[x] \in SUBSET S /\ x \notin before[x]
    /\ \A y \in before[x] : before[y] \subseteq before[x]
    /\ \A y \in S : y = x \/ y \in before[x] \/ x \in before[y]

Lists(p, S, before) ==
  /\ p \in [1..Cardinality(S) -> S]
  /\ \A x \in S : \E k \in 1..Cardinality(S) : p[k] = x
  /\ \A j, k \in 1..Cardinality(S) : p[j] \in before[p[k]] <=> j < k

(* In a strict total order of n elements each of 0..n-1 is how many        *)
(* elements one of them comes after, so Sort lists them all in order.      *)
LEMMA SortLists ==
  ASSUME NEW S, IsFiniteSet(S), NEW before, Orders(before, S)
  PROVE  Lists([k \in 1..Cardinality(S) |-> CHOOSE x \in S : Cardinality(before[x]) = k - 1],
               S, before)
<1> DEFINE n == Cardinality(S)
           p == [k \in 1..n |-> CHOOSE x \in S : Cardinality(before[x]) = k - 1]
           r == [x \in S |-> Cardinality(before[x]) + 1]
<1>0. n \in Nat
  BY FS_CardinalityType
<1>1. ASSUME NEW x \in S
      PROVE  IsFiniteSet(before[x]) /\ Cardinality(before[x]) \in 0..(n - 1)
  <2>1. before[x] \in SUBSET S /\ before[x] \in SUBSET (S \ {x})
    BY DEF Orders
  <2>2. IsFiniteSet(S \ {x}) /\ Cardinality(S \ {x}) = n - 1
    BY FS_RemoveElement
  <2>3. IsFiniteSet(before[x]) /\ Cardinality(before[x]) <= n - 1
    BY <2>1, <2>2, FS_Subset
  <2>4. QED
    BY <1>0, <2>3, FS_CardinalityType
<1>2. ASSUME NEW x \in S, NEW y \in before[x]
      PROVE  y \in S /\ Cardinality(before[y]) < Cardinality(before[x])
  <2>1. y \in S /\ before[y] \cup {y} \in SUBSET before[x] /\ y \notin before[y]
    BY DEF Orders
  <2>2. Cardinality(before[y] \cup {y}) = Cardinality(before[y]) + 1
    BY <1>1, <2>1, FS_AddElement
  <2>3. Cardinality(before[y] \cup {y}) <= Cardinality(before[x])
    BY <1>1, <2>1, FS_Subset
  <2>4. QED
    BY <1>1, <2>1, <2>2, <2>3
<1>3. r \in [S -> 1..n] /\ \A x \in S : r[x] = Cardinality(before[x]) + 1
  BY <1>0, <1>1
<1>4. ASSUME NEW x \in S, NEW y \in S, x # y PROVE Cardinality(before[x]) # Cardinality(before[y])
  <2>1. y \in before[x] \/ x \in before[y]
    BY <1>4 DEF Orders
  <2>2. QED
    BY <1>1, <1>2, <2>1
<1>5. r \in Injection(S, 1..n)
  <2>1. ASSUME NEW x \in S, NEW y \in S, r[x] = r[y] PROVE x = y
    BY <1>1, <1>3, <1>4, <2>1
  <2> HIDE DEF r
  <2>2. QED
    BY <1>3, <2>1 DEF Injection, IsInjective
<1>6. r \in Surjection(S, 1..n)
  <2>1. IsFiniteSet(1..n) /\ Cardinality(1..n) = n
    BY <1>0, FS_Interval
  <2> HIDE DEF r
  <2>2. QED
    BY <1>5, <2>1, FS_Injection
<1>7. ASSUME NEW k \in 1..n
      PROVE  p[k] \in S /\ Cardinality(before[p[k]]) = k - 1
  <2>1. PICK x \in S : r[x] = k
    BY <1>6 DEF Surjection
  <2>2. Cardinality(before[x]) = k - 1
    BY <1>1, <1>3, <2>1
  <2>3. QED
    BY <2>2
<1>8. p \in [1..n -> S]
  BY <1>7
<1> HIDE DEF p
<1>9. ASSUME NEW x \in S PROVE \E k \in 1..n : p[k] = x
  <2>1. r[x] \in 1..n /\ r[x] - 1 = Cardinality(before[x])
    BY <1>1, <1>3
  <2>2. p[r[x]] \in S /\ Cardinality(before[p[r[x]]]) = Cardinality(before[x])
    BY <1>7, <2>1
  <2>3. p[r[x]] = x
    BY <1>4, <2>2
  <2>4. QED
    BY <2>1, <2>3
<1>10. ASSUME NEW j \in 1..n, NEW k \in 1..n PROVE p[j] \in before[p[k]] <=> j < k
  <2>1. p[j] \in S /\ Cardinality(before[p[j]]) = j - 1
        /\ p[k] \in S /\ Cardinality(before[p[k]]) = k - 1
    BY <1>7
  <2>2. p[j] \in before[p[k]] => j < k
    BY <1>2, <2>1
  <2>3. p[k] \in before[p[j]] => k < j
    BY <1>2, <2>1
  <2>4. p[j] = p[k] \/ p[j] \in before[p[k]] \/ p[k] \in before[p[j]]
    BY <2>1 DEF Orders
  <2>5. p[j] = p[k] => j = k
    BY <2>1
  <2>6. QED
    BY <2>2, <2>3, <2>4, <2>5
<1>11. Lists(p, S, before)
  BY <1>8, <1>9, <1>10 DEF Lists
<1>12. QED
  BY <1>11 DEF p

(* A finite set of numbers, from the least to the greatest.                *)
LEMMA AscendingLists ==
  ASSUME NEW S \in SUBSET Int, IsFiniteSet(S)
  PROVE  /\ Ascending(S) \in [1..Cardinality(S) -> S] /\ Cardinality(S) \in Nat
         /\ \A x \in S : \E k \in 1..Cardinality(S) : Ascending(S)[k] = x
         /\ \A j, k \in 1..Cardinality(S) : Ascending(S)[j] < Ascending(S)[k] <=> j < k
<1> DEFINE n == Cardinality(S)
           before == [x \in S |-> {y \in S : y < x}]
           p == [k \in 1..n |-> CHOOSE x \in S : Cardinality(before[x]) = k - 1]
<1>1. Orders(before, S)
  <2>1. ASSUME NEW x \in S
        PROVE  /\ before[x] \in SUBSET S /\ x \notin before[x]
               /\ \A y \in before[x] : before[y] \subseteq before[x]
               /\ \A y \in S : y = x \/ y \in before[x] \/ x \in before[y]
    <3>1. \A z \in S : before[z] = {y \in S : y < z}
      OBVIOUS
    <3>2. \A y, z \in S : (y < x /\ z < y => z < x) /\ ~(x < x) /\ (y = x \/ y < x \/ x < y)
      OBVIOUS
    <3> HIDE DEF before
    <3>3. before[x] \in SUBSET S /\ x \notin before[x]
      BY <3>1, <3>2
    <3>4. \A y \in before[x] : before[y] \subseteq before[x]
      BY <3>1, <3>2
    <3>5. \A y \in S : y = x \/ y \in before[x] \/ x \in before[y]
      BY <3>1, <3>2
    <3>6. QED
      BY <3>3, <3>4, <3>5
  <2> HIDE DEF before
  <2>2. QED
    BY <2>1 DEF Orders
<1>2. Lists(p, S, before)
  <2> HIDE DEF before
  <2>1. QED
    BY <1>1, SortLists
<1>3. Ascending(S) = p
  <2>1. \A x \in S : before[x] = {y \in S : y < x}
    OBVIOUS
  <2> HIDE DEF before
  <2>2. \A k \in 1..n : (CHOOSE x \in S : Cardinality(before[x]) = k - 1)
                          = (CHOOSE x \in S : Cardinality({y \in S : y < x}) = k - 1)
    BY <2>1
  <2>3. QED
    BY <2>2 DEF Ascending, Sort
<1>4. \A x \in S : before[x] = {y \in S : y < x}
  OBVIOUS
<1>5. n \in Nat
  BY FS_CardinalityType
<1> HIDE DEF p, before
<1>6. \A j, k \in 1..n : p[j] < p[k] <=> j < k
  <2> SUFFICES ASSUME NEW j \in 1..n, NEW k \in 1..n PROVE p[j] < p[k] <=> j < k
    OBVIOUS
  <2>1. p[j] \in S /\ p[k] \in S /\ (p[j] \in before[p[k]] <=> j < k)
    BY <1>2 DEF Lists
  <2>2. QED
    BY <1>4, <2>1
<1>7. QED
  BY <1>2, <1>3, <1>5, <1>6 DEF Lists

(* The elements of a list at some of its places are a list of as many.     *)
LEMMA ElementsAtLists ==
  ASSUME NEW A, NEW list \in Seq(A), NEW where \in SUBSET (1..Len(list))
  PROVE  /\ ElementsAt(list, where) \in Seq(A)
         /\ Len(ElementsAt(list, where)) = Cardinality(where)
         /\ \A k \in 1..Cardinality(where) :
              /\ Ascending(where)[k] \in where
              /\ ElementsAt(list, where)[k] = list[Ascending(where)[k]]
<1> DEFINE place == Ascending(where)
           n == Cardinality(where)
<1>1. IsFiniteSet(where) /\ where \in SUBSET Int
  <2>1. IsFiniteSet(1..Len(list)) /\ Len(list) \in Nat
    BY FS_Interval, LenProperties
  <2>2. IsFiniteSet(where)
    BY <2>1, FS_Subset
  <2>3. QED
    BY <2>1, <2>2
<1>2. place \in [1..n -> where] /\ n \in Nat
  BY <1>1, AscendingLists
<1>3. ElementsAt(list, where) = [k \in 1..n |-> list[place[k]]]
  BY <1>2 DEF ElementsAt
<1>4. \A i \in 1..Len(list) : list[i] \in A
  BY ElementOfSeq
<1>5. \A k \in 1..n : place[k] \in where /\ list[place[k]] \in A
  BY <1>2, <1>4
<1> HIDE DEF place, n
<1>6. [k \in 1..n |-> list[place[k]]] \in Seq(A) /\ Len([k \in 1..n |-> list[place[k]]]) = n
  BY <1>2, <1>5
<1>7. QED
  BY <1>3, <1>5, <1>6 DEF place, n
---------------------------------------------------------------------------------
(* Two folds with the same steps are the same.                             *)
LEMMA FoldIsUnique ==
  ASSUME NEW S, IsFiniteSet(S), NEW A, NEW base \in A,
         NEW ch, Picks(ch, S), NEW step, KeepsTo(A, step, S),
         NEW g, IsFold(g, S, base, ch, step), NEW f, Unfolds(f, A, S, base, ch, step)
  PROVE  \A T \in SUBSET S : f[T] = g[T] /\ f[T] \in A
<1> DEFINE n == Cardinality(S)
           P == {k \in 0..n : \A T \in SUBSET S : Cardinality(T) = k => f[T] = g[T] /\ f[T] \in A}
<1>0. n \in Nat /\ \A T \in SUBSET S : IsFiniteSet(T) /\ Cardinality(T) \in 0..n
  BY FS_CardinalityType, FS_Subset
<1>1. 0 \in P
  <2>1. \A T \in SUBSET S : Cardinality(T) = 0 => T = {}
    BY <1>0, FS_EmptySet
  <2>2. g[{}] = base
    BY DEF IsFold
  <2>3. QED
    BY <1>0, <2>1, <2>2 DEF Unfolds
<1>2. ASSUME NEW k \in 1..n, k - 1 \in P PROVE k \in P
  <2>1. SUFFICES ASSUME NEW T \in SUBSET S, Cardinality(T) = k PROVE f[T] = g[T] /\ f[T] \in A
    BY <1>0
  <2>0. k # 0 /\ T # {}
    BY <1>0, <2>1, FS_EmptySet
  <2>2. T # {} /\ ch[T] \in T
    BY <2>0 DEF Picks
  <2>3. Cardinality(T \ {ch[T]}) = k - 1 /\ T \ {ch[T]} \in SUBSET S /\ ch[T] \in S
    BY <1>0, <2>1, <2>2, FS_RemoveElement
  <2>4. f[T \ {ch[T]}] = g[T \ {ch[T]}] /\ f[T \ {ch[T]}] \in A
    BY <1>2, <2>3
  <2>5. g[T] = step[ch[T]][g[T \ {ch[T]}]]
    BY <2>2 DEF IsFold
  <2>6. f[T] = step[ch[T]][f[T \ {ch[T]}]]
    BY <2>2, <2>4 DEF Unfolds
  <2>7. QED
    BY <2>3, <2>4, <2>5, <2>6 DEF KeepsTo
<1>3. \A k \in 0..n : k \in P
  <2> HIDE DEF P, n
  <2>1. QED
    BY <1>0, <1>1, <1>2, PrefixInduction
<1>4. QED
  BY <1>0, <1>3

(* The elements of S have weights w; the sum of those of a set.            *)
Weighs(w, S) == \A x \in S : w[x] \in Nat
SumOf(w, S) == MapThenSumSet(LAMBDA x : w[x], S)

(* Whatever order MapThenSumSet takes its elements in, an element adds its *)
(* weight to the sum of any set it is not in.                              *)
LEMMA SumAdds ==
  ASSUME NEW S, IsFiniteSet(S), NEW w, Weighs(w, S)
  PROVE  /\ SumOf(w, {}) = 0
         /\ \A T \in SUBSET S : SumOf(w, T) \in Nat
         /\ \A T \in SUBSET S : \A x \in S \ T : SumOf(w, T \cup {x}) = SumOf(w, T) + w[x]
<1> DEFINE ch == [T \in SUBSET S |-> CHOOSE x \in T : TRUE]
           step == [x \in S |-> [a \in Nat |-> w[x] + a]]
<1>1. Picks(ch, S)
  BY DEF Picks
<1>2. KeepsTo(Nat, step, S)
  <2>1. \A x \in S : \A a \in Nat : step[x][a] = w[x] + a
    OBVIOUS
  <2> HIDE DEF step
  <2>2. QED
    BY <2>1 DEF KeepsTo, Weighs
<1>3. PICK g \in [SUBSET S -> Nat] : IsFold(g, S, 0, ch, step)
  <2> HIDE DEF ch, step
  <2>1. QED
    BY <1>1, <1>2, FoldExists
<1>4. \A T \in SUBSET S : T # {} =>
        (CHOOSE x \in T : TRUE) \in T /\ ch[T] = CHOOSE x \in T : TRUE
  OBVIOUS
<1>5. \A x \in S : \A a \in Nat : step[x][a] = w[x] + a
  OBVIOUS
<1> HIDE DEF ch, step
<1>6. ASSUME NEW T \in SUBSET S, T # {}
      PROVE  g[T] = w[CHOOSE x \in T : TRUE] + g[T \ {CHOOSE x \in T : TRUE}]
  <2> DEFINE c == CHOOSE x \in T : TRUE
  <2>1. c \in T /\ ch[T] = c
    BY <1>4, <1>6
  <2> HIDE DEF c
  <2>2. g[T] = step[c][g[T \ {c}]]
    BY <1>3, <1>6, <2>1 DEF IsFold
  <2>3. g[T] = w[c] + g[T \ {c}]
    BY <1>5, <2>1, <2>2 DEF Weighs
  <2>4. QED
    BY <2>3 DEF c
<1>7. g[{}] = 0
  BY <1>3 DEF IsFold
<1>8. ASSUME NEW T \in SUBSET S PROVE SumOf(w, T) = g[T]
  <2> DEFINE Eq(it) == it = [s \in SUBSET T |-> IF s = {} THEN 0
                               ELSE w[CHOOSE x \in s : TRUE] + it[s \ {CHOOSE x \in s : TRUE}]]
             iter == CHOOSE it : Eq(it)
             h == [s \in SUBSET T |-> g[s]]
  <2>1. Eq(h)
    <3>1. ASSUME NEW s \in SUBSET T, s # {}
          PROVE  h[s] = w[CHOOSE x \in s : TRUE] + h[s \ {CHOOSE x \in s : TRUE}]
      <4>1. s \in SUBSET S /\ s \ {CHOOSE x \in s : TRUE} \in SUBSET T
        OBVIOUS
      <4>2. h[s] = g[s] /\ h[s \ {CHOOSE x \in s : TRUE}] = g[s \ {CHOOSE x \in s : TRUE}]
        BY <4>1
      <4> HIDE DEF h
      <4>3. QED
        BY <1>6, <3>1, <4>1, <4>2
    <3>2. h[{}] = 0
      BY <1>7
    <3>3. h = [s \in SUBSET T |-> h[s]]
      OBVIOUS
    <3> HIDE DEF h
    <3>4. QED
      BY <3>1, <3>2, <3>3
  <2>2. Eq(iter)
    <3> HIDE DEF h
    <3>1. QED
      BY <2>1
  <2>3. SumOf(w, T) = iter[T]
    BY DEF SumOf, MapThenSumSet, MapThenFoldSet
  <2>4. IsFiniteSet(T) /\ Picks(ch, T) /\ KeepsTo(Nat, step, T) /\ IsFold(g, T, 0, ch, step)
    <3>1. IsFiniteSet(T)
      BY FS_Subset
    <3>2. SUBSET T \subseteq SUBSET S
      OBVIOUS
    <3>3. QED
      BY <1>1, <1>2, <1>3, <3>1, <3>2 DEF Picks, KeepsTo, IsFold
  <2>5. Unfolds(iter, Nat, T, 0, ch, step)
    <3>1. ASSUME NEW s \in SUBSET T, s # {}, iter[s \ {ch[s]}] \in Nat
          PROVE  iter[s] = step[ch[s]][iter[s \ {ch[s]}]]
      <4>1. iter[s] = w[CHOOSE x \in s : TRUE] + iter[s \ {CHOOSE x \in s : TRUE}]
        <5> HIDE DEF iter
        <5>1. QED
          BY <2>2, <3>1
      <4>2. ch[s] = (CHOOSE x \in s : TRUE) /\ ch[s] \in S
        BY <1>4, <3>1
      <4> HIDE DEF iter
      <4>3. QED
        BY <1>5, <3>1, <4>1, <4>2
    <3>2. iter[{}] = 0
      <4> HIDE DEF iter
      <4>1. QED
        BY <2>2
    <3> HIDE DEF iter
    <3>3. QED
      BY <3>1, <3>2 DEF Unfolds
  <2>6. \A s \in SUBSET T : iter[s] = g[s]
    <3> HIDE DEF iter, h, Eq
    <3>1. \A A : \A base \in A : \A c, st, gg, f :
            Picks(c, T) /\ KeepsTo(A, st, T) /\ IsFold(gg, T, base, c, st)
            /\ Unfolds(f, A, T, base, c, st) => \A s \in SUBSET T : f[s] = gg[s]
      BY <2>4, FoldIsUnique
    <3>2. QED
      BY <2>4, <2>5, <3>1, 0 \in Nat
  <2> HIDE DEF iter
  <2>7. QED
    BY <2>3, <2>6
<1> DEFINE n == Cardinality(S)
           P == {k \in 0..n : \A T \in SUBSET S : Cardinality(T) = k =>
                                \A x \in S \ T : g[T \cup {x}] = g[T] + w[x]}
<1>9. n \in Nat /\ \A T \in SUBSET S : IsFiniteSet(T) /\ Cardinality(T) \in 0..n
  BY FS_CardinalityType, FS_Subset
<1>10. ASSUME NEW T \in SUBSET S, NEW x \in S \ T, NEW k \in 0..n, Cardinality(T) = k,
              k # 0 => k - 1 \in P
       PROVE  g[T \cup {x}] = g[T] + w[x]
  <2> DEFINE U == T \cup {x}
             c == CHOOSE y \in U : TRUE
  <2>1. U \in SUBSET S /\ U # {}
    OBVIOUS
  <2>2. c \in U /\ g[U] = w[c] + g[U \ {c}]
    <3> HIDE DEF U
    <3>1. QED
      BY <1>4, <1>6, <2>1
  <2> HIDE DEF c
  <2>3. CASE c = x
    <3>1. U \ {c} = T
      BY <2>3
    <3>2. g[U] = w[x] + g[T]
      <4> HIDE DEF U
      <4>1. QED
        BY <2>2, <2>3, <3>1, Zenon
    <3>3. g[T] \in Nat /\ w[x] \in Nat
      BY DEF Weighs
    <3>4. QED
      BY <3>2, <3>3
  <2>4. CASE c # x
    <3>1. c \in T /\ T \ {c} \in SUBSET S /\ x \in S \ (T \ {c}) /\ c \in S \ (T \ {c})
      BY <2>2, <2>4
    <3>2. Cardinality(T) = k /\ Cardinality(T \ {c}) = k - 1 /\ k # 0
      BY <1>9, <1>10, <3>1, FS_RemoveElement, FS_EmptySet
    <3>3. U \ {c} = (T \ {c}) \cup {x} /\ T = (T \ {c}) \cup {c}
      BY <2>4, <3>1
    <3>4. g[(T \ {c}) \cup {x}] = g[T \ {c}] + w[x] /\ g[(T \ {c}) \cup {c}] = g[T \ {c}] + w[c]
      BY <1>10, <3>1, <3>2
    <3>5. g[T \ {c}] \in Nat /\ w[x] \in Nat /\ w[c] \in Nat
      BY <3>1 DEF Weighs
    <3>6. g[U] = w[c] + (g[T \ {c}] + w[x]) /\ g[T] = g[T \ {c}] + w[c]
      <4> HIDE DEF U
      <4>1. QED
        BY <2>2, <3>3, <3>4
    <3> HIDE DEF U
    <3>7. g[U] = g[T] + w[x]
      BY <3>5, <3>6
    <3>8. QED
      BY <3>7 DEF U
  <2>5. QED
    BY <2>3, <2>4
<1>11. \A k \in 0..n : k \in P
  <2>1. 0 \in P
    <3>1. \A T \in SUBSET S : Cardinality(T) = 0 => \A x \in S \ T : g[T \cup {x}] = g[T] + w[x]
      <4> HIDE DEF P
      <4>1. QED
        BY <1>9, <1>10
    <3>2. QED
      BY <1>9, <3>1
  <2>2. ASSUME NEW k \in 1..n, k - 1 \in P PROVE k \in P
    <3>1. \A T \in SUBSET S : Cardinality(T) = k => \A x \in S \ T : g[T \cup {x}] = g[T] + w[x]
      <4> HIDE DEF P
      <4>1. QED
        BY <1>9, <1>10, <2>2
    <3>2. QED
      BY <1>9, <3>1
  <2> HIDE DEF P, n
  <2>3. QED
    BY <1>9, <2>1, <2>2, PrefixInduction
<1>12. \A T \in SUBSET S : \A x \in S \ T : g[T \cup {x}] = g[T] + w[x]
  BY <1>9, <1>11
<1>13. \A T \in SUBSET S : \A x \in S \ T : T \cup {x} \in SUBSET S
  OBVIOUS
<1>14. QED
  BY <1>7, <1>8, <1>12, <1>13

(* Disjoint sets' sums add up; what is added to a set adds to its sum.     *)
LEMMA SumOfUnion ==
  ASSUME NEW S, IsFiniteSet(S), NEW w, Weighs(w, S),
         NEW A \in SUBSET S, NEW B \in SUBSET S, A \cap B = {}
  PROVE  SumOf(w, A \cup B) = SumOf(w, A) + SumOf(w, B)
<1> DEFINE P == {T \in SUBSET B : SumOf(w, A \cup T) = SumOf(w, A) + SumOf(w, T)}
<1>1. SumOf(w, {}) = 0 /\ \A T \in SUBSET S : SumOf(w, T) \in Nat
  BY SumAdds
<1>2. {} \in P
  <2>1. A \cup {} = A
    OBVIOUS
  <2>2. SumOf(w, A \cup {}) = SumOf(w, A) + SumOf(w, {})
    BY <1>1, <2>1
  <2>3. QED
    BY <2>2
<1>3. ASSUME NEW T \in SUBSET B, NEW x \in B \ T, T \in P PROVE T \cup {x} \in P
  <2>1. SumOf(w, T \cup {x}) = SumOf(w, T) + w[x]
    <3>1. T \in SUBSET S /\ x \in S \ T
      OBVIOUS
    <3>2. QED
      BY <3>1, SumAdds
  <2> DEFINE U == A \cup T
             V == T \cup {x}
  <2>2. SumOf(w, U \cup {x}) = SumOf(w, U) + w[x]
    <3>1. U \in SUBSET S /\ x \in S \ U
      OBVIOUS
    <3> HIDE DEF U
    <3>2. QED
      BY <3>1, SumAdds
  <2>3. SumOf(w, U) = SumOf(w, A) + SumOf(w, T)
    BY <1>3
  <2>4. SumOf(w, A) \in Nat /\ SumOf(w, T) \in Nat /\ w[x] \in Nat
    BY <1>1 DEF Weighs
  <2>5. A \cup V = U \cup {x} /\ V \in SUBSET B
    OBVIOUS
  <2>6. SumOf(w, V) = SumOf(w, T) + w[x]
    BY <2>1
  <2> HIDE DEF U, V, P
  <2>7. SumOf(w, A \cup V) = SumOf(w, A) + SumOf(w, V)
    BY <2>2, <2>3, <2>4, <2>5, <2>6
  <2>8. V \in P
    BY <2>5, <2>7 DEF P
  <2>9. QED
    BY <2>8 DEF V
<1>4. IsFiniteSet(B)
  BY FS_Subset
<1>5. \A T \in SUBSET B : T \in P
  <2> HIDE DEF P
  <2>1. QED
    BY <1>2, <1>3, <1>4, SubsetInduction
<1>6. QED
  BY <1>5

(* A part of a set has no greater sum.                                     *)
LEMMA SumGrows ==
  ASSUME NEW S, IsFiniteSet(S), NEW w, Weighs(w, S),
         NEW B \in SUBSET S, NEW A \in SUBSET B
  PROVE  SumOf(w, A) <= SumOf(w, B)
<1> DEFINE C == B \ A
<1>1. A \in SUBSET S /\ C \in SUBSET S /\ A \cap C = {} /\ A \cup C = B
  OBVIOUS
<1> HIDE DEF C
<1>2. SumOf(w, A \cup C) = SumOf(w, A) + SumOf(w, C)
  BY <1>1, SumOfUnion
<1>3. SumOf(w, A) \in Nat /\ SumOf(w, C) \in Nat
  BY <1>1, SumAdds
<1>4. SumOf(w, B) = SumOf(w, A) + SumOf(w, C)
  BY <1>1, <1>2, Zenon
<1>5. QED
  BY <1>3, <1>4

(* Weights of at most t, or of at least t, bound the sum of a set.         *)
LEMMA SumIsBounded ==
  ASSUME NEW S, IsFiniteSet(S), NEW w, Weighs(w, S), NEW t \in Nat
  PROVE  /\ (\A x \in S : w[x] <= t) => SumOf(w, S) <= t * Cardinality(S)
         /\ (\A x \in S : t <= w[x]) => t * Cardinality(S) <= SumOf(w, S)
<1> DEFINE P == {T \in SUBSET S :
                   /\ (\A x \in S : w[x] <= t) => SumOf(w, T) <= t * Cardinality(T)
                   /\ (\A x \in S : t <= w[x]) => t * Cardinality(T) <= SumOf(w, T)}
<1>1. SumOf(w, {}) = 0 /\ \A T \in SUBSET S : SumOf(w, T) \in Nat
  BY SumAdds
<1>2. {} \in P
  BY <1>1, FS_EmptySet
<1>3. ASSUME NEW T \in SUBSET S, NEW x \in S \ T, T \in P PROVE T \cup {x} \in P
  <2>1. SumOf(w, T \cup {x}) = SumOf(w, T) + w[x]
    BY SumAdds
  <2>2. IsFiniteSet(T) /\ Cardinality(T) \in Nat
    BY FS_Subset, FS_CardinalityType
  <2>3. Cardinality(T \cup {x}) = Cardinality(T) + 1
    BY <2>2, FS_AddElement
  <2>4. t * (Cardinality(T) + 1) = t * Cardinality(T) + t /\ t * Cardinality(T) \in Nat
    BY <2>2
  <2>5. SumOf(w, T) \in Nat /\ w[x] \in Nat
    BY <1>1 DEF Weighs
  <2> DEFINE m == t * Cardinality(T)
  <2>6. m \in Nat /\ t * Cardinality(T \cup {x}) = m + t
    BY <2>3, <2>4
  <2>7. (\A y \in S : w[y] <= t) => SumOf(w, T \cup {x}) <= m + t
    <3>1. ASSUME \A y \in S : w[y] <= t PROVE SumOf(w, T) <= m /\ w[x] <= t
      BY <1>3, <3>1
    <3> HIDE DEF m
    <3>2. QED
      BY <2>1, <2>5, <2>6, <3>1
  <2>8. (\A y \in S : t <= w[y]) => m + t <= SumOf(w, T \cup {x})
    <3>1. ASSUME \A y \in S : t <= w[y] PROVE m <= SumOf(w, T) /\ t <= w[x]
      BY <1>3, <3>1
    <3> HIDE DEF m
    <3>2. QED
      BY <2>1, <2>5, <2>6, <3>1
  <2> HIDE DEF m
  <2>9. QED
    BY <2>6, <2>7, <2>8
<1>4. \A T \in SUBSET S : T \in P
  <2> HIDE DEF P
  <2>1. QED
    BY <1>2, <1>3, SubsetInduction
<1>5. S \in P
  <2> HIDE DEF P
  <2>1. QED
    BY <1>4
<1>6. QED
  BY <1>5

(* A set of no more elements, none of them heavier than the other set's,   *)
(* is no heavier, whatever they share.                                     *)
LEMMA SumOfLighter ==
  ASSUME NEW S, IsFiniteSet(S), NEW w, Weighs(w, S),
         NEW A \in SUBSET S, NEW B \in SUBSET S, Cardinality(A) <= Cardinality(B),
         NEW t \in Nat, \A x \in A \ B : w[x] <= t, \A x \in B \ A : t <= w[x]
  PROVE  SumOf(w, A) <= SumOf(w, B)
<1> DEFINE C == A \cap B
           D == A \ B
           E == B \ A
<1>1. /\ C \in SUBSET S /\ D \in SUBSET S /\ E \in SUBSET S
      /\ C \cap D = {} /\ C \cap E = {} /\ A = C \cup D /\ B = C \cup E
  OBVIOUS
<1>2. /\ IsFiniteSet(A) /\ IsFiniteSet(B) /\ IsFiniteSet(D) /\ IsFiniteSet(E)
      /\ Cardinality(D) \in Nat /\ Cardinality(E) \in Nat
      /\ Cardinality(A) \in Nat /\ Cardinality(B) \in Nat /\ Cardinality(C) \in Nat
  BY <1>1, FS_Subset, FS_CardinalityType
<1>3. Cardinality(D) = Cardinality(A) - Cardinality(C) /\ Cardinality(E) = Cardinality(B) - Cardinality(C)
  <2>1. B \cap A = C
    OBVIOUS
  <2>2. QED
    BY <1>2, <2>1, FS_Difference
<1>4. Cardinality(D) <= Cardinality(E)
  BY <1>2, <1>3
<1>5. SumOf(w, A) = SumOf(w, C) + SumOf(w, D) /\ SumOf(w, B) = SumOf(w, C) + SumOf(w, E)
  <2> HIDE DEF C, D, E
  <2>1. SumOf(w, C \cup D) = SumOf(w, C) + SumOf(w, D)
    BY <1>1, SumOfUnion
  <2>2. SumOf(w, C \cup E) = SumOf(w, C) + SumOf(w, E)
    BY <1>1, SumOfUnion
  <2>3. QED
    BY <1>1, <2>1, <2>2
<1>6. SumOf(w, D) <= t * Cardinality(D)
  <2>1. Weighs(w, D) /\ \A x \in D : w[x] <= t
    BY DEF Weighs
  <2> HIDE DEF D
  <2>2. QED
    BY <1>2, <2>1, SumIsBounded
<1>7. t * Cardinality(E) <= SumOf(w, E)
  <2>1. Weighs(w, E) /\ \A x \in E : t <= w[x]
    BY DEF Weighs
  <2> HIDE DEF E
  <2>2. QED
    BY <1>2, <2>1, SumIsBounded
<1>8. \A m, n \in Nat : m <= n => t * m <= t * n
  OBVIOUS
<1>9. t * Cardinality(D) <= t * Cardinality(E)
  <2> HIDE DEF D, E
  <2>1. QED
    BY <1>2, <1>4, <1>8
<1>10. SumOf(w, C) \in Nat /\ SumOf(w, D) \in Nat /\ SumOf(w, E) \in Nat
  <2> HIDE DEF C, D, E
  <2>1. QED
    BY <1>1, SumAdds
<1>11. t * Cardinality(D) \in Nat /\ t * Cardinality(E) \in Nat
  BY <1>2
<1>12. SumOf(w, D) <= SumOf(w, E)
  <2> DEFINE d == t * Cardinality(D)
             e == t * Cardinality(E)
  <2>1. d \in Nat /\ e \in Nat /\ SumOf(w, D) <= d /\ d <= e /\ e <= SumOf(w, E)
    BY <1>6, <1>7, <1>9, <1>11
  <2> HIDE DEF d, e, D, E
  <2>2. QED
    BY <1>10, <2>1
<1> HIDE DEF C, D, E
<1>13. QED
  BY <1>5, <1>10, <1>12

(* A function from 1..n is a list of n.                                    *)
LEMMA ListOfFunction ==
  ASSUME NEW n \in Nat, NEW S, NEW f \in [1..n -> S]
  PROVE  f \in Seq(S) /\ Len(f) = n /\ DOMAIN f = 1..n
<1>1. f = [k \in 1..n |-> f[k]] /\ \A k \in 1..n : f[k] \in S
  OBVIOUS
<1>2. [k \in 1..n |-> f[k]] \in Seq(S) /\ Len([k \in 1..n |-> f[k]]) = n
  BY <1>1
<1>3. QED
  BY <1>1, <1>2

(* The first n numbers are n.                                              *)
LEMMA PrefixCounts ==
  ASSUME NEW n \in Nat
  PROVE  IsFiniteSet(1..n) /\ Cardinality(1..n) = n
<1>1. 1 \in Int /\ n \in Int /\ (IF 1 > n THEN 0 ELSE n - 1 + 1) = n
  OBVIOUS
<1>2. QED
  BY <1>1, FS_Interval

(* A set and its image under a one-to-one function are equally many.       *)
LEMMA ImageCounts ==
  ASSUME NEW S, IsFiniteSet(S), NEW T, NEW f \in [S -> T],
         \A x, y \in S : f[x] = f[y] => x = y, \A t \in T : \E x \in S : f[x] = t
  PROVE  IsFiniteSet(T) /\ Cardinality(T) = Cardinality(S)
<1>1. f \in Bijection(S, T)
  BY DEF Bijection, Injection, Surjection, IsInjective
<1>2. ExistsBijection(S, T)
  BY <1>1 DEF ExistsBijection
<1>3. QED
  BY <1>2, FS_Bijection

(* The elements of a list at some of its places, named by where they were. *)
PlacesOf(p, part, list, where) ==
  /\ p \in [1..Cardinality(where) -> where] /\ Cardinality(where) \in Nat
  /\ \A i \in where : \E k \in 1..Cardinality(where) : p[k] = i
  /\ \A j, k \in 1..Cardinality(where) : p[j] < p[k] <=> j < k
  /\ \A j, k \in 1..Cardinality(where) : p[j] = p[k] => j = k
  /\ Len(part) = Cardinality(where) /\ DOMAIN part = 1..Cardinality(where)
  /\ \A k \in 1..Cardinality(where) : part[k] = list[p[k]]

(* The elements at some places are taken from these places in their order. *)
LEMMA ElementsAtPlaces ==
  ASSUME NEW A, NEW list \in Seq(A), NEW where \in SUBSET (1..Len(list))
  PROVE  \E p : PlacesOf(p, ElementsAt(list, where), list, where)
<1> DEFINE p == Ascending(where)
           n == Cardinality(where)
           part == ElementsAt(list, where)
<1>1. IsFiniteSet(where) /\ where \in SUBSET Int
  <2>1. IsFiniteSet(1..Len(list)) /\ Len(list) \in Nat
    BY FS_Interval, LenProperties
  <2>2. IsFiniteSet(where)
    BY <2>1, FS_Subset
  <2>3. QED
    BY <2>1, <2>2
<1>2. /\ p \in [1..n -> where] /\ n \in Nat
      /\ \A x \in where : \E k \in 1..n : p[k] = x
      /\ \A j, k \in 1..n : p[j] < p[k] <=> j < k
  BY <1>1, AscendingLists
<1>3. part \in Seq(A) /\ Len(part) = n /\ \A k \in 1..n : part[k] = list[p[k]]
  BY ElementsAtLists
<1>4. DOMAIN part = 1..n
  BY <1>3, LenProperties
<1> HIDE DEF p, n, part
<1>5. \A j, k \in 1..n : p[j] = p[k] => j = k
  <2> SUFFICES ASSUME NEW j \in 1..n, NEW k \in 1..n, p[j] = p[k], j # k PROVE FALSE
    OBVIOUS
  <2>1. j < k \/ k < j
    BY <1>2
  <2>2. p[j] \in Int /\ p[k] \in Int
    BY <1>1, <1>2
  <2>3. QED
    BY <1>2, <2>1, <2>2
<1>6. PlacesOf(p, part, list, where)
  BY <1>2, <1>3, <1>4, <1>5 DEF PlacesOf, n
<1>7. QED
  BY <1>6 DEF part
==================================================================================
