---------------------------- MODULE StyleFixesProofs ----------------------------
(***************************************************************************)
(* From a formatter's output to the fixes, for all texts: the blocks of    *)
(* the diff are the whole difference, fixes replace the blocks' lines,     *)
(* and a text without its wrapper has the hunk's tokens.                   *)
(***************************************************************************)
EXTENDS Patches, StyleFixes, CollectionProofs

(* Lists joined one after the other.                                       *)
Joins(h, A, seqs) ==
  /\ h \in [0..Len(seqs) -> Seq(A)] /\ h[0] = <<>>
  /\ \A k \in 1..Len(seqs) : h[k] = h[k - 1] \o seqs[k]

(* FlattenSeq joins its lists from the first to the last.                  *)
LEMMA FlattenJoins ==
  ASSUME NEW A, NEW seqs \in Seq(Seq(A))
  PROVE  \E h : Joins(h, A, seqs) /\ FlattenSeq(seqs) = h[Len(seqs)]
<1> DEFINE n == Len(seqs)
           S == 1..n
           Eq(f) == f = [i \in 1..n |-> IF i = 1 THEN seqs[i] ELSE f[i - 1] \o seqs[i]]
           flatten == CHOOSE f : Eq(f)
           step == [k \in S |-> [a \in Seq(A) |-> a \o seqs[k]]]
           base == <<>>
<1>1. n \in Nat /\ DOMAIN seqs = S /\ \A i \in S : seqs[i] \in Seq(A)
  <2>1. \A i \in S : seqs[i] \in Seq(A)
    BY ElementOfSeq
  <2>2. n \in Nat /\ DOMAIN seqs = S
    BY LenProperties
  <2>3. QED
    BY <2>1, <2>2
<1>2. base \in Seq(A)
  OBVIOUS
<1>3. KeepsTo(Seq(A), step, S) /\ \A k \in S : \A a \in Seq(A) : step[k][a] = a \o seqs[k]
  <2>1. \A k \in S : \A a \in Seq(A) : step[k][a] = a \o seqs[k]
    OBVIOUS
  <2> HIDE DEF step, S
  <2>2. \A k \in S : \A a \in Seq(A) : a \o seqs[k] \in Seq(A)
    BY <1>1, ConcatProperties
  <2>3. QED
    BY <2>1, <2>2 DEF KeepsTo
<1> HIDE DEF step, base, n
<1>4. PICK g \in [SUBSET S -> Seq(A)] : IsLeftFold(g, n, base, step)
  BY <1>1, <1>2, <1>3, LeftFoldExists
<1> DEFINE h == [k \in 1..n |-> g[1..k]]
           join == [k \in 0..n |-> g[1..k]]
<1>5. \A k \in S : /\ g[1..k] = g[1..(k - 1)] \o seqs[k]
                   /\ g[1..(k - 1)] \in Seq(A) /\ g[1..k] \in Seq(A)
  <2> SUFFICES ASSUME NEW k \in S PROVE /\ g[1..k] = g[1..(k - 1)] \o seqs[k]
                                        /\ g[1..(k - 1)] \in Seq(A) /\ g[1..k] \in Seq(A)
    OBVIOUS
  <2>1. k \in Nat \ {0} /\ 1..k \in SUBSET S /\ 1..(k - 1) \in SUBSET S
    BY <1>1
  <2>2. Max(1..k) = k /\ (1..k) \ {Max(1..k)} = 1..(k - 1) /\ 1..k # {}
    BY <2>1, MaxOfPrefix
  <2>3. g[1..k] = step[Max(1..k)][g[(1..k) \ {Max(1..k)}]]
    BY <1>4, <2>1, <2>2 DEF IsLeftFold
  <2>4. g[1..k] = step[k][g[1..(k - 1)]]
    BY <2>2, <2>3
  <2>5. g[1..(k - 1)] \in Seq(A) /\ g[1..k] \in Seq(A)
    <3> HIDE DEF S
    <3>1. QED
      BY <1>4, <2>1
  <2>6. QED
    BY <1>3, <2>4, <2>5
<1>6. g[{}] = <<>>
  BY <1>4 DEF IsLeftFold, base
<1>7. Eq(h)
  <2>1. \A i \in S : h[i] = IF i = 1 THEN seqs[i] ELSE h[i - 1] \o seqs[i]
    <3> SUFFICES ASSUME NEW i \in S PROVE h[i] = IF i = 1 THEN seqs[i] ELSE h[i - 1] \o seqs[i]
      OBVIOUS
    <3>1. h[i] = g[1..(i - 1)] \o seqs[i]
      BY <1>5
    <3>2. CASE i = 1
      <4>1. 1..(i - 1) = {}
        BY <3>2
      <4>2. g[1..(i - 1)] = <<>>
        BY <1>6, <4>1
      <4>3. <<>> \o seqs[i] = seqs[i]
        BY <1>1, ConcatEmptySeq
      <4> HIDE DEF h
      <4>4. QED
        BY <3>1, <3>2, <4>2, <4>3
    <3>3. CASE i # 1
      <4>1. i - 1 \in 1..n
        BY <1>1, <3>3
      <4>2. h[i - 1] = g[1..(i - 1)]
        BY <4>1
      <4> HIDE DEF h
      <4>3. QED
        BY <3>1, <3>3, <4>2
    <3>4. QED
      BY <3>2, <3>3
  <2>2. QED
    BY <2>1
<1>8. Eq(flatten)
  <2> HIDE DEF Eq, h
  <2>1. QED
    BY <1>7
<1>9. \A i \in S : flatten[i] = IF i = 1 THEN seqs[i] ELSE flatten[i - 1] \o seqs[i]
  <2> HIDE DEF flatten
  <2>1. QED
    BY <1>8
<1>10. FlattenSeq(seqs) = IF n = 0 THEN seqs ELSE flatten[n]
  BY Zenon DEF FlattenSeq, n
<1> HIDE DEF flatten, Eq, h
<1>11. Joins(join, A, seqs)
  <2>1. join[0] = <<>>
    <3>1. 1..0 = {} /\ 0 \in 0..n
      BY <1>1
    <3>2. join[0] = g[1..0]
      BY <3>1
    <3> HIDE DEF join
    <3>3. QED
      BY <1>6, <3>1, <3>2
  <2>2. \A k \in 0..n : 1..k \in SUBSET S
    BY <1>1
  <2>3. join \in [0..n -> Seq(A)]
    <3>1. \A k \in 0..n : g[1..k] \in Seq(A)
      <4> HIDE DEF S
      <4>1. QED
        BY <1>4, <2>2
    <3>2. QED
      BY <3>1
  <2>4. \A k \in 1..n : join[k] = join[k - 1] \o seqs[k]
    <3> SUFFICES ASSUME NEW k \in S PROVE join[k] = join[k - 1] \o seqs[k]
      OBVIOUS
    <3>1. join[k] = g[1..k] /\ join[k - 1] = g[1..(k - 1)]
      BY <1>1
    <3> HIDE DEF join
    <3>2. QED
      BY <1>5, <3>1
  <2> HIDE DEF join
  <2>5. QED
    BY <2>1, <2>3, <2>4 DEF Joins, n
<1>12. join \in [0..n -> Seq(A)] /\ join[0] = <<>>
       /\ \A k \in 1..n : join[k] = join[k - 1] \o seqs[k]
  <2> HIDE DEF join
  <2>1. QED
    BY <1>11 DEF Joins, n
<1>13. FlattenSeq(seqs) = join[n]
  <2>1. CASE n = 0
    <3>1. seqs = <<>>
      BY <2>1, EmptySeq DEF n
    <3> HIDE DEF join
    <3>2. QED
      BY <1>10, <1>12, <2>1, <3>1
  <2>2. CASE n # 0
    <3> DEFINE P == {k \in 0..n : k # 0 => flatten[k] = join[k]}
    <3>1. 0 \in P
      BY <1>1
    <3>2. ASSUME NEW k \in 1..n, k - 1 \in P PROVE k \in P
      <4> HIDE DEF join
      <4>1. CASE k = 1
        <5>0. k - 1 = 0
          BY <4>1
        <5>01. join[k] = join[k - 1] \o seqs[k]
          BY <1>12
        <5>1. join[k] = <<>> \o seqs[k]
          BY Zenon, <1>12, <5>0, <5>01
        <5>2. <<>> \o seqs[k] = seqs[k]
          BY <1>1, ConcatEmptySeq
        <5>3. flatten[k] = seqs[k]
          BY <1>9, <4>1
        <5>4. k \in 0..n
          BY <1>1
        <5>5. QED
          BY <5>1, <5>2, <5>3, <5>4
      <4>2. CASE k # 1
        <5>1. k - 1 # 0 /\ k \in 0..n
          BY <1>1, <4>2
        <5>2. flatten[k - 1] = join[k - 1]
          BY <3>2, <5>1
        <5>3. QED
          BY ZenonT(60), <1>9, <1>12, <4>2, <5>1, <5>2
      <4>3. QED
        BY <4>1, <4>2
    <3>3. \A k \in 0..n : k \in P
      <4> HIDE DEF P
      <4>1. QED
        BY <1>1, <3>1, <3>2, PrefixInduction
    <3>4. n \in P
      BY <1>1, <3>3
    <3> HIDE DEF join
    <3>5. QED
      BY <1>10, <2>2, <3>4
  <2>3. QED
    BY <2>1, <2>2
<1>14. QED
  BY <1>11, <1>13 DEF n

(* What FlattenSeq's list has in it.                                       *)
LEMMA FlattenRange ==
  ASSUME NEW A, NEW seqs \in Seq(Seq(A))
  PROVE  /\ FlattenSeq(seqs) \in Seq(A)
         /\ Range(FlattenSeq(seqs)) = UNION {Range(seqs[i]) : i \in DOMAIN seqs}
<1> DEFINE n == Len(seqs)
<1>1. PICK h : Joins(h, A, seqs) /\ FlattenSeq(seqs) = h[n]
  BY FlattenJoins
<1>2. n \in Nat /\ DOMAIN seqs = 1..n /\ \A i \in 1..n : seqs[i] \in Seq(A)
  BY LenProperties, ElementOfSeq
<1>3. /\ h \in [0..n -> Seq(A)] /\ h[0] = <<>>
      /\ \A k \in 1..n : h[k] = h[k - 1] \o seqs[k]
  BY <1>1 DEF Joins
<1> HIDE DEF n
<1> DEFINE U(k) == UNION {Range(seqs[i]) : i \in 1..k}
           P == {k \in 0..n : Range(h[k]) = U(k)}
<1>4. 0 \in P
  <2>1. U(0) = {} /\ 0 \in 0..n
    <3>1. 1..0 = {} /\ 0 \in 0..n
      BY <1>2
    <3>2. QED
      BY <3>1
  <2>2. Range(<<>>) = {}
    BY DEF Range
  <2> HIDE DEF U
  <2>3. QED
    BY <1>3, <2>1, <2>2
<1>5. ASSUME NEW k \in 1..n, k - 1 \in P PROVE k \in P
  <2>1. h[k - 1] \in Seq(A) /\ seqs[k] \in Seq(A) /\ h[k] = h[k - 1] \o seqs[k]
    <3>1. k - 1 \in 0..n
      BY <1>2
    <3>2. QED
      BY <1>2, <1>3, <3>1
  <2>2. Range(h[k]) = Range(h[k - 1]) \cup Range(seqs[k])
    BY <2>1, RangeConcatenation
  <2>3. U(k) = U(k - 1) \cup Range(seqs[k])
    <3>1. \A i \in 1..k : i \in 1..(k - 1) \/ i = k
      BY <1>2
    <3>2. k \in 1..k /\ \A i \in 1..(k - 1) : i \in 1..k
      BY <1>2
    <3>3. QED
      BY <3>1, <3>2
  <2>4. Range(h[k - 1]) = U(k - 1) /\ k \in 0..n
    BY <1>2, <1>5
  <2> HIDE DEF U
  <2>5. QED
    BY <2>2, <2>3, <2>4
<1>6. \A k \in 0..n : k \in P
  <2> HIDE DEF P
  <2>1. QED
    BY <1>2, <1>4, <1>5, PrefixInduction
<1>7. n \in 0..n
  BY <1>2
<1>8. QED
  BY <1>1, <1>2, <1>3, <1>6, <1>7

---------------------------------------------------------------------------------
(* The two texts' lines in pairs.                                          *)

(* Lines i of a and m[i] of b are the same line, where m[i] # 0, of those  *)
(* before i and j; those in A and B are in a block, and the others are     *)
(* matched and equal.                                                      *)
Matched(a, b, i, j, m, A, B) ==
  /\ m \in [1..Len(a) -> Nat]
  /\ A \in SUBSET (1..(i - 1)) /\ B \in SUBSET (1..(j - 1))
  /\ \A p \in 1..Len(a) : p >= i => m[p] = 0
  /\ \A p \in 1..(i - 1) : m[p] = 0 => p \in A
  /\ \A p \in 1..(i - 1) : m[p] # 0 =>
       /\ m[p] \in 1..(j - 1)
       /\ p \in A <=> m[p] \in B
       /\ p \notin A => a[p] = b[m[p]]
  /\ \A q \in 1..(j - 1) : q \notin B => \E p \in 1..(i - 1) : m[p] = q
  /\ \A p, q \in 1..(i - 1) : p < q /\ m[p] # 0 /\ m[q] # 0 => m[p] < m[q]

(* Two lines are paired: in a block of their own, or the same.             *)
LEMMA PairMatches ==
  ASSUME NEW X, NEW a \in Seq(X), NEW b \in Seq(X), NEW i \in 1..Len(a), NEW j \in 1..Len(b),
         NEW m, NEW A, NEW B, Matched(a, b, i, j, m, A, B),
         NEW block \in BOOLEAN, ~block => a[i] = b[j]
  PROVE  Matched(a, b, i + 1, j + 1, [m EXCEPT ![i] = j],
                 IF block THEN A \cup {i} ELSE A, IF block THEN B \cup {j} ELSE B)
<1> DEFINE n == Len(a)
           k == [m EXCEPT ![i] = j]
           C == IF block THEN A \cup {i} ELSE A
           D == IF block THEN B \cup {j} ELSE B
<1>1. n \in Nat /\ Len(b) \in Nat
  BY LenProperties
<1>2. /\ m \in [1..n -> Nat]
      /\ A \in SUBSET (1..(i - 1)) /\ B \in SUBSET (1..(j - 1))
      /\ \A p \in 1..n : p >= i => m[p] = 0
      /\ \A p \in 1..(i - 1) : m[p] = 0 => p \in A
      /\ \A p \in 1..(i - 1) : m[p] # 0 =>
           /\ m[p] \in 1..(j - 1)
           /\ p \in A <=> m[p] \in B
           /\ p \notin A => a[p] = b[m[p]]
      /\ \A q \in 1..(j - 1) : q \notin B => \E p \in 1..(i - 1) : m[p] = q
      /\ \A p, q \in 1..(i - 1) : p < q /\ m[p] # 0 /\ m[q] # 0 => m[p] < m[q]
  BY DEF Matched
<1>3. i \in Nat \ {0} /\ j \in Nat \ {0} /\ (i + 1) - 1 = i /\ (j + 1) - 1 = j /\ i \in 1..n
  BY <1>1
<1> HIDE DEF n
<1>4. k \in [1..n -> Nat] /\ k[i] = j /\ \A p \in 1..n : p # i => k[p] = m[p]
  BY <1>2, <1>3
<1> HIDE DEF k
<1>5. /\ \A p \in 1..i : p = i \/ (p \in 1..(i - 1) /\ p # i /\ p \in 1..n)
      /\ \A p \in 1..(i - 1) : p \in 1..i
      /\ \A q \in 1..j : q = j \/ (q \in 1..(j - 1) /\ q # j)
      /\ \A q \in 1..(j - 1) : q \in 1..j
      /\ i \notin 1..(i - 1) /\ j \notin 1..(j - 1) /\ i \in 1..i /\ j \in 1..j
  BY <1>1, <1>3 DEF n
<1>6. C \in SUBSET (1..i) /\ D \in SUBSET (1..j)
  BY <1>2, <1>5
<1>7. \A p \in 1..(i - 1) : k[p] = m[p] /\ (p \in C <=> p \in A)
  BY <1>4, <1>5
<1>8. \A q \in 1..(j - 1) : q \in D <=> q \in B
  BY <1>5
<1>9. (i \in C <=> block) /\ (j \in D <=> block)
  BY <1>2, <1>5
<1> HIDE DEF C, D
<1>10. \A p \in 1..n : p >= i + 1 => k[p] = 0
  <2> SUFFICES ASSUME NEW p \in 1..n, p >= i + 1 PROVE k[p] = 0
    OBVIOUS
  <2>1. p >= i /\ p # i
    BY <1>1, <1>3
  <2>2. QED
    BY <1>2, <1>4, <2>1
<1>11. \A p \in 1..i : k[p] = 0 => p \in C
  BY <1>2, <1>3, <1>4, <1>5, <1>7
<1>12. \A p \in 1..i : k[p] # 0 =>
         /\ k[p] \in 1..j
         /\ p \in C <=> k[p] \in D
         /\ p \notin C => a[p] = b[k[p]]
  <2> SUFFICES ASSUME NEW p \in 1..i, k[p] # 0
               PROVE  /\ k[p] \in 1..j
                      /\ p \in C <=> k[p] \in D
                      /\ p \notin C => a[p] = b[k[p]]
    OBVIOUS
  <2>1. CASE p = i
    BY <1>4, <1>5, <1>9, <2>1
  <2>2. CASE p \in 1..(i - 1)
    <3>1. k[p] = m[p] /\ (p \in C <=> p \in A)
      BY <1>7, <2>2
    <3>2. m[p] \in 1..(j - 1) /\ (p \in A <=> m[p] \in B) /\ (p \notin A => a[p] = b[m[p]])
      BY <1>2, <2>2, <3>1
    <3>3. m[p] \in D <=> m[p] \in B
      BY <1>8, <3>2
    <3>4. QED
      BY <1>5, <3>1, <3>2, <3>3
  <2>3. QED
    BY <1>5, <2>1, <2>2
<1>13. \A q \in 1..j : q \notin D => \E p \in 1..i : k[p] = q
  <2> SUFFICES ASSUME NEW q \in 1..j, q \notin D PROVE \E p \in 1..i : k[p] = q
    OBVIOUS
  <2>1. CASE q = j
    BY <1>4, <1>5, <2>1
  <2>2. CASE q \in 1..(j - 1)
    <3>1. PICK p \in 1..(i - 1) : m[p] = q
      BY <1>2, <1>8, <2>2
    <3>2. QED
      BY <1>5, <1>7, <3>1
  <2>3. QED
    BY <1>5, <2>1, <2>2
<1>14. \A p, q \in 1..i : p < q /\ k[p] # 0 /\ k[q] # 0 => k[p] < k[q]
  <2> SUFFICES ASSUME NEW p \in 1..i, NEW q \in 1..i, p < q, k[p] # 0, k[q] # 0
               PROVE  k[p] < k[q]
    OBVIOUS
  <2>1. p \in 1..(i - 1) /\ k[p] = m[p]
    <3>1. p # i
      BY <1>3
    <3>2. QED
      BY <1>5, <1>7, <3>1
  <2>2. CASE q = i
    <3>1. m[p] \in 1..(j - 1)
      BY <1>2, <2>1
    <3>2. QED
      BY <1>3, <1>4, <2>1, <2>2, <3>1
  <2>3. CASE q \in 1..(i - 1)
    BY <1>2, <1>7, <2>1, <2>3
  <2>4. QED
    BY <1>5, <2>2, <2>3
<1>15. QED
  BY <1>3, <1>4, <1>6, <1>10, <1>11, <1>12, <1>13, <1>14 DEF Matched, n, k, C, D

(* A line of b is left out of the pairs.                                   *)
LEMMA InsertMatches ==
  ASSUME NEW X, NEW a \in Seq(X), NEW b, NEW i \in 1..(Len(a) + 1), NEW j \in Nat \ {0},
         NEW m, NEW A, NEW B, Matched(a, b, i, j, m, A, B)
  PROVE  Matched(a, b, i, j + 1, m, A, B \cup {j})
<1> DEFINE n == Len(a)
           D == B \cup {j}
<1>1. /\ m \in [1..n -> Nat]
      /\ A \in SUBSET (1..(i - 1)) /\ B \in SUBSET (1..(j - 1))
      /\ \A p \in 1..n : p >= i => m[p] = 0
      /\ \A p \in 1..(i - 1) : m[p] = 0 => p \in A
      /\ \A p \in 1..(i - 1) : m[p] # 0 =>
           /\ m[p] \in 1..(j - 1)
           /\ p \in A <=> m[p] \in B
           /\ p \notin A => a[p] = b[m[p]]
      /\ \A q \in 1..(j - 1) : q \notin B => \E p \in 1..(i - 1) : m[p] = q
      /\ \A p, q \in 1..(i - 1) : p < q /\ m[p] # 0 /\ m[q] # 0 => m[p] < m[q]
  BY DEF Matched
<1>2. (j + 1) - 1 = j /\ j \notin 1..(j - 1) /\ j \in 1..j /\ (\A q \in 1..(j - 1) : q \in 1..j)
      /\ \A q \in 1..j : q = j \/ q \in 1..(j - 1)
  OBVIOUS
<1>3. D \in SUBSET (1..j) /\ j \in D /\ \A q \in 1..(j - 1) : q \in D <=> q \in B
  BY <1>1, <1>2
<1> HIDE DEF D, n
<1>4. \A p \in 1..(i - 1) : m[p] # 0 =>
        /\ m[p] \in 1..j
        /\ p \in A <=> m[p] \in D
        /\ p \notin A => a[p] = b[m[p]]
  BY <1>1, <1>2, <1>3
<1>5. \A q \in 1..j : q \notin D => \E p \in 1..(i - 1) : m[p] = q
  BY <1>1, <1>2, <1>3
<1>6. QED
  BY <1>1, <1>2, <1>3, <1>4, <1>5 DEF Matched, D, n

(* A line of a is left out of the pairs.                                   *)
LEMMA DeleteMatches ==
  ASSUME NEW X, NEW a \in Seq(X), NEW b, NEW i \in 1..Len(a), NEW j \in Nat \ {0},
         NEW m, NEW A, NEW B, Matched(a, b, i, j, m, A, B)
  PROVE  Matched(a, b, i + 1, j, m, A \cup {i}, B) /\ m[i] = 0
<1> DEFINE n == Len(a)
           C == A \cup {i}
<1>1. /\ m \in [1..n -> Nat]
      /\ A \in SUBSET (1..(i - 1)) /\ B \in SUBSET (1..(j - 1))
      /\ \A p \in 1..n : p >= i => m[p] = 0
      /\ \A p \in 1..(i - 1) : m[p] = 0 => p \in A
      /\ \A p \in 1..(i - 1) : m[p] # 0 =>
           /\ m[p] \in 1..(j - 1)
           /\ p \in A <=> m[p] \in B
           /\ p \notin A => a[p] = b[m[p]]
      /\ \A q \in 1..(j - 1) : q \notin B => \E p \in 1..(i - 1) : m[p] = q
      /\ \A p, q \in 1..(i - 1) : p < q /\ m[p] # 0 /\ m[q] # 0 => m[p] < m[q]
  BY DEF Matched
<1>2. n \in Nat
  BY LenProperties
<1>3. (i + 1) - 1 = i /\ i \notin 1..(i - 1) /\ i \in 1..i /\ (\A q \in 1..(i - 1) : q \in 1..i)
      /\ \A q \in 1..i : q = i \/ q \in 1..(i - 1)
  BY <1>2
<1>4. m[i] = 0
  BY <1>1, <1>2
<1>5. C \in SUBSET (1..i) /\ i \in C /\ \A q \in 1..(i - 1) : q \in C <=> q \in A
  BY <1>1, <1>3
<1>6. \A p \in 1..n : p >= i + 1 => m[p] = 0
  BY <1>1, <1>2
<1> HIDE DEF C, n
<1>7. \A p \in 1..i : m[p] = 0 => p \in C
  BY <1>1, <1>3, <1>5
<1>8. \A p \in 1..i : m[p] # 0 =>
        /\ m[p] \in 1..(j - 1)
        /\ p \in C <=> m[p] \in B
        /\ p \notin C => a[p] = b[m[p]]
  BY <1>1, <1>3, <1>4, <1>5
<1>9. \A q \in 1..(j - 1) : q \notin B => \E p \in 1..i : m[p] = q
  BY <1>1, <1>3
<1>10. \A p, q \in 1..i : p < q /\ m[p] # 0 /\ m[q] # 0 => m[p] < m[q]
  BY <1>1, <1>3, <1>4
<1>11. QED
  BY <1>1, <1>3, <1>4, <1>5, <1>6, <1>7, <1>8, <1>9, <1>10 DEF Matched, C, n

(* The lines no block covers are the same in both texts, in their order.   *)
LEMMA TheRestIsTheSame ==
  ASSUME NEW X, NEW a \in Seq(X), NEW b \in Seq(X), NEW m, NEW A, NEW B,
         Matched(a, b, Len(a) + 1, Len(b) + 1, m, A, B),
         NEW S \in SUBSET (1..Len(a)), \A i \in 1..Len(a) : i \in S <=> i \notin A,
         NEW T \in SUBSET (1..Len(b)), \A j \in 1..Len(b) : j \in T <=> j \notin B
  PROVE  ElementsAt(a, S) = ElementsAt(b, T)
<1> DEFINE n == Len(a)
           k == Len(b)
           f == [i \in S |-> m[i]]
           c == Cardinality(S)
<1>1. n \in Nat /\ k \in Nat /\ (n + 1) - 1 = n /\ (k + 1) - 1 = k
      /\ IsFiniteSet(1..n) /\ IsFiniteSet(1..k)
  BY LenProperties, FS_Interval
<1>2. /\ \A p \in 1..n : m[p] = 0 => p \in A
      /\ \A p \in 1..n : m[p] # 0 =>
           /\ m[p] \in 1..k
           /\ p \in A <=> m[p] \in B
           /\ p \notin A => a[p] = b[m[p]]
      /\ \A q \in 1..k : q \notin B => \E p \in 1..n : m[p] = q
      /\ \A p, q \in 1..n : p < q /\ m[p] # 0 /\ m[q] # 0 => m[p] < m[q]
  BY <1>1 DEF Matched
<1> HIDE DEF n, k
<1>3. \A i \in S : i \in 1..n /\ m[i] \in T /\ a[i] = b[m[i]] /\ m[i] # 0
  BY <1>2 DEF n, k
<1>4. \A j \in T : \E i \in S : m[i] = j
  <2> SUFFICES ASSUME NEW j \in T PROVE \E i \in S : m[i] = j
    OBVIOUS
  <2>1. j \in 1..k /\ j \notin B
    BY DEF k
  <2>2. PICK i \in 1..n : m[i] = j
    BY <1>2, <2>1
  <2>3. m[i] # 0 /\ i \notin A
    BY <1>2, <2>1, <2>2
  <2>4. QED
    BY <2>2, <2>3 DEF n
<1>5. \A i, j \in S : i < j => m[i] < m[j]
  BY <1>2, <1>3
<1>6. T \in SUBSET Int /\ S \in SUBSET Int
  BY DEF k
<1>7. f \in [S -> T] /\ \A i \in S : f[i] = m[i]
  BY <1>3
<1> HIDE DEF f
<1>8. \A i, j \in S : f[i] = f[j] => i = j
  <2> SUFFICES ASSUME NEW i \in S, NEW j \in S, f[i] = f[j], i # j PROVE FALSE
    OBVIOUS
  <2>1. i \in Int /\ j \in Int /\ m[i] = m[j] /\ m[i] \in Int
    BY <1>3, <1>6, <1>7
  <2>2. i < j \/ j < i
    BY <2>1
  <2>3. QED
    BY <1>5, <2>1, <2>2
<1>9. IsFiniteSet(S)
  BY <1>1, FS_Subset DEF n
<1>10. Cardinality(T) = c
  <2>1. \A j \in T : \E i \in S : f[i] = j
    BY <1>4, <1>7
  <2>2. QED
    BY ZenonT(60), <1>7, <1>8, <1>9, <2>1, ImageCounts
<1>11. PICK p : PlacesOf(p, ElementsAt(a, S), a, S)
  BY ElementsAtPlaces
<1>12. PICK q : PlacesOf(q, ElementsAt(b, T), b, T)
  BY ElementsAtPlaces
<1>13. /\ p \in [1..c -> S] /\ c \in Nat
       /\ \A i \in S : \E r \in 1..c : p[r] = i
       /\ \A r, s \in 1..c : p[r] < p[s] <=> r < s
       /\ Len(ElementsAt(a, S)) = c
       /\ \A r \in 1..c : ElementsAt(a, S)[r] = a[p[r]]
  BY <1>11 DEF PlacesOf
<1>14. /\ q \in [1..c -> T]
       /\ \A j \in T : \E r \in 1..c : q[r] = j
       /\ \A r, s \in 1..c : q[r] < q[s] <=> r < s
       /\ Len(ElementsAt(b, T)) = c
       /\ \A r \in 1..c : ElementsAt(b, T)[r] = b[q[r]]
  BY <1>10, <1>12 DEF PlacesOf
<1>15. ElementsAt(a, S) \in Seq(X) /\ ElementsAt(b, T) \in Seq(X)
  BY ElementsAtLists
<1> DEFINE P == {r \in 0..c : \A s \in 1..r : q[s] = m[p[s]]}
<1> HIDE DEF c
<1>16. 0 \in P
  BY <1>13
<1>17. ASSUME NEW r \in 1..c, r - 1 \in P PROVE r \in P
  <2>1. r \in Nat /\ r \in 0..c /\ r \in 1..r
        /\ (\A s \in 1..c : s < r => s \in 1..(r - 1))
        /\ \A s \in 1..r : s = r \/ s \in 1..(r - 1)
    BY <1>13
  <2>2. \A s \in 1..(r - 1) : q[s] = m[p[s]]
    BY <1>17
  <2>3. p[r] \in S /\ m[p[r]] \in T /\ q[r] \in T
    BY <1>3, <1>13, <1>14
  <2>12. m[p[r]] \in Int /\ q[r] \in Int
    BY <1>6, <2>3
  <2>4. PICK x \in 1..c : q[x] = m[p[r]]
    BY <1>14, <2>3
  <2>5. PICK i \in S : m[i] = q[r]
    BY <1>4, <2>3
  <2>6. PICK y \in 1..c : p[y] = i
    BY <1>13
  <2>7. ~(x < r)
    <3> SUFFICES ASSUME x < r PROVE FALSE
      OBVIOUS
    <3>1. m[p[x]] = m[p[r]]
      <4>1. q[x] = m[p[x]]
        BY <2>1, <2>2
      <4>2. QED
        BY <2>4, <4>1
    <3>4. p[x] < p[r] /\ p[x] \in S
      BY <1>13
    <3>2. m[p[x]] < m[p[r]]
      BY <1>5, <2>3, <3>4
    <3>3. QED
      BY <2>12, <3>1, <3>2
  <2>8. ~(y < r)
    <3> SUFFICES ASSUME y < r PROVE FALSE
      OBVIOUS
    <3>1. q[y] = q[r] /\ q[y] < q[r]
      BY <1>14, <2>1, <2>2, <2>5, <2>6
    <3>2. QED
      BY <2>12, <3>1
  <2>9. q[r] = m[p[r]]
    <3> SUFFICES ASSUME q[r] # m[p[r]] PROVE FALSE
      OBVIOUS
    <3>1. x # r /\ y # r
      BY <2>4, <2>5, <2>6
    <3>2. r < x /\ r < y
      BY <2>1, <2>7, <2>8, <3>1
    <3>3. q[r] < m[p[r]]
      BY <1>14, <2>4, <3>2
    <3>4. p[r] < p[y]
      BY <1>13, <3>2
    <3>5. m[p[r]] < q[r]
      BY <1>5, <2>3, <2>5, <2>6, <3>4
    <3>6. QED
      BY <2>12, <3>3, <3>5
  <2>10. \A s \in 1..r : q[s] = m[p[s]]
    BY <2>1, <2>2, <2>9
  <2>11. QED
    BY <2>1, <2>10
<1>18. \A r \in 1..c : q[r] = m[p[r]]
  <2>1. c \in 0..c /\ c \in Nat
    BY <1>13
  <2> HIDE DEF P
  <2>2. c \in P
    BY <1>13, <1>16, <1>17, <2>1, PrefixInduction
  <2>3. QED
    BY <2>2 DEF P
<1>19. \A r \in 1..c : ElementsAt(a, S)[r] = ElementsAt(b, T)[r]
  <2> SUFFICES ASSUME NEW r \in 1..c PROVE ElementsAt(a, S)[r] = ElementsAt(b, T)[r]
    OBVIOUS
  <2>1. p[r] \in S
    BY <1>13
  <2>2. a[p[r]] = b[m[p[r]]]
    BY <1>3, <2>1
  <2>3. QED
    BY <1>13, <1>14, <1>18, <2>2
<1>20. QED
  BY <1>13, <1>14, <1>15, <1>19, SeqEqual

---------------------------------------------------------------------------------
(* Blocks and the lines they replace.                                      *)

(* Blocks of texts of n and k lines, with what they replace and by what.   *)
Pieces(n, k) ==
  {x \in [aStart : 1..(n + 1), aEnd : 1..(n + 1), bStart : 1..(k + 1), bEnd : 1..(k + 1)] :
     x.aStart <= x.aEnd /\ x.bStart <= x.bEnd}

NewLines(block) == block.bStart..(block.bEnd - 1)
Covered(S) == UNION {Lines(x) : x \in S}
NewCovered(S) == UNION {NewLines(x) : x \in S}

(* A block has the lines it is given.                                      *)
IsPiece(x, n, k, p, q, r, s) ==
  /\ x \in Pieces(n, k)
  /\ x.aStart = p /\ x.aEnd = q /\ x.bStart = r /\ x.bEnd = s

(* A block within the texts is a piece of them.                            *)
LEMMA BlockIsPiece ==
  ASSUME NEW n \in Nat, NEW k \in Nat,
         NEW p \in 1..(n + 1), NEW q \in p..(n + 1), NEW r \in 1..(k + 1), NEW s \in r..(k + 1)
  PROVE  IsPiece(Block(p, q, r, s), n, k, p, q, r, s)
<1>1. q \in 1..(n + 1) /\ s \in 1..(k + 1) /\ p <= q /\ r <= s
  OBVIOUS
<1>2. QED
  BY <1>1 DEF Block, Pieces, IsPiece

(* What a block says of its lines.                                         *)
LEMMA PieceHas ==
  ASSUME NEW n \in Nat, NEW k \in Nat, NEW x \in Pieces(n, k)
  PROVE  /\ x.aStart \in 1..(n + 1) /\ x.aEnd \in x.aStart..(n + 1)
         /\ x.bStart \in 1..(k + 1) /\ x.bEnd \in x.bStart..(k + 1)
         /\ Lines(x) \in SUBSET (1..n) /\ NewLines(x) \in SUBSET (1..k)
         /\ \A p \in Int : p \in Lines(x) <=> x.aStart <= p /\ p < x.aEnd
         /\ \A p \in Int : p \in NewLines(x) <=> x.bStart <= p /\ p < x.bEnd
<1>1. /\ x.aStart \in 1..(n + 1) /\ x.aEnd \in 1..(n + 1) /\ x.aStart <= x.aEnd
      /\ x.bStart \in 1..(k + 1) /\ x.bEnd \in 1..(k + 1) /\ x.bStart <= x.bEnd
  BY DEF Pieces
<1>2. Lines(x) = x.aStart..(x.aEnd - 1) /\ NewLines(x) = x.bStart..(x.bEnd - 1)
  BY DEF Lines, NewLines
<1> DEFINE p == x.aStart
           q == x.aEnd
           r == x.bStart
           s == x.bEnd
<1> HIDE DEF p, q, r, s
<1>3. /\ p \in 1..(n + 1) /\ q \in 1..(n + 1) /\ p <= q
      /\ r \in 1..(k + 1) /\ s \in 1..(k + 1) /\ r <= s
  BY <1>1 DEF p, q, r, s
<1>4. /\ q \in p..(n + 1) /\ s \in r..(k + 1)
      /\ p..(q - 1) \in SUBSET (1..n) /\ r..(s - 1) \in SUBSET (1..k)
      /\ \A y \in Int : y \in p..(q - 1) <=> p <= y /\ y < q
      /\ \A y \in Int : y \in r..(s - 1) <=> r <= y /\ y < s
  BY <1>3
<1>5. QED
  BY <1>2, <1>3, <1>4 DEF p, q, r, s

(* A matched pair of lines may be covered as well.                         *)
LEMMA CoverThePair ==
  ASSUME NEW a, NEW b, NEW i \in Nat, NEW j \in Nat, i - 1 <= Len(a), Len(a) \in Nat,
         NEW m, NEW A, NEW B, Matched(a, b, i, j, m, A, B),
         NEW p \in 1..(i - 1), m[p] # 0
  PROVE  Matched(a, b, i, j, m, A \cup {p}, B \cup {m[p]})
<1> DEFINE n == Len(a)
           C == A \cup {p}
           D == B \cup {m[p]}
           t == i - 1
           u == j - 1
<1>1. /\ m \in [1..n -> Nat]
      /\ A \in SUBSET (1..t) /\ B \in SUBSET (1..u)
      /\ \A x \in 1..n : x >= i => m[x] = 0
      /\ \A x \in 1..t : m[x] = 0 => x \in A
      /\ \A x \in 1..t : m[x] # 0 =>
           /\ m[x] \in 1..u
           /\ x \in A <=> m[x] \in B
           /\ x \notin A => a[x] = b[m[x]]
      /\ \A x \in 1..u : x \notin B => \E y \in 1..t : m[y] = x
      /\ \A x, y \in 1..t : x < y /\ m[x] # 0 /\ m[y] # 0 => m[x] < m[y]
  BY DEF Matched
<1>2. t \in Int /\ p \in 1..t /\ m[p] \in 1..u /\ u \in Int
  BY <1>1
<1> HIDE DEF t, u, n
<1>3. C \in SUBSET (1..t) /\ D \in SUBSET (1..u)
  BY <1>1, <1>2
<1>4. ASSUME NEW x \in 1..t, m[x] # 0, m[x] = m[p] PROVE x = p
  <2> SUFFICES ASSUME x # p PROVE FALSE
    OBVIOUS
  <2>1. x < p \/ p < x
    BY <1>2
  <2>2. m[x] < m[p] \/ m[p] < m[x]
    BY <1>1, <1>2, <1>4, <2>1
  <2>3. QED
    BY <1>2, <1>4, <2>2
<1>5. ASSUME NEW x \in 1..t, m[x] # 0
      PROVE  /\ m[x] \in 1..u
             /\ x \in C <=> m[x] \in D
             /\ x \notin C => a[x] = b[m[x]]
  BY <1>1, <1>4, <1>5
<1>6. QED
  BY <1>1, <1>3, <1>5 DEF Matched, C, D, n, t, u

(* An appended element joins the others.                                   *)
LEMMA AppendedRange ==
  ASSUME NEW X, NEW s \in Seq(X), NEW x \in X
  PROVE  Append(s, x) \in Seq(X) /\ Range(Append(s, x)) = Range(s) \cup {x}
<1> DEFINE t == Append(s, x)
           n == Len(s)
<1>1. t \in Seq(X) /\ Len(t) = n + 1 /\ n \in Nat
      /\ (\A i \in 1..n : t[i] = s[i]) /\ t[n + 1] = x
  BY AppendProperties, LenProperties
<1> HIDE DEF t
<1>2. Range(t) = {t[i] : i \in 1..Len(t)} /\ Range(s) = {s[i] : i \in 1..n}
  BY <1>1, RangeEquality
<1> HIDE DEF n
<1>3. \A i \in 1..(n + 1) : i \in 1..n \/ i = n + 1
  BY <1>1
<1>4. \A i \in 1..n : i \in 1..(n + 1)
  BY <1>1
<1>5. n + 1 \in 1..(n + 1)
  BY <1>1
<1>6. ASSUME NEW y PROVE y \in Range(t) <=> y \in Range(s) \/ y = x
  <2>1. ASSUME y \in Range(t) PROVE y \in Range(s) \/ y = x
    <3>1. PICK i \in 1..(n + 1) : y = t[i]
      BY <1>1, <1>2, <2>1
    <3>2. QED
      BY <1>1, <1>2, <1>3, <3>1
  <2>2. ASSUME y \in Range(s) PROVE y \in Range(t)
    <3>1. PICK i \in 1..n : y = s[i]
      BY <1>2, <2>2
    <3>2. i \in 1..(n + 1) /\ y = t[i]
      BY <1>1, <1>4, <3>1
    <3>3. QED
      BY <1>1, <1>2, <3>2
  <2>3. ASSUME y = x PROVE y \in Range(t)
    BY <1>1, <1>2, <1>5, <2>3
  <2>4. QED
    BY <2>1, <2>2, <2>3
<1>7. Range(t) = Range(s) \cup {x}
  BY <1>6
<1>8. QED
  BY <1>1, <1>7 DEF t

(* Closing a block of as many lines on both sides covers the same lines,   *)
(* and every block it makes has one.                                       *)
Closes(list, blocks, open, n, k) ==
  /\ list \in Seq(Pieces(n, k))
  /\ \A x \in Range(list) : x \in Range(blocks) \/ x \in open \/ x.aStart < x.aEnd
  /\ \A x \in Range(blocks) : x \in Range(list)
  /\ Covered(Range(list)) = Covered(Range(blocks) \cup open)
  /\ NewCovered(Range(list)) = NewCovered(Range(blocks) \cup open)

(* Pairs of single lines, one after the other, cover the block they        *)
(* replace.                                                                *)
LEMMA PairsCover ==
  ASSUME NEW n \in Nat, NEW k \in Nat, NEW o \in Pieces(n, k),
         NEW lines, lines = o.aEnd - o.aStart, lines = o.bEnd - o.bStart,
         NEW pairs, pairs = [l \in 1..lines |-> Block(o.aStart + l - 1, o.aStart + l,
                                                      o.bStart + l - 1, o.bStart + l)]
  PROVE  /\ pairs \in Seq(Pieces(n, k))
         /\ \A x \in Range(pairs) : x.aStart < x.aEnd
         /\ Covered(Range(pairs)) = Lines(o)
         /\ NewCovered(Range(pairs)) = NewLines(o)
<1> DEFINE p == o.aStart
           r == o.bStart
<1>1. /\ p \in 1..(n + 1) /\ o.aEnd \in p..(n + 1) /\ r \in 1..(k + 1) /\ o.bEnd \in r..(k + 1)
      /\ \A y \in Int : y \in Lines(o) <=> p <= y /\ y < o.aEnd
      /\ \A y \in Int : y \in NewLines(o) <=> r <= y /\ y < o.bEnd
      /\ Lines(o) \in SUBSET (1..n) /\ NewLines(o) \in SUBSET (1..k)
  BY PieceHas
<1>2. lines \in Nat /\ o.aEnd = p + lines /\ o.bEnd = r + lines
  <2> DEFINE q == o.aEnd
             s == o.bEnd
  <2>1. q \in p..(n + 1) /\ s \in r..(k + 1) /\ lines = q - p /\ lines = s - r
        /\ p \in 1..(n + 1) /\ r \in 1..(k + 1)
    BY <1>1
  <2> HIDE DEF p, q, r, s
  <2>2. lines \in Nat /\ q = p + lines /\ s = r + lines
    BY <2>1
  <2>3. QED
    BY <2>2 DEF q, s
<1>3. \A l \in 1..lines : pairs[l] = Block(p + l - 1, p + l, r + l - 1, r + l)
  OBVIOUS
<1>4. DOMAIN pairs = 1..lines
  OBVIOUS
<1>14. p + lines \in p..(n + 1) /\ r + lines \in r..(k + 1)
  BY <1>1, <1>2
<1> HIDE DEF p, r
<1>5. ASSUME NEW l \in 1..lines
      PROVE  /\ pairs[l] \in Pieces(n, k)
             /\ pairs[l].aStart = p + l - 1 /\ pairs[l].aEnd = p + l
             /\ \A y \in Int : y \in Lines(pairs[l]) <=> y = p + l - 1
             /\ \A y \in Int : y \in NewLines(pairs[l]) <=> y = r + l - 1
             /\ Lines(pairs[l]) \in SUBSET Int /\ NewLines(pairs[l]) \in SUBSET Int
  <2>1. /\ p + l - 1 \in 1..(n + 1) /\ p + l \in (p + l - 1)..(n + 1)
        /\ r + l - 1 \in 1..(k + 1) /\ r + l \in (r + l - 1)..(k + 1)
    BY SMTT(60), <1>1, <1>2, <1>14
  <2> DEFINE x == Block(p + l - 1, p + l, r + l - 1, r + l)
  <2>2. /\ x \in Pieces(n, k)
        /\ x.aStart = p + l - 1 /\ x.aEnd = p + l /\ x.bStart = r + l - 1 /\ x.bEnd = r + l
    BY SMTT(60), <2>1, BlockIsPiece DEF IsPiece
  <2>3. x = pairs[l]
    BY <1>3
  <2> HIDE DEF x
  <2>4. /\ \A y \in Int : y \in Lines(x) <=> x.aStart <= y /\ y < x.aEnd
        /\ \A y \in Int : y \in NewLines(x) <=> x.bStart <= y /\ y < x.bEnd
        /\ Lines(x) \in SUBSET (1..n) /\ NewLines(x) \in SUBSET (1..k)
    BY <2>2, PieceHas
  <2>5. /\ \A y \in Int : y \in Lines(x) <=> y = p + l - 1
        /\ \A y \in Int : y \in NewLines(x) <=> y = r + l - 1
    BY SMTT(60), <1>1, <2>2, <2>4
  <2>6. Lines(x) \in SUBSET Int /\ NewLines(x) \in SUBSET Int
    BY <2>4
  <2>7. QED
    BY <2>2, <2>3, <2>5, <2>6
<1>6. pairs \in Seq(Pieces(n, k)) /\ Range(pairs) = {pairs[l] : l \in 1..lines}
  <2>1. pairs \in [1..lines -> Pieces(n, k)]
    BY <1>5
  <2>2. pairs \in Seq(Pieces(n, k)) /\ Len(pairs) = lines
    BY ZenonT(60), <1>2, <2>1, ListOfFunction
  <2>3. QED
    BY SMTT(60), <2>2, RangeEquality
<1> HIDE DEF p, r
<1>7. \A x \in Range(pairs) : x.aStart < x.aEnd
  <2> SUFFICES ASSUME NEW l \in 1..lines PROVE pairs[l].aStart < pairs[l].aEnd
    BY <1>6
  <2>1. pairs[l].aStart = p + l - 1 /\ pairs[l].aEnd = p + l
    BY <1>5
  <2>2. p + l - 1 < p + l
    BY <1>1
  <2>3. QED
    BY <2>1, <2>2
<1>8. ASSUME NEW y PROVE y \in Covered(Range(pairs)) <=> y \in Lines(o)
  <2>1. ASSUME y \in Lines(o) PROVE y \in Covered(Range(pairs))
    <3>1. y \in Int /\ p <= y /\ y < p + lines
      BY SMTT(60), <1>1, <1>2, <2>1
    <3>2. y - p + 1 \in 1..lines /\ y = p + (y - p + 1) - 1
      BY SMTT(60), <1>1, <1>2, <3>1
    <3>3. PICK l \in 1..lines : y = p + l - 1
      BY <3>2
    <3>4. y \in Lines(pairs[l]) /\ pairs[l] \in Range(pairs)
      BY <1>5, <1>6, <3>1, <3>3
    <3>5. QED
      BY <3>4 DEF Covered
  <2>2. ASSUME y \in Covered(Range(pairs)) PROVE y \in Lines(o)
    <3>1. PICK l \in 1..lines : y \in Lines(pairs[l])
      BY <1>6, <2>2 DEF Covered
    <3>2. y \in Int
      BY <1>5, <3>1
    <3>3. y = p + l - 1
      BY <1>5, <3>1, <3>2
    <3>4. p <= y /\ y < p + lines
      BY <1>1, <1>2, <3>3
    <3>5. QED
      BY <1>1, <1>2, <3>2, <3>4
  <2>3. QED
    BY <2>1, <2>2
<1>9. ASSUME NEW y PROVE y \in NewCovered(Range(pairs)) <=> y \in NewLines(o)
  <2>1. ASSUME y \in NewLines(o) PROVE y \in NewCovered(Range(pairs))
    <3>1. y \in Int /\ r <= y /\ y < r + lines
      BY SMTT(60), <1>1, <1>2, <2>1
    <3>2. y - r + 1 \in 1..lines /\ y = r + (y - r + 1) - 1
      BY SMTT(60), <1>1, <1>2, <3>1
    <3>3. PICK l \in 1..lines : y = r + l - 1
      BY <3>2
    <3>4. y \in NewLines(pairs[l]) /\ pairs[l] \in Range(pairs)
      BY <1>5, <1>6, <3>1, <3>3
    <3>5. QED
      BY <3>4 DEF NewCovered
  <2>2. ASSUME y \in NewCovered(Range(pairs)) PROVE y \in NewLines(o)
    <3>1. PICK l \in 1..lines : y \in NewLines(pairs[l])
      BY <1>6, <2>2 DEF NewCovered
    <3>2. y \in Int
      BY <1>5, <3>1
    <3>3. y = r + l - 1
      BY <1>5, <3>1, <3>2
    <3>4. r <= y /\ y < r + lines
      BY <1>1, <1>2, <3>3
    <3>5. QED
      BY <1>1, <1>2, <3>2, <3>4
  <2>3. QED
    BY <2>1, <2>2
<1>10. Covered(Range(pairs)) = Lines(o)
  BY <1>8
<1>11. NewCovered(Range(pairs)) = NewLines(o)
  BY <1>9
<1>12. QED
  BY <1>6, <1>7, <1>10, <1>11

(* Closing keeps what is covered.                                          *)
LEMMA CloseCovers ==
  ASSUME NEW n \in Nat, NEW k \in Nat, NEW w, w.blocks \in Seq(Pieces(n, k)),
         NEW o \in Pieces(n, k), w.open = {} \/ w.open = {o}
  PROVE  Closes(Close(w), w.blocks, w.open, n, k)
<1>1. CASE w.open = {}
  <2>1. Close(w) = w.blocks /\ Range(w.blocks) \cup w.open = Range(w.blocks)
    BY <1>1 DEF Close
  <2>2. QED
    BY <2>1 DEF Closes
<1>2. CASE w.open = {o}
  <2> DEFINE lines == o.aEnd - o.aStart
             pairs == [l \in 1..lines |-> Block(o.aStart + l - 1, o.aStart + l,
                                                o.bStart + l - 1, o.bStart + l)]
             s == w.blocks
  <2>1. (CHOOSE x \in w.open : TRUE) = o /\ w.open # {}
    BY <1>2
  <2>2. Close(w) = s \o IF lines = o.bEnd - o.bStart THEN pairs ELSE <<o>>
    BY <2>1, Zenon DEF Close
  <2> DEFINE t == IF lines = o.bEnd - o.bStart THEN pairs ELSE <<o>>
  <2>3. /\ t \in Seq(Pieces(n, k))
        /\ \A x \in Range(t) : x = o \/ x.aStart < x.aEnd
        /\ Covered(Range(t)) = Lines(o)
        /\ NewCovered(Range(t)) = NewLines(o)
    <3>1. CASE lines = o.bEnd - o.bStart
      <4>1. t = pairs
        BY <3>1
      <4> HIDE DEF t, lines
      <4>2. QED
        BY <3>1, <4>1, PairsCover DEF lines
    <3>2. CASE lines # o.bEnd - o.bStart
      <4>1. t = <<o>>
        BY <3>2
      <4> HIDE DEF t
      <4>2. t \in Seq(Pieces(n, k)) /\ Len(t) = 1 /\ t[1] = o
        BY <4>1
      <4>3. Range(t) = {t[l] : l \in 1..1}
        BY <4>2, RangeEquality
      <4>4. Range(t) = {o}
        BY <4>2, <4>3
      <4>5. QED
        BY <4>2, <4>4 DEF Covered, NewCovered
    <3>3. QED
      BY <3>1, <3>2
  <2> HIDE DEF t, pairs, lines, s
  <2>4. Close(w) = s \o t
    BY <2>2 DEF t
  <2>5. s \o t \in Seq(Pieces(n, k)) /\ Range(s \o t) = Range(s) \cup Range(t)
    <3>1. s \in Seq(Pieces(n, k))
      BY DEF s
    <3>2. QED
      BY <2>3, <3>1, ConcatProperties, RangeConcatenation
  <2> DEFINE R == Range(s)
             T == Range(t)
  <2> HIDE DEF R, T
  <2>6. Covered(R \cup T) = Covered(R) \cup Covered(T)
        /\ Covered(R \cup {o}) = Covered(R) \cup Lines(o)
    BY DEF Covered
  <2>7. NewCovered(R \cup T) = NewCovered(R) \cup NewCovered(T)
        /\ NewCovered(R \cup {o}) = NewCovered(R) \cup NewLines(o)
    BY DEF NewCovered
  <2>8. \A x \in R \cup T : x \in R \/ x = o \/ x.aStart < x.aEnd
    BY <2>3 DEF T
  <2>9. Covered(R \cup T) = Covered(R \cup {o}) /\ NewCovered(R \cup T) = NewCovered(R \cup {o})
    BY <2>3, <2>6, <2>7 DEF T
  <2>10. QED
    BY <1>2, <2>4, <2>5, <2>8, <2>9 DEF Closes, R, T, s
<1>3. QED
  BY <1>1, <1>2

---------------------------------------------------------------------------------
(* The walk through both texts.                                            *)

(* A block that replaces no line is before the first one's match, or after *)
(* a line and its match.                                                   *)
Begun(x, m) == x.aStart = 1 \/ (m[x.aStart - 1] # 0 /\ m[x.aStart - 1] = x.bStart - 1)
Placed(x, m) ==
  \/ x.aStart < x.aEnd
  \/ x.aStart = 1 /\ m[1] = x.bEnd
  \/ x.aStart > 1 /\ Begun(x, m)

OpenAt(o, i, j, m, n, k) ==
  o \in Pieces(n, k) /\ o.aEnd = i /\ o.bEnd = j /\ Begun(o, m)

(* What both walked through is matched, or in a block.                     *)
Walked(a, b, w, m) ==
  /\ w.i \in 1..(Len(a) + 1) /\ w.j \in 1..(Len(b) + 1)
  /\ w.blocks \in Seq(Pieces(Len(a), Len(b)))
  /\ \A x \in Range(w.blocks) : Placed(x, m)
  /\ \/ w.open = {} /\ (w.i = 1 \/ (m[w.i - 1] # 0 /\ m[w.i - 1] = w.j - 1))
     \/ \E o : w.open = {o} /\ OpenAt(o, w.i, w.j, m, Len(a), Len(b))
  /\ Matched(a, b, w.i, w.j, m, Covered(Range(w.blocks) \cup w.open),
             NewCovered(Range(w.blocks) \cup w.open))

(* Where a block is does not change as more lines are matched.             *)
LEMMA PlacedStays ==
  ASSUME NEW n \in Nat \ {0}, NEW k \in Nat, NEW m, NEW l,
         \A p \in 1..n : m[p] # 0 => l[p] = m[p],
         NEW x \in Pieces(n, k)
  PROVE  (Begun(x, m) => Begun(x, l)) /\ (Placed(x, m) => Placed(x, l))
<1> DEFINE p == x.aStart
<1>1. p \in 1..(n + 1) /\ x.bEnd \in Nat \ {0}
  <2>1. p \in 1..(n + 1) /\ x.bStart \in 1..(k + 1) /\ x.bEnd \in x.bStart..(k + 1)
    BY PieceHas
  <2> DEFINE r == x.bStart
             s == x.bEnd
  <2> HIDE DEF r, s, p
  <2>2. r \in 1..(k + 1) /\ s \in r..(k + 1)
    BY <2>1 DEF r, s
  <2>3. s \in Nat \ {0}
    BY <2>2
  <2>4. QED
    BY <2>1, <2>3 DEF s
<1> HIDE DEF p
<1>2. p # 1 => p - 1 \in 1..n
  BY <1>1
<1>3. 1 \in 1..n
  OBVIOUS
<1>4. Begun(x, m) => Begun(x, l)
  BY <1>2 DEF Begun, p
<1>5. x.aStart = 1 /\ m[1] = x.bEnd => l[1] = x.bEnd
  BY <1>1, <1>3
<1>6. QED
  BY <1>4, <1>5 DEF Placed

(* The block that is open, or would be, ends where the walk is.            *)
Opens(a, b, w, m, o) ==
  /\ OpenAt(o, w.i, w.j, m, Len(a), Len(b))
  /\ w.open = {} \/ w.open = {o}
  /\ Covered(Range(w.blocks) \cup w.open) = Covered(Range(w.blocks)) \cup Lines(o)
  /\ NewCovered(Range(w.blocks) \cup w.open) = NewCovered(Range(w.blocks)) \cup NewLines(o)

(* The open block, or an empty one, is where the walk is.                  *)
LEMMA OpenBlock ==
  ASSUME NEW a, NEW b, NEW m, NEW w, Walked(a, b, w, m), Len(a) \in Nat, Len(b) \in Nat
  PROVE  Opens(a, b, w, m, Opened(w))
<1> DEFINE R == Range(w.blocks)
           n == Len(a)
           k == Len(b)
           o == Opened(w)
<1>1. n \in Nat /\ k \in Nat /\ w.i \in 1..(n + 1) /\ w.j \in 1..(k + 1)
  BY DEF Walked
<1> HIDE DEF n, k
<1>2. CASE w.open = {}
  <2> DEFINE i == w.i
             j == w.j
  <2>1. i \in i..(n + 1) /\ j \in j..(k + 1) /\ i \in 1..(n + 1) /\ j \in 1..(k + 1)
    BY <1>1
  <2>2. o = Block(i, i, j, j)
    BY <1>2 DEF Opened
  <2>3. i = 1 \/ (m[i - 1] # 0 /\ m[i - 1] = j - 1)
    BY <1>2 DEF Walked
  <2> HIDE DEF i, j, o
  <2>4. o \in Pieces(n, k) /\ o.aStart = i /\ o.aEnd = i /\ o.bStart = j /\ o.bEnd = j
    BY SMTT(60), <1>1, <2>1, <2>2, BlockIsPiece DEF IsPiece
  <2>5. Lines(o) = {} /\ NewLines(o) = {}
    BY <2>1, <2>4 DEF Lines, NewLines
  <2>6. R \cup w.open = R
    BY <1>2
  <2> HIDE DEF R
  <2>7. QED
    BY <1>2, <2>3, <2>4, <2>5, <2>6 DEF Opens, OpenAt, Begun, i, j, n, k, R, o
<1>3. CASE w.open # {}
  <2>1. PICK x : w.open = {x} /\ OpenAt(x, w.i, w.j, m, Len(a), Len(b))
    BY <1>3 DEF Walked
  <2>2. o = x
    BY <2>1 DEF Opened
  <2> HIDE DEF R, o
  <2>3. Covered(R \cup w.open) = Covered(R) \cup Lines(o)
        /\ NewCovered(R \cup w.open) = NewCovered(R) \cup NewLines(o)
    BY <2>1, <2>2 DEF Covered, NewCovered
  <2>4. QED
    BY <2>1, <2>2, <2>3 DEF Opens, R, o
<1>4. QED
  BY <1>2, <1>3

(* A block takes in one more line of the formatted text, or of the hunk.   *)
TakesNew(x, o, j, n, k) ==
  /\ x \in Pieces(n, k) /\ x.aStart = o.aStart /\ x.aEnd = o.aEnd
  /\ x.bStart = o.bStart /\ x.bEnd = j + 1
  /\ Lines(x) = Lines(o) /\ NewLines(x) = NewLines(o) \cup {j}
TakesOld(x, o, i, n, k) ==
  /\ x \in Pieces(n, k) /\ x.aStart = o.aStart /\ x.aEnd = i + 1
  /\ x.bStart = o.bStart /\ x.bEnd = o.bEnd
  /\ Lines(x) = Lines(o) \cup {i} /\ NewLines(x) = NewLines(o)

(* The open block takes the next new line,                                 *)
LEMMA OpenTakesNew ==
  ASSUME NEW n \in Nat, NEW k \in Nat, NEW o \in Pieces(n, k), NEW j \in 1..k, o.bEnd = j
  PROVE  TakesNew(Block(o.aStart, o.aEnd, o.bStart, j + 1), o, j, n, k)
<1> DEFINE x == Block(o.aStart, o.aEnd, o.bStart, j + 1)
<1>1. /\ o.aStart \in 1..(n + 1) /\ o.aEnd \in o.aStart..(n + 1) /\ o.bStart \in 1..(k + 1)
      /\ o.bEnd \in o.bStart..(k + 1)
      /\ o.aEnd \in 1..(n + 1) /\ o.bEnd \in 1..(k + 1)
  BY PieceHas DEF Pieces
<1>2. PICK p \in 1..(n + 1), q \in 1..(n + 1), r \in 1..(k + 1) :
        p = o.aStart /\ q = o.aEnd /\ r = o.bStart /\ q \in p..(n + 1)
  BY <1>1
<1>3. j + 1 \in r..(k + 1) /\ j \in r..(k + 1)
  BY <1>1, <1>2
<1>4. x \in Pieces(n, k) /\ x.aStart = p /\ x.aEnd = q /\ x.bStart = r /\ x.bEnd = j + 1
  <2>1. q \in p..(n + 1) /\ x = Block(p, q, r, j + 1)
    BY <1>2
  <2> HIDE DEF x
  <2>2. QED
    BY SMTT(60), <1>3, <2>1, BlockIsPiece DEF IsPiece
<1> HIDE DEF x
<1>5. Lines(x) = Lines(o)
  BY <1>2, <1>4 DEF Lines
<1>6. NewLines(x) = NewLines(o) \cup {j}
  <2>1. NewLines(x) = r..((j + 1) - 1) /\ NewLines(o) = r..(j - 1)
    BY <1>2, <1>4 DEF NewLines
  <2>2. r..((j + 1) - 1) = r..(j - 1) \cup {j}
    BY <1>3
  <2>3. QED
    BY <2>1, <2>2
<1>7. QED
  BY <1>2, <1>4, <1>5, <1>6 DEF TakesNew, x

(* or the next old one.                                                    *)
LEMMA OpenTakesOld ==
  ASSUME NEW n \in Nat, NEW k \in Nat, NEW o \in Pieces(n, k), NEW i \in 1..n, o.aEnd = i
  PROVE  TakesOld(Block(o.aStart, i + 1, o.bStart, o.bEnd), o, i, n, k)
<1> DEFINE x == Block(o.aStart, i + 1, o.bStart, o.bEnd)
<1>1. /\ o.aStart \in 1..(n + 1) /\ o.aEnd \in o.aStart..(n + 1) /\ o.bStart \in 1..(k + 1)
      /\ o.bEnd \in o.bStart..(k + 1)
      /\ o.aEnd \in 1..(n + 1) /\ o.bEnd \in 1..(k + 1)
  BY PieceHas DEF Pieces
<1>2. PICK p \in 1..(n + 1), r \in 1..(k + 1), s \in 1..(k + 1) :
        p = o.aStart /\ r = o.bStart /\ s = o.bEnd /\ s \in r..(k + 1)
  BY <1>1
<1>3. i + 1 \in p..(n + 1) /\ i \in p..(n + 1)
  BY <1>1, <1>2
<1>4. x \in Pieces(n, k) /\ x.aStart = p /\ x.aEnd = i + 1 /\ x.bStart = r /\ x.bEnd = s
  <2>1. PICK q \in p..(n + 1) : q = i + 1
    BY <1>3
  <2>2. s \in r..(k + 1) /\ x = Block(p, q, r, s)
    BY <1>2, <2>1
  <2> HIDE DEF x
  <2>3. IsPiece(x, n, k, p, q, r, s)
    BY <2>2, BlockIsPiece
  <2>4. QED
    BY <2>1, <2>3 DEF IsPiece
<1> HIDE DEF x
<1>5. NewLines(x) = NewLines(o)
  BY <1>2, <1>4 DEF NewLines
<1>6. Lines(x) = Lines(o) \cup {i}
  <2>1. Lines(x) = p..((i + 1) - 1) /\ Lines(o) = p..(i - 1)
    BY <1>2, <1>4 DEF Lines
  <2>2. p..((i + 1) - 1) = p..(i - 1) \cup {i}
    BY <1>3
  <2>3. QED
    BY <2>1, <2>2
<1>7. QED
  BY <1>2, <1>4, <1>5, <1>6 DEF TakesOld, x

(* A line of the formatted text is taken into the open block.              *)
LEMMA InsertWalks ==
  ASSUME NEW X, NEW a \in Seq(X), NEW b \in Seq(X), Len(a) # 0, NEW m, NEW w, Walked(a, b, w, m),
         NEW o, o = Opened(w),
         w.j <= Len(b)
  PROVE  Walked(a, b, Insert(w), m)
<1> DEFINE n == Len(a)
           k == Len(b)
           R == Range(w.blocks)
           v == Insert(w)
           x == Block(o.aStart, o.aEnd, o.bStart, w.j + 1)
           i == w.i
           j == w.j
<1>1. /\ n \in Nat /\ k \in Nat /\ i \in 1..(n + 1) /\ j \in 1..k
      /\ w.blocks \in Seq(Pieces(n, k)) /\ \A y \in R : Placed(y, m)
      /\ Matched(a, b, i, j, m, Covered(R \cup w.open), NewCovered(R \cup w.open))
  <2>1. n \in Nat /\ k \in Nat
    BY LenProperties
  <2>2. QED
    BY <2>1 DEF Walked
<1>2. v.i = i /\ v.j = j + 1 /\ v.open = {x} /\ v.blocks = w.blocks
  BY DEF Insert
<1>3. /\ o \in Pieces(n, k) /\ o.aEnd = i /\ o.bEnd = j /\ Begun(o, m)
      /\ Covered(R \cup w.open) = Covered(R) \cup Lines(o)
      /\ NewCovered(R \cup w.open) = NewCovered(R) \cup NewLines(o)
  <2>1. Opens(a, b, w, m, o)
    <3>1. Len(a) \in Nat /\ Len(b) \in Nat
      BY <1>1
    <3> HIDE DEF n, k, R, i, j, v, x
    <3>2. QED
      BY <3>1, OpenBlock
  <2>2. QED
    BY <2>1 DEF Opens, OpenAt
<1> HIDE DEF n, k, R, v, i, j
<1>4. /\ x \in Pieces(n, k) /\ x.aStart = o.aStart /\ x.aEnd = o.aEnd
      /\ x.bStart = o.bStart /\ x.bEnd = j + 1
      /\ Lines(x) = Lines(o) /\ NewLines(x) = NewLines(o) \cup {j}
  <2>1. x = Block(o.aStart, o.aEnd, o.bStart, j + 1)
    BY DEF j
  <2> HIDE DEF x
  <2>2. TakesNew(x, o, j, n, k)
    BY <1>1, <1>3, <2>1, OpenTakesNew
  <2>3. QED
    BY <2>2 DEF TakesNew
<1> HIDE DEF x
<1>9. /\ Covered(R \cup {x}) = Covered(R) \cup Lines(o)
      /\ NewCovered(R \cup {x}) = (NewCovered(R) \cup NewLines(o)) \cup {j}
  BY <1>4 DEF Covered, NewCovered
<1>10. Matched(a, b, i, j + 1, m, Covered(R) \cup Lines(o), (NewCovered(R) \cup NewLines(o)) \cup {j})
  <2> DEFINE A == Covered(R) \cup Lines(o)
             B == NewCovered(R) \cup NewLines(o)
  <2>1. Matched(a, b, i, j, m, A, B)
    BY <1>1, <1>3, Zenon
  <2>3. i \in 1..(n + 1) /\ j \in Nat \ {0}
    BY <1>1
  <2> HIDE DEF A, B
  <2>2. Matched(a, b, i, j + 1, m, A, B \cup {j})
    BY <2>1, <2>3, InsertMatches DEF n
  <2>4. QED
    BY <2>2 DEF A, B
<1>11. OpenAt(x, i, j + 1, m, n, k)
  BY <1>3, <1>4 DEF OpenAt, Begun
<1>12. j + 1 \in 1..(k + 1)
  BY <1>1
<1>13. Matched(a, b, i, j + 1, m, Covered(R \cup {x}), NewCovered(R \cup {x}))
  BY <1>9, <1>10, Zenon
<1>14. Range(v.blocks) = R
  BY <1>2 DEF R
<1>15. QED
  BY <1>1, <1>2, <1>11, <1>12, <1>13, <1>14 DEF Walked, v, n, k

(* A line of the hunk is taken into the open block.                        *)
LEMMA DeleteWalks ==
  ASSUME NEW X, NEW a \in Seq(X), NEW b \in Seq(X), Len(a) # 0, NEW m, NEW w, Walked(a, b, w, m),
         NEW o, o = Opened(w),
         w.i <= Len(a)
  PROVE  Walked(a, b, Delete(w), m)
<1> DEFINE n == Len(a)
           k == Len(b)
           R == Range(w.blocks)
           v == Delete(w)
           x == Block(o.aStart, w.i + 1, o.bStart, o.bEnd)
           i == w.i
           j == w.j
<1>1. /\ n \in Nat /\ k \in Nat /\ i \in 1..n /\ j \in 1..(k + 1)
      /\ w.blocks \in Seq(Pieces(n, k)) /\ \A y \in R : Placed(y, m)
      /\ Matched(a, b, i, j, m, Covered(R \cup w.open), NewCovered(R \cup w.open))
  <2>1. n \in Nat /\ k \in Nat
    BY LenProperties
  <2>2. QED
    BY <2>1 DEF Walked
<1>2. v.i = i + 1 /\ v.j = j /\ v.open = {x} /\ v.blocks = w.blocks
  BY DEF Delete
<1>3. /\ o \in Pieces(n, k) /\ o.aEnd = i /\ o.bEnd = j /\ Begun(o, m)
      /\ Covered(R \cup w.open) = Covered(R) \cup Lines(o)
      /\ NewCovered(R \cup w.open) = NewCovered(R) \cup NewLines(o)
  <2>1. Opens(a, b, w, m, o)
    <3>1. Len(a) \in Nat /\ Len(b) \in Nat
      BY <1>1
    <3> HIDE DEF n, k, R, i, j, v, x
    <3>2. QED
      BY <3>1, OpenBlock
  <2>2. QED
    BY <2>1 DEF Opens, OpenAt
<1> HIDE DEF n, k, R, v, i, j
<1>4. /\ x \in Pieces(n, k) /\ x.aStart = o.aStart /\ x.aEnd = i + 1
      /\ x.bStart = o.bStart /\ x.bEnd = o.bEnd
      /\ Lines(x) = Lines(o) \cup {i} /\ NewLines(x) = NewLines(o)
  <2>1. x = Block(o.aStart, i + 1, o.bStart, o.bEnd)
    BY DEF i
  <2> HIDE DEF x
  <2>2. TakesOld(x, o, i, n, k)
    BY <1>1, <1>3, <2>1, OpenTakesOld
  <2>3. QED
    BY <2>2 DEF TakesOld
<1> HIDE DEF x
<1>9. /\ Covered(R \cup {x}) = (Covered(R) \cup Lines(o)) \cup {i}
      /\ NewCovered(R \cup {x}) = NewCovered(R) \cup NewLines(o)
  BY <1>4 DEF Covered, NewCovered
<1>10. Matched(a, b, i + 1, j, m, (Covered(R) \cup Lines(o)) \cup {i}, NewCovered(R) \cup NewLines(o))
  <2> DEFINE A == Covered(R) \cup Lines(o)
             B == NewCovered(R) \cup NewLines(o)
  <2>1. Matched(a, b, i, j, m, A, B)
    BY <1>1, <1>3, Zenon
  <2>3. i \in 1..n /\ j \in Nat \ {0}
    BY <1>1
  <2> HIDE DEF A, B
  <2>2. Matched(a, b, i + 1, j, m, A \cup {i}, B)
    BY <2>1, <2>3, DeleteMatches DEF n
  <2>4. QED
    BY <2>2 DEF A, B
<1>11. OpenAt(x, i + 1, j, m, n, k)
  BY <1>3, <1>4 DEF OpenAt, Begun
<1>12. i + 1 \in 1..(n + 1)
  BY <1>1
<1>13. Matched(a, b, i + 1, j, m, Covered(R \cup {x}), NewCovered(R \cup {x}))
  BY <1>9, <1>10, Zenon
<1>14. Range(v.blocks) = R
  BY <1>2 DEF R
<1>15. QED
  BY <1>1, <1>2, <1>11, <1>12, <1>13, <1>14 DEF Walked, v, n, k

(* Two lines of the same code are walked past together.                    *)
LEMMA PairWalks ==
  ASSUME NEW X, NEW a \in Seq(X), NEW b \in Seq(X), Len(a) # 0, NEW m, NEW w, Walked(a, b, w, m),
         w.i <= Len(a), w.j <= Len(b)
  PROVE  Walked(a, b, Pair(a, b, w), [m EXCEPT ![w.i] = w.j])
<1> DEFINE n == Len(a)
           k == Len(b)
           R == Range(w.blocks)
           v == Pair(a, b, w)
           i == w.i
           j == w.j
           l == [m EXCEPT ![i] = j]
           list == Close(w)
           differ == a[i] # b[j]
           x == Block(i, i + 1, j, j + 1)
           changes == IF a[i] = b[j] THEN <<>> ELSE <<x>>
           C == Range(list)
           D == IF differ THEN {x} ELSE {}
<1>1. /\ n \in Nat \ {0} /\ k \in Nat /\ i \in 1..n /\ j \in 1..k
      /\ w.blocks \in Seq(Pieces(n, k)) /\ \A y \in R : Placed(y, m)
      /\ Matched(a, b, i, j, m, Covered(R \cup w.open), NewCovered(R \cup w.open))
  <2>1. n \in Nat \ {0} /\ k \in Nat
    BY LenProperties
  <2>2. QED
    BY <2>1 DEF Walked
<1>2. v.i = i + 1 /\ v.j = j + 1 /\ v.open = {} /\ v.blocks = list \o changes
  BY DEF Pair
<1> DEFINE o == Opened(w)
<1>3. Opens(a, b, w, m, o)
  <2>1. Len(a) \in Nat /\ Len(b) \in Nat
    BY <1>1
  <2> HIDE DEF n, k, R, v, i, j, l, list, o
  <2>2. QED
    BY <2>1, OpenBlock DEF o
<1>4. /\ o \in Pieces(n, k) /\ o.aEnd = i /\ o.bEnd = j /\ Begun(o, m)
      /\ w.open = {} \/ w.open = {o}
  BY <1>3 DEF Opens, OpenAt
<1> HIDE DEF n, k, R, v, i, j, l, list, o, x, C, D, differ, changes
<1>5. Closes(list, w.blocks, w.open, n, k)
  BY <1>1, <1>4, CloseCovers DEF list
<1>6. /\ list \in Seq(Pieces(n, k))
      /\ \A y \in C : y \in R \/ y \in w.open \/ y.aStart < y.aEnd
      /\ Covered(C) = Covered(R \cup w.open)
      /\ NewCovered(C) = NewCovered(R \cup w.open)
  BY <1>5 DEF Closes, C, R
<1>7. IsPiece(x, n, k, i, i + 1, j, j + 1)
  <2>1. PICK p \in i..(n + 1), q \in j..(k + 1) : p = i + 1 /\ q = j + 1
    BY <1>1
  <2>2. i \in 1..(n + 1) /\ j \in 1..(k + 1) /\ x = Block(i, p, j, q)
    BY <1>1, <2>1 DEF x
  <2>3. IsPiece(x, n, k, i, p, j, q)
    BY <1>1, <2>2, BlockIsPiece
  <2>4. QED
    BY <2>1, <2>3
<1>8. x \in Pieces(n, k) /\ Lines(x) = {i} /\ NewLines(x) = {j} /\ x.aStart < x.aEnd
  BY <1>1, <1>7 DEF IsPiece, Lines, NewLines
<1>9. changes \in Seq(Pieces(n, k)) /\ Range(changes) = D
  <2>1. CASE differ
    <3>1. changes = <<x>> /\ D = {x}
      BY <2>1 DEF changes, differ, D
    <3>2. changes \in Seq(Pieces(n, k)) /\ Len(changes) = 1 /\ changes[1] = x
      BY <1>8, <3>1
    <3>3. Range(changes) = {changes[y] : y \in 1..1}
      BY <3>2, RangeEquality
    <3>4. QED
      BY <3>1, <3>2, <3>3
  <2>2. CASE ~differ
    <3>1. changes = <<>> /\ D = {}
      BY <2>2 DEF changes, differ, D
    <3>2. changes \in Seq(Pieces(n, k)) /\ Len(changes) = 0
      BY <3>1
    <3>3. Range(changes) = {changes[y] : y \in 1..0}
      BY <3>2, RangeEquality
    <3>4. QED
      BY <3>1, <3>2, <3>3
  <2>3. QED
    BY <2>1, <2>2
<1>10. v.blocks \in Seq(Pieces(n, k)) /\ Range(v.blocks) = C \cup D
  <2>1. Range(list \o changes) = Range(list) \cup Range(changes) /\ list \o changes \in Seq(Pieces(n, k))
    BY <1>6, <1>9, ConcatProperties, RangeConcatenation
  <2>2. QED
    BY <1>2, <1>9, <2>1 DEF C
<1>11. m \in [1..n -> Nat] /\ m[i] = 0
  <2>1. m \in [1..n -> Nat] /\ \A y \in 1..n : y >= i => m[y] = 0
    BY <1>1 DEF Matched, n
  <2>2. QED
    BY <1>1, <2>1
<1>12. l \in [1..n -> Nat] /\ l[i] = j /\ \A y \in 1..n : m[y] # 0 => l[y] = m[y]
  BY <1>1, <1>11 DEF l
<1>13. \A y \in C \cup D : Placed(y, l)
  <2> SUFFICES ASSUME NEW y \in C \cup D PROVE Placed(y, l)
    OBVIOUS
  <2>1. CASE y.aStart < y.aEnd
    BY <2>1 DEF Placed
  <2>2. CASE y \in R
    <3>1. y \in Pieces(n, k)
      BY <1>1, <2>2, RangeOfSeq DEF R
    <3>2. QED
      BY <1>1, <1>12, <2>2, <3>1, PlacedStays
  <2>3. CASE y = o /\ ~(y.aStart < y.aEnd)
    <3>1. y.aStart = i
      <4>1. y.aStart \in 1..(n + 1) /\ y.aEnd \in y.aStart..(n + 1) /\ y.aEnd = i
        BY <1>1, <1>4, <2>3, PieceHas
      <4> DEFINE s == y.aStart
      <4>2. s \in 1..(n + 1) /\ i \in s..(n + 1) /\ ~(s < i)
        BY <2>3, <4>1
      <4> HIDE DEF s
      <4>3. s = i
        BY <4>2
      <4>4. QED
        BY <4>3 DEF s
    <3>2. Begun(y, l)
      BY <1>1, <1>4, <1>12, <2>3, PlacedStays
    <3>3. CASE i = 1
      <4>1. l[1] = y.bEnd
        BY <1>4, <1>12, <2>3, <3>3
      <4>2. QED
        BY <3>1, <3>3, <4>1 DEF Placed
    <3>4. CASE i # 1
      <4>1. y.aStart > 1
        BY <1>1, <3>1, <3>4
      <4>2. QED
        BY <3>2, <4>1 DEF Placed
    <3>5. QED
      BY <3>3, <3>4
  <2>4. QED
    BY <1>4, <1>6, <1>8, <2>1, <2>2, <2>3 DEF D
<1>14. /\ Covered(C \cup D) = IF differ THEN Covered(R \cup w.open) \cup {i} ELSE Covered(R \cup w.open)
       /\ NewCovered(C \cup D)
            = IF differ THEN NewCovered(R \cup w.open) \cup {j} ELSE NewCovered(R \cup w.open)
  <2>1. CASE differ
    <3>1. Covered(C \cup {x}) = Covered(C) \cup {i} /\ NewCovered(C \cup {x}) = NewCovered(C) \cup {j}
      BY <1>8 DEF Covered, NewCovered
    <3>2. QED
      BY <1>6, <2>1, <3>1 DEF D
  <2>2. CASE ~differ
    <3>1. C \cup D = C
      BY <2>2 DEF D
    <3>2. QED
      BY <1>6, <2>2, <3>1
  <2>3. QED
    BY <2>1, <2>2
<1>15. Matched(a, b, i + 1, j + 1, l, Covered(C \cup D), NewCovered(C \cup D))
  <2> DEFINE A == Covered(R \cup w.open)
             B == NewCovered(R \cup w.open)
  <2>1. Matched(a, b, i, j, m, A, B) /\ differ \in BOOLEAN /\ (~differ => a[i] = b[j])
    BY <1>1 DEF differ
  <2> HIDE DEF A, B
  <2>2. Matched(a, b, i + 1, j + 1, [m EXCEPT ![i] = j],
                IF differ THEN A \cup {i} ELSE A, IF differ THEN B \cup {j} ELSE B)
    BY <1>1, <2>1, PairMatches DEF n, k
  <2>3. QED
    BY <1>14, <2>2, Zenon DEF A, B, l
<1>16. i + 1 \in 1..(n + 1) /\ j + 1 \in 1..(k + 1) /\ (i + 1) - 1 = i /\ (j + 1) - 1 = j /\ j # 0
  BY <1>1
<1>17. Range(v.blocks) \cup v.open = C \cup D
  BY <1>2, <1>10
<1>18. Walked(a, b, v, l)
  BY <1>2, <1>10, <1>12, <1>13, <1>15, <1>16, <1>17 DEF Walked, n, k
<1>19. QED
  BY <1>18 DEF v, l, i, j

(* Every turn goes on with one line at least, until there is none left.    *)
Turns(a, b, v, w) ==
  IF w.i > Len(a) /\ w.j > Len(b) THEN v = w ELSE v.i + v.j >= w.i + w.j + 1

(* A turn of the walk keeps what is known of it, and goes on.              *)
LEMMA WalkGoesOn ==
  ASSUME NEW X, NEW a \in Seq(X), NEW b \in Seq(X), Len(a) # 0, NEW m, NEW w, Walked(a, b, w, m),
         NEW lcs
  PROVE  (\E l : Walked(a, b, Walk(a, b, lcs, w), l)) /\ Turns(a, b, Walk(a, b, lcs, w), w)
<1>1. /\ Len(a) \in Nat /\ Len(b) \in Nat
      /\ w.i \in 1..(Len(a) + 1) /\ w.j \in 1..(Len(b) + 1)
  BY LenProperties DEF Walked
<1> DEFINE v == Walk(a, b, lcs, w)
           longer == lcs[w.i, w.j + 1] >= lcs[w.i + 1, w.j]
<1> HIDE DEF longer
<1>2. CASE w.i > Len(a) /\ w.j > Len(b)
  <2>1. v = w
    BY <1>2 DEF Walk
  <2>2. QED
    BY <1>2, <2>1 DEF Turns
<1>3. CASE ~(w.i > Len(a) /\ w.j > Len(b)) /\ SameKey(a, w.i, b, w.j)
  <2>1. v = Pair(a, b, w)
    BY <1>3 DEF Walk
  <2>2. w.i <= Len(a) /\ w.j <= Len(b)
    BY <1>3 DEF SameKey
  <2>3. Pair(a, b, w).i = w.i + 1 /\ Pair(a, b, w).j = w.j + 1
    BY DEF Pair
  <2> HIDE DEF v
  <2>4. \E l : Walked(a, b, v, l)
    BY <2>1, <2>2, PairWalks
  <2>5. v.i + v.j >= w.i + w.j + 1
    BY <1>1, <2>1, <2>3
  <2>6. QED
    BY <1>3, <2>4, <2>5 DEF Turns, v
<1>4. CASE ~(w.i > Len(a) /\ w.j > Len(b)) /\ ~SameKey(a, w.i, b, w.j)
           /\ w.j <= Len(b) /\ (w.i > Len(a) \/ longer)
  <2>1. v = Insert(w)
    BY <1>4, Zenon DEF Walk, longer
  <2>2. Insert(w).i = w.i /\ Insert(w).j = w.j + 1
    BY DEF Insert
  <2> HIDE DEF v
  <2>3. Walked(a, b, v, m)
    BY <1>4, <2>1, InsertWalks
  <2>4. v.i + v.j >= w.i + w.j + 1
    BY <1>1, <2>1, <2>2
  <2>5. QED
    BY <1>4, <2>3, <2>4 DEF Turns, v
<1>5. CASE ~(w.i > Len(a) /\ w.j > Len(b)) /\ ~SameKey(a, w.i, b, w.j)
           /\ ~(w.j <= Len(b) /\ (w.i > Len(a) \/ longer))
  <2>1. v = Delete(w)
    BY <1>5, Zenon DEF Walk, longer
  <2>2. Delete(w).i = w.i + 1 /\ Delete(w).j = w.j
    BY DEF Delete
  <2>3. w.i <= Len(a)
    BY <1>1, <1>5
  <2> HIDE DEF v
  <2>4. Walked(a, b, v, m)
    BY <2>1, <2>3, DeleteWalks
  <2>5. v.i + v.j >= w.i + w.j + 1
    BY <1>1, <2>1, <2>2
  <2>6. QED
    BY <1>5, <2>4, <2>5 DEF Turns, v
<1>6. QED
  BY <1>2, <1>3, <1>4, <1>5

WalkStart == [i |-> 1, j |-> 1, open |-> {}, blocks |-> <<>>]
TurnsOf(a, b) == [t \in 1..(Len(a) + Len(b)) |-> t]
WalkedThrough(a, b, lcs) ==
  FoldLeft(LAMBDA w, t : Walk(a, b, lcs, w), WalkStart, TurnsOf(a, b))
WalkHistory(h, a, b, lcs) ==
  /\ h[0] = WalkStart
  /\ h[Len(a) + Len(b)] = WalkedThrough(a, b, lcs)
  /\ \A k \in 1..(Len(a) + Len(b)) : h[k] = Walk(a, b, lcs, h[k - 1])
WalkRecord(n, k) ==
  [i : 1..(n + 1), j : 1..(k + 1), open : SUBSET Pieces(n, k), blocks : Seq(Pieces(n, k))]
WalkedStates(a, b) == {w \in WalkRecord(Len(a), Len(b)) : \E m : Walked(a, b, w, m)}

(* At the start nothing is walked through.                                 *)
LEMMA StartIsWalked ==
  ASSUME NEW X, NEW a \in Seq(X), NEW b \in Seq(X)
  PROVE  WalkStart \in WalkedStates(a, b)
<1> DEFINE n == Len(a)
           k == Len(b)
           m == [p \in 1..n |-> 0]
           w == WalkStart
<1>1. n \in Nat /\ k \in Nat /\ 1 \in 1..(n + 1) /\ 1 \in 1..(k + 1)
  BY LenProperties
<1> DEFINE e == <<>>
<1>2. e \in Seq(Pieces(n, k)) /\ Len(e) = 0
  OBVIOUS
<1>3. w.i = 1 /\ w.j = 1 /\ w.open = {} /\ w.blocks = e
  BY DEF WalkStart
<1> HIDE DEF e
<1>4. Range(e) = {}
  <2>1. Range(e) = {e[p] : p \in 1..0}
    BY <1>2, RangeEquality
  <2>2. QED
    BY <2>1
<1>5. w \in WalkRecord(n, k)
  BY <1>1, <1>2 DEF WalkStart, WalkRecord, e
<1>6. Covered(Range(w.blocks) \cup w.open) = {} /\ NewCovered(Range(w.blocks) \cup w.open) = {}
  BY <1>3, <1>4 DEF Covered, NewCovered
<1>7. Matched(a, b, 1, 1, m, {}, {})
  <2>1. m \in [1..n -> Nat] /\ (\A p \in 1..n : m[p] = 0) /\ 1..(1 - 1) = {}
    OBVIOUS
  <2> HIDE DEF m
  <2>2. QED
    BY <2>1 DEF Matched
<1> HIDE DEF m, w
<1>8. Walked(a, b, w, m)
  BY <1>1, <1>2, <1>3, <1>4, <1>6, <1>7 DEF Walked
<1>9. QED
  BY <1>5, <1>8 DEF WalkedStates, w

(* A turn leads from a state of the walk to a state of it.                 *)
LEMMA WalkKeepsStates ==
  ASSUME NEW X, NEW a \in Seq(X), NEW b \in Seq(X), Len(a) # 0, NEW lcs,
         NEW w \in WalkedStates(a, b)
  PROVE  Walk(a, b, lcs, w) \in WalkedStates(a, b)
<1> DEFINE n == Len(a)
           k == Len(b)
           v == Walk(a, b, lcs, w)
           longer == lcs[w.i, w.j + 1] >= lcs[w.i + 1, w.j]
<1> HIDE DEF longer
<1>1. PICK m : Walked(a, b, w, m)
  BY DEF WalkedStates
<1>2. PICK l : Walked(a, b, v, l)
  BY <1>1, WalkGoesOn
<1>3. v = w \/ v = Pair(a, b, w) \/ v = Insert(w) \/ v = Delete(w)
  BY Zenon DEF Walk
<1>4. w = [i |-> w.i, j |-> w.j, open |-> w.open, blocks |-> w.blocks]
  BY DEF WalkedStates, WalkRecord
<1>5. \E i, j, open, blocks : v = [i |-> i, j |-> j, open |-> open, blocks |-> blocks]
  <2>1. CASE v = w
    BY <1>4, <2>1
  <2>2. CASE v = Pair(a, b, w)
    BY <2>2, Zenon DEF Pair
  <2>3. CASE v = Insert(w)
    BY <2>3, Zenon DEF Insert
  <2>4. CASE v = Delete(w)
    BY <2>4, Zenon DEF Delete
  <2>5. QED
    BY <1>3, <2>1, <2>2, <2>3, <2>4
<1> HIDE DEF v, n, k
<1>6. v.i \in 1..(n + 1) /\ v.j \in 1..(k + 1) /\ v.blocks \in Seq(Pieces(n, k))
      /\ v.open \in SUBSET Pieces(n, k)
  BY <1>2 DEF Walked, OpenAt, n, k
<1>7. v \in WalkRecord(n, k)
  <2>1. PICK i, j, open, blocks : v = [i |-> i, j |-> j, open |-> open, blocks |-> blocks]
    BY <1>5
  <2>2. v.i = i /\ v.j = j /\ v.open = open /\ v.blocks = blocks
    BY <2>1
  <2>3. QED
    BY <1>6, <2>1, <2>2 DEF WalkRecord
<1>8. QED
  BY <1>2, <1>7 DEF WalkedStates, v, n, k

(* The walk is taken turn by turn.                                         *)
LEMMA WalkFolds ==
  ASSUME NEW X, NEW old \in Seq(X), NEW new \in Seq(X), Len(old) # 0, NEW lcs,
         NEW turns, turns = [t \in 1..(Len(old) + Len(new)) |-> t]
  PROVE  \E h \in [0..(Len(old) + Len(new)) -> WalkedStates(old, new)] :
           WalkHistory(h, old, new, lcs)
<1> DEFINE n == (Len(old) + Len(new))
           p == TurnsOf(old, new)
           A == WalkedStates(old, new)
           base == WalkStart
           Op(a, x) == Walk(old, new, lcs, a)
           step == [k \in 1..n |-> [a \in A |-> Op(a, p[k])]]
           Eq(it) == it = [s \in SUBSET (DOMAIN p) |-> IF s = {} THEN base
                                ELSE Op(it[s \ {Max(s)}], p[Max(s)])]
           iter == CHOOSE it : Eq(it)
<1>1. n \in Nat /\ DOMAIN p = 1..n
  <2>1. Len(old) \in Nat /\ Len(new) \in Nat
    BY LenProperties
  <2>2. QED
    BY <2>1 DEF TurnsOf
<1>2. base \in A
  BY StartIsWalked
<1>3. \A k \in 1..n : \A a \in A : Op(a, p[k]) \in A
  <2> HIDE DEF n, p
  <2>1. QED
    BY WalkKeepsStates
<1>4. KeepsTo(A, step, 1..n) /\ \A k \in 1..n : \A a \in A : step[k][a] = Op(a, p[k])
  <2>1. \A k \in 1..n : \A a \in A : step[k][a] = Op(a, p[k])
    OBVIOUS
  <2> HIDE DEF step, Op
  <2>2. QED
    BY <1>3, <2>1 DEF KeepsTo
<1> HIDE DEF step, base
<1>5. PICK g \in [SUBSET (1..n) -> A] : IsLeftFold(g, n, base, step)
  <2> HIDE DEF n, A, p, Op
  <2>1. QED
    BY <1>1, <1>2, <1>4, LeftFoldExists
<1>6. \A T \in SUBSET (1..n) : T # {} => Max(T) \in T
  BY <1>1, MaxInPrefix
<1>7. Eq(g)
  <2> HIDE DEF Op, A, p
  <2>1. \A T \in SUBSET (1..n) : g[T] = IF T = {} THEN base ELSE Op(g[T \ {Max(T)}], p[Max(T)])
    <3> SUFFICES ASSUME NEW T \in SUBSET (1..n), T # {}
                 PROVE  g[T] = Op(g[T \ {Max(T)}], p[Max(T)])
      BY <1>5 DEF IsLeftFold
    <3>1. Max(T) \in 1..n /\ T \ {Max(T)} \in SUBSET (1..n)
      BY <1>6
    <3>2. g[T \ {Max(T)}] \in A
      BY <1>5, <3>1
    <3>3. QED
      BY <1>4, <1>5, <3>1, <3>2 DEF IsLeftFold
  <2> HIDE DEF n
  <2>2. QED
    BY <1>1, <1>5, <2>1
<1>8. Eq(iter)
  <2> HIDE DEF Eq
  <2>1. QED
    BY <1>7
<1>9. WalkedThrough(old, new, lcs) = iter[1..n]
  <2>1. WalkedThrough(old, new, lcs) = iter[DOMAIN p]
    <3>1. WalkedThrough(old, new, lcs) = FoldLeft(LAMBDA w, t : Walk(old, new, lcs, w), base, p)
      BY Zenon DEF WalkedThrough, base
    <3>2. FoldLeft(LAMBDA w, t : Walk(old, new, lcs, w), base, p) = iter[DOMAIN p]
      BY Zenon DEF FoldLeft, MapThenFoldSet
    <3>3. QED
      BY <3>1, <3>2, Zenon
  <2>2. QED
    BY <1>1, <2>1
<1>10. Unrolls(iter, n, A, base, step)
  <2>1. iter[{}] = base
    <3>1. {} \in SUBSET (DOMAIN p)
      OBVIOUS
    <3> HIDE DEF iter, Op, p
    <3>2. QED
      BY <1>8, <3>1
  <2>2. ASSUME NEW k \in 1..n, iter[1..(k - 1)] \in A
        PROVE  iter[1..k] = step[k][iter[1..(k - 1)]]
    <3>1. Max(1..k) = k /\ (1..k) \ {Max(1..k)} = 1..(k - 1) /\ 1..k # {}
      <4> HIDE DEF iter, Op, n, p, A, step
      <4>1. k \in Nat \ {0}
        BY <1>1
      <4>2. QED
        BY <4>1, MaxOfPrefix
    <3>2. 1..k \in SUBSET (DOMAIN p)
      <4> HIDE DEF iter, Op, n, p, A
      <4>1. QED
        BY <1>1
    <3> HIDE DEF iter, Op, p, A
    <3>3. iter[1..k] = Op(iter[(1..k) \ {Max(1..k)}], p[Max(1..k)])
      BY <1>8, <3>1, <3>2
    <3>4. iter[1..k] = Op(iter[1..(k - 1)], p[k])
      BY <3>1, <3>3
    <3>5. QED
      BY <1>4, <2>2, <3>4
  <2> HIDE DEF iter, n, A
  <2>3. QED
    BY <2>1, <2>2 DEF Unrolls
<1> HIDE DEF iter, A, Op
<1>11. PICK h \in [0..n -> A] : Accumulates(h, n, base, step) /\ h[n] = iter[1..n]
  <2> HIDE DEF n, p
  <2>1. QED
    BY SMTT(60), <1>1, <1>2, <1>4, <1>10, LeftFoldPrefixes
<1>12. \A k \in 1..n : h[k] = Op(h[k - 1], p[k])
  <2> SUFFICES ASSUME NEW k \in 1..n PROVE h[k] = Op(h[k - 1], p[k])
    OBVIOUS
  <2>1. k - 1 \in 0..n
    BY <1>1
  <2>2. h[k - 1] \in A
    BY <1>11, <2>1
  <2>3. QED
    BY <1>4, <1>11, <2>2 DEF Accumulates
<1>13. h \in [0..n -> A] /\ h[0] = base /\ h[n] = WalkedThrough(old, new, lcs)
  BY <1>9, <1>11 DEF Accumulates
<1>14. QED
  BY <1>12, <1>13 DEF A, Op, n, p, base, WalkHistory

(* The walk ends behind the last lines.                                    *)
WalkedToTheEnd(a, b, lcs) ==
  \E m : /\ Walked(a, b, WalkedThrough(a, b, lcs), m)
         /\ WalkedThrough(a, b, lcs).i = Len(a) + 1
         /\ WalkedThrough(a, b, lcs).j = Len(b) + 1

(* A turn for every line of both texts walks through all of them.          *)
LEMMA WalkEnds ==
  ASSUME NEW X, NEW a \in Seq(X), NEW b \in Seq(X), Len(a) # 0, NEW lcs
  PROVE  WalkedToTheEnd(a, b, lcs)
<1> DEFINE N == Len(a) + Len(b)
<1>1. Len(a) \in Nat /\ Len(b) \in Nat /\ N \in Nat /\ N \in 0..N
  BY LenProperties
<1>2. PICK h \in [0..N -> WalkedStates(a, b)] :
        /\ h[0] = WalkStart
        /\ h[N] = WalkedThrough(a, b, lcs)
        /\ \A k \in 1..N : h[k] = Walk(a, b, lcs, h[k - 1])
  <2>1. PICK h \in [0..(Len(a) + Len(b)) -> WalkedStates(a, b)] : WalkHistory(h, a, b, lcs)
    BY WalkFolds
  <2>2. QED
    BY <2>1 DEF WalkHistory
<1> DEFINE Done(k) == h[k].i > Len(a) /\ h[k].j > Len(b)
           P == {k \in 0..N : Done(k) \/ h[k].i + h[k].j >= k + 2}
<1>3. 0 \in P
  <2>1. h[0].i = 1 /\ h[0].j = 1
    BY <1>2 DEF WalkStart
  <2>2. 0 \in 0..N
    BY <1>1
  <2>3. QED
    BY <2>1, <2>2
<1>4. ASSUME NEW k \in 0..N
      PROVE  h[k].i \in 1..(Len(a) + 1) /\ h[k].j \in 1..(Len(b) + 1) /\ \E m : Walked(a, b, h[k], m)
  <2>1. h[k] \in WalkedStates(a, b)
    BY <1>2
  <2>2. QED
    BY <2>1 DEF WalkedStates, WalkRecord
<1> HIDE DEF N
<1>5. ASSUME NEW k \in 1..N, k - 1 \in P PROVE k \in P
  <2>1. k \in 0..N /\ k - 1 \in 0..N
    BY <1>1
  <2> DEFINE w == h[k - 1]
             v == h[k]
  <2>2. v = Walk(a, b, lcs, w)
    BY <1>2
  <2>3. PICK m : Walked(a, b, w, m)
    BY <1>4, <2>1
  <2>4. w.i \in 1..(Len(a) + 1) /\ w.j \in 1..(Len(b) + 1)
        /\ v.i \in 1..(Len(a) + 1) /\ v.j \in 1..(Len(b) + 1)
    BY <1>4, <2>1
  <2>5. (w.i > Len(a) /\ w.j > Len(b)) \/ w.i + w.j >= (k - 1) + 2
    BY <1>5
  <2> HIDE DEF w, v, P
  <2>6. Turns(a, b, v, w)
    BY <2>2, <2>3, WalkGoesOn
  <2>7. (v.i > Len(a) /\ v.j > Len(b)) \/ v.i + v.j >= k + 2
    <3>1. CASE w.i > Len(a) /\ w.j > Len(b)
      BY <2>6, <3>1 DEF Turns
    <3>2. CASE ~(w.i > Len(a) /\ w.j > Len(b))
      <4>1. v.i + v.j >= w.i + w.j + 1
        BY <2>6, <3>2 DEF Turns
      <4>2. w.i + w.j >= (k - 1) + 2
        BY <2>5, <3>2
      <4>3. v.i + v.j >= k + 2
        BY SMTT(60), <1>1, <2>1, <2>4, <4>1, <4>2
      <4>4. QED
        BY <4>3
    <3>3. QED
      BY <3>1, <3>2
  <2>8. QED
    BY <2>1, <2>7 DEF P, v
<1>6. N \in P
  <2> HIDE DEF P
  <2>1. QED
    BY <1>1, <1>3, <1>5, PrefixInduction
<1>7. h[N].i = Len(a) + 1 /\ h[N].j = Len(b) + 1
  <2>1. Done(N) \/ h[N].i + h[N].j >= N + 2
    BY <1>6
  <2>2. h[N].i \in 1..(Len(a) + 1) /\ h[N].j \in 1..(Len(b) + 1)
    BY <1>1, <1>4
  <2>3. QED
    BY <1>1, <2>1, <2>2 DEF N
<1>8. QED
  BY <1>1, <1>2, <1>4, <1>7 DEF WalkedToTheEnd

---------------------------------------------------------------------------------
(* Every block replaces a line in the end.                                 *)

(* Blocks that replace a line.                                             *)
Whole(n, k) == {x \in Pieces(n, k) : x.aStart < x.aEnd}

(* Every line that has a match has one of the k.                           *)
Matches(m, n, k) == m \in [1..n -> Nat] /\ \A p \in 1..n : m[p] # 0 => m[p] \in 1..k

(* What several blocks cover.                                              *)
LEMMA CoveredJoins ==
  ASSUME NEW S, NEW T
  PROVE  /\ Covered(S \cup T) = Covered(S) \cup Covered(T)
         /\ NewCovered(S \cup T) = NewCovered(S) \cup NewCovered(T)
BY DEF Covered, NewCovered

(* A set of blocks, and another one.                                       *)
LEMMA CoveredWith ==
  ASSUME NEW S, NEW x
  PROVE  /\ Covered(S \cup {x}) = Covered(S) \cup Lines(x)
         /\ NewCovered(S \cup {x}) = NewCovered(S) \cup NewLines(x)
BY DEF Covered, NewCovered

(* A block y has the lines of x and a matched pair of others.              *)
TakesPair(y, x, n, k, m) ==
  /\ y \in Whole(n, k)
  /\ \E p \in 1..n : /\ m[p] # 0
                     /\ Lines(y) = Lines(x) \cup {p}
                     /\ NewLines(y) = NewLines(x) \cup {m[p]}

(* A block without lines goes into the one it follows.                     *)
LEMMA InsertionFollows ==
  ASSUME NEW n \in Nat, NEW k \in Nat, NEW z \in Whole(n, k), NEW x \in Pieces(n, k),
         ~(x.aEnd > x.aStart), z.aEnd = x.aStart, z.bEnd = x.bStart,
         NEW y, y = Block(z.aStart, z.aEnd, z.bStart, x.bEnd)
  PROVE  /\ y \in Whole(n, k)
         /\ Lines(y) = Lines(z) \cup Lines(x)
         /\ NewLines(y) = NewLines(z) \cup NewLines(x)
<1>1. /\ z.aStart \in 1..(n + 1) /\ z.aEnd \in z.aStart..(n + 1) /\ z.bStart \in 1..(k + 1)
      /\ z.bEnd \in z.bStart..(k + 1) /\ z.aStart < z.aEnd /\ x.aStart \in 1..(n + 1)
      /\ x.aEnd \in x.aStart..(n + 1) /\ x.bStart \in 1..(k + 1) /\ x.bEnd \in x.bStart..(k + 1)
      /\ z.aEnd \in 1..(n + 1) /\ x.aEnd \in 1..(n + 1) /\ x.bEnd \in 1..(k + 1)
  BY PieceHas DEF Whole, Pieces
<1>2. PICK p \in 1..(n + 1), q \in 1..(n + 1), r \in 1..(k + 1), s \in 1..(k + 1), t \in 1..(k + 1) :
        /\ p = z.aStart /\ q = z.aEnd /\ r = z.bStart /\ s = z.bEnd /\ t = x.bEnd
        /\ p < q /\ r <= s /\ s <= t /\ x.aStart = q /\ x.aEnd = q /\ x.bStart = s
  BY SMTT(60), <1>1
<1>3. y = Block(p, q, r, t) /\ q \in p..(n + 1) /\ t \in r..(k + 1)
  BY <1>2
<1>4. IsPiece(y, n, k, p, q, r, t)
  <2>1. y = Block(p, q, r, t)
    BY <1>3
  <2>2. QED
    BY <1>3, <2>1, BlockIsPiece
<1>5. y \in Whole(n, k)
  BY <1>2, <1>4 DEF IsPiece, Whole
<1>6. Lines(y) = p..(q - 1) /\ Lines(z) = p..(q - 1) /\ Lines(x) = q..(q - 1)
  BY <1>2, <1>4 DEF IsPiece, Lines
<1>7. NewLines(y) = r..(t - 1) /\ NewLines(z) = r..(s - 1) /\ NewLines(x) = s..(t - 1)
  BY <1>2, <1>4 DEF IsPiece, NewLines
<1>8. q..(q - 1) = {} /\ r..(t - 1) = r..(s - 1) \cup s..(t - 1)
  BY <1>2
<1>9. QED
  BY <1>5, <1>6, <1>7, <1>8

(* Or it takes in the matched line before it.                              *)
LEMMA InsertionTakes ==
  ASSUME NEW n \in Nat, NEW k \in Nat, NEW m, Matches(m, n, k), NEW x \in Pieces(n, k), Placed(x, m),
         ~(x.aEnd > x.aStart), x.aStart > 1
  PROVE  TakesPair(Block(x.aStart - 1, x.aEnd, x.bStart - 1, x.bEnd), x, n, k, m)
<1> DEFINE y == Block(x.aStart - 1, x.aEnd, x.bStart - 1, x.bEnd)
<1>1. /\ x.aStart \in 1..(n + 1) /\ x.aEnd \in x.aStart..(n + 1) /\ x.aEnd \in 1..(n + 1)
      /\ x.bStart \in 1..(k + 1) /\ x.bEnd \in x.bStart..(k + 1) /\ x.bEnd \in 1..(k + 1)
  BY PieceHas DEF Pieces
<1>2. PICK q \in 1..(n + 1), s \in 1..(k + 1), t \in 1..(k + 1) :
        q = x.aStart /\ q = x.aEnd /\ s = x.bStart /\ t = x.bEnd /\ s <= t /\ q > 1
  BY <1>1
<1>3. PICK p \in 1..(n + 1), r \in Int : p = q - 1 /\ r = s - 1 /\ p \in 1..n /\ q = p + 1
  BY <1>2
<1>4. ~(x.aStart < x.aEnd) /\ x.aStart # 1
  BY <1>2
<1>5. m[p] # 0 /\ m[p] = r
  <2>1. m[x.aStart - 1] # 0 /\ m[x.aStart - 1] = x.bStart - 1
    BY <1>4 DEF Placed, Begun
  <2>2. QED
    BY <1>2, <1>3, <2>1
<1>6. r \in 1..(k + 1) /\ q \in p..(n + 1) /\ t \in r..(k + 1)
  <2>1. r \in 1..k
    BY <1>3, <1>5 DEF Matches
  <2>2. QED
    BY <1>2, <1>3, <2>1
<1>7. y = Block(p, q, r, t)
  BY <1>2, <1>3
<1> HIDE DEF y
<1>8. IsPiece(y, n, k, p, q, r, t)
  BY <1>6, <1>7, BlockIsPiece
<1>9. y \in Whole(n, k)
  BY <1>3, <1>8 DEF IsPiece, Whole
<1>10. Lines(y) = p..(q - 1) /\ Lines(x) = q..(q - 1)
  BY <1>2, <1>8 DEF IsPiece, Lines
<1>11. NewLines(y) = r..(t - 1) /\ NewLines(x) = s..(t - 1)
  BY <1>2, <1>8 DEF IsPiece, NewLines
<1>12. p..(q - 1) = q..(q - 1) \cup {p} /\ r..(t - 1) = s..(t - 1) \cup {r}
  BY <1>2, <1>3
<1>13. Lines(y) = Lines(x) \cup {p} /\ NewLines(y) = NewLines(x) \cup {m[p]}
  BY <1>5, <1>10, <1>11, <1>12
<1>14. p \in 1..n /\ m[p] # 0
  BY <1>3, <1>5
<1>15. QED
  BY <1>9, <1>13, <1>14 DEF TakesPair, y

(* Or the first line, and what it matches.                                 *)
LEMMA InsertionIsFirst ==
  ASSUME NEW n \in Nat \ {0}, NEW k \in Nat, NEW m, Matches(m, n, k), NEW x \in Pieces(n, k), Placed(x, m),
         ~(x.aEnd > x.aStart), ~(x.aStart > 1)
  PROVE  TakesPair(Block(1, 2, x.bStart, x.bEnd + 1), x, n, k, m)
<1> DEFINE y == Block(1, 2, x.bStart, x.bEnd + 1)
<1>1. /\ x.aStart \in 1..(n + 1) /\ x.aEnd \in x.aStart..(n + 1) /\ x.aEnd \in 1..(n + 1)
      /\ x.bStart \in 1..(k + 1) /\ x.bEnd \in x.bStart..(k + 1) /\ x.bEnd \in 1..(k + 1)
  BY PieceHas DEF Pieces
<1>2. PICK s \in 1..(k + 1), t \in 1..(k + 1), u \in Int :
        x.aStart = 1 /\ x.aEnd = 1 /\ s = x.bStart /\ t = x.bEnd /\ s <= t /\ u = t + 1
  BY <1>1
<1>3. ~(x.aStart < x.aEnd) /\ ~(x.aStart > 1)
  BY <1>2
<1>4. m[1] = t
  BY <1>2, <1>3 DEF Placed
<1>5. 1 \in 1..n /\ m[1] # 0 /\ t \in 1..k
  <2>1. 1 \in 1..n /\ t # 0
    BY <1>2
  <2>2. QED
    BY <1>4, <2>1 DEF Matches
<1>6. u \in s..(k + 1) /\ 2 \in 1..(n + 1) /\ 1 \in 1..(n + 1)
  BY <1>2, <1>5
<1>7. y = Block(1, 2, s, u)
  BY <1>2
<1> HIDE DEF y
<1>8. IsPiece(y, n, k, 1, 2, s, u)
  BY <1>6, <1>7, BlockIsPiece
<1>9. y \in Whole(n, k)
  BY <1>8 DEF IsPiece, Whole
<1>10. Lines(y) = 1..(2 - 1) /\ Lines(x) = 1..(1 - 1)
  BY <1>2, <1>8 DEF IsPiece, Lines
<1>11. NewLines(y) = s..(u - 1) /\ NewLines(x) = s..(t - 1)
  BY <1>2, <1>8 DEF IsPiece, NewLines
<1>12. 1..(2 - 1) = 1..(1 - 1) \cup {1} /\ s..(u - 1) = s..(t - 1) \cup {t}
  BY <1>2
<1>13. Lines(y) = Lines(x) \cup {1} /\ NewLines(y) = NewLines(x) \cup {m[1]}
  BY <1>4, <1>10, <1>11, <1>12
<1>14. QED
  BY <1>5, <1>9, <1>13 DEF TakesPair, y

(* A block more covers its lines, and a matched pair of others at most.    *)
Widens(res, result, x, n, k, m) ==
  /\ res \in Seq(Whole(n, k))
  /\ \/ /\ Covered(Range(res)) = Covered(Range(result)) \cup Lines(x)
        /\ NewCovered(Range(res)) = NewCovered(Range(result)) \cup NewLines(x)
     \/ \E p \in 1..n :
          /\ m[p] # 0
          /\ Covered(Range(res)) = (Covered(Range(result)) \cup Lines(x)) \cup {p}
          /\ NewCovered(Range(res)) = (NewCovered(Range(result)) \cup NewLines(x)) \cup {m[p]}

WidenHistory(h, raws) ==
  /\ h[0] = <<>>
  /\ h[Len(raws)] = FoldLeft(Widen, <<>>, raws)
  /\ \A k \in 1..Len(raws) : h[k] = Widen(h[k - 1], raws[k])

CoversAlso(t, s, x, X) ==
  /\ t \in Seq(X)
  /\ Covered(Range(t)) = Covered(Range(s)) \cup Lines(x)
  /\ NewCovered(Range(t)) = NewCovered(Range(s)) \cup NewLines(x)

(* A block that is appended covers its own lines besides.                  *)
LEMMA AppendCovers ==
  ASSUME NEW X, NEW s \in Seq(X), NEW x \in X
  PROVE  CoversAlso(Append(s, x), s, x, X)
<1> DEFINE t == Append(s, x)
           R == Range(s)
<1>1. t \in Seq(X) /\ Range(t) = R \cup {x}
  BY AppendedRange
<1> HIDE DEF t, R
<1>2. Covered(R \cup {x}) = Covered(R) \cup Lines(x) /\ NewCovered(R \cup {x}) = NewCovered(R) \cup NewLines(x)
  BY CoveredWith
<1>3. Covered(Range(t)) = Covered(R) \cup Lines(x) /\ NewCovered(Range(t)) = NewCovered(R) \cup NewLines(x)
  BY <1>1, <1>2, Zenon
<1>4. QED
  BY <1>1, <1>3 DEF CoversAlso, R, t

(* The last block takes in the lines of x.                                 *)
LEMMA LastGrowsCovers ==
  ASSUME NEW X, NEW s \in Seq(X), Len(s) > 0, NEW x, NEW y \in X,
         Lines(y) = Lines(s[Len(s)]) \cup Lines(x),
         NewLines(y) = NewLines(s[Len(s)]) \cup NewLines(x)
  PROVE  CoversAlso([s EXCEPT ![Len(s)] = y], s, x, X)
<1> DEFINE n == Len(s)
           t == [s EXCEPT ![n] = y]
           z == s[n]
           Q == {s[i] : i \in 1..(n - 1)}
<1>1. n \in Nat /\ n \in 1..n
  BY LenProperties
<1>2. t \in Seq(X) /\ Len(t) = n /\ \A i \in 1..n : t[i] = IF i = n THEN y ELSE s[i]
  BY <1>1, ExceptSeq
<1> HIDE DEF t
<1>3. Range(t) = {t[i] : i \in 1..n} /\ Range(s) = {s[i] : i \in 1..n}
  <2>1. Range(s) = {s[i] : i \in 1..n}
    BY RangeEquality
  <2> HIDE DEF n
  <2>2. Range(t) = {t[i] : i \in 1..Len(t)}
    BY <1>2, RangeEquality
  <2>3. QED
    BY <1>2, <2>1, <2>2
<1> HIDE DEF n
<1>4. (\A i \in 1..(n - 1) : i \in 1..n /\ i # n) /\ \A i \in 1..n : i = n \/ i \in 1..(n - 1)
  BY <1>1
<1>5. Range(s) = Q \cup {z}
  BY <1>1, <1>3, <1>4
<1>6. Range(t) = Q \cup {y}
  <2>1. \A i \in 1..(n - 1) : t[i] = s[i]
    BY <1>2, <1>4
  <2>2. t[n] = y
    BY <1>1, <1>2
  <2>3. QED
    BY <1>1, <1>3, <1>4, <2>1, <2>2
<1>7. Lines(y) = Lines(z) \cup Lines(x) /\ NewLines(y) = NewLines(z) \cup NewLines(x)
  BY DEF n
<1> HIDE DEF Q, z
<1>8. /\ Covered(Q \cup {z}) = Covered(Q) \cup Lines(z) /\ Covered(Q \cup {y}) = Covered(Q) \cup Lines(y)
      /\ NewCovered(Q \cup {z}) = NewCovered(Q) \cup NewLines(z)
      /\ NewCovered(Q \cup {y}) = NewCovered(Q) \cup NewLines(y)
  BY CoveredWith
<1>9. /\ Covered(Range(s)) = Covered(Q) \cup Lines(z) /\ Covered(Range(t)) = Covered(Q) \cup Lines(y)
      /\ NewCovered(Range(s)) = NewCovered(Q) \cup NewLines(z)
      /\ NewCovered(Range(t)) = NewCovered(Q) \cup NewLines(y)
  BY <1>5, <1>6, <1>8, Zenon
<1>10. Covered(Range(t)) = Covered(Range(s)) \cup Lines(x)
  BY <1>7, <1>9
<1>11. NewCovered(Range(t)) = NewCovered(Range(s)) \cup NewLines(x)
  BY <1>7, <1>9
<1>12. QED
  BY <1>2, <1>10, <1>11 DEF CoversAlso, t, n

(* Widening a block keeps to the matched lines.                            *)
LEMMA WidenIsSound ==
  ASSUME NEW n \in Nat \ {0}, NEW k \in Nat, NEW m, Matches(m, n, k),
         NEW result \in Seq(Whole(n, k)), NEW x \in Pieces(n, k), Placed(x, m)
  PROVE  Widens(Widen(result, x), result, x, n, k, m)
<1> DEFINE c == Len(result)
           z == result[c]
           joins == c > 0 /\ z.aEnd = x.aStart /\ z.bEnd = x.bStart
           res == Widen(result, x)
<1>1. CASE x.aEnd > x.aStart
  <2>1. res = Append(result, x)
    BY <1>1 DEF Widen
  <2>2. x \in Whole(n, k)
    <3>1. x.aStart \in Int /\ x.aEnd \in Int
      BY DEF Pieces
    <3>2. QED
      BY <1>1, <3>1 DEF Whole
  <2> HIDE DEF res
  <2>3. QED
    BY <2>1, <2>2, AppendCovers DEF Widens, CoversAlso, res
<1>2. CASE ~(x.aEnd > x.aStart) /\ joins
  <2> DEFINE y == Block(z.aStart, z.aEnd, z.bStart, x.bEnd)
  <2>1. res = [result EXCEPT ![c] = y]
    BY <1>2 DEF Widen
  <2>2. c \in 1..c
    BY <1>2, LenProperties
  <2>3. z \in Whole(n, k)
    BY <2>2, ElementOfSeq
  <2> HIDE DEF res, z, c
  <2>4. y \in Whole(n, k) /\ Lines(y) = Lines(z) \cup Lines(x) /\ NewLines(y) = NewLines(z) \cup NewLines(x)
    BY <1>2, <2>3, InsertionFollows
  <2> HIDE DEF y
  <2>5. CoversAlso(res, result, x, Whole(n, k))
    BY <1>2, <2>1, <2>4, LastGrowsCovers DEF z, c
  <2>6. QED
    BY <2>5 DEF Widens, CoversAlso, res
<1>3. CASE ~(x.aEnd > x.aStart) /\ ~joins
  <2> DEFINE y == IF x.aStart > 1 THEN Block(x.aStart - 1, x.aEnd, x.bStart - 1, x.bEnd)
                  ELSE Block(1, 2, x.bStart, x.bEnd + 1)
  <2>1. res = Append(result, y)
    BY <1>3, Zenon DEF Widen
  <2> HIDE DEF res
  <2>2. TakesPair(y, x, n, k, m)
    <3>1. CASE x.aStart > 1
      <4>1. y = Block(x.aStart - 1, x.aEnd, x.bStart - 1, x.bEnd)
        BY <3>1
      <4> HIDE DEF y
      <4>2. QED
        BY <1>3, <3>1, <4>1, InsertionTakes
    <3>2. CASE ~(x.aStart > 1)
      <4>1. y = Block(1, 2, x.bStart, x.bEnd + 1)
        BY <3>2
      <4> HIDE DEF y
      <4>2. QED
        BY <1>3, <3>2, <4>1, InsertionIsFirst
    <3>3. QED
      BY <3>1, <3>2
  <2>3. PICK p \in 1..n : /\ m[p] # 0
                          /\ Lines(y) = Lines(x) \cup {p}
                          /\ NewLines(y) = NewLines(x) \cup {m[p]}
    BY <2>2 DEF TakesPair
  <2> HIDE DEF y
  <2>4. /\ res \in Seq(Whole(n, k))
        /\ Covered(Range(res)) = Covered(Range(result)) \cup Lines(y)
        /\ NewCovered(Range(res)) = NewCovered(Range(result)) \cup NewLines(y)
    BY <2>1, <2>2, AppendCovers DEF TakesPair, CoversAlso
  <2>5. /\ Covered(Range(res)) = (Covered(Range(result)) \cup Lines(x)) \cup {p}
        /\ NewCovered(Range(res)) = (NewCovered(Range(result)) \cup NewLines(x)) \cup {m[p]}
    BY <2>3, <2>4
  <2>6. QED
    BY <2>3, <2>4, <2>5 DEF Widens, res
<1>4. QED
  BY <1>1, <1>2, <1>3

(* The blocks are widened one after another.                               *)
LEMMA WidenFolds ==
  ASSUME NEW y \in Nat \ {0}, NEW z \in Nat, NEW m, Matches(m, y, z),
         NEW raws \in Seq(Pieces(y, z)), \A q \in 1..Len(raws) : Placed(raws[q], m)
  PROVE  \E h \in [0..Len(raws) -> Seq(Whole(y, z))] :
           WidenHistory(h, raws)
<1> DEFINE n == Len(raws)
           p == raws
           A == Seq(Whole(y, z))
           base == <<>>
           Op(a, x) == Widen(a, x)
           step == [k \in 1..n |-> [a \in A |-> Op(a, p[k])]]
           Eq(it) == it = [s \in SUBSET (DOMAIN p) |-> IF s = {} THEN base
                                ELSE Op(it[s \ {Max(s)}], p[Max(s)])]
           iter == CHOOSE it : Eq(it)
<1>1. n \in Nat /\ DOMAIN p = 1..n
  BY LenProperties
<1>2. base \in A
  OBVIOUS
<1>3. \A k \in 1..n : \A a \in A : Op(a, p[k]) \in A
  <2> SUFFICES ASSUME NEW k \in 1..n, NEW a \in A PROVE Op(a, p[k]) \in A
    OBVIOUS
  <2>1. p[k] \in Pieces(y, z) /\ Placed(p[k], m)
    BY ElementOfSeq
  <2> HIDE DEF n, p
  <2>2. Widens(Widen(a, p[k]), a, p[k], y, z, m)
    BY <2>1, WidenIsSound
  <2>3. QED
    BY <2>2 DEF Widens
<1>4. KeepsTo(A, step, 1..n) /\ \A k \in 1..n : \A a \in A : step[k][a] = Op(a, p[k])
  <2>1. \A k \in 1..n : \A a \in A : step[k][a] = Op(a, p[k])
    OBVIOUS
  <2> HIDE DEF step, Op
  <2>2. QED
    BY <1>3, <2>1 DEF KeepsTo
<1> HIDE DEF step, base
<1>5. PICK g \in [SUBSET (1..n) -> A] : IsLeftFold(g, n, base, step)
  <2> HIDE DEF n, A, p, Op
  <2>1. QED
    BY <1>1, <1>2, <1>4, LeftFoldExists
<1>6. \A T \in SUBSET (1..n) : T # {} => Max(T) \in T
  BY <1>1, MaxInPrefix
<1>7. Eq(g)
  <2> HIDE DEF Op, A, p
  <2>1. \A T \in SUBSET (1..n) : g[T] = IF T = {} THEN base ELSE Op(g[T \ {Max(T)}], p[Max(T)])
    <3> SUFFICES ASSUME NEW T \in SUBSET (1..n), T # {}
                 PROVE  g[T] = Op(g[T \ {Max(T)}], p[Max(T)])
      BY <1>5 DEF IsLeftFold
    <3>1. Max(T) \in 1..n /\ T \ {Max(T)} \in SUBSET (1..n)
      BY <1>6
    <3>2. g[T \ {Max(T)}] \in A
      BY <1>5, <3>1
    <3>3. QED
      BY <1>4, <1>5, <3>1, <3>2 DEF IsLeftFold
  <2> HIDE DEF n
  <2>2. QED
    BY <1>1, <1>5, <2>1
<1>8. Eq(iter)
  <2> HIDE DEF Eq
  <2>1. QED
    BY <1>7
<1>9. FoldLeft(Widen, base, p) = iter[1..n]
  <2>1. FoldLeft(Widen, base, p) = iter[DOMAIN p]
    BY Zenon DEF FoldLeft, MapThenFoldSet
  <2>2. QED
    BY <1>1, <2>1
<1>10. Unrolls(iter, n, A, base, step)
  <2>1. iter[{}] = base
    <3>1. {} \in SUBSET (DOMAIN p)
      OBVIOUS
    <3> HIDE DEF iter, Op, p
    <3>2. QED
      BY <1>8, <3>1
  <2>2. ASSUME NEW k \in 1..n, iter[1..(k - 1)] \in A
        PROVE  iter[1..k] = step[k][iter[1..(k - 1)]]
    <3>1. Max(1..k) = k /\ (1..k) \ {Max(1..k)} = 1..(k - 1) /\ 1..k # {}
      <4> HIDE DEF iter, Op, n, p, A, step
      <4>1. k \in Nat \ {0}
        BY <1>1
      <4>2. QED
        BY <4>1, MaxOfPrefix
    <3>2. 1..k \in SUBSET (DOMAIN p)
      <4> HIDE DEF iter, Op, n, p, A
      <4>1. QED
        BY <1>1
    <3> HIDE DEF iter, Op, p, A
    <3>3. iter[1..k] = Op(iter[(1..k) \ {Max(1..k)}], p[Max(1..k)])
      BY <1>8, <3>1, <3>2
    <3>4. iter[1..k] = Op(iter[1..(k - 1)], p[k])
      BY <3>1, <3>3
    <3>5. QED
      BY <1>4, <2>2, <3>4
  <2> HIDE DEF iter, n, A
  <2>3. QED
    BY <2>1, <2>2 DEF Unrolls
<1> HIDE DEF iter, A, Op
<1>11. PICK h \in [0..n -> A] : Accumulates(h, n, base, step) /\ h[n] = iter[1..n]
  <2> HIDE DEF n, p
  <2>1. QED
    BY <1>1, <1>2, <1>4, <1>10, LeftFoldPrefixes
<1>12. \A k \in 1..n : h[k] = Op(h[k - 1], p[k])
  <2> SUFFICES ASSUME NEW k \in 1..n PROVE h[k] = Op(h[k - 1], p[k])
    OBVIOUS
  <2>1. k - 1 \in 0..n
    BY <1>1
  <2>2. h[k - 1] \in A
    BY <1>11, <2>1
  <2>3. QED
    BY <1>4, <1>11, <2>2 DEF Accumulates
<1>13. h \in [0..n -> A] /\ h[0] = base /\ h[n] = FoldLeft(Widen, base, p)
  BY <1>9, <1>11 DEF Accumulates
<1>14. QED
  BY <1>12, <1>13 DEF A, Op, n, p, base, WidenHistory

(* Lines that are in no widened block are matched, and the same.           *)
LEMMA WidenedMatches ==
  ASSUME NEW a, NEW b, Len(a) \in Nat \ {0}, Len(b) \in Nat, NEW m,
         NEW list \in Seq(Pieces(Len(a), Len(b))), \A q \in 1..Len(list) : Placed(list[q], m),
         Matched(a, b, Len(a) + 1, Len(b) + 1, m, Covered(Range(list)), NewCovered(Range(list))),
         NEW wide, wide = FoldLeft(Widen, <<>>, list)
  PROVE  /\ wide \in Seq(Whole(Len(a), Len(b)))
         /\ Matched(a, b, Len(a) + 1, Len(b) + 1, m, Covered(Range(wide)), NewCovered(Range(wide)))
<1> DEFINE n == Len(a)
           k == Len(b)
           N == Len(list)
<1>1. N \in Nat /\ n \in Nat \ {0} /\ k \in Nat /\ (n + 1) - 1 = n /\ (k + 1) - 1 = k
      /\ n + 1 \in Nat /\ k + 1 \in Nat
  BY LenProperties
<1> HIDE DEF n, k, N
<1>2. Matches(m, n, k)
  <2>1. /\ m \in [1..n -> Nat]
        /\ \A p \in 1..((n + 1) - 1) : m[p] # 0 => m[p] \in 1..((k + 1) - 1)
    BY DEF Matched, n, k
  <2>2. QED
    BY <1>1, <2>1 DEF Matches
<1>3. PICK h \in [0..N -> Seq(Whole(n, k))] : WidenHistory(h, list)
  <2>1. list \in Seq(Pieces(n, k))
    BY DEF n, k
  <2>2. QED
    BY <1>1, <1>2, <2>1, WidenFolds DEF N
<1>4. h[0] = <<>> /\ h[N] = wide /\ \A l \in 1..N : h[l] = Widen(h[l - 1], list[l])
  BY <1>3 DEF WidenHistory, N
<1> DEFINE Rest(l) == {list[q] : q \in (l + 1)..N}
           A(l) == Covered(Range(h[l])) \cup Covered(Rest(l))
           B(l) == NewCovered(Range(h[l])) \cup NewCovered(Rest(l))
           P == {l \in 0..N : Matched(a, b, n + 1, k + 1, m, A(l), B(l))}
<1>5. Range(list) = {list[q] : q \in 1..N}
  BY RangeEquality DEF N
<1> HIDE DEF Rest
<1>6. 0 \in P
  <2> DEFINE e == <<>>
  <2>1. e \in Seq(Nat) /\ Len(e) = 0
    OBVIOUS
  <2> HIDE DEF e
  <2>2. Range(e) = {e[q] : q \in 1..0}
    BY ZenonT(60), <2>1, RangeEquality
  <2>3. Range(h[0]) = {}
    BY <1>4, <2>2 DEF e
  <2>4. Rest(0) = Range(list)
    BY <1>5 DEF Rest
  <2>5. Covered({}) = {} /\ NewCovered({}) = {}
    BY DEF Covered, NewCovered
  <2>6. A(0) = Covered(Range(list)) /\ B(0) = NewCovered(Range(list))
    BY <2>3, <2>4, <2>5
  <2> HIDE DEF A, B
  <2>7. Matched(a, b, n + 1, k + 1, m, A(0), B(0))
    BY <2>6 DEF n, k
  <2>8. QED
    BY <1>1, <2>7
<1>7. ASSUME NEW l \in 1..N, l - 1 \in P PROVE l \in P
  <2> DEFINE x == list[l]
             old == h[l - 1]
             new == h[l]
  <2>1. l \in 0..N /\ l - 1 \in 0..N /\ (l - 1) + 1 = l
    BY <1>1
  <2>2. x \in Pieces(n, k) /\ Placed(x, m)
    BY ElementOfSeq DEF N, n, k
  <2>3. old \in Seq(Whole(n, k)) /\ new = Widen(old, x)
    BY <1>3, <1>4, <2>1
  <2>4. Rest(l - 1) = {x} \cup Rest(l)
    <3>1. l..N = {l} \cup ((l + 1)..N)
      BY SMTT(60), <1>1
    <3>2. QED
      BY <2>1, <3>1 DEF Rest
  <2> HIDE DEF x
  <2>5. /\ Covered(Rest(l - 1)) = Lines(x) \cup Covered(Rest(l))
        /\ NewCovered(Rest(l - 1)) = NewLines(x) \cup NewCovered(Rest(l))
    <3> DEFINE S == Rest(l)
               T == Rest(l - 1)
    <3>1. Covered(S \cup {x}) = Covered(S) \cup Lines(x)
          /\ NewCovered(S \cup {x}) = NewCovered(S) \cup NewLines(x)
      BY CoveredWith
    <3>2. T = S \cup {x}
      BY <2>4
    <3> HIDE DEF S, T
    <3>3. Covered(T) = Covered(S) \cup Lines(x) /\ NewCovered(T) = NewCovered(S) \cup NewLines(x)
      BY <3>1, <3>2, Zenon
    <3>4. QED
      BY <3>3 DEF S, T
  <2>6. Matched(a, b, n + 1, k + 1, m, A(l - 1), B(l - 1))
    BY <1>7
  <2>7. Widens(new, old, x, n, k, m)
    <3> HIDE DEF old, new
    <3>1. QED
      BY <1>1, <1>2, <2>2, <2>3, WidenIsSound
  <2>8. CASE /\ Covered(Range(new)) = Covered(Range(old)) \cup Lines(x)
             /\ NewCovered(Range(new)) = NewCovered(Range(old)) \cup NewLines(x)
    <3>1. A(l) = A(l - 1) /\ B(l) = B(l - 1)
      BY <2>5, <2>8
    <3> HIDE DEF A, B
    <3>2. QED
      BY <2>1, <2>6, <3>1
  <2>9. ASSUME NEW p \in 1..n, m[p] # 0,
               Covered(Range(new)) = (Covered(Range(old)) \cup Lines(x)) \cup {p},
               NewCovered(Range(new)) = (NewCovered(Range(old)) \cup NewLines(x)) \cup {m[p]}
        PROVE  l \in P
    <3>1. A(l) = A(l - 1) \cup {p}
      BY <2>5, <2>9
    <3>2. B(l) = B(l - 1) \cup {m[p]}
      BY <2>5, <2>9
    <3> HIDE DEF A, B
    <3> DEFINE i == n + 1
               j == k + 1
    <3>3. i \in Nat /\ j \in Nat /\ i - 1 <= n /\ n \in Nat /\ p \in 1..(i - 1)
      BY <1>1
    <3>4. Matched(a, b, i, j, m, A(l - 1), B(l - 1))
      BY <2>6
    <3> HIDE DEF i, j
    <3>5. Matched(a, b, i, j, m, A(l - 1) \cup {p}, B(l - 1) \cup {m[p]})
      BY <2>9, <3>3, <3>4, CoverThePair DEF n
    <3>6. QED
      BY <2>1, <3>1, <3>2, <3>5 DEF i, j
  <2>10. QED
    BY <2>7, <2>8, <2>9 DEF Widens
<1>8. N \in P
  <2>1. N \in 0..N
    BY <1>1
  <2> HIDE DEF P
  <2>2. QED
    BY <1>1, <1>6, <1>7, <2>1, PrefixInduction
<1>9. Rest(N) = {} /\ N \in 0..N
  <2>1. (N + 1)..N = {}
    BY <1>1
  <2>2. QED
    BY <1>1, <2>1 DEF Rest
<1>10. A(N) = Covered(Range(wide)) /\ B(N) = NewCovered(Range(wide))
  <2>1. Covered({}) = {} /\ NewCovered({}) = {}
    BY DEF Covered, NewCovered
  <2>2. QED
    BY <1>4, <1>9, <2>1
<1> HIDE DEF A, B
<1>11. Matched(a, b, n + 1, k + 1, m, Covered(Range(wide)), NewCovered(Range(wide)))
  BY <1>8, <1>10
<1>12. wide \in Seq(Whole(n, k))
  BY <1>3, <1>4, <1>9
<1>13. QED
  BY <1>11, <1>12 DEF n, k

(* The blocks of two texts: each replaces a line, and the lines in none of *)
(* them are matched with the same.                                         *)
Differ(bs, a, b) ==
  /\ bs \in Seq(Whole(Len(a), Len(b)))
  /\ \E m : Matched(a, b, Len(a) + 1, Len(b) + 1, m, Covered(Range(bs)), NewCovered(Range(bs)))

(* Too long a text is one block.                                           *)
LEMMA AllInOneBlock ==
  ASSUME NEW X, NEW a \in Seq(X), NEW b \in Seq(X), Len(a) # 0
  PROVE  Differ(<<Block(1, Len(a) + 1, 1, Len(b) + 1)>>, a, b)
<1> DEFINE n == Len(a)
           k == Len(b)
           x == Block(1, n + 1, 1, k + 1)
           bs == <<x>>
           m == [p \in 1..n |-> 0]
<1>1. n \in Nat \ {0} /\ k \in Nat /\ (n + 1) - 1 = n /\ (k + 1) - 1 = k
  BY LenProperties
<1> HIDE DEF n, k
<1>2. IsPiece(x, n, k, 1, n + 1, 1, k + 1)
  <2>1. PICK q \in 1..(n + 1), s \in 1..(k + 1) : q = n + 1 /\ s = k + 1
    BY <1>1
  <2>2. 1 \in 1..(n + 1) /\ 1 \in 1..(k + 1) /\ x = Block(1, q, 1, s)
    BY <1>1, <2>1
  <2> HIDE DEF x
  <2>3. IsPiece(x, n, k, 1, q, 1, s)
    BY <1>1, <2>2, BlockIsPiece
  <2>4. QED
    BY <2>1, <2>3
<1> HIDE DEF x
<1>3. x \in Whole(n, k) /\ Lines(x) = 1..n /\ NewLines(x) = 1..k
  BY <1>1, <1>2 DEF IsPiece, Whole, Lines, NewLines
<1>4. bs \in Seq(Whole(n, k)) /\ Len(bs) = 1 /\ bs[1] = x
  BY <1>3
<1> HIDE DEF bs
<1>5. Range(bs) = {x}
  <2>1. Range(bs) = {bs[i] : i \in 1..1}
    BY <1>4, RangeEquality
  <2>2. QED
    BY <1>4, <2>1
<1>6. Covered({x}) = 1..n /\ NewCovered({x}) = 1..k
  BY <1>3 DEF Covered, NewCovered
<1>7. Covered(Range(bs)) = 1..n /\ NewCovered(Range(bs)) = 1..k
  BY <1>5, <1>6, Zenon
<1>8. Matched(a, b, n + 1, k + 1, m, 1..n, 1..k)
  <2>1. m \in [1..n -> Nat] /\ \A p \in 1..n : m[p] = 0
    OBVIOUS
  <2> HIDE DEF m
  <2>2. QED
    BY <1>1, <2>1 DEF Matched, n
<1> HIDE DEF m
<1>9. Differ(bs, a, b)
  BY <1>4, <1>7, <1>8 DEF Differ, n, k
<1>10. QED
  BY <1>9 DEF bs, x, n, k

(* The walk's blocks are where they may be widened.                        *)
LEMMA ClosedArePlaced ==
  ASSUME NEW a, NEW b, Len(a) \in Nat \ {0}, Len(b) \in Nat, NEW m, NEW w, Walked(a, b, w, m),
         w.i = Len(a) + 1, w.j = Len(b) + 1
  PROVE  /\ Close(w) \in Seq(Pieces(Len(a), Len(b)))
         /\ \A q \in 1..Len(Close(w)) : Placed(Close(w)[q], m)
         /\ Matched(a, b, Len(a) + 1, Len(b) + 1, m,
                    Covered(Range(Close(w))), NewCovered(Range(Close(w))))
<1> DEFINE n == Len(a)
           k == Len(b)
           list == Close(w)
           o == Opened(w)
<1>1. /\ w.blocks \in Seq(Pieces(n, k)) /\ (\A x \in Range(w.blocks) : Placed(x, m))
      /\ Matched(a, b, n + 1, k + 1, m, Covered(Range(w.blocks) \cup w.open),
                 NewCovered(Range(w.blocks) \cup w.open))
  BY DEF Walked
<1>2. Opens(a, b, w, m, o)
  <2> HIDE DEF n, k, list, o
  <2>1. QED
    BY OpenBlock DEF o
<1>3. /\ o \in Pieces(n, k) /\ o.aEnd = n + 1 /\ Begun(o, m)
      /\ w.open = {} \/ w.open = {o}
  BY <1>2 DEF Opens, OpenAt
<1>4. n \in Nat \ {0} /\ k \in Nat
  OBVIOUS
<1> HIDE DEF n, k, o, list
<1>5. Closes(list, w.blocks, w.open, n, k)
  BY <1>1, <1>3, <1>4, CloseCovers DEF list
<1>6. Placed(o, m)
  <2>1. /\ o.aStart \in 1..(n + 1) /\ o.aEnd \in o.aStart..(n + 1)
    BY <1>3, <1>4, PieceHas
  <2>2. PICK p \in 1..(n + 1) : p = o.aStart
    BY <2>1
  <2>3. p < n + 1 \/ p > 1
    BY <1>4
  <2>4. CASE p < n + 1
    BY <1>3, <2>2, <2>4 DEF Placed
  <2>5. CASE p > 1
    BY <1>3, <2>2, <2>5 DEF Placed
  <2>6. QED
    BY <2>3, <2>4, <2>5
<1>7. \A x \in Range(list) : Placed(x, m)
  <2> SUFFICES ASSUME NEW x \in Range(list) PROVE Placed(x, m)
    OBVIOUS
  <2>1. x \in Range(w.blocks) \/ x \in w.open \/ x.aStart < x.aEnd
    BY <1>5 DEF Closes
  <2>2. x \in w.open => x = o
    BY <1>3
  <2>3. x.aStart < x.aEnd => Placed(x, m)
    BY DEF Placed
  <2>4. QED
    BY <1>1, <1>6, <2>1, <2>2, <2>3
<1>8. list \in Seq(Pieces(n, k))
  BY <1>5 DEF Closes
<1>9. \A q \in 1..Len(list) : Placed(list[q], m)
  <2>1. Range(list) = {list[q] : q \in 1..Len(list)}
    BY <1>8, RangeEquality
  <2>2. QED
    BY <1>7, <2>1
<1>10. /\ Covered(Range(list)) = Covered(Range(w.blocks) \cup w.open)
       /\ NewCovered(Range(list)) = NewCovered(Range(w.blocks) \cup w.open)
  BY <1>5 DEF Closes
<1>11. Matched(a, b, n + 1, k + 1, m, Covered(Range(list)), NewCovered(Range(list)))
  BY <1>1, <1>10, Zenon
<1>12. QED
  BY <1>8, <1>9, <1>11 DEF list, n, k

(* changedBlocks: the blocks are the difference.                           *)
LEMMA ChangedBlocksDiffer ==
  ASSUME NEW X, NEW a \in Seq(X), NEW b \in Seq(X), Len(a) # 0
  PROVE  Differ(ChangedBlocks(a, b), a, b)
<1>1. CASE Len(a) > MaxDiffLines \/ Len(b) > MaxDiffLines
  <2>1. ChangedBlocks(a, b) = <<Block(1, Len(a) + 1, 1, Len(b) + 1)>>
    BY <1>1, Zenon DEF ChangedBlocks
  <2>2. QED
    BY <2>1, AllInOneBlock
<1>2. CASE ~(Len(a) > MaxDiffLines \/ Len(b) > MaxDiffLines)
  <2> DEFINE lcs == Lcs(a, b)
  <2>1. ChangedBlocks(a, b) = FoldLeft(Widen, <<>>, Close(WalkedThrough(a, b, lcs)))
    BY <1>2, Zenon DEF ChangedBlocks, WalkedThrough, WalkStart, TurnsOf
  <2> HIDE DEF lcs
  <2> DEFINE end == WalkedThrough(a, b, lcs)
  <2>2. PICK m : /\ Walked(a, b, end, m)
                 /\ end.i = Len(a) + 1 /\ end.j = Len(b) + 1
    BY ZenonT(60), WalkEnds DEF WalkedToTheEnd
  <2> HIDE DEF end
  <2>3. Len(a) \in Nat \ {0} /\ Len(b) \in Nat
    BY LenProperties
  <2> DEFINE list == Close(end)
             wide == FoldLeft(Widen, <<>>, list)
  <2>4. /\ list \in Seq(Pieces(Len(a), Len(b)))
        /\ \A q \in 1..Len(list) : Placed(list[q], m)
        /\ Matched(a, b, Len(a) + 1, Len(b) + 1, m, Covered(Range(list)), NewCovered(Range(list)))
    BY <2>2, <2>3, ClosedArePlaced
  <2>5. ChangedBlocks(a, b) = wide
    BY <2>1, Zenon DEF end
  <2> HIDE DEF list
  <2>6. /\ wide \in Seq(Whole(Len(a), Len(b)))
        /\ Matched(a, b, Len(a) + 1, Len(b) + 1, m, Covered(Range(wide)), NewCovered(Range(wide)))
    BY <2>3, <2>4, WidenedMatches
  <2> HIDE DEF wide
  <2>7. QED
    BY <2>5, <2>6 DEF Differ
<1>3. QED
  BY <1>1, <1>2

---------------------------------------------------------------------------------
(* Wrapped code, and what a formatter's text has of it.                    *)

(* A balance of braces: never less than nothing open at its lowest.        *)
Balances == {x \in [depth : Int, lowest : Int] : x.lowest <= 0 /\ x.lowest <= x.depth}

BracesHistory(h, source) ==
  /\ h[0] = [depth |-> 0, lowest |-> 0]
  /\ h[Len(source)] = FoldLeft(Braces, [depth |-> 0, lowest |-> 0], source)
  /\ \A k \in 1..Len(source) : h[k] = Braces(h[k - 1], source[k])

(* A token leaves a balance one.                                           *)
LEMMA BracesKeepBalance ==
  ASSUME NEW y \in Balances, NEW token
  PROVE  Braces(y, token) \in Balances
<1>1. y.depth \in Int /\ y.lowest \in Int /\ y.lowest <= 0
  BY DEF Balances
<1>2. ASSUME NEW d \in Int PROVE [depth |-> d, lowest |-> Min({y.lowest, d})] \in Balances
  <2> DEFINE l == Min({y.lowest, d})
  <2>1. l = IF y.lowest <= d THEN y.lowest ELSE d
    BY <1>1, MinOfTwo
  <2> HIDE DEF l
  <2>2. l \in Int /\ l <= 0 /\ l <= d
    BY <1>1, <2>1
  <2>3. [depth |-> d, lowest |-> l] \in Balances
    BY <2>2 DEF Balances
  <2>4. QED
    BY <2>3 DEF l
<1>3. PICK d \in Int : Braces(y, token) = [depth |-> d, lowest |-> Min({y.lowest, d})]
  <2>1. y.depth + 1 \in Int /\ y.depth - 1 \in Int /\ y.depth \in Int
    BY <1>1
  <2>2. "{" # "}"
    OBVIOUS
  <2>3. CASE token = "{"
    <3>1. Braces(y, token) = [depth |-> y.depth + 1, lowest |-> Min({y.lowest, y.depth + 1})]
      BY <2>3 DEF Braces
    <3>2. QED
      BY <2>1, <3>1
  <2>4. CASE token = "}"
    <3>1. Braces(y, token) = [depth |-> y.depth - 1, lowest |-> Min({y.lowest, y.depth - 1})]
      BY <2>2, <2>4 DEF Braces
    <3>2. QED
      BY <2>1, <3>1
  <2>5. CASE token # "{" /\ token # "}"
    <3>1. Braces(y, token) = [depth |-> y.depth, lowest |-> Min({y.lowest, y.depth})]
      BY <2>5 DEF Braces
    <3>2. QED
      BY <2>1, <3>1
  <2>6. QED
    BY <2>3, <2>4, <2>5
<1>4. QED
  BY <1>2, <1>3

(* The braces are counted one token after another.                         *)
LEMMA BracesFold ==
  ASSUME NEW Y, NEW source \in Seq(Y)
  PROVE  \E h \in [0..Len(source) -> Balances] :
           BracesHistory(h, source)
<1> DEFINE n == Len(source)
           p == source
           A == Balances
           base == [depth |-> 0, lowest |-> 0]
           Op(a, x) == Braces(a, x)
           step == [k \in 1..n |-> [a \in A |-> Op(a, p[k])]]
           Eq(it) == it = [s \in SUBSET (DOMAIN p) |-> IF s = {} THEN base
                                ELSE Op(it[s \ {Max(s)}], p[Max(s)])]
           iter == CHOOSE it : Eq(it)
<1>1. n \in Nat /\ DOMAIN p = 1..n
  BY LenProperties
<1>2. base \in A
  BY DEF Balances
<1>3. \A k \in 1..n : \A a \in A : Op(a, p[k]) \in A
  BY BracesKeepBalance
<1>4. KeepsTo(A, step, 1..n) /\ \A k \in 1..n : \A a \in A : step[k][a] = Op(a, p[k])
  <2>1. \A k \in 1..n : \A a \in A : step[k][a] = Op(a, p[k])
    OBVIOUS
  <2> HIDE DEF step, Op
  <2>2. QED
    BY <1>3, <2>1 DEF KeepsTo
<1> HIDE DEF step, base
<1>5. PICK g \in [SUBSET (1..n) -> A] : IsLeftFold(g, n, base, step)
  <2> HIDE DEF n, A, p, Op
  <2>1. QED
    BY <1>1, <1>2, <1>4, LeftFoldExists
<1>6. \A T \in SUBSET (1..n) : T # {} => Max(T) \in T
  BY <1>1, MaxInPrefix
<1>7. Eq(g)
  <2> HIDE DEF Op, A, p
  <2>1. \A T \in SUBSET (1..n) : g[T] = IF T = {} THEN base ELSE Op(g[T \ {Max(T)}], p[Max(T)])
    <3> SUFFICES ASSUME NEW T \in SUBSET (1..n), T # {}
                 PROVE  g[T] = Op(g[T \ {Max(T)}], p[Max(T)])
      BY <1>5 DEF IsLeftFold
    <3>1. Max(T) \in 1..n /\ T \ {Max(T)} \in SUBSET (1..n)
      BY <1>6
    <3>2. g[T \ {Max(T)}] \in A
      BY <1>5, <3>1
    <3>3. QED
      BY <1>4, <1>5, <3>1, <3>2 DEF IsLeftFold
  <2> HIDE DEF n
  <2>2. QED
    BY <1>1, <1>5, <2>1
<1>8. Eq(iter)
  <2> HIDE DEF Eq
  <2>1. QED
    BY <1>7
<1>9. FoldLeft(Braces, base, p) = iter[1..n]
  <2>1. FoldLeft(Braces, base, p) = iter[DOMAIN p]
    BY Zenon DEF FoldLeft, MapThenFoldSet
  <2>2. QED
    BY <1>1, <2>1
<1>10. Unrolls(iter, n, A, base, step)
  <2>1. iter[{}] = base
    <3>1. {} \in SUBSET (DOMAIN p)
      OBVIOUS
    <3> HIDE DEF iter, Op, p
    <3>2. QED
      BY <1>8, <3>1
  <2>2. ASSUME NEW k \in 1..n, iter[1..(k - 1)] \in A
        PROVE  iter[1..k] = step[k][iter[1..(k - 1)]]
    <3>1. Max(1..k) = k /\ (1..k) \ {Max(1..k)} = 1..(k - 1) /\ 1..k # {}
      <4> HIDE DEF iter, Op, n, p, A, step
      <4>1. k \in Nat \ {0}
        BY <1>1
      <4>2. QED
        BY <4>1, MaxOfPrefix
    <3>2. 1..k \in SUBSET (DOMAIN p)
      <4> HIDE DEF iter, Op, n, p, A
      <4>1. QED
        BY <1>1
    <3> HIDE DEF iter, Op, p, A
    <3>3. iter[1..k] = Op(iter[(1..k) \ {Max(1..k)}], p[Max(1..k)])
      BY <1>8, <3>1, <3>2
    <3>4. iter[1..k] = Op(iter[1..(k - 1)], p[k])
      BY <3>1, <3>3
    <3>5. QED
      BY <1>4, <2>2, <3>4
  <2> HIDE DEF iter, n, A
  <2>3. QED
    BY <2>1, <2>2 DEF Unrolls
<1> HIDE DEF iter, A, Op
<1>11. PICK h \in [0..n -> A] : Accumulates(h, n, base, step) /\ h[n] = iter[1..n]
  <2> HIDE DEF n, p
  <2>1. QED
    BY <1>1, <1>2, <1>4, <1>10, LeftFoldPrefixes
<1>12. \A k \in 1..n : h[k] = Op(h[k - 1], p[k])
  <2> SUFFICES ASSUME NEW k \in 1..n PROVE h[k] = Op(h[k - 1], p[k])
    OBVIOUS
  <2>1. k - 1 \in 0..n
    BY <1>1
  <2>2. h[k - 1] \in A
    BY <1>11, <2>1
  <2>3. QED
    BY <1>4, <1>11, <2>2 DEF Accumulates
<1>13. h \in [0..n -> A] /\ h[0] = base /\ h[n] = FoldLeft(Braces, base, p)
  BY <1>9, <1>11 DEF Accumulates
<1>14. QED
  BY <1>12, <1>13 DEF A, Op, n, p, base, BracesHistory

WrapperIs(w) == w.unmatchedClose \in Nat /\ w.unclosed \in Nat

(* A wrapper has no brace or some.                                         *)
LEMMA WrapperCounts ==
  ASSUME NEW Y, NEW source \in Seq(Y), NEW python \in BOOLEAN
  PROVE  WrapperIs(Wrapper(source, python))
<1>1. WrapperIs(BraceBalance(source))
  <2> DEFINE end == FoldLeft(Braces, [depth |-> 0, lowest |-> 0], source)
  <2>1. PICK h \in [0..Len(source) -> Balances] : BracesHistory(h, source)
    BY BracesFold
  <2>2. Len(source) \in 0..Len(source)
    BY LenProperties
  <2>3. end \in Balances
    BY <2>1, <2>2 DEF BracesHistory
  <2> HIDE DEF end
  <2>4. end.depth \in Int /\ end.lowest \in Int /\ end.lowest <= 0 /\ end.lowest <= end.depth
    BY <2>3 DEF Balances
  <2>5. -end.lowest \in Nat /\ end.depth - end.lowest \in Nat
    BY <2>4
  <2>6. BraceBalance(source) = [unmatchedClose |-> -end.lowest, unclosed |-> end.depth - end.lowest]
    BY DEF BraceBalance, end
  <2>7. QED
    BY <2>5, <2>6 DEF WrapperIs
<1>2. WrapperIs([unmatchedClose |-> 0, unclosed |-> 0])
  BY DEF WrapperIs
<1>3. QED
  BY <1>1, <1>2 DEF Wrapper

(* A line, and how a text's lines divide its tokens: line k has those after *)
(* e[k-1] up to e[k].                                                       *)
TextLine(T) == [code : Seq(T), layout : {"own", "standard"}]

CutAt(e, lines, source) ==
  /\ e \in [0..Len(lines) -> 0..Len(source)]
  /\ \A k \in 1..Len(lines) :
       e[k - 1] <= e[k] /\ lines[k].code = SubSeq(source, e[k - 1] + 1, e[k])

CutUp(lines, T, source) ==
  /\ lines \in Seq(TextLine(T))
  /\ \E e : CutAt(e, lines, source) /\ e[0] = 0 /\ e[Len(lines)] = Len(source)

IsLine(x, T, c) == x \in TextLine(T) /\ x.code = c

(* A line of tokens laid out anew.                                         *)
LEMMA StandardLine ==
  ASSUME NEW T, NEW c \in Seq(T)
  PROVE  IsLine([code |-> c, layout |-> "standard"], T, c)
BY DEF IsLine, TextLine

(* What is cut into adjacent parts is the parts joined again.              *)
LEMMA PartsJoin ==
  ASSUME NEW T, NEW source \in Seq(T), NEW seqs \in Seq(Seq(T)), NEW e,
         e \in [0..Len(seqs) -> 0..Len(source)],
         \A k \in 1..Len(seqs) : e[k - 1] <= e[k] /\ seqs[k] = SubSeq(source, e[k - 1] + 1, e[k])
  PROVE  FlattenSeq(seqs) = SubSeq(source, e[0] + 1, e[Len(seqs)])
<1> DEFINE n == Len(seqs)
           len == Len(source)
           Part(p, q) == SubSeq(source, p + 1, q)
<1>1. n \in Nat /\ len \in Nat /\ 0 \in 0..n /\ n \in 0..n
  BY LenProperties
<1>2. PICK h : /\ h[0] = <<>>
               /\ \A k \in 1..n : h[k] = h[k - 1] \o seqs[k]
               /\ FlattenSeq(seqs) = h[n]
  BY FlattenJoins DEF Joins
<1>3. e \in [0..n -> 0..len]
      /\ \A k \in 1..n : e[k - 1] <= e[k] /\ seqs[k] = Part(e[k - 1], e[k])
  OBVIOUS
<1> HIDE DEF n, Part
<1> DEFINE P == {k \in 0..n : e[0] <= e[k] /\ h[k] = Part(e[0], e[k])}
<1>4. 0 \in P
  <2>1. e[0] \in Int /\ e[0] < e[0] + 1 /\ e[0] + 1 \in Int
    BY <1>1, <1>3
  <2>2. Part(e[0], e[0]) = <<>>
    BY <2>1, SubSeqEmpty DEF Part
  <2>3. e[0] <= e[0]
    BY <2>1
  <2>4. QED
    BY <1>1, <1>2, <2>2, <2>3
<1>5. ASSUME NEW k \in 1..n, k - 1 \in P PROVE k \in P
  <2>1. k \in 0..n /\ k - 1 \in 0..n
    BY <1>1
  <2>2. PICK p \in 0..len, q \in 0..len, r \in 0..len : p = e[0] /\ q = e[k - 1] /\ r = e[k]
    BY <1>1, <1>3, <2>1
  <2>3. p <= q /\ q <= r /\ h[k - 1] = Part(p, q) /\ seqs[k] = Part(q, r)
    BY <1>3, <1>5, <2>2
  <2>4. p + 1 \in 1..(len + 1) /\ q \in ((p + 1) - 1)..len /\ r \in q..len
    BY <1>1, <2>3
  <2>5. Part(p, q) \o Part(q, r) = Part(p, r)
    BY <2>4, ConcatAdjacentSubSeq DEF Part
  <2>6. h[k] = h[k - 1] \o seqs[k]
    BY <1>2
  <2>7. p <= r
    BY <2>3
  <2>8. h[k] = Part(p, r)
    BY <2>3, <2>5, <2>6
  <2>9. QED
    BY <2>1, <2>2, <2>7, <2>8
<1>6. n \in P
  <2> HIDE DEF P
  <2>1. QED
    BY <1>1, <1>4, <1>5, PrefixInduction
<1>7. QED
  BY <1>2, <1>6 DEF n, Part

(* The lines that end at some of the places, the last one among them, are  *)
(* cut there.                                                              *)
LEMMA BrokenIsCut ==
  ASSUME NEW T, NEW source \in Seq(T), source # <<>>,
         NEW B \in SUBSET (1..Len(source)), Len(source) \in B,
         NEW ends, ends = Ascending(B),
         NEW lines, lines = [k \in DOMAIN ends |->
                               [code |-> SubSeq(source, IF k = 1 THEN 1 ELSE ends[k - 1] + 1, ends[k]),
                                layout |-> "standard"]]
  PROVE  CutUp(lines, T, source)
<1> DEFINE n == Cardinality(B)
           len == Len(source)
           Part(p, q) == SubSeq(source, p, q)
           from(k) == IF k = 1 THEN 1 ELSE ends[k - 1] + 1
           e == [k \in 0..n |-> IF k = 0 THEN 0 ELSE ends[k]]
<1>1. len \in Nat /\ IsFiniteSet(B) /\ B \in SUBSET Int
  <2>1. len \in Nat
    BY LenProperties
  <2>2. B \in SUBSET (1..len)
    OBVIOUS
  <2> HIDE DEF len
  <2>3. IsFiniteSet(1..len)
    BY <2>1, PrefixCounts
  <2>4. IsFiniteSet(B)
    BY <2>2, <2>3, FS_Subset
  <2>5. QED
    BY <2>1, <2>2, <2>4
<1>2. /\ ends \in [1..n -> B] /\ n \in Nat
      /\ \A x \in B : \E k \in 1..n : ends[k] = x
      /\ \A j, k \in 1..n : ends[j] < ends[k] <=> j < k
  BY <1>1, AscendingLists
<1>3. n # 0
  BY <1>2
<1>4. \A k \in 1..n : ends[k] \in 1..len
  BY <1>2
<1> HIDE DEF n, len
<1>5. e \in [0..n -> 0..len] /\ e[0] = 0 /\ \A k \in 1..n : e[k] = ends[k]
  <2>1. \A k \in 1..n : k # 0 /\ k \in 0..n
    BY <1>2
  <2>2. 0 \in 0..n /\ 0 \in 0..len
    BY <1>1, <1>2
  <2>3. \A k \in 0..n : k = 0 \/ k \in 1..n
    BY <1>2
  <2>4. \A k \in 1..n : ends[k] \in 0..len
    BY <1>1, <1>4
  <2>5. QED
    BY <2>1, <2>2, <2>3, <2>4
<1>6. \A k \in 1..n : from(k) = e[k - 1] + 1 /\ e[k - 1] <= e[k] /\ e[k - 1] \in Int /\ e[k] \in Int
  <2> SUFFICES ASSUME NEW k \in 1..n
               PROVE from(k) = e[k - 1] + 1 /\ e[k - 1] <= e[k] /\ e[k - 1] \in Int /\ e[k] \in Int
    OBVIOUS
  <2> HIDE DEF e
  <2>1. e[k] = ends[k] /\ ends[k] \in 1..len
    BY <1>4, <1>5
  <2>2. CASE k = 1
    <3>1. k - 1 = 0
      BY <2>2
    <3>2. e[k - 1] = 0
      BY <1>5, <3>1
    <3>3. QED
      BY <1>1, <2>1, <2>2, <3>2
  <2>3. CASE k # 1
    <3>1. k - 1 \in 1..n /\ k - 1 < k
      BY <1>2, <2>3
    <3>2. e[k - 1] = ends[k - 1] /\ ends[k - 1] \in 1..len /\ ends[k - 1] < ends[k]
      BY <1>2, <1>4, <1>5, <3>1
    <3>3. QED
      BY <1>1, <2>1, <2>3, <3>2
  <2>4. QED
    BY <2>2, <2>3
<1> HIDE DEF e
<1>7. lines = [k \in 1..n |-> [code |-> Part(from(k), ends[k]), layout |-> "standard"]]
  BY <1>2
<1> HIDE DEF Part
<1>8. \A k \in 1..n : Part(from(k), ends[k]) = Part(e[k - 1] + 1, e[k])
  BY <1>5, <1>6
<1> HIDE DEF from
<1>9. \A k \in 1..n : Part(e[k - 1] + 1, e[k]) \in Seq(T)
  <2> SUFFICES ASSUME NEW k \in 1..n PROVE Part(e[k - 1] + 1, e[k]) \in Seq(T)
    OBVIOUS
  <2>1. k - 1 \in 0..n /\ k \in 0..n
    BY <1>2
  <2>2. PICK p \in 0..len, q \in 0..len : p = e[k - 1] /\ q = e[k]
    BY <1>5, <2>1
  <2>3. p + 1 \in Int /\ q \in Int /\ \A i \in (p + 1)..q : i \in 1..len
    BY <1>1
  <2>4. \A i \in (p + 1)..q : source[i] \in T
    BY <2>3, ElementOfSeq DEF len
  <2>5. Part(p + 1, q) \in Seq(T)
    BY <2>3, <2>4, SubSeqProperties DEF Part
  <2>6. QED
    BY <2>2, <2>5
<1>10. \A k \in 1..n : lines[k] = [code |-> Part(from(k), ends[k]), layout |-> "standard"]
  BY <1>7
<1>11. \A k \in 1..n : /\ lines[k].code = Part(e[k - 1] + 1, e[k])
                       /\ lines[k] \in TextLine(T)
  <2> SUFFICES ASSUME NEW k \in 1..n
               PROVE lines[k].code = Part(e[k - 1] + 1, e[k]) /\ lines[k] \in TextLine(T)
    OBVIOUS
  <2> DEFINE c == Part(e[k - 1] + 1, e[k])
  <2>1. c \in Seq(T)
    BY <1>9
  <2>2. lines[k] = [code |-> c, layout |-> "standard"]
    BY <1>8, <1>10
  <2> HIDE DEF c
  <2>3. IsLine(lines[k], T, c)
    BY <2>1, <2>2, StandardLine, Zenon
  <2>4. QED
    BY <2>3 DEF IsLine, c
<1>12. lines \in Seq(TextLine(T)) /\ Len(lines) = n
  <2>1. lines \in [1..n -> TextLine(T)]
    BY <1>7, <1>11
  <2> HIDE DEF n
  <2>2. QED
    BY <1>2, <2>1, ListOfFunction
<1>13. e[n] = len
  <2>1. PICK k \in 1..n : ends[k] = len
    BY <1>2 DEF len
  <2>2. n \in 1..n /\ ends[n] \in 1..len
    BY <1>2, <1>3, <1>4
  <2>3. k = n \/ k < n
    BY <1>2
  <2>4. k < n => len < ends[n]
    BY <1>2, <2>1, <2>2
  <2>5. ends[n] = len
    BY <1>1, <2>1, <2>2, <2>3, <2>4
  <2>6. QED
    BY <1>5, <2>2, <2>5
<1>14. CutAt(e, lines, source)
  BY <1>5, <1>6, <1>11, <1>12 DEF CutAt, len, Part
<1>15. QED
  BY <1>5, <1>12, <1>13, <1>14 DEF CutUp, len

Inserted(t, s, k, x, X) ==
  /\ t \in Seq(X) /\ Len(t) = Len(s) + 1
  /\ \A i \in 1..(Len(s) + 1) : t[i] = IF i < k THEN s[i] ELSE IF i = k THEN x ELSE s[i - 1]

(* InsertAt moves the elements from place k on.                            *)
LEMMA InsertAtInserts ==
  ASSUME NEW X, NEW s \in Seq(X), NEW k \in 1..Len(s), NEW x \in X
  PROVE  Inserted(InsertAt(s, k, x), s, k, x, X)
<1> DEFINE n == Len(s)
           u == SubSeq(s, 1, k - 1)
           v == SubSeq(s, k, n)
           y == <<x>>
           t == (u \o y) \o v
<1>1. n \in Nat /\ k \in Int /\ k - 1 \in Nat /\ k <= n /\ \A i \in 1..n : s[i] \in X
  BY LenProperties, ElementOfSeq
<1>2. InsertAt(s, k, x) = t
  BY Zenon DEF InsertAt
<1>3. u \in Seq(X) /\ Len(u) = k - 1 /\ \A i \in 1..(k - 1) : u[i] = s[i]
  <2> HIDE DEF n
  <2>1. 1 \in Int /\ k - 1 \in Int /\ \A i \in 1..(k - 1) : i \in 1..n
    BY <1>1
  <2>2. \A i \in 1..(k - 1) : s[i] \in X
    BY <1>1, <2>1
  <2>3. /\ SubSeq(s, 1, k - 1) \in Seq(X)
        /\ Len(SubSeq(s, 1, k - 1)) = IF 1 <= k - 1 THEN (k - 1) - 1 + 1 ELSE 0
        /\ \A i \in 1..((k - 1) - 1 + 1) : SubSeq(s, 1, k - 1)[i] = s[1 + i - 1]
    BY <2>1, <2>2, SubSeqProperties
  <2> HIDE DEF u
  <2>4. /\ u \in Seq(X)
        /\ Len(u) = IF 1 <= k - 1 THEN (k - 1) - 1 + 1 ELSE 0
        /\ \A i \in 1..((k - 1) - 1 + 1) : u[i] = s[1 + i - 1]
    BY <2>3 DEF u
  <2>5. Len(u) = k - 1
    BY <1>1, <2>4
  <2>6. \A i \in 1..(k - 1) : i \in 1..((k - 1) - 1 + 1) /\ 1 + i - 1 = i
    BY <1>1
  <2>7. QED
    BY <2>4, <2>5, <2>6
<1>4. v \in Seq(X) /\ Len(v) = n - k + 1 /\ \A i \in 1..(n - k + 1) : v[i] = s[k + i - 1]
  <2> HIDE DEF n
  <2>1. \A i \in k..n : s[i] \in X
    BY <1>1
  <2>2. /\ SubSeq(s, k, n) \in Seq(X)
        /\ Len(SubSeq(s, k, n)) = IF k <= n THEN n - k + 1 ELSE 0
        /\ \A i \in 1..(n - k + 1) : SubSeq(s, k, n)[i] = s[k + i - 1]
    BY <1>1, <2>1, SubSeqProperties
  <2> HIDE DEF v
  <2>3. /\ v \in Seq(X)
        /\ Len(v) = IF k <= n THEN n - k + 1 ELSE 0
        /\ \A i \in 1..(n - k + 1) : v[i] = s[k + i - 1]
    BY <2>2 DEF v
  <2>4. QED
    BY <1>1, <2>3
<1>5. y \in Seq(X) /\ Len(y) = 1 /\ y[1] = x
  OBVIOUS
<1> HIDE DEF n, u, v, y
<1> DEFINE w == u \o y
<1>6. w \in Seq(X) /\ Len(w) = k /\ \A i \in 1..k : w[i] = IF i < k THEN s[i] ELSE x
  <2>1. /\ w \in Seq(X) /\ Len(w) = Len(u) + Len(y)
        /\ \A i \in 1..(Len(u) + Len(y)) : w[i] = IF i <= Len(u) THEN u[i] ELSE y[i - Len(u)]
    BY <1>3, <1>5, ConcatProperties
  <2> HIDE DEF w
  <2>2. Len(w) = k
    BY <1>1, <1>3, <1>5, <2>1
  <2>3. ASSUME NEW i \in 1..k PROVE w[i] = IF i < k THEN s[i] ELSE x
    <3>1. i \in 1..(Len(u) + Len(y))
      BY <1>1, <1>3, <1>5
    <3>2. CASE i < k
      <4>1. i <= Len(u) /\ i \in 1..(k - 1)
        BY <1>1, <1>3, <3>2
      <4>2. QED
        BY <1>3, <2>1, <3>1, <3>2, <4>1
    <3>3. CASE ~(i < k)
      <4>1. ~(i <= Len(u)) /\ i - Len(u) = 1
        BY <1>1, <1>3, <3>3
      <4>2. QED
        BY <1>5, <2>1, <3>1, <3>3, <4>1
    <3>4. QED
      BY <3>2, <3>3
  <2>4. QED
    BY <2>1, <2>2, <2>3
<1>7. t = w \o v
  OBVIOUS
<1> HIDE DEF w, t
<1>8. /\ t \in Seq(X) /\ Len(t) = n + 1
      /\ \A i \in 1..(n + 1) : t[i] = IF i <= k THEN w[i] ELSE v[i - k]
  <2>1. /\ t \in Seq(X) /\ Len(t) = Len(w) + Len(v)
        /\ \A i \in 1..(Len(w) + Len(v)) : t[i] = IF i <= Len(w) THEN w[i] ELSE v[i - Len(w)]
    BY <1>4, <1>6, <1>7, ConcatProperties
  <2>2. Len(w) + Len(v) = n + 1
    BY <1>1, <1>4, <1>6
  <2>3. QED
    BY <1>6, <2>1, <2>2
<1>9. \A i \in 1..(n + 1) : t[i] = IF i < k THEN s[i] ELSE IF i = k THEN x ELSE s[i - 1]
  <2> SUFFICES ASSUME NEW i \in 1..(n + 1)
               PROVE t[i] = IF i < k THEN s[i] ELSE IF i = k THEN x ELSE s[i - 1]
    OBVIOUS
  <2>1. CASE i <= k
    <3>1. i \in 1..k
      BY <1>1, <2>1
    <3>2. t[i] = w[i] /\ w[i] = IF i < k THEN s[i] ELSE x
      BY <1>6, <1>8, <2>1, <3>1
    <3>3. i < k \/ i = k
      BY <1>1, <2>1
    <3>4. QED
      BY <3>2, <3>3
  <2>2. CASE ~(i <= k)
    <3>1. i - k \in 1..(n - k + 1) /\ k + (i - k) - 1 = i - 1 /\ ~(i < k) /\ i # k
      BY <1>1, <2>2
    <3>2. t[i] = v[i - k] /\ v[i - k] = s[k + (i - k) - 1]
      BY <1>4, <1>8, <2>2, <3>1
    <3>3. QED
      BY <3>1, <3>2
  <2>3. QED
    BY <2>1, <2>2
<1>10. Inserted(t, s, k, x, X)
  BY <1>8, <1>9 DEF Inserted, n
<1>11. QED
  BY <1>2, <1>10

(* A blank line has none of the tokens.                                    *)
LEMMA BlankIsCut ==
  ASSUME NEW T, NEW source \in Seq(T), NEW text, CutUp(text, T, source), NEW k \in 2..Len(text)
  PROVE  CutUp(InsertAt(text, k, [code |-> <<>>, layout |-> "standard"]), T, source)
<1> DEFINE n == Len(text)
           len == Len(source)
           X == TextLine(T)
           blank == [code |-> <<>>, layout |-> "standard"]
           t == InsertAt(text, k, blank)
           Part(p, q) == SubSeq(source, p + 1, q)
<1>1. PICK e : CutAt(e, text, source) /\ e[0] = 0 /\ e[n] = len
  BY DEF CutUp
<1>2. text \in Seq(X) /\ n \in Nat /\ len \in Nat /\ k \in 1..n /\ n + 1 # 0 /\ n + 1 \in Nat
  <2>1. text \in Seq(X) /\ len \in Nat
    BY LenProperties DEF CutUp
  <2>2. n \in Nat
    BY <2>1, LenProperties
  <2> HIDE DEF n, len, X
  <2>3. k \in 2..n
    BY DEF n
  <2>4. QED
    BY <2>1, <2>2, <2>3
<1>3. IsLine(blank, T, <<>>)
  <2>1. <<>> \in Seq(T)
    OBVIOUS
  <2>2. QED
    BY <2>1, StandardLine
<1> HIDE DEF blank
<1>4. blank \in X /\ blank.code = <<>>
  BY <1>3 DEF IsLine
<1>5. /\ e \in [0..n -> 0..len]
      /\ \A i \in 1..n : e[i - 1] <= e[i] /\ text[i].code = Part(e[i - 1], e[i])
  BY <1>1 DEF CutAt
<1> HIDE DEF X
<1>6. Inserted(t, text, k, blank, X)
  BY <1>2, <1>4, InsertAtInserts DEF n
<1> HIDE DEF n, len, t, Part
<1>7. /\ t \in Seq(X) /\ Len(t) = n + 1
      /\ \A i \in 1..(n + 1) : t[i] = IF i < k THEN text[i] ELSE IF i = k THEN blank ELSE text[i - 1]
  BY <1>6 DEF Inserted, n
<1> DEFINE d == [i \in 0..(n + 1) |-> IF i < k THEN e[i] ELSE e[i - 1]]
<1>8. \A i \in 0..(n + 1) : d[i] = IF i < k THEN e[i] ELSE e[i - 1]
  OBVIOUS
<1>9. d \in [0..(n + 1) -> 0..len]
  <2>1. \A i \in 0..(n + 1) : IF i < k THEN i \in 0..n ELSE i - 1 \in 0..n
    BY <1>2
  <2>2. \A i \in 0..(n + 1) : (IF i < k THEN e[i] ELSE e[i - 1]) \in 0..len
    BY <1>5, <2>1
  <2>3. QED
    BY <2>2
<1> HIDE DEF d
<1>10. ASSUME NEW i \in 1..(n + 1)
       PROVE  d[i - 1] <= d[i] /\ t[i].code = Part(d[i - 1], d[i])
  <2>1. i - 1 \in 0..(n + 1) /\ i \in 0..(n + 1)
    BY <1>2
  <2>2. CASE i < k
    <3>1. i \in 1..n /\ i - 1 < k
      BY <1>2, <2>2
    <3>2. d[i] = e[i] /\ d[i - 1] = e[i - 1] /\ t[i] = text[i]
      BY <1>7, <1>8, <2>1, <2>2, <3>1
    <3>3. QED
      BY <1>5, <3>1, <3>2
  <2>3. CASE i = k
    <3>1. i - 1 < k /\ ~(i < k) /\ k - 1 \in 0..n
      BY <1>2, <2>3
    <3>2. d[i] = e[k - 1] /\ d[i - 1] = e[k - 1] /\ t[i] = blank
      BY <1>7, <1>8, <2>1, <2>3, <3>1
    <3>3. PICK p \in 0..len : p = e[k - 1]
      BY <1>5, <3>1
    <3>4. Part(p, p) = <<>>
      <4>1. p + 1 \in Int /\ p \in Int /\ p < p + 1
        BY <1>2
      <4>2. QED
        BY <4>1, SubSeqEmpty DEF Part
    <3>5. p <= p
      BY <1>2
    <3>6. QED
      BY <1>4, <3>2, <3>3, <3>4, <3>5
  <2>4. CASE i > k
    <3>1. i - 1 \in 1..n /\ ~(i - 1 < k) /\ ~(i < k) /\ i # k
      BY <1>2, <2>4
    <3>2. d[i] = e[i - 1] /\ d[i - 1] = e[(i - 1) - 1] /\ t[i] = text[i - 1]
      BY <1>7, <1>8, <2>1, <3>1
    <3>3. QED
      BY <1>5, <3>1, <3>2
  <2>5. i < k \/ i = k \/ i > k
    BY <1>2
  <2>6. QED
    BY <2>2, <2>3, <2>4, <2>5
<1>11. d[0] = 0 /\ d[n + 1] = len
  <2>1. 0 < k /\ ~(n + 1 < k) /\ (n + 1) - 1 = n /\ n + 1 \in 0..(n + 1) /\ 0 \in 0..(n + 1)
    BY <1>2
  <2>2. e[n] = len
    BY <1>1
  <2>3. QED
    BY <1>1, <1>8, <2>1, <2>2
<1>12. CutAt(d, t, source)
  BY <1>7, <1>9, <1>10 DEF CutAt, Part, len
<1>13. CutUp(t, T, source)
  BY <1>7, <1>11, <1>12 DEF CutUp, X, len
<1>14. QED
  BY <1>13 DEF t, blank

(* The tokens of wrapped code.                                             *)
HasBraces(T) == WrapperOpen \in T /\ "}" \in T

WrapsIn(f, source, w, T) ==
  /\ f \in Seq(T) /\ Len(f) = w.unmatchedClose + Len(source) + w.unclosed
  /\ SubSeq(f, w.unmatchedClose + 1, w.unmatchedClose + Len(source)) = source

(* A fragment is the code between the wrapper's braces.                    *)
LEMMA FragmentWraps ==
  ASSUME NEW T, HasBraces(T), NEW source \in Seq(T), NEW w, WrapperIs(w)
  PROVE  WrapsIn(Fragment(source, w), source, w, T)
<1> DEFINE c == w.unmatchedClose
           o == w.unclosed
           n == Len(source)
           u == [i \in 1..c |-> WrapperOpen]
           v == [i \in 1..o |-> "}"]
           f == (u \o source) \o v
<1>1. c \in Nat /\ o \in Nat /\ n \in Nat
  BY LenProperties DEF WrapperIs
<1>2. Fragment(source, w) = f
  BY Zenon DEF Fragment
<1> HIDE DEF c, o, n
<1>3. u \in Seq(T) /\ Len(u) = c
  <2>1. u \in [1..c -> T]
    BY DEF HasBraces
  <2> HIDE DEF u
  <2>2. QED
    BY <1>1, <2>1, ListOfFunction
<1>4. v \in Seq(T) /\ Len(v) = o
  <2>1. v \in [1..o -> T]
    BY DEF HasBraces
  <2> HIDE DEF v
  <2>2. QED
    BY <1>1, <2>1, ListOfFunction
<1> HIDE DEF u, v
<1> DEFINE a == u \o source
<1>5. /\ a \in Seq(T) /\ Len(a) = c + n
      /\ \A i \in 1..(c + n) : a[i] = IF i <= c THEN u[i] ELSE source[i - c]
  BY ZenonT(60), <1>3, ConcatProperties DEF n
<1>6. f = a \o v
  OBVIOUS
<1> HIDE DEF a, f
<1>7. /\ f \in Seq(T) /\ Len(f) = c + n + o
      /\ \A i \in 1..((c + n) + o) : f[i] = IF i <= c + n THEN a[i] ELSE v[i - (c + n)]
  BY SMTT(60), <1>4, <1>5, <1>6, ConcatProperties
<1> DEFINE s == SubSeq(f, c + 1, c + n)
<1>8. \A i \in 1..n : f[c + i] = source[i]
  <2> SUFFICES ASSUME NEW i \in 1..n PROVE f[c + i] = source[i]
    OBVIOUS
  <2>1. c + i \in 1..((c + n) + o) /\ c + i <= c + n /\ c + i \in 1..(c + n) /\ ~(c + i <= c)
        /\ (c + i) - c = i
    BY <1>1
  <2>2. QED
    BY <1>5, <1>7, <2>1
<1>9. s \in Seq(T) /\ Len(s) = n /\ \A i \in 1..n : s[i] = source[i]
  <2>1. c + 1 \in Int /\ c + n \in Int /\ (c + n) - (c + 1) + 1 = n
        /\ (c + 1 <= c + n <=> n # 0) /\ \A i \in (c + 1)..(c + n) : i \in 1..(c + n + o)
    BY <1>1
  <2>2. \A i \in (c + 1)..(c + n) : f[i] \in T
    BY <1>7, <2>1, ElementOfSeq
  <2>3. /\ s \in Seq(T)
        /\ Len(s) = IF c + 1 <= c + n THEN (c + n) - (c + 1) + 1 ELSE 0
        /\ \A i \in 1..((c + n) - (c + 1) + 1) : s[i] = f[(c + 1) + i - 1]
    BY <2>1, <2>2, SubSeqProperties
  <2> HIDE DEF s
  <2>4. Len(s) = n
    BY <2>1, <2>3
  <2>5. \A i \in 1..n : (c + 1) + i - 1 = c + i
    BY <1>1
  <2>6. \A i \in 1..n : s[i] = source[i]
    BY <1>8, <2>1, <2>3, <2>5
  <2>7. QED
    BY <2>3, <2>4, <2>6
<1> HIDE DEF s
<1>10. s = source
  BY <1>9, SeqEqual DEF n
<1>11. WrapsIn(f, source, w, T)
  BY <1>7, <1>10 DEF WrapsIn, s, c, o, n
<1>12. QED
  BY <1>2, <1>11

(* A part of one token is as long as what lies between its ends.           *)
LEMMA OneTokenLine ==
  ASSUME NEW T, NEW s \in Seq(T), NEW p \in 0..Len(s), NEW q \in 0..Len(s), NEW x,
         SubSeq(s, p + 1, q) = <<x>>
  PROVE  q = p + 1
<1> DEFINE n == Len(s)
           y == <<x>>
<1>1. n \in Nat
  BY LenProperties
<1>2. Len(y) = 1
  OBVIOUS
<1> HIDE DEF n, y
<1>3. p \in 0..n /\ q \in 0..n
  BY DEF n
<1>4. p + 1 \in Int /\ q \in Int /\ \A i \in (p + 1)..q : i \in 1..n
  BY <1>1, <1>3
<1>5. \A i \in (p + 1)..q : s[i] \in T
  BY <1>4, ElementOfSeq DEF n
<1>6. Len(SubSeq(s, p + 1, q)) = IF p + 1 <= q THEN q - (p + 1) + 1 ELSE 0
  BY <1>4, <1>5, SubSeqProperties
<1>7. SubSeq(s, p + 1, q) = y
  BY DEF y
<1>8. (IF p + 1 <= q THEN q - (p + 1) + 1 ELSE 0) = 1
  BY <1>2, <1>6, <1>7
<1>9. QED
  BY <1>1, <1>3, <1>8

(* Lines that are one token each.                                          *)
Each(lines, from, to, x) == \A i \in from..to : lines[i].code = <<x>>

(* Its first c lines are a wrapper token each: they end at the first c     *)
(* places; and its last o lines begin at the last o.                       *)
LEMMA HeadIsWrapper ==
  ASSUME NEW T, NEW s \in Seq(T), NEW lines, NEW e, CutAt(e, lines, s), e[0] = 0,
         Len(lines) \in Nat, NEW c \in 0..Len(lines), NEW x,
         Each(lines, 1, c, x)
  PROVE  e[c] = c
<1> DEFINE n == Len(lines)
           len == Len(s)
           P == {i \in 0..c : e[i] = i}
<1>1. c \in Nat /\ len \in Nat /\ n \in Nat /\ c <= n /\ c \in 0..c
  BY LenProperties
<1>2. /\ e \in [0..n -> 0..len]
      /\ \A k \in 1..n : lines[k].code = SubSeq(s, e[k - 1] + 1, e[k])
  BY DEF CutAt
<1> HIDE DEF n
<1>3. 0 \in P
  BY <1>1
<1>4. ASSUME NEW k \in 1..c, k - 1 \in P PROVE k \in P
  <2>1. k \in 1..n /\ k \in 0..n /\ k - 1 \in 0..n /\ k \in 0..c
    BY <1>1
  <2>2. e[k - 1] = k - 1 /\ e[k - 1] \in 0..len /\ e[k] \in 0..len
    BY <1>2, <1>4, <2>1
  <2>3. SubSeq(s, e[k - 1] + 1, e[k]) = <<x>>
    BY <1>2, <2>1 DEF Each
  <2> DEFINE p == e[k - 1]
             q == e[k]
  <2> HIDE DEF p, q
  <2>4. q = p + 1
    <3>1. p \in 0..len /\ q \in 0..len /\ SubSeq(s, p + 1, q) = <<x>>
      BY <2>2, <2>3 DEF p, q
    <3>2. QED
      BY <3>1, OneTokenLine
  <2>5. e[k] = k
    BY <2>1, <2>2, <2>4 DEF p, q
  <2>6. QED
    BY <2>1, <2>5
<1>5. c \in P
  <2> HIDE DEF P
  <2>1. QED
    BY <1>1, <1>3, <1>4, PrefixInduction
<1>6. QED
  BY <1>5

(* Lines of one token each at the end are the text's last tokens.          *)
LEMMA TailIsWrapper ==
  ASSUME NEW T, NEW s \in Seq(T), NEW lines, NEW e, CutAt(e, lines, s), e[Len(lines)] = Len(s),
         Len(lines) \in Nat, NEW o \in 0..Len(lines), NEW x,
         Each(lines, Len(lines) - o + 1, Len(lines), x)
  PROVE  e[Len(lines) - o] = Len(s) - o
<1> DEFINE n == Len(lines)
           len == Len(s)
           P == {i \in 0..o : e[n - i] = len - i}
<1>1. o \in Nat /\ len \in Nat /\ n \in Nat /\ o <= n /\ o \in 0..o
  BY LenProperties
<1>2. /\ e \in [0..n -> 0..len] /\ e[n] = len
      /\ \A k \in 1..n : lines[k].code = SubSeq(s, e[k - 1] + 1, e[k])
      /\ \A i \in (n - o + 1)..n : lines[i].code = <<x>>
  BY DEF CutAt, Each
<1> HIDE DEF n, len
<1>3. 0 \in P
  <2>1. n - 0 = n /\ len - 0 = len /\ 0 \in 0..o
    BY <1>1
  <2>2. QED
    BY <1>2, <2>1
<1>4. ASSUME NEW i \in 1..o, i - 1 \in P PROVE i \in P
  <2> DEFINE k == n - (i - 1)
  <2>1. /\ k \in 1..n /\ k \in 0..n /\ k - 1 \in 0..n /\ i \in 0..o /\ k - 1 = n - i
        /\ k \in (n - o + 1)..n
    BY <1>1
  <2>2. e[k] = len - (i - 1)
    BY <1>4
  <2> HIDE DEF k
  <2>3. e[k - 1] \in 0..len /\ e[k] \in 0..len
    BY <1>2, <2>1
  <2>4. SubSeq(s, e[k - 1] + 1, e[k]) = <<x>>
    BY <1>2, <2>1
  <2> DEFINE p == e[k - 1]
             q == e[k]
  <2> HIDE DEF p, q
  <2>5. q = p + 1
    <3>1. p \in 0..len /\ q \in 0..len /\ SubSeq(s, p + 1, q) = <<x>>
      BY <2>3, <2>4 DEF p, q
    <3>2. QED
      BY <3>1, OneTokenLine DEF len
  <2>6. p = len - i
    <3>1. p \in 0..len /\ q \in 0..len /\ q = len - (i - 1)
      BY <2>2, <2>3 DEF p, q
    <3>2. QED
      BY <1>1, <2>5, <3>1
  <2>7. QED
    BY <2>1, <2>6 DEF p
<1>5. o \in P
  <2> HIDE DEF P
  <2>1. QED
    BY <1>1, <1>3, <1>4, PrefixInduction
<1>6. QED
  BY <1>5 DEF n, len

(* What StripWrapper gives, with a line that is the wrapper's for each.    *)
Strips(text, lines, w) ==
  /\ text = SubSeq(lines, w.unmatchedClose + 1, Len(lines) - w.unclosed)
  /\ \A i \in 1..Len(lines) :
       /\ i <= w.unmatchedClose => lines[i].code = <<WrapperOpen>>
       /\ i > Len(lines) - w.unclosed => lines[i].code = <<"}">>

(* A wrapper is cut off only where each of its lines is its own.           *)
LEMMA StripWrapperStrips ==
  ASSUME NEW X, NEW lines \in Seq(X), NEW w, WrapperIs(w), NEW text \in StripWrapper(lines, w)
  PROVE  Strips(text, lines, w)
<1> DEFINE n == Len(lines)
           c == w.unmatchedClose
           last == n - w.unclosed
           low == Min({c, n})
           high == Max({1, last + 1})
<1>1. n \in Nat /\ c \in Nat /\ last \in Int /\ last + 1 \in Int
  BY LenProperties DEF WrapperIs
<1>2. /\ \A i \in 1..low : lines[i].code = <<WrapperOpen>>
      /\ \A i \in high..n : lines[i].code = <<"}">>
      /\ text = SubSeq(lines, c + 1, last)
  <2>1. StripWrapper(lines, w)
          = IF /\ \A i \in 1..low : lines[i].code = <<WrapperOpen>>
               /\ \A i \in high..n : lines[i].code = <<"}">>
            THEN {SubSeq(lines, c + 1, last)} ELSE {}
    BY Zenon DEF StripWrapper
  <2> HIDE DEF low, high, last, n, c
  <2>2. QED
    BY <2>1, Zenon
<1> HIDE DEF n, c, last
<1>3. low = (IF c <= n THEN c ELSE n) /\ high = (IF 1 >= last + 1 THEN 1 ELSE last + 1)
  BY <1>1, MinOfTwo, MaxOfTwo
<1> HIDE DEF low, high
<1>4. \A i \in 1..n : (i <= c => i \in 1..low) /\ (i > last => i \in high..n)
  BY <1>1, <1>3
<1>5. QED
  BY <1>2, <1>4 DEF Strips, n, c, last

StrippedTo(text, source, T) ==
  /\ text \in Seq(TextLine(T))
  /\ FlattenSeq([i \in DOMAIN text |-> text[i].code]) = source

(* Without the wrapper's lines the text has the code's tokens, all of them *)
(* and nothing else.                                                       *)
LEMMA StrippedHasTheCode ==
  ASSUME NEW T, HasBraces(T), NEW source \in Seq(T), source # <<>>, NEW w, WrapperIs(w),
         NEW lines, CutUp(lines, T, Fragment(source, w)), NEW text \in StripWrapper(lines, w)
  PROVE  StrippedTo(text, source, T)
<1> DEFINE s == Fragment(source, w)
           n == Len(lines)
           len == Len(s)
           c == w.unmatchedClose
           o == w.unclosed
           m == Len(source)
           last == n - o
           X == TextLine(T)
<1>1. /\ s \in Seq(T) /\ len = c + m + o
      /\ SubSeq(s, c + 1, c + m) = source
  BY FragmentWraps DEF WrapsIn
<1>2. c \in Nat /\ o \in Nat /\ m \in Nat \ {0}
  BY LenProperties, EmptySeq DEF WrapperIs
<1>3. PICK e : CutAt(e, lines, s) /\ e[0] = 0 /\ e[n] = len
  BY DEF CutUp
<1>4. lines \in Seq(X) /\ n \in Nat /\ \A i \in 1..n : lines[i] \in X
  <2>1. lines \in Seq(X)
    BY DEF CutUp
  <2> HIDE DEF X
  <2>2. QED
    BY <2>1, LenProperties, ElementOfSeq
<1> HIDE DEF X
<1>5. Strips(text, lines, w)
  BY <1>4, StripWrapperStrips
<1> HIDE DEF s, n
<1>6. /\ text = SubSeq(lines, c + 1, last)
      /\ \A i \in 1..n : /\ i <= c => lines[i].code = <<WrapperOpen>>
                         /\ i > last => lines[i].code = <<"}">>
  BY <1>5 DEF Strips, n
<1>7. /\ e \in [0..n -> 0..len]
      /\ \A k \in 1..n : e[k - 1] <= e[k] /\ lines[k].code = SubSeq(s, e[k - 1] + 1, e[k])
  BY <1>3 DEF CutAt, n
<1> HIDE DEF len, c, o, m, last
<1>8. ASSUME NEW i \in 0..n, i <= c PROVE e[i] = i
  <2>1. \A k \in 1..i : k \in 1..n /\ k <= c
    BY <1>2, <1>4, <1>8
  <2>2. Each(lines, 1, i, WrapperOpen)
    BY <1>6, <2>1 DEF Each
  <2>3. QED
    BY <1>1, <1>3, <1>4, <2>2, HeadIsWrapper DEF n
<1>9. ASSUME NEW i \in 0..n, i <= o PROVE e[n - i] = len - i
  <2>1. \A k \in (n - i + 1)..n : k \in 1..n /\ k > last
    BY <1>2, <1>4, <1>9 DEF last
  <2>2. Each(lines, n - i + 1, n, "}")
    BY <1>6, <2>1 DEF Each
  <2>3. QED
    BY <1>1, <1>3, <1>4, <2>2, TailIsWrapper DEF n, len
<1>10. c <= n
  <2>1. SUFFICES ASSUME n < c PROVE FALSE
    BY <1>2, <1>4
  <2>2. n \in 0..n /\ n <= c
    BY <1>2, <1>4, <2>1
  <2>3. e[n] = n
    BY <1>8, <2>2
  <2>4. QED
    BY <1>1, <1>2, <1>3, <1>4, <2>1, <2>3
<1>11. o <= n
  <2>1. SUFFICES ASSUME n < o PROVE FALSE
    BY <1>2, <1>4
  <2>2. n \in 0..n /\ n <= o /\ n - n = 0
    BY <1>2, <1>4, <2>1
  <2>3. e[0] = len - n
    BY <1>9, <2>2
  <2>4. QED
    BY <1>1, <1>2, <1>3, <1>4, <2>1, <2>3
<1>12. e[c] = c /\ e[last] = c + m /\ last \in 0..n /\ c \in 0..n
  <2>1. c \in 0..n /\ c <= c /\ o \in 0..n /\ o <= o /\ last \in 0..n /\ last = n - o
        /\ (c + m + o) - o = c + m
    BY <1>2, <1>4, <1>10, <1>11 DEF last
  <2>2. QED
    BY <1>1, <1>8, <1>9, <2>1
<1>13. c <= last
  <2>1. SUFFICES ASSUME last < c PROVE FALSE
    BY <1>2, <1>4, <1>12
  <2>2. e[last] = last
    BY <1>2, <1>4, <1>8, <1>12, <2>1
  <2>3. QED
    BY <1>2, <1>4, <1>12, <2>1, <2>2
<1> DEFINE l == last - c
           d == [i \in 0..l |-> e[c + i]]
           codes == [i \in DOMAIN text |-> text[i].code]
<1>14. l \in Nat /\ c + l = last /\ (\A i \in 0..l : c + i \in 0..n) /\ \A i \in 1..l : c + i \in 1..n
  BY <1>2, <1>4, <1>12, <1>13
<1>15. text \in Seq(X) /\ Len(text) = l /\ \A i \in 1..l : text[i] = lines[c + i]
  <2>1. c + 1 \in Int /\ last \in Int /\ last - (c + 1) + 1 = l /\ (c + 1 <= last <=> l # 0)
        /\ \A i \in (c + 1)..last : i \in 1..n
    BY <1>2, <1>4, <1>12, <1>13
  <2>2. \A i \in (c + 1)..last : lines[i] \in X
    BY <1>4, <2>1
  <2>3. /\ SubSeq(lines, c + 1, last) \in Seq(X)
        /\ Len(SubSeq(lines, c + 1, last)) = IF c + 1 <= last THEN last - (c + 1) + 1 ELSE 0
        /\ \A i \in 1..(last - (c + 1) + 1) : SubSeq(lines, c + 1, last)[i] = lines[(c + 1) + i - 1]
    BY <2>1, <2>2, SubSeqProperties
  <2>4. \A i \in 1..l : (c + 1) + i - 1 = c + i
    BY <1>2, <1>14
  <2> HIDE DEF l
  <2>5. Len(text) = l
    BY <1>6, <1>14, <2>1, <2>3
  <2>6. \A i \in 1..l : text[i] = lines[c + i]
    BY <1>6, <2>1, <2>3, <2>4
  <2>7. QED
    BY <1>6, <2>3, <2>5, <2>6
<1> HIDE DEF l
<1>16. d \in [0..l -> 0..len] /\ \A i \in 0..l : d[i] = e[c + i]
  BY <1>7, <1>14
<1> HIDE DEF d
<1>17. codes \in Seq(Seq(T)) /\ Len(codes) = l /\ \A i \in 1..l : codes[i] = text[i].code
  <2>1. DOMAIN text = 1..l /\ \A i \in 1..l : text[i] \in X
    BY <1>14, <1>15, LenProperties, ElementOfSeq
  <2>2. \A i \in 1..l : text[i].code \in Seq(T)
    BY <2>1 DEF X, TextLine
  <2>3. codes \in [1..l -> Seq(T)] /\ \A i \in 1..l : codes[i] = text[i].code
    BY <2>1, <2>2
  <2> HIDE DEF codes
  <2>4. QED
    BY <1>14, <2>3, ListOfFunction
<1> HIDE DEF codes
<1>18. \A k \in 1..l : d[k - 1] <= d[k] /\ codes[k] = SubSeq(s, d[k - 1] + 1, d[k])
  <2> SUFFICES ASSUME NEW k \in 1..l
               PROVE d[k - 1] <= d[k] /\ codes[k] = SubSeq(s, d[k - 1] + 1, d[k])
    OBVIOUS
  <2>1. k \in 0..l /\ k - 1 \in 0..l /\ c + k \in 1..n /\ c + (k - 1) = (c + k) - 1
    BY <1>2, <1>14
  <2>2. d[k] = e[c + k] /\ d[k - 1] = e[(c + k) - 1] /\ codes[k] = lines[c + k].code
    BY <1>15, <1>16, <1>17, <2>1
  <2>3. QED
    BY <1>7, <2>1, <2>2
<1>19. FlattenSeq(codes) = SubSeq(s, d[0] + 1, d[l])
  <2>1. d \in [0..Len(codes) -> 0..Len(s)]
    BY <1>16, <1>17 DEF len
  <2>2. \A k \in 1..Len(codes) : d[k - 1] <= d[k] /\ codes[k] = SubSeq(s, d[k - 1] + 1, d[k])
    BY <1>17, <1>18
  <2>3. FlattenSeq(codes) = SubSeq(s, d[0] + 1, d[Len(codes)])
    BY <1>1, <1>17, <2>1, <2>2, PartsJoin
  <2>4. QED
    BY <1>17, <2>3
<1>20. d[0] = c /\ d[l] = c + m
  <2>1. 0 \in 0..l /\ l \in 0..l /\ c + 0 = c
    BY <1>2, <1>14
  <2>2. QED
    BY <1>12, <1>14, <1>16, <2>1
<1>21. FlattenSeq(codes) = source
  BY <1>1, <1>19, <1>20
<1>22. QED
  BY <1>15, <1>21 DEF StrippedTo, X, codes

---------------------------------------------------------------------------------
(* Fixes, and findings.                                                    *)

JoinHistory(h, raws) ==
  /\ h[0] = <<>>
  /\ h[Len(raws)] = FoldLeft(JoinFix, <<>>, raws)
  /\ \A k \in 1..Len(raws) : h[k] = JoinFix(h[k - 1], raws[k])

(* Two neighbours' lines are their join's.                                 *)
LEMMA NeighboursJoin ==
  ASSUME NEW n \in Nat, NEW k \in Nat, NEW z \in Whole(n, k), NEW x \in Whole(n, k),
         z.aEnd = x.aStart, z.bEnd = x.bStart,
         NEW y, y = Block(z.aStart, x.aEnd, z.bStart, x.bEnd)
  PROVE  /\ y \in Whole(n, k)
         /\ Lines(y) = Lines(z) \cup Lines(x)
         /\ NewLines(y) = NewLines(z) \cup NewLines(x)
<1>1. /\ z.aStart \in 1..(n + 1) /\ z.aEnd \in z.aStart..(n + 1) /\ z.bStart \in 1..(k + 1)
      /\ z.bEnd \in z.bStart..(k + 1) /\ z.aStart < z.aEnd /\ x.aStart \in 1..(n + 1)
      /\ x.aEnd \in x.aStart..(n + 1) /\ x.bStart \in 1..(k + 1) /\ x.bEnd \in x.bStart..(k + 1)
      /\ x.aStart < x.aEnd
      /\ z.aEnd \in 1..(n + 1) /\ x.aEnd \in 1..(n + 1) /\ x.bEnd \in 1..(k + 1)
  BY PieceHas DEF Whole, Pieces
<1>2. PICK p \in 1..(n + 1), q \in 1..(n + 1), u \in 1..(n + 1),
           r \in 1..(k + 1), s \in 1..(k + 1), t \in 1..(k + 1) :
        /\ p = z.aStart /\ q = z.aEnd /\ u = x.aEnd /\ r = z.bStart /\ s = z.bEnd /\ t = x.bEnd
        /\ p < q /\ q < u /\ r <= s /\ s <= t /\ x.aStart = q /\ x.bStart = s
  <2>1. PICK p \in 1..(n + 1), q \in 1..(n + 1) : p = z.aStart /\ q = z.aEnd /\ p < q
    BY <1>1
  <2>2. PICK u \in 1..(n + 1) : u = x.aEnd /\ q < u
    BY <1>1, <2>1
  <2>3. PICK r \in 1..(k + 1), s \in 1..(k + 1) : r = z.bStart /\ s = z.bEnd /\ r <= s
    BY <1>1
  <2>4. PICK t \in 1..(k + 1) : t = x.bEnd /\ s <= t
    BY <1>1, <2>3
  <2>5. QED
    BY <2>1, <2>2, <2>3, <2>4
<1>3. y = Block(p, u, r, t) /\ u \in p..(n + 1) /\ t \in r..(k + 1) /\ p < u
  BY <1>2
<1>4. IsPiece(y, n, k, p, u, r, t)
  <2>1. y = Block(p, u, r, t)
    BY <1>3
  <2>2. QED
    BY <1>3, <2>1, BlockIsPiece
<1>5. y \in Whole(n, k)
  BY <1>3, <1>4 DEF IsPiece, Whole
<1>6. Lines(y) = p..(u - 1) /\ Lines(z) = p..(q - 1) /\ Lines(x) = q..(u - 1)
  BY <1>2, <1>4 DEF IsPiece, Lines
<1>7. NewLines(y) = r..(t - 1) /\ NewLines(z) = r..(s - 1) /\ NewLines(x) = s..(t - 1)
  BY <1>2, <1>4 DEF IsPiece, NewLines
<1>8. p..(u - 1) = (p..(q - 1)) \cup (q..(u - 1))
  BY <1>2
<1>9. r..(t - 1) = (r..(s - 1)) \cup (s..(t - 1))
  BY <1>2
<1>10. QED
  BY <1>5, <1>6, <1>7, <1>8, <1>9

(* A fix more covers its block's lines.                                    *)
LEMMA JoinFixCovers ==
  ASSUME NEW n \in Nat, NEW k \in Nat, NEW list \in Seq(Whole(n, k)), NEW x \in Whole(n, k)
  PROVE  CoversAlso(JoinFix(list, x), list, x, Whole(n, k))
<1> DEFINE c == Len(list)
           z == list[c]
           joins == c > 0 /\ z.aEnd = x.aStart /\ z.bEnd = x.bStart
           res == JoinFix(list, x)
<1>1. CASE joins
  <2> DEFINE y == Block(z.aStart, x.aEnd, z.bStart, x.bEnd)
  <2>1. res = [list EXCEPT ![c] = y]
    BY <1>1 DEF JoinFix
  <2>2. c \in 1..c
    BY <1>1, LenProperties
  <2>3. z \in Whole(n, k)
    BY <2>2, ElementOfSeq
  <2> HIDE DEF res, z, c
  <2>4. y \in Whole(n, k) /\ Lines(y) = Lines(z) \cup Lines(x) /\ NewLines(y) = NewLines(z) \cup NewLines(x)
    BY <1>1, <2>3, NeighboursJoin
  <2> HIDE DEF y
  <2>5. CoversAlso(res, list, x, Whole(n, k))
    BY <1>1, <2>1, <2>4, LastGrowsCovers DEF z, c
  <2>6. QED
    BY <2>5 DEF res
<1>2. CASE ~joins
  <2>1. res = Append(list, x)
    BY <1>2 DEF JoinFix
  <2> HIDE DEF res
  <2>2. CoversAlso(res, list, x, Whole(n, k))
    BY <2>1, AppendCovers
  <2>3. QED
    BY <2>2 DEF res
<1>3. QED
  BY <1>1, <1>2

(* Fixes are joined one after the other.                                   *)
LEMMA JoinFolds ==
  ASSUME NEW y \in Nat, NEW z \in Nat, NEW raws \in Seq(Whole(y, z))
  PROVE  \E h \in [0..Len(raws) -> Seq(Whole(y, z))] :
           JoinHistory(h, raws)
<1> DEFINE n == Len(raws)
           p == raws
           A == Seq(Whole(y, z))
           base == <<>>
           Op(a, x) == JoinFix(a, x)
           step == [k \in 1..n |-> [a \in A |-> Op(a, p[k])]]
           Eq(it) == it = [s \in SUBSET (DOMAIN p) |-> IF s = {} THEN base
                                ELSE Op(it[s \ {Max(s)}], p[Max(s)])]
           iter == CHOOSE it : Eq(it)
<1>1. n \in Nat /\ DOMAIN p = 1..n
  BY LenProperties
<1>2. base \in A
  OBVIOUS
<1>3. \A k \in 1..n : \A a \in A : Op(a, p[k]) \in A
  <2> SUFFICES ASSUME NEW k \in 1..n, NEW a \in A PROVE Op(a, p[k]) \in A
    OBVIOUS
  <2>1. p[k] \in Whole(y, z)
    BY ElementOfSeq
  <2> HIDE DEF n, p
  <2>2. CoversAlso(JoinFix(a, p[k]), a, p[k], Whole(y, z))
    BY <2>1, JoinFixCovers
  <2>3. QED
    BY <2>2 DEF CoversAlso
<1>4. KeepsTo(A, step, 1..n) /\ \A k \in 1..n : \A a \in A : step[k][a] = Op(a, p[k])
  <2>1. \A k \in 1..n : \A a \in A : step[k][a] = Op(a, p[k])
    OBVIOUS
  <2> HIDE DEF step, Op
  <2>2. QED
    BY <1>3, <2>1 DEF KeepsTo
<1> HIDE DEF step, base
<1>5. PICK g \in [SUBSET (1..n) -> A] : IsLeftFold(g, n, base, step)
  <2> HIDE DEF n, A, p, Op
  <2>1. QED
    BY <1>1, <1>2, <1>4, LeftFoldExists
<1>6. \A T \in SUBSET (1..n) : T # {} => Max(T) \in T
  BY <1>1, MaxInPrefix
<1>7. Eq(g)
  <2> HIDE DEF Op, A, p
  <2>1. \A T \in SUBSET (1..n) : g[T] = IF T = {} THEN base ELSE Op(g[T \ {Max(T)}], p[Max(T)])
    <3> SUFFICES ASSUME NEW T \in SUBSET (1..n), T # {}
                 PROVE  g[T] = Op(g[T \ {Max(T)}], p[Max(T)])
      BY <1>5 DEF IsLeftFold
    <3>1. Max(T) \in 1..n /\ T \ {Max(T)} \in SUBSET (1..n)
      BY <1>6
    <3>2. g[T \ {Max(T)}] \in A
      BY <1>5, <3>1
    <3>3. QED
      BY <1>4, <1>5, <3>1, <3>2 DEF IsLeftFold
  <2> HIDE DEF n
  <2>2. QED
    BY <1>1, <1>5, <2>1
<1>8. Eq(iter)
  <2> HIDE DEF Eq
  <2>1. QED
    BY <1>7
<1>9. FoldLeft(JoinFix, base, p) = iter[1..n]
  <2>1. FoldLeft(JoinFix, base, p) = iter[DOMAIN p]
    BY Zenon DEF FoldLeft, MapThenFoldSet
  <2>2. QED
    BY <1>1, <2>1
<1>10. Unrolls(iter, n, A, base, step)
  <2>1. iter[{}] = base
    <3>1. {} \in SUBSET (DOMAIN p)
      OBVIOUS
    <3> HIDE DEF iter, Op, p
    <3>2. QED
      BY <1>8, <3>1
  <2>2. ASSUME NEW k \in 1..n, iter[1..(k - 1)] \in A
        PROVE  iter[1..k] = step[k][iter[1..(k - 1)]]
    <3>1. Max(1..k) = k /\ (1..k) \ {Max(1..k)} = 1..(k - 1) /\ 1..k # {}
      <4> HIDE DEF iter, Op, n, p, A, step
      <4>1. k \in Nat \ {0}
        BY <1>1
      <4>2. QED
        BY <4>1, MaxOfPrefix
    <3>2. 1..k \in SUBSET (DOMAIN p)
      <4> HIDE DEF iter, Op, n, p, A
      <4>1. QED
        BY <1>1
    <3> HIDE DEF iter, Op, p, A
    <3>3. iter[1..k] = Op(iter[(1..k) \ {Max(1..k)}], p[Max(1..k)])
      BY <1>8, <3>1, <3>2
    <3>4. iter[1..k] = Op(iter[1..(k - 1)], p[k])
      BY <3>1, <3>3
    <3>5. QED
      BY <1>4, <2>2, <3>4
  <2> HIDE DEF iter, n, A
  <2>3. QED
    BY <2>1, <2>2 DEF Unrolls
<1> HIDE DEF iter, A, Op
<1>11. PICK h \in [0..n -> A] : Accumulates(h, n, base, step) /\ h[n] = iter[1..n]
  <2> HIDE DEF n, p
  <2>1. QED
    BY <1>1, <1>2, <1>4, <1>10, LeftFoldPrefixes
<1>12. \A k \in 1..n : h[k] = Op(h[k - 1], p[k])
  <2> SUFFICES ASSUME NEW k \in 1..n PROVE h[k] = Op(h[k - 1], p[k])
    OBVIOUS
  <2>1. k - 1 \in 0..n
    BY <1>1
  <2>2. h[k - 1] \in A
    BY <1>11, <2>1
  <2>3. QED
    BY <1>4, <1>11, <2>2 DEF Accumulates
<1>13. h \in [0..n -> A] /\ h[0] = base /\ h[n] = FoldLeft(JoinFix, base, p)
  BY <1>9, <1>11 DEF Accumulates
<1>14. QED
  BY <1>12, <1>13 DEF A, Op, n, p, base, JoinHistory

(* The fixes replace the lines of the blocks they are made of.             *)
LEMMA FixesCoverTheBlocks ==
  ASSUME NEW n \in Nat, NEW k \in Nat, NEW list \in Seq(Whole(n, k)),
         NEW fixes, fixes = FoldLeft(JoinFix, <<>>, list)
  PROVE  Covered(Range(fixes)) = Covered(Range(list))
<1> DEFINE N == Len(list)
<1>1. N \in Nat /\ N \in 0..N
  BY LenProperties
<1>2. PICK h \in [0..N -> Seq(Whole(n, k))] : JoinHistory(h, list)
  BY JoinFolds
<1>3. h[0] = <<>> /\ h[N] = fixes /\ \A l \in 1..N : h[l] = JoinFix(h[l - 1], list[l])
  BY <1>2 DEF JoinHistory
<1>4. Range(list) = {list[q] : q \in 1..N} /\ \A q \in 1..N : list[q] \in Whole(n, k)
  BY RangeEquality, ElementOfSeq
<1> HIDE DEF N
<1> DEFINE First(l) == {list[q] : q \in 1..l}
           P == {l \in 0..N : Covered(Range(h[l])) = Covered(First(l))}
<1>5. 0 \in P
  <2> DEFINE e == <<>>
  <2>1. e \in Seq(Nat) /\ Len(e) = 0
    OBVIOUS
  <2> HIDE DEF e
  <2>2. Range(e) = {e[q] : q \in 1..0}
    BY <2>1, RangeEquality
  <2>3. Range(h[0]) = {}
    BY <1>3, <2>2 DEF e
  <2>4. First(0) = {}
    OBVIOUS
  <2>5. Covered(Range(h[0])) = Covered(First(0))
    BY <2>3, <2>4
  <2>6. QED
    BY <1>1, <2>5
<1>6. ASSUME NEW l \in 1..N, l - 1 \in P PROVE l \in P
  <2> DEFINE x == list[l]
             S == First(l - 1)
             T == First(l)
  <2>1. l \in 0..N /\ l - 1 \in 0..N
    BY <1>1
  <2>2. h[l - 1] \in Seq(Whole(n, k)) /\ x \in Whole(n, k) /\ h[l] = JoinFix(h[l - 1], x)
    BY <1>2, <1>3, <1>4, <2>1
  <2>3. T = S \cup {x}
    <3>1. 1..l = (1..(l - 1)) \cup {l}
      BY <1>1
    <3>2. QED
      BY <3>1
  <2>4. Covered(Range(h[l - 1])) = Covered(S)
    BY <1>6
  <2> HIDE DEF x, S, T
  <2>5. CoversAlso(h[l], h[l - 1], x, Whole(n, k))
    BY <2>2, JoinFixCovers
  <2>6. Covered(Range(h[l])) = Covered(Range(h[l - 1])) \cup Lines(x)
    BY <2>5 DEF CoversAlso
  <2>7. Covered(S \cup {x}) = Covered(S) \cup Lines(x)
    BY CoveredWith
  <2>8. Covered(T) = Covered(S) \cup Lines(x)
    BY <2>3, <2>7, Zenon
  <2>9. Covered(Range(h[l])) = Covered(T)
    BY <2>4, <2>6, <2>8
  <2>10. QED
    BY <2>1, <2>9 DEF T
<1>7. N \in P
  <2> HIDE DEF P
  <2>1. QED
    BY <1>1, <1>5, <1>6, PrefixInduction
<1>8. First(N) = Range(list)
  BY <1>4
<1>9. Covered(First(N)) = Covered(Range(list))
  BY <1>8, Zenon
<1>10. QED
  BY <1>3, <1>7, <1>9

FoundBy(w, d) == [line |-> HunkLine(w, d.line), rule |-> d.rule]
FoundIn(w, ds) == {FoundBy(w, ds[k]) : k \in 1..Len(ds)}

LintHistory(h, text, w, ds) ==
  /\ h[0] = <<>>
  /\ h[Len(ds)] = LintFindings(text, w, ds)
  /\ \A k \in 1..Len(ds) : h[k] = LintFinding(text, w, h[k - 1], ds[k])

(* Diagnostics are looked at one after the other.                          *)
LEMMA LintFolds ==
  ASSUME NEW text, NEW w, NEW Y, NEW ds \in Seq(Y)
  PROVE  \E h \in [0..Len(ds) -> Seq(FoundIn(w, ds))] :
           LintHistory(h, text, w, ds)
<1> DEFINE n == Len(ds)
           p == ds
           A == Seq(FoundIn(w, ds))
           base == <<>>
           Op(a, x) == LintFinding(text, w, a, x)
           step == [k \in 1..n |-> [a \in A |-> Op(a, p[k])]]
           Eq(it) == it = [s \in SUBSET (DOMAIN p) |-> IF s = {} THEN base
                                ELSE Op(it[s \ {Max(s)}], p[Max(s)])]
           iter == CHOOSE it : Eq(it)
<1>1. n \in Nat /\ DOMAIN p = 1..n
  BY LenProperties
<1>2. base \in A
  OBVIOUS
<1>3. \A k \in 1..n : \A a \in A : Op(a, p[k]) \in A
  <2> SUFFICES ASSUME NEW k \in 1..n, NEW a \in A PROVE Op(a, p[k]) \in A
    OBVIOUS
  <2> DEFINE f == FoundBy(w, p[k])
  <2>1. f \in FoundIn(w, ds)
    BY DEF FoundIn
  <2>2. Op(a, p[k]) = Append(a, f) \/ Op(a, p[k]) = a
    BY Zenon DEF LintFinding, FoundBy
  <2> HIDE DEF f, Op
  <2>3. Append(a, f) \in A
    BY <2>1, AppendProperties
  <2>4. QED
    BY <2>2, <2>3
<1>4. KeepsTo(A, step, 1..n) /\ \A k \in 1..n : \A a \in A : step[k][a] = Op(a, p[k])
  <2>1. \A k \in 1..n : \A a \in A : step[k][a] = Op(a, p[k])
    OBVIOUS
  <2> HIDE DEF step, Op
  <2>2. QED
    BY <1>3, <2>1 DEF KeepsTo
<1> HIDE DEF step, base
<1>5. PICK g \in [SUBSET (1..n) -> A] : IsLeftFold(g, n, base, step)
  <2> HIDE DEF n, A, p, Op
  <2>1. QED
    BY <1>1, <1>2, <1>4, LeftFoldExists
<1>6. \A T \in SUBSET (1..n) : T # {} => Max(T) \in T
  BY <1>1, MaxInPrefix
<1>7. Eq(g)
  <2> HIDE DEF Op, A, p
  <2>1. \A T \in SUBSET (1..n) : g[T] = IF T = {} THEN base ELSE Op(g[T \ {Max(T)}], p[Max(T)])
    <3> SUFFICES ASSUME NEW T \in SUBSET (1..n), T # {}
                 PROVE  g[T] = Op(g[T \ {Max(T)}], p[Max(T)])
      BY <1>5 DEF IsLeftFold
    <3>1. Max(T) \in 1..n /\ T \ {Max(T)} \in SUBSET (1..n)
      BY <1>6
    <3>2. g[T \ {Max(T)}] \in A
      BY <1>5, <3>1
    <3>3. QED
      BY <1>4, <1>5, <3>1, <3>2 DEF IsLeftFold
  <2> HIDE DEF n
  <2>2. QED
    BY <1>1, <1>5, <2>1
<1>8. Eq(iter)
  <2> HIDE DEF Eq
  <2>1. QED
    BY <1>7
<1>9. LintFindings(text, w, ds) = iter[1..n]
  <2>1. LintFindings(text, w, ds) = iter[DOMAIN p]
    <3>1. LintFindings(text, w, ds) = FoldLeft(LAMBDA a, x : LintFinding(text, w, a, x), base, p)
      BY Zenon DEF LintFindings, base
    <3>2. FoldLeft(LAMBDA a, x : LintFinding(text, w, a, x), base, p) = iter[DOMAIN p]
      BY Zenon DEF FoldLeft, MapThenFoldSet
    <3>3. QED
      BY <3>1, <3>2
  <2>2. QED
    BY <1>1, <2>1
<1>10. Unrolls(iter, n, A, base, step)
  <2>1. iter[{}] = base
    <3>1. {} \in SUBSET (DOMAIN p)
      OBVIOUS
    <3> HIDE DEF iter, Op, p
    <3>2. QED
      BY <1>8, <3>1
  <2>2. ASSUME NEW k \in 1..n, iter[1..(k - 1)] \in A
        PROVE  iter[1..k] = step[k][iter[1..(k - 1)]]
    <3>1. Max(1..k) = k /\ (1..k) \ {Max(1..k)} = 1..(k - 1) /\ 1..k # {}
      <4> HIDE DEF iter, Op, n, p, A, step
      <4>1. k \in Nat \ {0}
        BY <1>1
      <4>2. QED
        BY <4>1, MaxOfPrefix
    <3>2. 1..k \in SUBSET (DOMAIN p)
      <4> HIDE DEF iter, Op, n, p, A
      <4>1. QED
        BY <1>1
    <3> HIDE DEF iter, Op, p, A
    <3>3. iter[1..k] = Op(iter[(1..k) \ {Max(1..k)}], p[Max(1..k)])
      BY <1>8, <3>1, <3>2
    <3>4. iter[1..k] = Op(iter[1..(k - 1)], p[k])
      BY <3>1, <3>3
    <3>5. QED
      BY <1>4, <2>2, <3>4
  <2> HIDE DEF iter, n, A
  <2>3. QED
    BY <2>1, <2>2 DEF Unrolls
<1> HIDE DEF iter, A, Op
<1>11. PICK h \in [0..n -> A] : Accumulates(h, n, base, step) /\ h[n] = iter[1..n]
  <2> HIDE DEF n, p
  <2>1. QED
    BY <1>1, <1>2, <1>4, <1>10, LeftFoldPrefixes
<1>12. \A k \in 1..n : h[k] = Op(h[k - 1], p[k])
  <2> SUFFICES ASSUME NEW k \in 1..n PROVE h[k] = Op(h[k - 1], p[k])
    OBVIOUS
  <2>1. k - 1 \in 0..n
    BY <1>1
  <2>2. h[k - 1] \in A
    BY <1>11, <2>1
  <2>3. QED
    BY <1>4, <1>11, <2>2 DEF Accumulates
<1>13. h \in [0..n -> A] /\ h[0] = base /\ h[n] = LintFindings(text, w, ds)
  BY <1>9, <1>11 DEF Accumulates
<1>14. QED
  BY <1>12, <1>13 DEF A, Op, n, p, base, LintHistory

(* A diagnostic repeated is one finding, if it is on an added line.        *)
LEMMA RepeatedIsOne ==
  ASSUME NEW text, NEW w, NEW d
  PROVE  LintFindings(text, w, <<d, d>>)
           = IF FoundBy(w, d).line \in DOMAIN text /\ text[FoundBy(w, d).line].added
             THEN <<FoundBy(w, d)>> ELSE <<>>
<1> DEFINE ds == <<d, d>>
           f == FoundBy(w, d)
           hits == f.line \in DOMAIN text /\ text[f.line].added
           One == <<f>>
           None1 == <<>>
<1>1. ds \in Seq({d}) /\ Len(ds) = 2 /\ ds[1] = d /\ ds[2] = d
  OBVIOUS
<1>2. None1 \in Seq({f}) /\ Append(None1, f) = One /\ f \in Range(One) /\ f \notin Range(None1)
  BY DEF Range
<1>3. \A a : LintFinding(text, w, a, d) = IF hits /\ f \notin Range(a) THEN Append(a, f) ELSE a
  BY Zenon DEF LintFinding, FoundBy
<1> HIDE DEF ds, f, hits, One
<1>4. PICK h \in [0..2 -> Seq(FoundIn(w, ds))] : LintHistory(h, text, w, ds)
  BY <1>1, LintFolds
<1>5. /\ h[0] = None1 /\ h[2] = LintFindings(text, w, ds)
      /\ h[1] = LintFinding(text, w, h[0], d) /\ h[2] = LintFinding(text, w, h[1], d)
  <2>1. 1 \in 1..2 /\ 2 \in 1..2 /\ 1 - 1 = 0 /\ 2 - 1 = 1
    OBVIOUS
  <2>2. /\ h[0] = None1 /\ h[2] = LintFindings(text, w, ds)
        /\ \A k \in 1..2 : h[k] = LintFinding(text, w, h[k - 1], ds[k])
    BY <1>1, <1>4 DEF LintHistory
  <2>3. QED
    BY <1>1, <2>1, <2>2
<1> HIDE DEF None1
<1>6. CASE hits
  <2>1. h[1] = One
    BY <1>2, <1>3, <1>5, <1>6
  <2>2. h[2] = One
    BY <1>2, <1>3, <1>5, <2>1
  <2>3. QED
    BY <1>5, <1>6, <2>2 DEF ds, hits, One, f
<1>7. CASE ~hits
  <2>1. h[1] = None1
    BY <1>3, <1>5, <1>7
  <2>2. h[2] = None1
    BY <1>3, <1>5, <1>7, <2>1
  <2>3. QED
    BY <1>5, <1>7, <2>2 DEF ds, hits, None1, f
<1>8. QED
  BY <1>6, <1>7
=================================================================================
