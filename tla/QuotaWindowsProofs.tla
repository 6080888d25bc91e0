--------------------------- MODULE QuotaWindowsProofs ---------------------------
(***************************************************************************)
(* The arithmetic of a provider key's windows, for all limits, spans,      *)
(* costs and entries: totals are finite and grow with the entries, room    *)
(* now is room in every window, and retryAt is a time to come.             *)
(***************************************************************************)
EXTENDS QuotaWindows, CollectionProofs

Fields == {"requests", "tokens"}

Counted(e) == e.id \in Nat /\ \A field \in Fields : e[field] \in Nat

(* What a budget's entries are: ids are unique and follow the clock.       *)
WellFormed(entries, t) ==
  /\ IsFiniteSet(entries)
  /\ \A e \in entries : Counted(e) /\ e.at \in Nat /\ e.at <= t
  /\ \A e, f \in entries : (e.id = f.id => e = f) /\ (e.id <= f.id => e.at <= f.at)

IsWindow(w) == w.span \in 1..DayMs /\ w.field \in Fields /\ w.limit \in Nat \ {0}

IsCost(cost) == \A field \in Fields : cost[field] \in Nat

IsLimits(limits) ==
  limits \in [requestsPerMinute : Nat, tokensPerMinute : Nat,
              requestsPerDay : Nat, tokensPerDay : SUBSET Nat]
---------------------------------------------------------------------------------
(* Headroom keeps a limit a number, and never makes it zero.               *)
LEMMA AllowedIs == ASSUME NEW limit \in Nat PROVE Allowed(limit) \in Nat \ {0}
<1> DEFINE share == (limit * HeadroomPct) \div 100
<1>1. HeadroomPct \in Nat
  BY WindowAssumption
<1>2. limit * HeadroomPct \in Nat
  BY <1>1
<1>3. share \in Nat
  <2> DEFINE n == limit * HeadroomPct
  <2>1. n \in Nat
    BY <1>2
  <2> HIDE DEF n
  <2>2. n \div 100 \in Nat
    BY <2>1
  <2>3. QED
    BY <2>2 DEF n
<1> HIDE DEF share
<1>4. Max({1, share}) = IF 1 >= share THEN 1 ELSE share
  BY <1>3, MaxOfTwo
<1>5. Max({1, share}) \in Nat \ {0}
  BY <1>3, <1>4
<1>6. QED
  BY <1>5 DEF Allowed, share

(* The constructor's windows have a span up to a day and room for one.     *)
LEMMA WindowsAre ==
  ASSUME NEW limits, IsLimits(limits), NEW w \in Windows(limits)
  PROVE  IsWindow(w)
<1>1. MinuteMs \in 1..DayMs /\ DayMs \in 1..DayMs
  BY WindowAssumption
<1>2. /\ Allowed(limits.requestsPerMinute) \in Nat \ {0}
      /\ Allowed(limits.tokensPerMinute) \in Nat \ {0}
      /\ Allowed(limits.requestsPerDay) \in Nat \ {0}
      /\ \A n \in limits.tokensPerDay : Allowed(n) \in Nat \ {0}
  BY AllowedIs DEF IsLimits
<1>3. QED
  BY <1>1, <1>2 DEF Windows, IsWindow, Fields

(* The units of one entry.                                                 *)
LEMMA UnitsUpTo == \A n \in Nat : IsFiniteSet(1..n) /\ Cardinality(1..n) = n
BY FS_Interval

(* A sum is a finite count.                                                *)
LEMMA TotalIs ==
  ASSUME NEW E, IsFiniteSet(E), \A e \in E : Counted(e), NEW field \in Fields
  PROVE  IsFiniteSet(Units(field, E)) /\ Total(field, E) \in Nat
<1> DEFINE Mine(e) == {e.id} \X (1..e[field])
           S == {Mine(e) : e \in E}
           f == [e \in E |-> Mine(e)]
<1>1. f \in Surjection(E, S)
  BY DEF Surjection
<1>2. IsFiniteSet(S)
  <2> HIDE DEF f, S
  <2>1. QED
    BY <1>1, FS_Surjection
<1>3. \A e \in E : IsFiniteSet(Mine(e))
  <2>1. SUFFICES ASSUME NEW e \in E PROVE IsFiniteSet(Mine(e))
    OBVIOUS
  <2>2. IsFiniteSet({e.id}) /\ IsFiniteSet(1..e[field])
    <3>1. e[field] \in Nat
      BY DEF Counted
    <3> HIDE DEF Mine, S, f
    <3>2. IsFiniteSet(1..e[field])
      BY <3>1, UnitsUpTo
    <3>3. QED
      BY <3>2, FS_Singleton
  <2>3. QED
    BY <2>2, FS_Product
<1>4. IsFiniteSet(UNION S)
  BY <1>2, <1>3, FS_UNION
<1>5. IsFiniteSet(Units(field, E))
  BY <1>4 DEF Units
<1>6. QED
  BY <1>5, FS_CardinalityType DEF Total

(* Entries that spent no more than others under their ids count no more.   *)
LEMMA TotalGrows ==
  ASSUME NEW B, IsFiniteSet(B), \A f \in B : Counted(f), NEW field \in Fields,
         NEW A, \A e \in A : \E f \in B : e.id = f.id /\ e[field] \in Nat /\ e[field] <= f[field]
  PROVE  /\ Units(field, A) \subseteq Units(field, B)
         /\ Total(field, A) \in Nat /\ Total(field, A) <= Total(field, B)
<1>1. Units(field, A) \subseteq Units(field, B)
  <2>1. SUFFICES ASSUME NEW e \in A, NEW u \in {e.id} \X (1..e[field])
                 PROVE  u \in Units(field, B)
    BY DEF Units
  <2>2. PICK f \in B : e.id = f.id /\ e[field] \in Nat /\ e[field] <= f[field]
    OBVIOUS
  <2>3. f[field] \in Nat
    BY DEF Counted
  <2>4. u \in {f.id} \X (1..f[field])
    BY <2>2, <2>3
  <2>5. QED
    BY <2>4 DEF Units
<1>2. IsFiniteSet(Units(field, B))
  BY TotalIs
<1>3. IsFiniteSet(Units(field, A)) /\ Cardinality(Units(field, A)) <= Cardinality(Units(field, B))
  BY <1>1, <1>2, FS_Subset
<1>4. QED
  BY <1>1, <1>3, FS_CardinalityType DEF Total

(* Entries that are among others count no more.                            *)
LEMMA TotalOfSubset ==
  ASSUME NEW B, IsFiniteSet(B), \A f \in B : Counted(f), NEW field \in Fields,
         NEW A \in SUBSET B
  PROVE  Total(field, A) \in Nat /\ Total(field, A) <= Total(field, B)
<1>1. \A e \in A : \E f \in B : e.id = f.id /\ e[field] \in Nat /\ e[field] <= f[field]
  BY DEF Counted
<1>2. QED
  BY <1>1, TotalGrows

(* Two groups count no more than their sums.                               *)
LEMMA TotalOfUnion ==
  ASSUME NEW A, IsFiniteSet(A), \A e \in A : Counted(e),
         NEW B, IsFiniteSet(B), \A e \in B : Counted(e), NEW field \in Fields
  PROVE  /\ Total(field, A \cup B) \in Nat
         /\ Total(field, A \cup B) <= Total(field, A) + Total(field, B)
         /\ (\A e \in A, f \in B : e.id # f.id) =>
              Total(field, A \cup B) = Total(field, A) + Total(field, B)
<1>1. IsFiniteSet(Units(field, A)) /\ IsFiniteSet(Units(field, B))
  BY TotalIs
<1>2. Units(field, A \cup B) = Units(field, A) \cup Units(field, B)
  BY DEF Units
<1>3. /\ IsFiniteSet(Units(field, A) \cup Units(field, B))
      /\ Cardinality(Units(field, A) \cup Units(field, B))
           = Cardinality(Units(field, A)) + Cardinality(Units(field, B))
             - Cardinality(Units(field, A) \cap Units(field, B))
  BY <1>1, FS_Union
<1>4. IsFiniteSet(Units(field, A) \cap Units(field, B))
  BY <1>1, FS_Intersection
<1>5. ASSUME \A e \in A, f \in B : e.id # f.id
      PROVE  Units(field, A) \cap Units(field, B) = {}
  BY <1>5 DEF Units
<1>6. /\ Cardinality(Units(field, A)) \in Nat
      /\ Cardinality(Units(field, B)) \in Nat
      /\ Cardinality(Units(field, A) \cup Units(field, B)) \in Nat
      /\ Cardinality(Units(field, A) \cap Units(field, B)) \in Nat
  BY <1>1, <1>3, <1>4, FS_CardinalityType
<1>7. /\ Cardinality(Units(field, A) \cup Units(field, B))
           <= Cardinality(Units(field, A)) + Cardinality(Units(field, B))
      /\ (\A e \in A, f \in B : e.id # f.id) =>
           Cardinality(Units(field, A) \cup Units(field, B))
             = Cardinality(Units(field, A)) + Cardinality(Units(field, B))
  <2> DEFINE a == Cardinality(Units(field, A))
             b == Cardinality(Units(field, B))
             u == Cardinality(Units(field, A) \cup Units(field, B))
             i == Cardinality(Units(field, A) \cap Units(field, B))
  <2>1. a \in Nat /\ b \in Nat /\ u \in Nat /\ i \in Nat /\ u = a + b - i
    BY <1>3, <1>6
  <2>2. (\A e \in A, f \in B : e.id # f.id) => i = 0
    BY <1>5, FS_EmptySet
  <2> HIDE DEF a, b, u, i
  <2>3. u <= a + b /\ (i = 0 => u = a + b)
    BY <2>1
  <2>4. QED
    BY <2>2, <2>3 DEF a, b, u
<1>8. QED
  BY <1>2, <1>6, <1>7 DEF Total

(* One entry counts what it spent.                                         *)
LEMMA TotalOfOne ==
  ASSUME NEW e, Counted(e), NEW field \in Fields
  PROVE  Total(field, {e}) = e[field]
<1>1. Units(field, {e}) = {e.id} \X (1..e[field])
  BY DEF Units
<1>2. e[field] \in Nat
  BY DEF Counted
<1>3. IsFiniteSet({e.id}) /\ Cardinality({e.id}) = 1
  BY FS_Singleton
<1>4. IsFiniteSet(1..e[field]) /\ Cardinality(1..e[field]) = e[field]
  BY <1>2, UnitsUpTo
<1>5. Cardinality({e.id} \X (1..e[field])) = Cardinality({e.id}) * Cardinality(1..e[field])
  BY <1>3, <1>4, FS_Product
<1>6. 1 * e[field] = e[field]
  BY <1>2
<1>7. QED
  BY <1>1, <1>3, <1>4, <1>5, <1>6 DEF Total
---------------------------------------------------------------------------------
(* A finite set's ids are finitely many.                                   *)
LEMMA IdsAre ==
  ASSUME NEW E, IsFiniteSet(E), \A e \in E : Counted(e)
  PROVE  IsFiniteSet({e.id : e \in E}) /\ {e.id : e \in E} \in SUBSET Int
<1> DEFINE S == {e.id : e \in E}
           f == [e \in E |-> e.id]
<1>1. f \in Surjection(E, S)
  BY DEF Surjection
<1>2. S \in SUBSET Int
  BY DEF Counted
<1> HIDE DEF f, S
<1>3. IsFiniteSet(S)
  BY <1>1, FS_Surjection
<1>4. QED
  BY <1>2, <1>3 DEF S

(* What is in a window.                                                    *)
LEMMA UsedIs ==
  ASSUME NEW E, NEW t \in Int, NEW late \in Int, WellFormed(E, late), NEW w, IsWindow(w),
         NEW cost, IsCost(cost)
  PROVE  /\ InWindow(w, E, t) \in SUBSET E /\ IsFiniteSet(InWindow(w, E, t))
         /\ \A e \in InWindow(w, E, t) : Counted(e)
         /\ Used(w, E, t) \in Nat /\ Excess(w, E, cost, t) \in Int
         /\ cost[w.field] \in Nat /\ w.limit \in Nat /\ w.field \in Fields
         /\ Excess(w, E, cost, t) = Used(w, E, t) + cost[w.field] - w.limit
<1>1. InWindow(w, E, t) \in SUBSET E
  BY DEF InWindow
<1>2. IsFiniteSet(InWindow(w, E, t)) /\ \A e \in InWindow(w, E, t) : Counted(e)
  BY <1>1, FS_Subset DEF WellFormed
<1>3. cost[w.field] \in Nat /\ w.limit \in Nat /\ w.field \in Fields
  BY DEF IsWindow, IsCost
<1>4. Used(w, E, t) \in Nat
  BY <1>2, <1>3, TotalIs DEF Used
<1>5. QED
  BY <1>1, <1>2, <1>3, <1>4 DEF Excess

(* The entry a refused cost waits for in a window.                         *)
IsFirst(first, w, E, cost, t) ==
  /\ DepartureAt(w, E, cost, t) = first.at + w.span + 1
  /\ Excess(w, E, cost, t) <= Total(w.field, {f \in InWindow(w, E, t) : f.id <= first.id})
  /\ \A e \in InWindow(w, E, t) :
       Excess(w, E, cost, t) <= Total(w.field, {f \in InWindow(w, E, t) : f.id <= e.id})
         => first.id <= e.id

(* A window that is over its limit frees enough when one of its entries    *)
(* leaves: the last would do, so there is a first.                         *)
LEMMA FirstIs ==
  ASSUME NEW E, NEW t \in Nat, WellFormed(E, t), NEW w, IsWindow(w), NEW cost, IsCost(cost),
         cost[w.field] <= w.limit, Excess(w, E, cost, t) > 0
  PROVE  \E first \in InWindow(w, E, t) : IsFirst(first, w, E, cost, t)
<1> DEFINE in == InWindow(w, E, t)
           excess == Excess(w, E, cost, t)
           UpTo(e) == {f \in in : f.id <= e.id}
           Frees(e) == excess <= Total(w.field, UpTo(e))
           F == {e \in in : Frees(e)}
<1>1. /\ IsFiniteSet(in) /\ (\A e \in in : Counted(e))
      /\ Used(w, E, t) \in Nat /\ excess \in Int /\ cost[w.field] \in Nat /\ w.limit \in Nat
      /\ w.field \in Fields /\ excess = Used(w, E, t) + cost[w.field] - w.limit
  BY UsedIs
<1>2. Total(w.field, in) = Used(w, E, t) /\ excess <= Used(w, E, t) /\ Used(w, E, t) > 0
  <2>1. Total(w.field, in) = Used(w, E, t)
    BY DEF Used
  <2> HIDE DEF in, excess
  <2>2. excess > 0
    BY DEF excess
  <2>3. QED
    BY <1>1, <2>1, <2>2
<1>3. in # {}
  <2>1. Units(w.field, {}) = {}
    BY DEF Units
  <2>2. Total(w.field, {}) = 0
    BY <2>1, FS_EmptySet DEF Total
  <2>3. QED
    BY <1>1, <1>2, <2>2
<1> HIDE DEF in, excess
<1>4. F # {}
  <2> DEFINE ids == {e.id : e \in in}
  <2>1. IsFiniteSet(ids) /\ ids \in SUBSET Int /\ ids # {}
    BY <1>1, <1>3, IdsAre
  <2>2. PICK last \in in : \A e \in in : e.id <= last.id
    <3> HIDE DEF ids
    <3>1. Max(ids) \in ids /\ \A x \in ids : x <= Max(ids)
      BY <2>1, MaxIsGreatest
    <3>2. QED
      BY <3>1 DEF ids
  <2>3. UpTo(last) = in
    BY <2>2
  <2>4. QED
    BY <1>2, <2>2, <2>3
<1>5. \E first \in F : \A e \in F : first.id <= e.id
  <2> DEFINE ids == {e.id : e \in F}
  <2>1. IsFiniteSet(F) /\ \A e \in F : Counted(e)
    BY <1>1, FS_Subset
  <2> HIDE DEF F
  <2>2. IsFiniteSet(ids) /\ ids \in SUBSET Int /\ ids # {}
    BY <1>4, <2>1, IdsAre
  <2> HIDE DEF ids
  <2>3. Min(ids) \in ids /\ \A x \in ids : Min(ids) <= x
    BY <2>2, MinIsLeast
  <2>4. QED
    BY <2>3 DEF ids
<1> DEFINE first == CHOOSE e \in in : Frees(e) /\ \A f \in in : Frees(f) => e.id <= f.id
<1>6. first \in in /\ Frees(first) /\ \A f \in in : Frees(f) => first.id <= f.id
  <2>1. \E e \in in : Frees(e) /\ \A f \in in : Frees(f) => e.id <= f.id
    BY <1>5
  <2> HIDE DEF Frees
  <2>2. QED
    BY <2>1
<1>7. DepartureAt(w, E, cost, t) = first.at + w.span + 1
  BY DEF DepartureAt, in, excess
<1> HIDE DEF first
<1>8. QED
  BY <1>6, <1>7 DEF in, excess, IsFirst

(* When a refused cost fits at some time, that time is a departure, and it *)
(* is in the future.                                                       *)
LEMMA RetryIs ==
  ASSUME NEW E, NEW t \in Nat, WellFormed(E, t),
         NEW windows, \A w \in windows : IsWindow(w), NEW cost, IsCost(cost),
         \A w \in windows : cost[w.field] <= w.limit
  PROVE  /\ RetryAt(windows, E, cost, t) \in Nat /\ RetryAt(windows, E, cost, t) >= t
         /\ \A w \in windows : Excess(w, E, cost, t) > 0 =>
              /\ DepartureAt(w, E, cost, t) \in (t + 2)..RetryAt(windows, E, cost, t)
         /\ \/ RetryAt(windows, E, cost, t) = t
            \/ \E w \in windows : /\ Excess(w, E, cost, t) > 0
                                  /\ RetryAt(windows, E, cost, t) = DepartureAt(w, E, cost, t)
<1> DEFINE over == {w \in windows : Excess(w, E, cost, t) > 0}
           S == {t} \cup {DepartureAt(w, E, cost, t) : w \in over}
<1>1. ASSUME NEW w \in over PROVE DepartureAt(w, E, cost, t) \in (t + 2)..(t + DayMs + 1)
  <2>1. PICK first \in InWindow(w, E, t) : IsFirst(first, w, E, cost, t)
    <3>1. IsWindow(w) /\ cost[w.field] <= w.limit /\ Excess(w, E, cost, t) > 0
      OBVIOUS
    <3> HIDE DEF over, S
    <3>2. QED
      BY <3>1, FirstIs
  <2>2. first.at \in Nat /\ first.at <= t /\ first.at > t - w.span
    BY DEF InWindow, WellFormed
  <2>3. w.span \in Nat /\ w.span <= DayMs /\ DayMs \in Nat
    BY WindowAssumption DEF IsWindow
  <2>4. DepartureAt(w, E, cost, t) = first.at + w.span + 1
    BY <2>1 DEF IsFirst
  <2>5. QED
    BY <2>2, <2>3, <2>4
<1>2. S \in SUBSET Int /\ IsFiniteSet(S) /\ S # {}
  <2>1. S \subseteq t..(t + DayMs + 1) /\ t + DayMs + 1 \in Int
    <3>1. DayMs \in Nat
      BY WindowAssumption
    <3>2. t \in t..(t + DayMs + 1) /\ (t + 2)..(t + DayMs + 1) \subseteq t..(t + DayMs + 1)
      BY <3>1
    <3> HIDE DEF over
    <3>3. QED
      BY <1>1, <3>1, <3>2
  <2> HIDE DEF S
  <2>2. IsFiniteSet(t..(t + DayMs + 1))
    BY <2>1, FS_Interval
  <2>3. IsFiniteSet(S)
    BY <2>1, <2>2, FS_Subset
  <2>4. QED
    BY <2>1, <2>3 DEF S
<1>3. RetryAt(windows, E, cost, t) = Max(S)
  <2>1. ~\E w \in windows : cost[w.field] > w.limit
    BY DEF IsWindow, IsCost
  <2>2. QED
    BY <2>1 DEF RetryAt
<1>4. Max(S) \in S /\ \A x \in S : x <= Max(S)
  <2> HIDE DEF S
  <2>1. QED
    BY <1>2, MaxIsGreatest
<1> DEFINE at == Max(S)
<1>5. at \in Int /\ at >= t
  BY <1>2, <1>4
<1>6. \A w \in over : DepartureAt(w, E, cost, t) <= at
  BY <1>4
<1>7. at = t \/ \E w \in over : at = DepartureAt(w, E, cost, t)
  BY <1>4
<1> HIDE DEF at, over
<1>8. \A w \in over : DepartureAt(w, E, cost, t) \in (t + 2)..at
  BY <1>1, <1>5, <1>6, WindowAssumption
<1>9. RetryAt(windows, E, cost, t) = at
  BY <1>3 DEF at
<1>10. at \in Nat
  BY <1>5
<1>11. QED
  BY <1>5, <1>7, <1>8, <1>9, <1>10 DEF over

(* There is room now just when the cost is within every limit and every    *)
(* window has room.                                                        *)
LEMMA RoomIs ==
  ASSUME NEW E, NEW t \in Nat, WellFormed(E, t),
         NEW windows, \A w \in windows : IsWindow(w), NEW cost, IsCost(cost)
  PROVE  RetryAt(windows, E, cost, t) = t <=>
           \A w \in windows : cost[w.field] <= w.limit /\ Excess(w, E, cost, t) <= 0
<1>1. \A w \in windows : cost[w.field] \in Nat /\ w.limit \in Nat /\ Excess(w, E, cost, t) \in Int
  BY UsedIs
<1>2. CASE \E w \in windows : cost[w.field] > w.limit
  <2>1. RetryAt(windows, E, cost, t) = Never
    BY <1>2 DEF RetryAt
  <2>2. Never # t
    BY WindowAssumption
  <2>3. QED
    BY <1>1, <1>2, <2>1, <2>2
<1>3. CASE ~\E w \in windows : cost[w.field] > w.limit
  <2>1. \A w \in windows : cost[w.field] <= w.limit
    BY <1>1, <1>3
  <2>2. ASSUME RetryAt(windows, E, cost, t) = t, NEW w \in windows, Excess(w, E, cost, t) > 0
        PROVE  FALSE
    <3>1. DepartureAt(w, E, cost, t) \in (t + 2)..t
      BY <2>1, <2>2, RetryIs
    <3>2. QED
      BY <3>1
  <2>3. ASSUME \A w \in windows : Excess(w, E, cost, t) <= 0
        PROVE  RetryAt(windows, E, cost, t) = t
    <3>1. ~\E w \in windows : Excess(w, E, cost, t) > 0
      BY <1>1, <2>3
    <3>2. QED
      BY <2>1, <3>1, RetryIs
  <2>4. QED
    BY <1>1, <2>1, <2>2, <2>3
<1>4. QED
  BY <1>2, <1>3
---------------------------------------------------------------------------------
(* A budget that forgets entries, or is looked at later, is one still.     *)
LEMMA StillWellFormed ==
  ASSUME NEW E, NEW t \in Int, WellFormed(E, t), NEW F \in SUBSET E, NEW u \in Int, u >= t
  PROVE  WellFormed(F, u)
<1>1. IsFiniteSet(F)
  BY FS_Subset DEF WellFormed
<1>2. QED
  BY <1>1 DEF WellFormed

(* No window is longer than a day, so pruning changes no window.           *)
LEMMA PruneIs ==
  ASSUME NEW E, NEW t \in Int, NEW late \in Int, WellFormed(E, late), NEW w, IsWindow(w)
  PROVE  InWindow(w, Prune(E, t), t) = InWindow(w, E, t) /\ Prune(E, t) \in SUBSET E
BY WindowAssumption DEF InWindow, Prune, WellFormed, IsWindow

(* The entries of a window split by id, and so does what they spent.       *)
LEMMA TotalSplits ==
  ASSUME NEW E, IsFiniteSet(E), \A e \in E : Counted(e), NEW field \in Fields,
         NEW A \in SUBSET E, \A e \in A, f \in E \ A : e.id # f.id
  PROVE  /\ Total(field, E) = Total(field, A) + Total(field, E \ A)
         /\ Total(field, A) \in Nat /\ Total(field, E \ A) \in Nat
<1> DEFINE B == E \ A
<1>1. IsFiniteSet(A) /\ IsFiniteSet(B)
  BY FS_Subset
<1>2. A \cup B = E /\ (\A e \in A : Counted(e)) /\ (\A e \in B : Counted(e))
  OBVIOUS
<1>3. Total(field, A) \in Nat /\ Total(field, B) \in Nat
  BY <1>1, <1>2, TotalIs
<1> HIDE DEF B
<1>4. \A e \in A, f \in B : e.id # f.id
  BY DEF B
<1>5. Total(field, A \cup B) = Total(field, A) + Total(field, B)
  BY <1>1, <1>2, <1>4, TotalOfUnion
<1>6. QED
  BY <1>2, <1>3, <1>5 DEF B

(* When the first departure has come, its window has room.                 *)
LEMMA DepartureServes ==
  ASSUME NEW E, NEW t \in Nat, WellFormed(E, t), NEW w, IsWindow(w), NEW cost, IsCost(cost),
         cost[w.field] <= w.limit, NEW at \in Nat, at >= t,
         Excess(w, E, cost, t) > 0 => DepartureAt(w, E, cost, t) <= at
  PROVE  Excess(w, E, cost, at) <= 0
<1> DEFINE in    == InWindow(w, E, t)
           later == InWindow(w, E, at)
<1>1. /\ IsFiniteSet(in) /\ (\A e \in in : Counted(e)) /\ w.field \in Fields
      /\ Used(w, E, t) \in Nat /\ Used(w, E, at) \in Nat
      /\ cost[w.field] \in Nat /\ w.limit \in Nat
      /\ Excess(w, E, cost, t) = Used(w, E, t) + cost[w.field] - w.limit
      /\ Excess(w, E, cost, at) = Used(w, E, at) + cost[w.field] - w.limit
  BY UsedIs
<1>2. Used(w, E, t) = Total(w.field, in) /\ Used(w, E, at) = Total(w.field, later)
  BY DEF Used
<1>3. w.span \in Nat /\ \A e \in E : e.at \in Nat
  BY WindowAssumption DEF IsWindow, WellFormed
<1>4. later \in SUBSET in
  BY <1>3 DEF InWindow
<1>5. CASE Excess(w, E, cost, t) <= 0
  <2>1. Total(w.field, later) <= Total(w.field, in)
    <3> HIDE DEF in, later
    <3>1. QED
      BY <1>1, <1>4, TotalOfSubset
  <2>2. QED
    BY <1>1, <1>2, <1>5, <2>1
<1>6. CASE Excess(w, E, cost, t) > 0
  <2>1. PICK first \in in : IsFirst(first, w, E, cost, t)
    BY <1>6, FirstIs
  <2> DEFINE gone == {f \in in : f.id <= first.id}
             rest == in \ gone
  <2>2. first.at + w.span + 1 <= at /\ Excess(w, E, cost, t) <= Total(w.field, gone)
    BY <1>6, <2>1 DEF IsFirst
  <2>3. Total(w.field, in) = Total(w.field, gone) + Total(w.field, rest)
        /\ Total(w.field, gone) \in Nat /\ Total(w.field, rest) \in Nat
    <3>1. \A e \in gone, f \in rest : e.id # f.id
      OBVIOUS
    <3> HIDE DEF in
    <3>2. gone \in SUBSET in
      OBVIOUS
    <3> HIDE DEF gone
    <3>3. QED
      BY <1>1, <3>1, <3>2, TotalSplits
  <2>4. later \subseteq rest
    <3>1. SUFFICES ASSUME NEW e \in later, e.id <= first.id PROVE FALSE
      BY <1>4
    <3>2. e.at <= first.at /\ e.at > at - w.span /\ first.at \in Nat /\ e.at \in Nat
      BY <3>1 DEF WellFormed, InWindow
    <3>3. QED
      BY <1>3, <2>2, <3>2
  <2>5. Total(w.field, later) <= Total(w.field, rest)
    <3>1. IsFiniteSet(rest) /\ \A e \in rest : Counted(e)
      BY <1>1, FS_Subset
    <3> HIDE DEF rest, later
    <3>2. QED
      BY <1>1, <2>4, <3>1, TotalOfSubset
  <2> HIDE DEF gone, rest, in, later
  <2>6. QED
    BY <1>1, <1>2, <2>2, <2>3, <2>5
<1>7. QED
  BY <1>1, <1>5, <1>6

(* More than a millisecond before it, the window is still too full.        *)
LEMMA NoRoomBefore ==
  ASSUME NEW E, NEW t \in Nat, WellFormed(E, t), NEW w, IsWindow(w), NEW cost, IsCost(cost),
         cost[w.field] <= w.limit, Excess(w, E, cost, t) > 0,
         NEW u \in Nat, u >= t, u <= DepartureAt(w, E, cost, t) - 2
  PROVE  Excess(w, E, cost, u) > 0
<1> DEFINE in    == InWindow(w, E, t)
           later == InWindow(w, E, u)
<1>1. /\ IsFiniteSet(in) /\ (\A e \in in : Counted(e)) /\ w.field \in Fields
      /\ IsFiniteSet(later) /\ (\A e \in later : Counted(e))
      /\ Used(w, E, t) \in Nat /\ Used(w, E, u) \in Nat
      /\ cost[w.field] \in Nat /\ w.limit \in Nat
      /\ Excess(w, E, cost, t) \in Int
      /\ Excess(w, E, cost, t) = Used(w, E, t) + cost[w.field] - w.limit
      /\ Excess(w, E, cost, u) = Used(w, E, u) + cost[w.field] - w.limit
  BY UsedIs
<1>2. Used(w, E, t) = Total(w.field, in) /\ Used(w, E, u) = Total(w.field, later)
  BY DEF Used
<1>3. w.span \in Nat /\ \A e \in E : e.at \in Nat
  BY WindowAssumption DEF IsWindow, WellFormed
<1>4. PICK first \in in : IsFirst(first, w, E, cost, t)
  BY FirstIs
<1> DEFINE before == {f \in in : f.id < first.id}
           rest   == in \ before
<1>5. Total(w.field, in) = Total(w.field, before) + Total(w.field, rest)
      /\ Total(w.field, before) \in Nat /\ Total(w.field, rest) \in Nat
  <2>1. \A e \in before, f \in rest : e.id # f.id
    OBVIOUS
  <2> HIDE DEF in
  <2>2. before \in SUBSET in
    OBVIOUS
  <2> HIDE DEF before
  <2>3. QED
    BY <1>1, <2>1, <2>2, TotalSplits
<1>6. Total(w.field, before) < Excess(w, E, cost, t)
  <2>1. CASE before = {}
    <3>1. Units(w.field, {}) = {}
      BY DEF Units
    <3>2. Total(w.field, {}) = 0
      BY <3>1, FS_EmptySet DEF Total
    <3>3. QED
      BY <2>1, <3>2
  <2>2. CASE before # {}
    <3> DEFINE ids == {e.id : e \in before}
    <3>1. IsFiniteSet(before) /\ \A e \in before : Counted(e)
      BY <1>1, FS_Subset
    <3> HIDE DEF before
    <3>2. IsFiniteSet(ids) /\ ids \in SUBSET Int /\ ids # {}
      BY <2>2, <3>1, IdsAre
    <3> HIDE DEF ids
    <3>3. Max(ids) \in ids /\ \A x \in ids : x <= Max(ids)
      BY <3>2, MaxIsGreatest
    <3>4. PICK last \in before : \A e \in before : e.id <= last.id
      BY <3>3 DEF ids
    <3>5. last \in in /\ last.id < first.id /\ last.id \in Nat /\ first.id \in Nat
      BY <1>1, <3>4 DEF before, Counted
    <3>6. {f \in in : f.id <= last.id} = before
      <4>1. \A f \in in : f.id \in Nat
        BY <1>1 DEF Counted
      <4>2. \A f \in in : f.id <= last.id => f.id < first.id
        BY <3>5, <4>1
      <4>3. QED
        BY <3>4, <4>2 DEF before
    <3>7. ~(Excess(w, E, cost, t) <= Total(w.field, {f \in in : f.id <= last.id}))
      BY <1>4, <3>5 DEF IsFirst
    <3>8. ~(Excess(w, E, cost, t) <= Total(w.field, before))
      BY <3>6, <3>7
    <3>9. QED
      BY <1>1, <1>5, <3>8
  <2>3. QED
    BY <2>1, <2>2
<1>7. rest \subseteq later
  <2>1. SUFFICES ASSUME NEW e \in rest PROVE e \in later
    OBVIOUS
  <2>2. e \in E /\ first \in E /\ e.id \in Nat /\ first.id \in Nat /\ ~(e.id < first.id)
    BY <1>1 DEF InWindow, Counted
  <2>3. first.at <= e.at /\ first.at \in Nat /\ e.at \in Nat
    BY <2>2 DEF WellFormed
  <2>4. u <= first.at + w.span + 1 - 2
    <3>1. DepartureAt(w, E, cost, t) = first.at + w.span + 1
      BY <1>4 DEF IsFirst
    <3> HIDE DEF in
    <3>2. QED
      BY <1>3, <2>3, <3>1
  <2>5. e.at > u - w.span
    BY <1>3, <2>3, <2>4
  <2>6. QED
    BY <2>2, <2>5 DEF InWindow
<1>8. Total(w.field, rest) <= Total(w.field, later)
  <2> HIDE DEF rest, later
  <2>1. QED
    BY <1>1, <1>7, TotalOfSubset
<1> HIDE DEF in, later, before, rest
<1>9. QED
  BY <1>1, <1>2, <1>5, <1>6, <1>8

(* A cost comes back at retryAt to a budget with room, and no sooner.      *)
LEMMA RetryIsExact ==
  ASSUME NEW E, NEW t \in Nat, WellFormed(E, t),
         NEW windows, \A w \in windows : IsWindow(w), NEW cost, IsCost(cost),
         NEW at, at = RetryAt(windows, E, cost, t), at # Never
  PROVE  /\ RetryAt(windows, Prune(E, at), cost, at) = at
         /\ \A u \in t..(at - 2) : RetryAt(windows, E, cost, u) # u
<1>1. \A w \in windows : cost[w.field] <= w.limit
  <2>1. ~\E w \in windows : cost[w.field] > w.limit
    BY DEF RetryAt
  <2>2. QED
    BY <2>1 DEF IsWindow, IsCost
<1>2. at \in Nat /\ at >= t
  BY <1>1, RetryIs
<1>3. \A w \in windows : Excess(w, E, cost, t) > 0 => DepartureAt(w, E, cost, t) <= at
  <2>1. \A w \in windows : Excess(w, E, cost, t) > 0 => DepartureAt(w, E, cost, t) \in (t + 2)..at
    BY <1>1, RetryIs
  <2>2. QED
    BY <2>1, <1>2
<1>4. RetryAt(windows, Prune(E, at), cost, at) = at
  <2>1. Prune(E, at) \in SUBSET E
    BY DEF Prune
  <2>2. WellFormed(Prune(E, at), at)
    BY <1>2, <2>1, StillWellFormed
  <2>3. ASSUME NEW w \in windows
        PROVE  cost[w.field] <= w.limit /\ Excess(w, Prune(E, at), cost, at) <= 0
    <3>1. InWindow(w, Prune(E, at), at) = InWindow(w, E, at)
      BY <1>2, PruneIs
    <3>2. Excess(w, Prune(E, at), cost, at) = Excess(w, E, cost, at)
      BY <3>1 DEF Excess, Used
    <3>3. Excess(w, E, cost, at) <= 0
      BY <1>1, <1>2, <1>3, DepartureServes
    <3>4. QED
      BY <1>1, <3>2, <3>3
  <2>4. QED
    BY <1>2, <2>2, <2>3, RoomIs
<1>5. ASSUME NEW u \in t..(at - 2), RetryAt(windows, E, cost, u) = u PROVE FALSE
  <2>1. u \in Nat /\ u >= t /\ u <= at - 2 /\ at # t
    BY <1>2
  <2>2. PICK w \in windows : /\ Excess(w, E, cost, t) > 0
                             /\ at = DepartureAt(w, E, cost, t)
    BY <1>1, <2>1, RetryIs
  <2>3. Excess(w, E, cost, u) > 0
    BY <1>1, <2>1, <2>2, NoRoomBefore
  <2>4. WellFormed(E, u)
    <3>1. E \in SUBSET E
      OBVIOUS
    <3>2. QED
      BY <2>1, <3>1, StillWellFormed
  <2>5. Excess(w, E, cost, u) <= 0
    BY <1>5, <2>1, <2>4, RoomIs
  <2>6. Excess(w, E, cost, u) \in Int
    <3>1. IsWindow(w) /\ u \in Int
      BY <2>1
    <3>2. QED
      BY <2>4, <3>1, UsedIs
  <2>7. QED
    BY <2>3, <2>5, <2>6
<1>6. QED
  BY <1>4, <1>5
=================================================================================
