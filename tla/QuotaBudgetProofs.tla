---------------------------- MODULE QuotaBudgetProofs ----------------------------
(***************************************************************************)
(* For all limits, spans, token amounts and numbers of entries: what a     *)
(* budget has granted stays within its windows, retryAt is exact, and      *)
(* pruning forgets nothing that counts.                                    *)
(***************************************************************************)
EXTENDS QuotaBudget, QuotaWindowsProofs

Entries == [id : 1..MaxId, at : 0..MaxNow, requests : {1}, tokens : Nat, granted : Nat]

(* Ids are given in order, and a reservation not settled yet still counts  *)
(* the tokens it was granted.                                              *)
IdsInOrder ==
  /\ \A e \in entries : e.id < nextId
  /\ \A id \in open : id < nextId

OpenAsGranted == \A e \in entries : e.id \in open => e.tokens = e.granted

BudgetInv ==
  /\ TypeOK
  /\ WellFormed(entries, now)
  /\ IdsInOrder /\ OpenAsGranted /\ GrantedWithinLimits

(* What GrantedWithinLimits sums up in a window.                           *)
Grants(w, E, t) == {Approved(e) : e \in {f \in InWindow(w, E, t) : f.granted > 0}}
---------------------------------------------------------------------------------
(* The windows of the key, and what a call costs.                          *)
LEMMA KeyedAre == \A w \in Keyed : IsWindow(w)
BY QuotaBudgetAssumption, WindowsAre DEF Keyed, IsLimits

(* A call costs one request and its tokens.                                *)
LEMMA CostIs == ASSUME NEW n \in Nat PROVE IsCost(Cost(n)) /\ Cost(n)["tokens"] = n /\ Cost(n)["requests"] = 1
BY DEF IsCost, Cost, Fields

(* An entry counts one request and its tokens; what was approved of it is  *)
(* no more than it spent and no more than it was granted.                  *)
LEMMA EntryCounts ==
  ASSUME NEW e \in Entries
  PROVE  e["requests"] = 1 /\ e["tokens"] = e.tokens /\ Counted(e)
BY DEF Entries, Counted, Fields

(* What was approved of an entry: the lesser of spent and granted.         *)
LEMMA ApprovedIs ==
  ASSUME NEW e \in Entries
  PROVE  /\ Approved(e) \in Entries /\ Counted(Approved(e))
         /\ Approved(e).id = e.id /\ Approved(e).at = e.at /\ Approved(e).granted = e.granted
         /\ \A field \in Fields : Approved(e)[field] <= e[field]
         /\ Approved(e)["tokens"] <= e.granted /\ Approved(e)["requests"] = 1
         /\ Approved(e)["tokens"] = IF e.tokens <= e.granted THEN e.tokens ELSE e.granted
<1> DEFINE tokens == Min({e.tokens, e.granted})
           a == [e EXCEPT !.tokens = tokens]
<1>1. e.tokens \in Nat /\ e.granted \in Nat
  BY DEF Entries
<1>2. tokens = IF e.tokens <= e.granted THEN e.tokens ELSE e.granted
  BY <1>1, MinOfTwo
<1>3. tokens \in Nat /\ tokens <= e.tokens /\ tokens <= e.granted
  BY <1>1, <1>2
<1>4. Approved(e) = a
  BY DEF Approved
<1> HIDE DEF tokens
<1>5. /\ a \in Entries /\ a.id = e.id /\ a.at = e.at /\ a.granted = e.granted
      /\ a.tokens = tokens /\ a.requests = e.requests
  BY <1>3 DEF Entries
<1> HIDE DEF a
<1>6. a["tokens"] = tokens /\ a["requests"] = 1 /\ Counted(a)
  BY <1>5, EntryCounts
<1>7. \A field \in Fields : a[field] <= e[field]
  BY <1>3, <1>6, EntryCounts DEF Fields
<1>8. QED
  BY <1>2, <1>3, <1>4, <1>5, <1>6, <1>7

(* The grants of a window are finite, and no more than was used there.     *)
LEMMA GrantsAre ==
  ASSUME NEW E \in SUBSET Entries, IsFiniteSet(E), NEW w, IsWindow(w), NEW t \in Int
  PROVE  /\ IsFiniteSet(Grants(w, E, t)) /\ \A a \in Grants(w, E, t) : Counted(a)
         /\ IsFiniteSet(InWindow(w, E, t)) /\ \A e \in InWindow(w, E, t) : Counted(e)
         /\ Total(w.field, Grants(w, E, t)) \in Nat
         /\ Total(w.field, Grants(w, E, t)) <= Used(w, E, t)
<1> DEFINE R == {f \in InWindow(w, E, t) : f.granted > 0}
           G == {Approved(e) : e \in R}
           g == [e \in R |-> Approved(e)]
<1>1. InWindow(w, E, t) \in SUBSET E /\ R \in SUBSET E
  BY DEF InWindow
<1>2. IsFiniteSet(InWindow(w, E, t)) /\ IsFiniteSet(R) /\ \A e \in InWindow(w, E, t) : Counted(e)
  BY <1>1, FS_Subset, EntryCounts
<1>3. g \in Surjection(R, G)
  BY DEF Surjection
<1>4. IsFiniteSet(G)
  <2> HIDE DEF R, G, g
  <2>1. QED
    BY <1>2, <1>3, FS_Surjection
<1>5. \A a \in G : Counted(a)
  BY <1>1, ApprovedIs
<1>6. w.field \in Fields
  BY DEF IsWindow
<1>7. \A a \in G : \E f \in InWindow(w, E, t) :
        a.id = f.id /\ a[w.field] \in Nat /\ a[w.field] <= f[w.field]
  BY <1>1, <1>5, <1>6, ApprovedIs DEF Counted
<1> HIDE DEF R, G, g
<1>8. Total(w.field, G) \in Nat /\ Total(w.field, G) <= Total(w.field, InWindow(w, E, t))
  BY <1>2, <1>6, <1>7, TotalGrows
<1>9. G = Grants(w, E, t)
  BY DEF G, R, Grants
<1>10. QED
  BY <1>2, <1>4, <1>5, <1>8, <1>9 DEF Used

(* Grants that shrink, or are forgotten, stay within the limits.           *)
LEMMA GrantsShrink ==
  ASSUME NEW E \in SUBSET Entries, IsFiniteSet(E), NEW F \in SUBSET Entries,
         NEW t \in Int, NEW u \in Int, NEW w, IsWindow(w),
         \A a \in Grants(w, F, u) : \E b \in Grants(w, E, t) :
            a.id = b.id /\ a[w.field] <= b[w.field],
         Total(w.field, Grants(w, E, t)) <= w.limit
  PROVE  Total(w.field, Grants(w, F, u)) <= w.limit
<1>1. w.field \in Fields /\ w.limit \in Nat
  BY DEF IsWindow
<1>2. \A a \in Grants(w, F, u) : Counted(a)
  BY ApprovedIs DEF Grants, InWindow
<1>3. IsFiniteSet(Grants(w, E, t)) /\ (\A a \in Grants(w, E, t) : Counted(a))
      /\ Total(w.field, Grants(w, E, t)) \in Nat
  BY GrantsAre
<1>4. \A a \in Grants(w, F, u) : \E b \in Grants(w, E, t) :
        a.id = b.id /\ a[w.field] \in Nat /\ a[w.field] <= b[w.field]
  BY <1>1, <1>2 DEF Counted
<1>5. /\ Total(w.field, Grants(w, F, u)) \in Nat
      /\ Total(w.field, Grants(w, F, u)) <= Total(w.field, Grants(w, E, t))
  BY <1>1, <1>3, <1>4, TotalGrows
<1>6. QED
  BY <1>1, <1>3, <1>5

(* GrantedWithinLimits in terms of Grants.                                 *)
LEMMA GrantedIs ==
  GrantedWithinLimits <=> \A w \in Keyed : Total(w.field, Grants(w, entries, now)) <= w.limit
BY DEF GrantedWithinLimits, Grants
---------------------------------------------------------------------------------
(* An empty budget keeps its promises.                                     *)
LEMMA BudgetInit == Init => BudgetInv
<1>1. SUFFICES ASSUME Init PROVE BudgetInv
  OBVIOUS
<1>2. TypeOK
  BY <1>1, QuotaBudgetAssumption DEF Init, TypeOK
<1>3. WellFormed(entries, now)
  BY <1>1, FS_EmptySet DEF Init, WellFormed
<1>4. IdsInOrder /\ OpenAsGranted
  BY <1>1 DEF Init, IdsInOrder, OpenAsGranted
<1>5. ASSUME NEW w \in Keyed PROVE Total(w.field, Grants(w, entries, now)) <= w.limit
  <2>1. entries = {} /\ Grants(w, entries, now) = {}
    BY <1>1 DEF Init, Grants, InWindow
  <2>2. Units(w.field, {}) = {}
    BY DEF Units
  <2>3. Total(w.field, {}) = 0
    BY <2>2, FS_EmptySet DEF Total
  <2>4. w.limit \in Nat
    BY KeyedAre DEF IsWindow
  <2>5. QED
    BY <2>1, <2>3, <2>4
<1>6. QED
  BY <1>2, <1>3, <1>4, <1>5, GrantedIs DEF BudgetInv

(* A new entry has the latest id and the latest time.                      *)
LEMMA EntryIs ==
  ASSUME BudgetInv, nextId <= MaxId, NEW n \in Nat, NEW granted \in Nat,
         NEW kept \in SUBSET entries
  PROVE  /\ Entry(nextId, n, granted) \in Entries
         /\ kept \cup {Entry(nextId, n, granted)} \in SUBSET Entries
         /\ WellFormed(kept \cup {Entry(nextId, n, granted)}, now)
<1> DEFINE new == Entry(nextId, n, granted)
<1>1. /\ entries \in SUBSET Entries /\ nextId \in Nat /\ nextId \in 1..MaxId /\ now \in 0..MaxNow
      /\ now \in Nat
  BY QuotaBudgetAssumption DEF BudgetInv, TypeOK, Entries
<1>2. new \in Entries /\ new.id = nextId /\ new.at = now
  BY <1>1 DEF Entry, Entries
<1> HIDE DEF new
<1>3. Counted(new)
  BY <1>2, EntryCounts
<1>4. WellFormed(kept, now)
  BY <1>1, StillWellFormed DEF BudgetInv
<1>5. IsFiniteSet(kept \cup {new})
  BY <1>4, FS_AddElement DEF WellFormed
<1>6. \A e \in kept : e.id \in Nat /\ e.id < nextId /\ e.at <= now
  BY <1>4 DEF WellFormed, Counted, BudgetInv, IdsInOrder
<1>7. WellFormed(kept \cup {new}, now)
  <2>1. \A e \in kept \cup {new} : Counted(e) /\ e.at \in Nat /\ e.at <= now
    BY <1>1, <1>2, <1>3, <1>4 DEF WellFormed
  <2>2. \A e, f \in kept \cup {new} : e.id = f.id => e = f
    BY <1>1, <1>2, <1>4, <1>6 DEF WellFormed
  <2>3. \A e, f \in kept \cup {new} : e.id <= f.id => e.at <= f.at
    BY <1>1, <1>2, <1>4, <1>6 DEF WellFormed
  <2>4. QED
    BY <1>5, <2>1, <2>2, <2>3 DEF WellFormed
<1>8. QED
  BY <1>1, <1>2, <1>7 DEF new

(* Entries that only leave.                                                *)
LEMMA ForgetKeeps ==
  ASSUME BudgetInv, entries' \in SUBSET entries, open' \in SUBSET open, nextId' = nextId,
         now' \in 0..MaxNow, now' >= now
  PROVE  BudgetInv'
<1>1. /\ entries \in SUBSET Entries /\ now \in Int /\ now' \in Int /\ IsFiniteSet(entries)
      /\ entries' \in SUBSET Entries
  BY QuotaBudgetAssumption DEF BudgetInv, TypeOK, Entries, WellFormed
<1>2. TypeOK'
  BY DEF BudgetInv, TypeOK
<1>3. WellFormed(entries', now')
  BY <1>1, StillWellFormed DEF BudgetInv
<1>4. IdsInOrder' /\ OpenAsGranted'
  BY DEF BudgetInv, IdsInOrder, OpenAsGranted
<1>5. ASSUME NEW w \in Keyed PROVE Total(w.field, Grants(w, entries', now')) <= w.limit
  <2>1. IsWindow(w) /\ Total(w.field, Grants(w, entries, now)) <= w.limit
    BY KeyedAre, GrantedIs DEF BudgetInv
  <2>2. ASSUME NEW a \in Grants(w, entries', now')
        PROVE  \E b \in Grants(w, entries, now) : a.id = b.id /\ a[w.field] <= b[w.field]
    <3>1. PICK e \in entries' : e.at > now' - w.span /\ e.granted > 0 /\ a = Approved(e)
      BY DEF Grants, InWindow
    <3>2. e \in entries /\ e.at \in Int /\ w.span \in Int
      BY <1>1, <2>1, WindowAssumption DEF Entries, IsWindow
    <3>3. e.at > now - w.span
      BY <1>1, <3>1, <3>2
    <3>4. a \in Grants(w, entries, now)
      BY <3>1, <3>2, <3>3 DEF Grants, InWindow
    <3>5. a[w.field] \in Nat
      BY <1>1, <2>1, <3>1, <3>2, ApprovedIs DEF IsWindow, Counted
    <3>6. QED
      BY <3>4, <3>5
  <2>3. QED
    BY <1>1, <2>1, <2>2, GrantsShrink
<1>6. Keyed' = Keyed
  BY DEF Keyed
<1>7. GrantedWithinLimits'
  BY <1>5, <1>6 DEF GrantedWithinLimits, Grants
<1>8. QED
  BY <1>2, <1>3, <1>4, <1>7 DEF BudgetInv

(* A reservation is granted only where every window has room for it.       *)
LEMMA ReserveKeeps ==
  ASSUME BudgetInv, NEW n \in Tokens, TryReserve(n)
  PROVE  BudgetInv'
<1> DEFINE kept == Prune(entries, now)
           new  == Entry(nextId, n, n)
<1>1. /\ entries \in SUBSET Entries /\ now \in Nat /\ n \in Nat /\ IsFiniteSet(entries)
      /\ kept \in SUBSET entries /\ IsFiniteSet(kept)
  <2>1. kept \in SUBSET entries
    BY DEF Prune
  <2>2. QED
    BY <2>1, QuotaBudgetAssumption, FS_Subset DEF BudgetInv, TypeOK, Entries, WellFormed
<1>2. CASE RetryAt(Keyed, kept, Cost(n), now) # now
  <2>1. entries' = kept /\ open' = open /\ nextId' = nextId /\ now' = now
    BY <1>2 DEF TryReserve
  <2>2. now \in 0..MaxNow
    BY DEF BudgetInv, TypeOK
  <2>3. QED
    BY <1>1, <2>1, <2>2, ForgetKeeps
<1>3. CASE RetryAt(Keyed, kept, Cost(n), now) = now
  <2>1. /\ entries' = kept \cup {new} /\ nextId' = nextId + 1
        /\ open' = open \cup {nextId} /\ now' = now /\ nextId <= MaxId
    BY <1>3 DEF TryReserve
  <2>2. new \in Entries /\ entries' \in SUBSET Entries /\ WellFormed(entries', now)
    BY <1>1, <2>1, EntryIs
  <2>3. new.id = nextId /\ new.tokens = n /\ new.granted = n /\ new["requests"] = 1
    BY <2>2, EntryCounts DEF Entry
  <2> HIDE DEF new
  <2>4. nextId \in 1..(MaxId + 1) /\ open \subseteq 1..MaxId /\ MaxId \in Nat
    BY QuotaBudgetAssumption DEF BudgetInv, TypeOK
  <2>5. TypeOK'
    <3>1. nextId' \in 1..(MaxId + 1) /\ open' \subseteq 1..MaxId
      BY <2>1, <2>4
    <3>2. QED
      BY <2>1, <2>2, <3>1 DEF BudgetInv, TypeOK, Entries
  <2>6. IdsInOrder' /\ OpenAsGranted'
    <3>1. \A e \in kept : e.id \in Nat /\ e.id < nextId /\ (e.id \in open => e.tokens = e.granted)
      BY <1>1 DEF BudgetInv, IdsInOrder, OpenAsGranted, Entries
    <3>2. \A id \in open : id \in Nat /\ id < nextId
      BY <2>4 DEF BudgetInv, IdsInOrder
    <3>3. IdsInOrder'
      BY <2>1, <2>3, <2>4, <3>1, <3>2 DEF IdsInOrder
    <3>4. OpenAsGranted'
      BY <2>1, <2>3, <2>4, <3>1 DEF OpenAsGranted
    <3>5. QED
      BY <3>3, <3>4
  <2>7. ASSUME NEW w \in Keyed PROVE Total(w.field, Grants(w, entries', now')) <= w.limit
    <3>1. IsWindow(w) /\ w.field \in Fields /\ w.limit \in Nat
      BY KeyedAre DEF IsWindow
    <3>2. IsCost(Cost(n)) /\ Cost(n)[w.field] = new[w.field] /\ Cost(n)[w.field] \in Nat
      <4>1. new["tokens"] = n
        BY <2>2, <2>3, EntryCounts
      <4>2. IsCost(Cost(n)) /\ Cost(n)["tokens"] = n /\ Cost(n)["requests"] = 1
        BY <1>1, CostIs
      <4>3. QED
        BY <2>3, <3>1, <4>1, <4>2 DEF Fields, IsCost
    <3>3. WellFormed(kept, now)
      BY <1>1, StillWellFormed DEF BudgetInv
    <3>4. Used(w, kept, now) + Cost(n)[w.field] <= w.limit /\ Used(w, kept, now) \in Nat
      <4>1. Excess(w, kept, Cost(n), now) <= 0
        BY <1>1, <1>3, <3>2, <3>3, KeyedAre, RoomIs
      <4>2. /\ Used(w, kept, now) \in Nat
            /\ Excess(w, kept, Cost(n), now) = Used(w, kept, now) + Cost(n)[w.field] - w.limit
        BY <1>1, <3>1, <3>2, <3>3, UsedIs
      <4>3. QED
        BY <3>1, <3>2, <4>1, <4>2
    <3> DEFINE before == Grants(w, kept, now)
    <3>5. /\ IsFiniteSet(before) /\ (\A a \in before : Counted(a))
          /\ Total(w.field, before) \in Nat /\ Total(w.field, before) <= Used(w, kept, now)
      BY <1>1, <3>1, GrantsAre
    <3> DEFINE mine == {Approved(new)}
    <3>6. /\ IsFiniteSet(mine) /\ (\A a \in mine : Counted(a))
          /\ Total(w.field, mine) \in Nat /\ Total(w.field, mine) <= Cost(n)[w.field]
      <4>1. Counted(Approved(new)) /\ Approved(new)[w.field] <= new[w.field]
        BY <2>2, <3>1, ApprovedIs
      <4>2. Total(w.field, mine) = Approved(new)[w.field] /\ Approved(new)[w.field] \in Nat
        BY <3>1, <4>1, TotalOfOne DEF Counted
      <4>3. QED
        BY <3>2, <4>1, <4>2, FS_Singleton
    <3>7. Grants(w, entries', now') \subseteq before \cup mine
      BY <2>1 DEF Grants, InWindow
    <3> HIDE DEF before, mine
    <3>8. /\ Total(w.field, before \cup mine) \in Nat
          /\ Total(w.field, before \cup mine) <= Total(w.field, before) + Total(w.field, mine)
      BY <3>1, <3>5, <3>6, TotalOfUnion
    <3>9. /\ Total(w.field, Grants(w, entries', now')) \in Nat
          /\ Total(w.field, Grants(w, entries', now')) <= Total(w.field, before \cup mine)
      <4>1. IsFiniteSet(before \cup mine) /\ \A a \in before \cup mine : Counted(a)
        BY <3>5, <3>6, FS_Union
      <4>2. QED
        BY <3>1, <3>7, <4>1, TotalOfSubset
    <3>10. QED
      BY <3>1, <3>2, <3>4, <3>5, <3>6, <3>8, <3>9
  <2>8. GrantedWithinLimits'
    BY <2>7 DEF GrantedWithinLimits, Grants, Keyed
  <2>9. QED
    BY <2>1, <2>2, <2>5, <2>6, <2>8 DEF BudgetInv
<1>4. QED
  BY <1>2, <1>3

(* A charge was granted nothing, so it takes from no window's grants.      *)
LEMMA ChargeKeeps ==
  ASSUME BudgetInv, NEW n \in Tokens, Charge(n)
  PROVE  BudgetInv'
<1> DEFINE kept == Prune(entries, now)
           new  == Entry(nextId, n, 0)
<1>1. /\ entries \in SUBSET Entries /\ now \in Nat /\ n \in Nat /\ IsFiniteSet(entries)
      /\ kept \in SUBSET entries /\ nextId <= MaxId
      /\ nextId \in 1..(MaxId + 1) /\ open \subseteq 1..MaxId /\ MaxId \in Nat
  BY QuotaBudgetAssumption DEF BudgetInv, TypeOK, Entries, WellFormed, Prune, Charge
<1>2. entries' = kept \cup {new} /\ nextId' = nextId + 1 /\ open' = open /\ now' = now
  BY DEF Charge
<1>3. new \in Entries /\ entries' \in SUBSET Entries /\ WellFormed(entries', now)
  BY <1>1, <1>2, EntryIs
<1>4. new.id = nextId /\ new.granted = 0
  BY DEF Entry
<1> HIDE DEF new
<1>5. TypeOK'
  <2>1. nextId' \in 1..(MaxId + 1)
    BY <1>1, <1>2
  <2>2. QED
    BY <1>2, <1>3, <2>1 DEF BudgetInv, TypeOK, Entries
<1>6. IdsInOrder' /\ OpenAsGranted'
  <2>1. \A e \in kept : e.id \in Nat /\ e.id < nextId /\ (e.id \in open => e.tokens = e.granted)
    BY <1>1 DEF BudgetInv, IdsInOrder, OpenAsGranted, Entries
  <2>2. \A id \in open : id \in Nat /\ id < nextId
    BY <1>1 DEF BudgetInv, IdsInOrder
  <2>3. IdsInOrder'
    BY <1>1, <1>2, <1>4, <2>1, <2>2 DEF IdsInOrder
  <2>4. OpenAsGranted'
    BY <1>1, <1>2, <1>4, <2>1, <2>2 DEF OpenAsGranted
  <2>5. QED
    BY <2>3, <2>4
<1>7. ASSUME NEW w \in Keyed PROVE Total(w.field, Grants(w, entries', now')) <= w.limit
  <2>1. IsWindow(w) /\ w.field \in Fields /\ Total(w.field, Grants(w, entries, now)) <= w.limit
    BY KeyedAre, GrantedIs DEF BudgetInv, IsWindow
  <2>2. Grants(w, entries', now') \subseteq Grants(w, entries, now)
    BY <1>1, <1>2, <1>4 DEF Grants, InWindow
  <2>3. \A a \in Grants(w, entries', now') : a[w.field] \in Nat
    BY <1>3, <2>1, ApprovedIs DEF Grants, InWindow, Counted
  <2>4. \A a \in Grants(w, entries', now') : \E b \in Grants(w, entries, now) :
          a.id = b.id /\ a[w.field] <= b[w.field]
    BY <2>2, <2>3
  <2>5. now \in Int /\ now' \in Int
    BY <1>1, <1>2
  <2>6. QED
    BY <1>1, <1>3, <2>1, <2>4, <2>5, GrantsShrink
<1>8. GrantedWithinLimits'
  BY <1>7 DEF GrantedWithinLimits, Grants, Keyed
<1>9. QED
  BY <1>2, <1>3, <1>5, <1>6, <1>8 DEF BudgetInv

(* What is settled was granted in full until now, so whatever the provider *)
(* reports, no more of it counts as approved than before.                  *)
LEMMA SettleKeeps ==
  ASSUME BudgetInv, NEW id \in open, NEW n \in Nat, Settle(id, n)
  PROVE  BudgetInv'
<1> DEFINE Settled(e) == IF e.id = id THEN [e EXCEPT !.tokens = n] ELSE e
           f == [e \in entries |-> Settled(e)]
           S == {Settled(e) : e \in entries}
<1>1. /\ entries \in SUBSET Entries /\ now \in Nat /\ now \in Int /\ IsFiniteSet(entries)
  BY QuotaBudgetAssumption DEF BudgetInv, TypeOK, Entries, WellFormed
<1>2. /\ entries' = S /\ open' = open \ {id} /\ nextId' = nextId /\ now' = now
  BY DEF Settle
<1>3. ASSUME NEW e \in entries
      PROVE  /\ Settled(e) \in Entries /\ Settled(e).id = e.id /\ Settled(e).at = e.at
             /\ Settled(e).granted = e.granted
             /\ Settled(e).tokens = IF e.id = id THEN n ELSE e.tokens
  BY <1>1 DEF Entries
<1>4. IsFiniteSet(S)
  <2>1. f \in Surjection(entries, S)
    BY DEF Surjection
  <2> HIDE DEF f, S
  <2>2. QED
    BY <1>1, <2>1, FS_Surjection
<1> HIDE DEF Settled, f
<1>5. S \in SUBSET Entries
  BY <1>3
<1>6. WellFormed(S, now)
  <2>1. \A e \in S : Counted(e) /\ e.at \in Nat /\ e.at <= now
    BY <1>1, <1>3, <1>5, EntryCounts DEF BudgetInv, WellFormed
  <2>2. \A d, e \in S : (d.id = e.id => d = e) /\ (d.id <= e.id => d.at <= e.at)
    BY <1>3 DEF BudgetInv, WellFormed
  <2>3. QED
    BY <1>4, <2>1, <2>2 DEF WellFormed
<1>7. TypeOK'
  BY <1>2, <1>5 DEF BudgetInv, TypeOK, Entries
<1>8. IdsInOrder'
  BY <1>2, <1>3 DEF BudgetInv, IdsInOrder
<1>9. OpenAsGranted'
  BY <1>2, <1>3 DEF BudgetInv, OpenAsGranted
<1>10. ASSUME NEW w \in Keyed PROVE Total(w.field, Grants(w, entries', now')) <= w.limit
  <2>1. IsWindow(w) /\ w.field \in Fields /\ Total(w.field, Grants(w, entries, now)) <= w.limit
    BY KeyedAre, GrantedIs DEF BudgetInv, IsWindow
  <2>2. ASSUME NEW a \in Grants(w, S, now)
        PROVE  \E b \in Grants(w, entries, now) : a.id = b.id /\ a[w.field] <= b[w.field]
    <3>1. PICK e \in entries : /\ Settled(e).at > now - w.span /\ Settled(e).granted > 0
                               /\ a = Approved(Settled(e))
      BY DEF Grants, InWindow
    <3>2. /\ Settled(e) \in Entries /\ Settled(e).id = e.id /\ Settled(e).at = e.at
          /\ Settled(e).granted = e.granted
          /\ Settled(e).tokens = IF e.id = id THEN n ELSE e.tokens
      BY <1>3
    <3>3. Approved(e) \in Grants(w, entries, now)
      BY <3>1, <3>2 DEF Grants, InWindow
    <3>4. e \in Entries /\ e.tokens \in Nat /\ e.granted \in Nat
      BY <1>1 DEF Entries
    <3>5. e.id = id => e.tokens = e.granted
      BY DEF BudgetInv, OpenAsGranted
    <3>6. /\ a.id = Approved(e).id /\ a["requests"] = 1 /\ Approved(e)["requests"] = 1
          /\ a["tokens"] = IF Settled(e).tokens <= e.granted THEN Settled(e).tokens ELSE e.granted
          /\ Approved(e)["tokens"] = IF e.tokens <= e.granted THEN e.tokens ELSE e.granted
      BY <3>1, <3>2, <3>4, ApprovedIs
    <3>7. a["requests"] <= Approved(e)["requests"]
      BY <3>6
    <3>8. a["tokens"] <= Approved(e)["tokens"]
      <4>1. CASE e.id = id
        BY <3>2, <3>4, <3>5, <3>6, <4>1
      <4>2. CASE e.id # id
        BY <3>2, <3>4, <3>6, <4>2
      <4>3. QED
        BY <4>1, <4>2
    <3>9. a[w.field] <= Approved(e)[w.field]
      BY <2>1, <3>7, <3>8 DEF Fields
    <3>10. QED
      BY <3>3, <3>6, <3>9
  <2> HIDE DEF S
  <2>3. Total(w.field, Grants(w, S, now)) <= w.limit
    BY <1>1, <1>5, <2>1, <2>2, GrantsShrink
  <2>4. QED
    BY <1>2, <2>3
<1>11. GrantedWithinLimits'
  BY <1>10 DEF GrantedWithinLimits, Grants, Keyed
<1>12. QED
  BY <1>2, <1>6, <1>7, <1>8, <1>9, <1>11 DEF BudgetInv

(* Every step of the callers and the clock.                                *)
LEMMA BudgetStep == BudgetInv /\ [Next]_vars => BudgetInv'
<1>1. SUFFICES ASSUME BudgetInv, [Next]_vars PROVE BudgetInv'
  OBVIOUS
<1>2. now \in 0..MaxNow /\ MaxNow \in Nat
  BY <1>1, QuotaBudgetAssumption DEF BudgetInv, TypeOK
<1>3. ASSUME NEW n \in Tokens, TryReserve(n) PROVE BudgetInv'
  BY <1>1, <1>3, ReserveKeeps
<1>4. ASSUME NEW n \in Tokens, Charge(n) PROVE BudgetInv'
  BY <1>1, <1>4, ChargeKeeps
<1>5. ASSUME NEW id \in open, Release(id) PROVE BudgetInv'
  <2>1. entries' \in SUBSET entries /\ open' \in SUBSET open /\ nextId' = nextId /\ now' = now
    BY <1>5 DEF Release
  <2>2. QED
    BY <1>1, <1>2, <2>1, ForgetKeeps
<1>6. ASSUME NEW id \in open, NEW n \in Tokens \cup {0}, Settle(id, n) PROVE BudgetInv'
  <2>1. n \in Nat
    BY QuotaBudgetAssumption
  <2>2. QED
    BY <1>1, <1>6, <2>1, SettleKeeps
<1>7. CASE Tick
  <2>1. /\ entries' \in SUBSET entries /\ open' \in SUBSET open /\ nextId' = nextId
        /\ now' \in 0..MaxNow /\ now' >= now
    BY <1>2, <1>7 DEF Tick
  <2>2. QED
    BY <1>1, <2>1, ForgetKeeps
<1>8. CASE UNCHANGED vars
  <2>1. /\ entries' \in SUBSET entries /\ open' \in SUBSET open /\ nextId' = nextId
        /\ now' \in 0..MaxNow /\ now' >= now
    BY <1>2, <1>8 DEF vars
  <2>2. QED
    BY <1>1, <2>1, ForgetKeeps
<1>9. QED
  BY <1>1, <1>3, <1>4, <1>5, <1>6, <1>7, <1>8 DEF Next

(* Every reachable state has it.                                           *)
LEMMA BudgetSafe == Spec => []BudgetInv
BY BudgetInit, BudgetStep, PTL DEF Spec
---------------------------------------------------------------------------------
(* However many calls reserve, settle late, release, keep or charge on a   *)
(* key, and in whatever order: what tryReserve approved and was spent is   *)
(* within the allowed share of every window, at every time                 *)
(* (quota-budget.ts, tryReserve and settle).                               *)
THEOREM WithinLimits == Spec => []GrantedWithinLimits
<1>1. BudgetInv => GrantedWithinLimits
  BY DEF BudgetInv
<1>2. QED
  BY <1>1, BudgetSafe, PTL

(* The time a refused caller is given is right: there is room then, and    *)
(* not more than a millisecond sooner (quota-budget.ts, retryAt).          *)
THEOREM RetryIsRight == Spec => []RetryAtExact
<1>1. BudgetInv => RetryAtExact
  <2>1. SUFFICES ASSUME BudgetInv, NEW n \in Tokens,
                        NEW at, at = RetryAt(Keyed, entries, Cost(n), now), at # Never
                 PROVE  /\ RetryAt(Keyed, Prune(entries, at), Cost(n), at) = at
                        /\ \A t \in now..(at - 2) : RetryAt(Keyed, entries, Cost(n), t) # t
    BY DEF RetryAtExact
  <2>2. now \in Nat /\ WellFormed(entries, now)
    BY <2>1, QuotaBudgetAssumption DEF BudgetInv, TypeOK
  <2>3. IsCost(Cost(n))
    BY QuotaBudgetAssumption, CostIs
  <2>4. QED
    BY <2>1, <2>2, <2>3, KeyedAre, RetryIsExact
<1>2. QED
  BY <1>1, BudgetSafe, PTL

(* An entry that leaves the array without having been released counts in   *)
(* no window any more, and never will (quota-budget.ts, prune).            *)
THEOREM NothingCountedIsForgotten == Spec => PruneForgetsNothing
<1> DEFINE Forgets ==
      \A e \in entries :
        (\A f \in entries' : f.id # e.id) /\ e.id \notin open \ open'
          => \A w \in Keyed : e \notin InWindow(w, entries, now)
<1>1. ASSUME BudgetInv, [Next]_vars PROVE Forgets \/ UNCHANGED vars
  <2>1. SUFFICES ASSUME NEW e \in entries, \A f \in entries' : f.id # e.id,
                        e.id \notin open \ open', NEW w \in Keyed, e.at > now - w.span,
                        ~UNCHANGED vars
                 PROVE  FALSE
    BY DEF InWindow
  <2>2. e.at \in Int /\ now \in Int /\ w.span \in Int /\ w.span <= DayMs /\ DayMs \in Int
    BY <1>1, QuotaBudgetAssumption, WindowAssumption, KeyedAre
       DEF BudgetInv, TypeOK, IsWindow
  <2>3. e.at > now - DayMs
    BY <2>1, <2>2
  <2>4. e \in Prune(entries, now)
    BY <2>3 DEF Prune
  <2>5. CASE \E n \in Tokens : TryReserve(n) \/ Charge(n)
    <3>1. Prune(entries, now) \subseteq entries'
      BY <2>5 DEF TryReserve, Charge
    <3>2. QED
      BY <2>1, <2>4, <3>1
  <2>6. ASSUME NEW id \in open, Release(id) PROVE FALSE
    BY <2>1, <2>6 DEF Release
  <2>7. ASSUME NEW id \in open, NEW n \in Tokens \cup {0}, Settle(id, n) PROVE FALSE
    <3>1. (IF e.id = id THEN [e EXCEPT !.tokens = n] ELSE e) \in entries'
      BY <2>7 DEF Settle
    <3>2. [e EXCEPT !.tokens = n].id = e.id
      BY <1>1 DEF BudgetInv, TypeOK
    <3>3. QED
      BY <2>1, <3>1, <3>2
  <2>8. CASE Tick
    BY <2>1, <2>8 DEF Tick
  <2>9. QED
    BY <1>1, <2>1, <2>5, <2>6, <2>7, <2>8 DEF Next
<1>2. BudgetInv /\ [Next]_vars => [Forgets]_vars
  BY <1>1
<1>3. QED
  BY <1>2, BudgetSafe, PTL DEF Spec, PruneForgetsNothing
==================================================================================
