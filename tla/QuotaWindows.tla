------------------------------ MODULE QuotaWindows ------------------------------
(***************************************************************************)
(* The arithmetic of QuotaBudget (packages/llm/src/quota-budget.ts): the   *)
(* sliding windows of one provider key, what a cost needs of them, and the *)
(* time at which a refused cost fits.  A budget's `entries` array is in    *)
(* push order, which is id order, so it is a set of records here.          *)
(***************************************************************************)
EXTENDS Integers, FiniteSets, FiniteSetsExt

CONSTANTS
  MinuteMs, DayMs,   \* the spans of the two kinds of window
  HeadroomPct,       \* share of each limit we allow ourselves, in percent
  Never              \* retryAt: null

ASSUME WindowAssumption ==
  /\ MinuteMs \in Nat \ {0} /\ DayMs \in Nat /\ MinuteMs <= DayMs
  /\ HeadroomPct \in 1..100
  /\ Never \notin Int

(* The constructor: limit times headroom, rounded down, but never zero.    *)
Allowed(limit) == Max({1, (limit * HeadroomPct) \div 100})

(* limits is QuotaLimits; a provider without a daily token limit has none. *)
Windows(limits) ==
  {[span |-> MinuteMs, field |-> "requests", limit |-> Allowed(limits.requestsPerMinute)],
   [span |-> MinuteMs, field |-> "tokens", limit |-> Allowed(limits.tokensPerMinute)],
   [span |-> DayMs, field |-> "requests", limit |-> Allowed(limits.requestsPerDay)]}
  \cup {[span |-> DayMs, field |-> "tokens", limit |-> Allowed(n)] : n \in limits.tokensPerDay}

(* What entries with distinct ids spent, unit by unit: the sum of a field  *)
(* is the number of units, a form whose laws are those of finite sets.     *)
Units(field, entries) == UNION {{e.id} \X (1..e[field]) : e \in entries}
Total(field, entries) == Cardinality(Units(field, entries))

InWindow(w, entries, t) == {e \in entries : e.at > t - w.span}

Used(w, entries, t) == Total(w.field, InWindow(w, entries, t))

(* Mutant: one unit too many fits.                                         *)
MExcessLax(w, entries, cost, t) == Used(w, entries, t) + cost[w.field] - w.limit - 1

Excess(w, entries, cost, t) == Used(w, entries, t) + cost[w.field] - w.limit

(* Mutant: prunes by the shorter window.                                   *)
MPruneMinute(entries, t) == {e \in entries : e.at > t - MinuteMs}

Prune(entries, t) == {e \in entries : e.at > t - DayMs}

(* Mutants: the first departure, whether or not it makes enough room; the  *)
(* last one.                                                               *)
MDepartureFirst(w, entries, cost, t) ==
  Min({e.at : e \in InWindow(w, entries, t)}) + w.span + 1

MDepartureLast(w, entries, cost, t) ==
  Max({e.at : e \in InWindow(w, entries, t)}) + w.span + 1

(* Oldest entries leave first: the first id whose departure, with all      *)
(* those before it, makes room for the cost.                               *)
DepartureAt(w, entries, cost, t) ==
  LET in      == InWindow(w, entries, t)
      Frees(e) == Excess(w, entries, cost, t) <= Total(w.field, {f \in in : f.id <= e.id})
      first   == CHOOSE e \in in : Frees(e) /\ \A f \in in : Frees(f) => e.id <= f.id
  IN  first.at + w.span + 1

(* tryReserve's answer at time t: Never, or when to come back, or t itself *)
(* when there is room now.                                                 *)
RetryAt(windows, entries, cost, t) ==
  IF \E w \in windows : cost[w.field] > w.limit THEN Never
  ELSE Max({t} \cup {DepartureAt(w, entries, cost, t) :
                      w \in {v \in windows : Excess(v, entries, cost, t) > 0}})
=================================================================================
