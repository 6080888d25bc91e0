------------------------------- MODULE QuotaBudget -------------------------------
(***************************************************************************)
(* One QuotaBudget instance (packages/llm/src/quota-budget.ts) and its     *)
(* callers: any number of calls in flight, each holding a reservation it   *)
(* settles with what the provider reports, releases, or keeps for ever,    *)
(* while usage without a reservation is charged.                           *)
(***************************************************************************)
EXTENDS QuotaWindows

CONSTANTS
  Limits,       \* the key's QuotaLimits
  Tokens,       \* token amounts callers ask for, and providers report
  MaxNow,       \* bound on the clock
  MaxId         \* bound on the number of entries ever pushed

ASSUME QuotaBudgetAssumption ==
  /\ Limits \in [requestsPerMinute : Nat, tokensPerMinute : Nat,
                 requestsPerDay : Nat, tokensPerDay : SUBSET Nat]
  /\ Tokens \subseteq Nat
  /\ {MaxNow, MaxId} \subseteq Nat

VARIABLES
  entries,   \* the private entries, each with the tokens it was granted
  nextId,
  open,      \* ids of reservations whose call has not been settled
  now

vars == <<entries, nextId, open, now>>

Keyed    == Windows(Limits)
Cost(n)  == [requests |-> 1, tokens |-> n]
Fits(n)  == RetryAt(Keyed, entries, Cost(n), now) = now

(* `granted` is what tryReserve approved; a charged entry was granted      *)
(* nothing.  It is not in the code, and no action reads it.                *)
Entry(id, n, granted) ==
  [id |-> id, at |-> now, requests |-> 1, tokens |-> n, granted |-> granted]

TypeOK ==
  /\ entries \subseteq [id : 1..MaxId, at : 0..MaxNow, requests : {1},
                        tokens : Nat, granted : Nat]
  /\ nextId \in 1..(MaxId + 1)
  /\ open \subseteq 1..MaxId
  /\ now \in 0..MaxNow

Init == entries = {} /\ nextId = 1 /\ open = {} /\ now = 0

TryReserve(n) ==
  /\ LET kept == Prune(entries, now)
         fits == RetryAt(Keyed, kept, Cost(n), now) = now
     IN  /\ fits => nextId <= MaxId
         /\ entries' = IF fits THEN kept \cup {Entry(nextId, n, n)} ELSE kept
         /\ nextId' = IF fits THEN nextId + 1 ELSE nextId
         /\ open' = IF fits THEN open \cup {nextId} ELSE open
  /\ UNCHANGED now

(* The actual tokens replace the estimate at the reservation's own time; a *)
(* reservation already pruned is gone.                                     *)
Settle(id, n) ==
  /\ id \in open
  /\ entries' = {IF e.id = id THEN [e EXCEPT !.tokens = n] ELSE e : e \in entries}
  /\ open' = open \ {id}
  /\ UNCHANGED <<nextId, now>>

Release(id) ==
  /\ id \in open
  /\ entries' = {e \in entries : e.id # id}
  /\ open' = open \ {id}
  /\ UNCHANGED <<nextId, now>>

Charge(n) ==
  /\ nextId <= MaxId
  /\ entries' = Prune(entries, now) \cup {Entry(nextId, n, 0)}
  /\ nextId' = nextId + 1
  /\ UNCHANGED <<open, now>>

Tick ==
  /\ now < MaxNow
  /\ now' = now + 1
  /\ UNCHANGED <<entries, nextId, open>>

Next ==
  \/ \E n \in Tokens : TryReserve(n) \/ Charge(n)
  \/ \E id \in open : Release(id) \/ \E n \in Tokens \cup {0} : Settle(id, n)
  \/ Tick

Spec == Init /\ [][Next]_vars
---------------------------------------------------------------------------------
Approved(e) == [e EXCEPT !.tokens = Min({@, e.granted})]

(* What was granted never exceeds a window: however reservations, charges, *)
(* late settlements and releases interleave, the tokens tryReserve itself  *)
(* approved (and that were spent) stay within the allowed share in every   *)
(* window at every time, as do the requests it approved.                   *)
GrantedWithinLimits ==
  \A w \in Keyed :
    LET reserved == {e \in InWindow(w, entries, now) : e.granted > 0}
    IN  Total(w.field, {Approved(e) : e \in reserved}) <= w.limit

(* A refused caller that comes back exactly at retryAt, with nothing else  *)
(* reserved meanwhile, is served (reserveBatch sleeps until then once),    *)
(* and it does not oversleep: more than one millisecond before retryAt the *)
(* cost would still be refused.                                            *)
RetryAtExact ==
  \A n \in Tokens :
    LET at == RetryAt(Keyed, entries, Cost(n), now)
    IN  at # Never =>
          /\ RetryAt(Keyed, Prune(entries, at), Cost(n), at) = at
          /\ \A t \in now..(at - 2) : RetryAt(Keyed, entries, Cost(n), t) # t

(* Pruning forgets nothing that still counts: an entry that leaves without *)
(* being released is outside every window, for ever.                       *)
PruneForgetsNothing ==
  [][\A e \in entries :
       (\A f \in entries' : f.id # e.id) /\ e.id \notin open \ open'
         => \A w \in Keyed : e \notin InWindow(w, entries, now)]_vars

=================================================================================
