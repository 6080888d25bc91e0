--------------------------------- MODULE Arrays ---------------------------------
(***************************************************************************)
(* JavaScript's Array methods the components share, with a list for an     *)
(* array and an order on positions for a comparison.                       *)
(***************************************************************************)
EXTENDS Integers, Sequences, FiniteSets

(* The elements of S, each after all that are before it: the k-th has k-1  *)
(* elements before it.                                                     *)
Sort(S, IsBefore(_, _)) ==
  [k \in 1..Cardinality(S) |->
     CHOOSE x \in S : Cardinality({y \in S : IsBefore(y, x)}) = k - 1]

Ascending(S) == Sort(S, <)

(* The elements of a list at the places `where`, in the list's order.      *)
ElementsAt(list, where) ==
  LET place == Ascending(where) IN [k \in DOMAIN place |-> list[place[k]]]

Filter(list, Test(_)) == ElementsAt(list, {i \in DOMAIN list : Test(list[i])})
=================================================================================
