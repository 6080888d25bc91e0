-------------------------- MODULE MCPullRequestReview ---------------------------
(* Two webhook requests that carry the same delivery.                      *)
EXTENDS PullRequestReview, TLC

CONSTANTS delivery

MCDelivery == [h \in Handlers |-> delivery]

Symmetry == Permutations(JobIds) \cup Permutations(Handlers)
=================================================================================
