-------------------------------- MODULE MCFanOut --------------------------------
(* Two keys that hold one call a minute each, after 80 % headroom: Groq of *)
(* at most 3 tokens, Gemini of at most 5.                                  *)
EXTENDS FanOut

Key(rpm, tpm, rpd) ==
  [requestsPerMinute |-> rpm, tokensPerMinute |-> tpm, requestsPerDay |-> rpd, tokensPerDay |-> {}]

MCLimits == "groq" :> Key(2, 4, 5) @@ "gemini" :> Key(2, 7, 5)

File(n) == [tokens |-> n, source |-> TRUE]

(* A batch Groq can carry and one it cannot.                               *)
TwoBatches == {<<File(1), File(3)>>}

(* Nothing to review, or two batches.                                      *)
NoneOrTwo == {<<>>} \cup TwoBatches

Symmetry == Permutations(Reviews)
=================================================================================
