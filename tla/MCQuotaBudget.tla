----------------------------- MODULE MCQuotaBudget -----------------------------
(* A key with room for two requests and three tokens a minute, three       *)
(* requests and five tokens a day (after 80 % headroom, rounded down).     *)
EXTENDS QuotaBudget

MCLimits == [requestsPerMinute |-> 3, tokensPerMinute |-> 4,
             requestsPerDay |-> 4, tokensPerDay |-> {7}]
================================================================================
