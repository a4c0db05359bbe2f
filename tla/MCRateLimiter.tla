--------------------------- MODULE MCRateLimiter ---------------------------
(* A free plan and a suspension, three overlapping calls.                  *)
EXTENDS RateLimiter

CONSTANTS c1, c2, c3, free, suspended

MCRps   == [p \in Plans |-> IF p = free THEN 1 ELSE 0]
MCBurst == [p \in Plans |-> IF p = free THEN 2 ELSE 0]
=============================================================================
