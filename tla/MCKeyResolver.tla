--------------------------- MODULE MCKeyResolver ---------------------------
(* Two keys, one of them also presented with another embedded origin, and  *)
(* a token that does not decode.                                           *)
EXTENDS KeyResolver

CONSTANTS t1, t1origin, t2, junk, d1, d2, orgA, c1, c2

MCDigestOf == [t \in Tokens |-> IF t \in {t1, t1origin} THEN d1 ELSE IF t = t2 THEN d2 ELSE None]
MCTenantOf == [d \in Digests |-> orgA]
=============================================================================
