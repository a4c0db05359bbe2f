------------------------------ MODULE MCIngest ------------------------------
(* Two recorders of one tenant: the first sends two summaries over an      *)
(* unreliable link, the second a large upload from a clock that runs       *)
(* ahead, which only one of the plans has room for.                        *)
EXTENDS Ingest

CONSTANTS t1, c1, c2, a, b, x

MCUploads ==
    [c \in Clients |->
        IF c = c1 THEN <<[summaries |-> <<a, b>>, size |-> 1, skew |-> 0]>>
        ELSE <<[summaries |-> <<x>>, size |-> 2, skew |-> 1]>>]
MCSlots == [c \in Clients |-> IF c = c1 THEN {1, 2} ELSE {1}]
MCTenantOf == [c \in Clients |-> t1]
MCLimits == {[cap |-> 1, payload |-> 2], [cap |-> 2, payload |-> 1]}
MCSubscribed == [cap |-> 2, payload |-> 1]
=============================================================================
