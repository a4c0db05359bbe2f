--------------------------- MODULE CardinalityNode ---------------------------
(***************************************************************************)
(* The guard under arbitrary callers: every tenant may send any series at  *)
(* any time, under caps that change between calls.  The history records    *)
(* when each series was last let through, independently of the guard.      *)
(***************************************************************************)
EXTENDS CardinalityGuard

CONSTANTS
    Caps,       \* caps the limit provider may answer
    MaxTime     \* bound on the clock

ASSUME NodeAssumption == Caps \subseteq Nat /\ MaxTime \in Nat

VARIABLES
    allowedAt   \* per tenant, series let through and when last

vars == <<now, tracked, frozenAt, allowedAt>>

Never == MaxTime + SeriesTTL

IdleFor(t, k) == IF k \in DOMAIN allowedAt[t] THEN now - allowedAt[t][k] ELSE Never

Init ==
    /\ now = 0 /\ GuardInit
    /\ allowedAt = [t \in TenantIDs |-> [k \in {} |-> 0]]

Call(t, k, capacity) ==
    /\ Allow(t, k, capacity)
    /\ allowedAt' = IF Allowed(t, k, capacity)
                    THEN [allowedAt EXCEPT ![t] =
                            [x \in DOMAIN allowedAt[t] \cup {k} |-> IF x = k THEN now ELSE allowedAt[t][x]]]
                    ELSE allowedAt
    /\ UNCHANGED now

Tick ==
    /\ now < MaxTime
    /\ now' = now + 1
    /\ UNCHANGED <<tracked, frozenAt, allowedAt>>

Next == Tick \/ \E t \in TenantIDs, k \in SeriesKeys, n \in Caps : Call(t, k, n)

Spec == Init /\ [][Next]_vars
-----------------------------------------------------------------------------
TypeOK ==
    /\ now \in 0..MaxTime
    /\ DOMAIN tracked \subseteq TenantIDs
    /\ \A t \in DOMAIN tracked : tracked[t] \in [Series(t) -> 0..now] /\ Series(t) \subseteq SeriesKeys
    /\ frozenAt \subseteq TenantIDs

(* "freeze new series, keep existing": whatever other series did and however *)
(* the cap moved, a series let through during the last TTL would be let    *)
(* through now.                                                            *)
ExistingKeepFlowing ==
    \A t \in TenantIDs, k \in SeriesKeys, n \in Caps : IdleFor(t, k) < SeriesTTL => Allowed(t, k, n)

\* The series let through within the TTL.
WorkingSet(t) == {k \in DOMAIN allowedAt[t] : now - allowedAt[t][k] < SeriesTTL}

(* "whether the tenant is currently in a frozen state": Allow reports     *)
(* frozen only when the next new series would be refused.                  *)
FrozenMeansFull ==
    [][\A t \in TenantIDs, k \in SeriesKeys, n \in Caps :
          Call(t, k, n) /\ t \in frozenAt' => Cardinality(DOMAIN tracked'[t]) >= n]_vars

(* "an idle/churning tenant leaves no residue in either map" *)
NoIdleResidue == \A t \in DOMAIN tracked : Survivors(t) # {}
=============================================================================
