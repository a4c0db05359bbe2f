-------------------------- MODULE CardinalityGuard --------------------------
(***************************************************************************)
(* guardrail.Cardinality: the per-node guard on distinct series.  Allow    *)
(* runs under one mutex, so a call is one step; the clock moves between    *)
(* calls.  Stale series leave only when their tenant calls again.          *)
(***************************************************************************)
EXTENDS Integers, FiniteSets

CONSTANTS
    TenantIDs,      \* tenants on this node
    SeriesKeys,     \* SeriesKey(method, route, status class)
    SeriesTTL       \* seriesTTL

ASSUME CardinalityAssumption == SeriesTTL \in Nat \ {0}

VARIABLES
    now,
    tracked,    \* tenant -> series key -> last seen, on the tenants in the map
    frozenAt    \* tenants marked frozen

guardVars == <<tracked, frozenAt>>

GuardInit ==
    /\ tracked = [t \in {} |-> [k \in {} |-> 0]]
    /\ frozenAt = {}

Series(t) == IF t \in DOMAIN tracked THEN DOMAIN tracked[t] ELSE {}

\* evictStale
Survivors(t) == {k \in Series(t) : now - tracked[t][k] < SeriesTTL}

\* Mutant: a new series is let in at the cap.
AllowedAtCap(t, k, capacity) ==
    k \in Survivors(t) \/ capacity <= 0 \/ Cardinality(Survivors(t)) <= capacity

\* Mutant: a full working set freezes the series it holds too.
AllowedNoneWhenFull(t, k, capacity) == capacity <= 0 \/ Cardinality(Survivors(t)) < capacity

\* Allow: tracked already, or room under the cap; a cap <= 0 disables it.
Allowed(t, k, capacity) ==
    k \in Survivors(t) \/ capacity <= 0 \/ Cardinality(Survivors(t)) < capacity

\* Mutant: the map holds when a series expires.
RefreshExpiry(t, k) == [x \in Survivors(t) \cup {k} |-> IF x = k THEN now + SeriesTTL ELSE tracked[t][x]]

\* Allow: set[seriesKey] = now
Refresh(t, k) == [x \in Survivors(t) \cup {k} |-> IF x = k THEN now ELSE tracked[t][x]]

(* Cardinality.Allow: sweep, drop an emptied tenant, then let in or freeze. *)
Allow(t, k, capacity) ==
    /\ tracked' = [u \in DOMAIN tracked \cup {t} |->
          IF u # t THEN tracked[u]
          ELSE IF Allowed(t, k, capacity) THEN Refresh(t, k)
          ELSE [x \in Survivors(t) |-> tracked[t][x]]]
    /\ frozenAt' = (IF Survivors(t) = {} THEN frozenAt \ {t} ELSE frozenAt)
                   \cup (IF Allowed(t, k, capacity) THEN {} ELSE {t})
=============================================================================
