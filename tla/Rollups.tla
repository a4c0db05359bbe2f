------------------------------ MODULE Rollups ------------------------------
(* The data plane: the raw summaries table, the rollup tables fed from it by   *)
(* cascading materialized views, their background merges and their TTLs        *)
(* (migrations/clickhouse), the per-instance gauges table, and the tier a      *)
(* query reads (storage/tier.go).                                              *)
(*                                                                             *)
(* Each insert is one request, and a stored row stands for the requests it     *)
(* sums: its ids are positions of `ingested`, the history of what was          *)
(* inserted.  count, the sketch and every other summed column of a row are     *)
(* functions of its ids.  Time is counted in raw windows.                      *)
EXTENDS Integers, Sequences, FiniteSets, FiniteSetsExt

CONSTANTS Traffic,              \* what may be inserted: [tenant, of], of a series
          Width,                \* tier -> width of its time bucket
          TTL,                  \* table -> age at which its rows may be dropped
          MaxSpan,              \* tier -> widest range it serves (the 1d tier: any)
          Skew,                 \* skewTolerance
          MaxTime, MaxRows      \* bounds of the model

Tiers == {"raw", "1m", "1h", "1d"}

Tables == Tiers \union {"windows"}   \* and instance_windows

ASSUME NestedWidths == /\ Width \in [Tiers -> Nat \ {0}] /\ TTL \in [Tables -> Nat]
                       /\ Width["raw"] = 1 /\ Skew \in Nat
                       /\ Width["1m"] % Width["raw"] = 0
                       /\ Width["1h"] % Width["1m"] = 0
                       /\ Width["1d"] % Width["1h"] = 0

VARIABLES now,        \* the clock
          ingested,   \* history: the requests inserted so far
          table       \* table -> its rows

rollupVars == <<now, ingested, table>>

Floor(t, w) == t - (t % w)

Ceil(t, w) == Floor(t + w - 1, w)

-----------------------------------------------------------------------------
(* The views.  Each reads the tier below it.                                  *)

\* Mutant: the minute view buckets a window by its end.
MinuteViewByEnd(r) ==
    [r EXCEPT !.start = Floor(r.end, Width["1m"]), !.end = Floor(r.end, Width["1m"])]

MinuteView(r) ==
    [r EXCEPT !.start = Floor(r.start, Width["1m"]), !.end = Floor(r.end, Width["1m"])]

HourView(r) ==
    [r EXCEPT !.start = Floor(r.start, Width["1h"]), !.end = Floor(r.end, Width["1h"])]

DayView(r) ==
    [r EXCEPT !.start = Floor(r.start, Width["1d"]), !.end = Floor(r.end, Width["1d"])]

\* Mutant: the sort key of the first releases, without the instance.
SortKeyWithoutInstance(r) ==
    <<r.tenant, r.of.service, r.of.ep, r.of.class, r.of.ver, r.start>>

\* AggregatingMergeTree collapses the rows that agree on the sort key.
SortKey(r) ==
    <<r.tenant, r.of.service, r.of.ep, r.of.class, r.of.inst, r.of.ver, r.start>>

-----------------------------------------------------------------------------
RollupsInit == /\ now = 0
               /\ ingested = << >>
               /\ table = [t \in Tables |-> {}]

\* applyTimestampPolicy: a window that ended within skewTolerance of the server's
\* clock, before or after, is stored as the client dated it.
Accepted(end) == now - end <= Skew /\ end - now <= Skew

\* An upload's summary reaches the raw table and, within the same insert, every
\* view; its instance window reaches instance_windows.
InsertSummary(x, start) ==
    LET raw == [tenant |-> x.tenant, of |-> x.of, start |-> start, end |-> start + 1,
                ids |-> {Len(ingested) + 1}]
        minute == MinuteView(raw)
        hour == HourView(minute)
        New(t) == CASE t \in {"raw", "windows"} -> raw
                    [] t = "1m" -> minute
                    [] t = "1h" -> hour
                    [] t = "1d" -> DayView(hour)
    IN  /\ Accepted(start + 1) /\ Len(ingested) < MaxRows
        /\ ingested' = Append(ingested, [tenant |-> x.tenant, of |-> x.of, t |-> start])
        /\ table' = [t \in Tables |-> table[t] \union {New(t)}]
        /\ UNCHANGED now

\* A background merge sums two rows and keeps the other columns of either;
\* instance_windows, a plain MergeTree, never collapses rows.
Merge(tier) ==
    \E a, b \in table[tier] :
        /\ a # b /\ SortKey(a) = SortKey(b)
        /\ table' = [table EXCEPT ![tier] = (@ \ {a, b}) \union
               {[a EXCEPT !.ids = @ \union b.ids,
                          !.end = IF b.end > @ THEN b.end ELSE @]}]
        /\ UNCHANGED <<now, ingested>>

Expired(t, r) == r.start + TTL[t] <= now

\* A TTL merge drops the expired rows, some time after they expire.
DropExpired(t) ==
    /\ \E r \in table[t] : Expired(t, r)
    /\ table' = [table EXCEPT ![t] = {r \in @ : ~Expired(t, r)}]
    /\ UNCHANGED <<now, ingested>>

Elapse == now < MaxTime /\ now' = now + 1 /\ UNCHANGED <<ingested, table>>

RollupsNext == \/ \E x \in Traffic, start \in 0 .. (now + Skew) : InsertSummary(x, start)
               \/ \E tier \in Tiers : Merge(tier)
               \/ \E t \in Tables : DropExpired(t)
               \/ Elapse

RollupsSpec == RollupsInit /\ [][RollupsNext]_rollupVars

-----------------------------------------------------------------------------
SelectTier(from, to) ==
    LET width == to - from
    IN  CASE width <= MaxSpan["raw"] -> "raw"
          [] width > MaxSpan["raw"] /\ width <= MaxSpan["1m"] -> "1m"
          [] width > MaxSpan["1m"] /\ width <= MaxSpan["1h"] -> "1h"
          [] OTHER -> "1d"
=============================================================================
