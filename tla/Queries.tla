------------------------------ MODULE Queries ------------------------------
(* The reads of the data plane (storage/query.go, dashboard.go, debug.go,      *)
(* signature.go, instancewindows.go, performance.go, usage.go) as operators    *)
(* over the tables of Rollups.  A range is half open; a percentile is the      *)
(* sketch bucket that holds the rank.  The LIMITs (500 rows, 20 error classes, *)
(* 20 exemplars) are far above what the instances insert and are left out.     *)
EXTENDS Rollups

Failures == {"5XX", "NO_STATUS"}

StatusClasses == {"2XX", "3XX", "4XX", "5XX", "NO_STATUS"}

Ids(rows) == UNION {r.ids : r \in rows}

Count(rows) == Cardinality(Ids(rows))

Lat(i) == ingested[i].of.lat

\* sumMap of the rows' sketches: bucket -> count.
Merged(rows) ==
    [k \in {Lat(i) : i \in Ids(rows)} |->
        Cardinality({i \in Ids(rows) : Lat(i) = k})]

Cumulative(sketch, k) ==
    MapThenSumSet(LAMBDA j : sketch[j], {j \in DOMAIN sketch : j <= k})

\* ks[indexOf(cs >= greatest(1, ceil(q * total_count)))], q in hundredths.  An
\* index past the array yields the key's default, 0.
percentileExpr(rows, q) ==
    LET sketch == Merged(rows)
        ceil == (q * Count(rows) + 99) \div 100
        rank == IF ceil < 1 THEN 1 ELSE ceil
        reached == {k \in DOMAIN sketch : Cumulative(sketch, k) >= rank}
    IN  IF reached = {} THEN 0 ELSE Min(reached)

Stat(rows) ==
    [count |-> Count(rows),
     errors |-> Count({r \in rows : r.of.class \in Failures}),
     clients |-> Count({r \in rows : r.of.class = "4XX"}),
     p50 |-> percentileExpr(rows, 50), p95 |-> percentileExpr(rows, 95)]

\* GROUP BY a column of the series.
GroupBy(rows, column) ==
    [v \in {r.of[column] : r \in rows} |-> Stat({r \in rows : r.of[column] = v})]

Scan(tier, tenant, from, to) ==
    {r \in table[tier] : r.tenant = tenant /\ from <= r.start /\ r.start < to}

tierQuery(tenant, from, to) == Scan(SelectTier(from, to), tenant, from, to)

\* The rows of a service and, unless ep is empty, of one endpoint.
OfEndpoint(rows, service, ep) ==
    {r \in rows : r.of.service = service /\ (ep = "" \/ r.of.ep = ep)}

-----------------------------------------------------------------------------
Services(tenant, from, to) ==
    GroupBy(tierQuery(tenant, from, to), "service")

Endpoints(tenant, service, from, to) ==
    GroupBy(OfEndpoint(tierQuery(tenant, from, to), service, ""), "ep")

InstancesForEndpoint(tenant, service, ep, from, to) ==
    GroupBy(OfEndpoint(tierQuery(tenant, from, to), service, ep), "inst")

VersionsForEndpoint(tenant, service, ep, from, to) ==
    GroupBy(OfEndpoint(tierQuery(tenant, from, to), service, ep), "ver")

\* A class the endpoint never answered with is present with zeros.
LatencyByStatusClass(tenant, service, ep, from, to) ==
    LET rows == OfEndpoint(tierQuery(tenant, from, to), service, ep)
    IN  [c \in StatusClasses |-> Stat({r \in rows : r.of.class = c})]

\* The maps and sums of the rows, over the requests they stand for; "" is no
\* label.  Any request may carry a label, and calls that overlap may have taken
\* longer together than the request.
CountBy(rows, column) ==
    LET Label(i) == ingested[i].of[column]
    IN  [e \in {Label(i) : i \in Ids(rows)} \ {""} |-> Cardinality({i \in Ids(rows) : Label(i) = e})]

Split(rows) ==
    [count |-> Count(rows),
     duration |-> MapThenSumSet(Lat, Ids(rows)),
     downstream |-> MapThenSumSet(LAMBDA i : ingested[i].of.ds, Ids(rows))]

ErrorClassesForEndpoint(tenant, service, ep, from, to) ==
    CountBy(OfEndpoint(tierQuery(tenant, from, to), service, ep), "err")

NoStatusReasonsForEndpoint(tenant, service, ep, from, to) ==
    CountBy(OfEndpoint(tierQuery(tenant, from, to), service, ep), "reason")

DownstreamForEndpoint(tenant, service, ep, from, to) ==
    Split(OfEndpoint(tierQuery(tenant, from, to), service, ep))

\* Breadcrumbs are kept by the raw tier alone, whatever the range.
ExemplarsForEndpoint(tenant, service, ep, from, to) ==
    Ids(OfEndpoint(Scan("raw", tenant, from, to), service, ep))

\* The step is floored to the tier's own granularity.
buildSeriesQuery(from, to, step) ==
    IF step < Width[SelectTier(from, to)] THEN Width[SelectTier(from, to)] ELSE step

SeriesOverTime(tenant, service, ep, from, to, step) ==
    LET rows == OfEndpoint(tierQuery(tenant, from, to), service, ep)
        At(r) == Floor(r.start, buildSeriesQuery(from, to, step))
    IN  [b \in {At(r) : r \in rows} |-> Stat({r \in rows : At(r) = b})]

\* The percentiles of the detail page, computed in Go from the merged sketch.
QuantileFromBuckets(buckets, q) ==
    LET total == Cumulative(buckets, Max(DOMAIN buckets \union {0}))
        ceil == (q * total + 99) \div 100
        rank == IF ceil < 1 THEN 1 ELSE IF ceil > total THEN total ELSE ceil
    IN  IF total = 0 THEN 0
        ELSE Min({k \in DOMAIN buckets : Cumulative(buckets, k) >= rank})

\* Mutant: the failure rate of the detail page counts the client errors too.
buildEndpointDetailAllErrors(rows) ==
    LET Of(c) == Count({r \in rows : r.of.class = c})
    IN  [count |-> Count(rows), classes |-> [c \in StatusClasses |-> Of(c)],
         errors |-> Of("4XX") + Of("5XX") + Of("NO_STATUS"),
         p50 |-> QuantileFromBuckets(Merged(rows), 50),
         p95 |-> QuantileFromBuckets(Merged(rows), 95)]

buildEndpointDetail(rows) ==
    LET Of(c) == Count({r \in rows : r.of.class = c})
    IN  [count |-> Count(rows), classes |-> [c \in StatusClasses |-> Of(c)],
         errors |-> Of("5XX") + Of("NO_STATUS"),
         p50 |-> QuantileFromBuckets(Merged(rows), 50),
         p95 |-> QuantileFromBuckets(Merged(rows), 95)]

QueryEndpointDetail(tenant, service, ep, from, to) ==
    buildEndpointDetail(OfEndpoint(tierQuery(tenant, from, to), service, ep))

-----------------------------------------------------------------------------
ScanGauges(tenant, service, from, to) ==
    {g \in table["windows"] : /\ g.tenant = tenant /\ g.of.service = service
                              /\ from <= g.start /\ g.start < to}

\* max() of a gauge per instance; the heap of a gauge row is its lat field.
InstanceResourcesForService(tenant, service, from, to) ==
    LET rows == ScanGauges(tenant, service, from, to)
    IN  [i \in {g.of.inst : g \in rows} |->
            Max({g.of.lat : g \in {h \in rows : h.of.inst = i}})]

\* max() over the instances per step; a step under one second becomes one.
MemoryTrendForService(tenant, service, from, to, step) ==
    LET rows == ScanGauges(tenant, service, from, to)
        At(g) == Floor(g.start, IF step <= 0 THEN 1 ELSE step)
    IN  [b \in {At(g) : g \in rows} |->
            Max({g.of.lat : g \in {h \in rows : At(h) = b}})]

HasAnySummary(tenant) == \E r \in table["raw"] : r.tenant = tenant

PerformanceStats(tenant, from, to) ==
    LET rows == Scan("raw", tenant, from, to)
    IN  [requests |-> Count(rows), summaries |-> Cardinality(rows)]

\* The first and the last day a tenant ingested: {} when it never did.
Liveness(tier, tenant) ==
    LET rows == {r \in table[tier] : r.tenant = tenant}
    IN  IF rows = {} THEN {}
        ELSE {[first |-> Min({r.start : r \in rows}), last |-> Max({r.end : r \in rows})]}

\* Mutant: liveness read from the tier that serves the cardinality.
UsageFromMinutes(tenant) ==
    LET rows == {r \in table["1m"] : r.tenant = tenant /\ r.start >= now - TTL["1m"]}
    IN  [liveness |-> Liveness("1m", tenant), requests |-> Count(rows),
         endpoints |-> Cardinality({r.of.ep : r \in rows}),
         series |-> Cardinality({<<r.of.ep, r.of.class>> : r \in rows}),
         services |-> Cardinality({r.of.service : r \in rows}),
         instances |-> Cardinality({r.of.inst : r \in rows}),
         disk |-> PerformanceStats(tenant, now - TTL["raw"], now).summaries]

Usage(tenant) ==
    LET rows == {r \in table["1m"] : r.tenant = tenant /\ r.start >= now - TTL["1m"]}
    IN  [liveness |-> Liveness("1d", tenant), requests |-> Count(rows),
         endpoints |-> Cardinality({r.of.ep : r \in rows}),
         series |-> Cardinality({<<r.of.ep, r.of.class>> : r \in rows}),
         services |-> Cardinality({r.of.service : r \in rows}),
         instances |-> Cardinality({r.of.inst : r \in rows}),
         disk |-> PerformanceStats(tenant, now - TTL["raw"], now).summaries]

LastIngestByTenant ==
    [tenant \in {r.tenant : r \in table["1d"]} |->
        Max({r.end : r \in {x \in table["1d"] : x.tenant = tenant}})]

-----------------------------------------------------------------------------
(* Reference definitions, over the history of what was inserted.              *)

Tenants == {x.tenant : x \in Traffic}

Pages == {<<x.of.service, x.of.ep>> : x \in Traffic}

\* The requests of a tenant inserted for [from, to), as unmerged rows.
Truth(tenant, from, to) ==
    {[of |-> ingested[i].of, ids |-> {i}] :
        i \in {j \in DOMAIN ingested : /\ ingested[j].tenant = tenant
                                       /\ from <= ingested[j].t /\ ingested[j].t < to}}

\* What a range can show: the buckets that start inside it.
Shown(tenant, from, to) ==
    LET w == Width[SelectTier(from, to)]
    IN  Truth(tenant, Ceil(from, w), Ceil(to, w))

Ranges == {r \in (0 .. now) \X (1 .. now + Skew + 1) : r[1] < r[2]}

\* The ranges none of whose buckets has reached the TTL of the tier serving it.
Retained == {r \in Ranges : r[1] + TTL[SelectTier(r[1], r[2])] > now}

\* A query sums the tenant's requests of the buckets that start inside its
\* range, rounded up to the tier's granularity at both ends: all of those whose
\* bucket has not reached the TTL of the tier that serves the range, however
\* late or early they were ingested, merged or rolled up, some of the others,
\* and nothing else.
QueryExact ==
    \A tenant \in Tenants, r \in Ranges :
        LET tier == SelectTier(r[1], r[2])
            shown == Ids(Shown(tenant, r[1], r[2]))
            got == Ids(tierQuery(tenant, r[1], r[2]))
        IN  /\ got \subseteq shown
            /\ \A i \in shown : Floor(ingested[i].t, Width[tier]) + TTL[tier] > now => i \in got

\* No two rows of a table stand for the same request, so that adding up the
\* columns of the rows a query selects counts each of its requests once.
CountedOnce ==
    \A tier \in Tiers : \A a, b \in table[tier] : a.ids \intersect b.ids # {} => a = b

GroupsKept(tenant, service, from, to) ==
    LET all == Shown(tenant, from, to)
        mine == OfEndpoint(all, service, "")
    IN  /\ Services(tenant, from, to) = GroupBy(all, "service")
        /\ Endpoints(tenant, service, from, to) = GroupBy(mine, "ep")
        /\ InstancesForEndpoint(tenant, service, "", from, to) = GroupBy(mine, "inst")
        /\ VersionsForEndpoint(tenant, service, "", from, to) = GroupBy(mine, "ver")

LabelsKept(tenant, service, from, to) ==
    LET mine == OfEndpoint(Shown(tenant, from, to), service, "")
    IN  /\ ErrorClassesForEndpoint(tenant, service, "", from, to) = CountBy(mine, "err")
        /\ NoStatusReasonsForEndpoint(tenant, service, "", from, to) = CountBy(mine, "reason")
        /\ DownstreamForEndpoint(tenant, service, "", from, to) = Split(mine)

\* Merges never move a request between the groups a page breaks traffic down
\* by: over a retained range every per-service, per-endpoint, per-instance and
\* per-version row, every label and the downstream split are those computed from
\* the unmerged requests.
BreakdownsExact ==
    \A tenant \in Tenants, r \in Retained, service \in {p[1] : p \in Pages} :
        Shown(tenant, r[1], r[2]) # {} =>
            GroupsKept(tenant, service, r[1], r[2]) /\ LabelsKept(tenant, service, r[1], r[2])

\* The panels of one endpoint's page agree with each other and with the row of
\* the list it was opened from: totals, failures and percentiles of the detail,
\* of the class breakdown, of the series and of the downstream split; there are
\* no more labels than requests and no more reasons than requests without a
\* status, on the raw tier the exemplars come from exactly the requests shown,
\* and the memory trend peaks where the instances do.
PanelsAgree ==
    \A tenant \in Tenants, r \in Ranges, p \in Pages :
        tierQuery(tenant, r[1], r[2]) # {} =>
        LET from == r[1]
            to == r[2]
            rows == Endpoints(tenant, p[1], from, to)
            d == QueryEndpointDetail(tenant, p[1], p[2], from, to)
            classes == LatencyByStatusClass(tenant, p[1], p[2], from, to)
            series == SeriesOverTime(tenant, p[1], p[2], from, to, 2)
            errs == ErrorClassesForEndpoint(tenant, p[1], p[2], from, to)
            why == NoStatusReasonsForEndpoint(tenant, p[1], p[2], from, to)
            split == DownstreamForEndpoint(tenant, p[1], p[2], from, to)
            heap == InstanceResourcesForService(tenant, p[1], from, to)
            trend == MemoryTrendForService(tenant, p[1], from, to, 2)
            Total(f) == MapThenSumSet(LAMBDA x : f[x].count, DOMAIN f)
        IN  /\ d.count = IF p[2] \in DOMAIN rows THEN rows[p[2]].count ELSE 0
            /\ p[2] \in DOMAIN rows => /\ d.errors = rows[p[2]].errors
                                       /\ d.p50 = rows[p[2]].p50
                                       /\ d.p95 = rows[p[2]].p95
            /\ Total(classes) = d.count /\ Total(series) = d.count
            /\ split.count = d.count
            /\ MapThenSumSet(LAMBDA e : errs[e], DOMAIN errs) <= d.count
            /\ MapThenSumSet(LAMBDA e : why[e], DOMAIN why) <= d.classes["NO_STATUS"]
            /\ SelectTier(from, to) = "raw" =>
                   Cardinality(ExemplarsForEndpoint(tenant, p[1], p[2], from, to)) = d.count
            /\ Max({0} \union Range(heap)) = Max({0} \union Range(trend))

\* The operator's view dates a tenant by its own days long after its raw rows
\* are gone, and its cardinality never exceeds what the tenant sent: while the
\* 1d tier retains the tenant's newest request, the last ingest is that day's
\* boundary and agrees with the account list.
UsageDated ==
    \A tenant \in Tenants :
        LET mine == {j \in DOMAIN ingested : ingested[j].tenant = tenant}
            last == Max({ingested[j].t : j \in mine})
            u == Usage(tenant)
        IN  /\ (mine # {} /\ Floor(last, Width["1d"]) + TTL["1d"] > now) =>
                   \E l \in u.liveness :
                       /\ l.last = Floor(last + 1, Width["1d"])
                       /\ l.last = LastIngestByTenant[tenant]
                       /\ l.first <= l.last /\ l.first <= last
            /\ u.requests <= Cardinality(mine) /\ u.series >= u.endpoints

\* Whatever is late, merged, rolled up or expired, the totals, the breakdowns
\* and the operator's view are those of the requests that were ingested.
AnswersExact == QueryExact /\ CountedOnce /\ BreakdownsExact /\ UsageDated

-----------------------------------------------------------------------------
(* Statements of the repository that the data plane does not satisfy.         *)

\* "onboarding cares about any data ever ingested" (dashboard.go:190).
OnboardingSticks ==
    [][\A tenant \in Tenants : HasAnySummary(tenant) => HasAnySummary(tenant)']_rollupVars

\* "the query layer picks the appropriate tier automatically" (server/README.md):
\* a range shows something whenever some tier still holds its requests.
RetainedIsVisible ==
    \A tenant \in Tenants, r \in Ranges :
        (\E tier \in Tiers : Scan(tier, tenant, r[1], r[2]) # {})
            => tierQuery(tenant, r[1], r[2]) # {}

\* "the number of shipped summary rows" (performance.go:31).
SummariesShipped ==
    \A tenant \in Tenants, r \in Retained :
        SelectTier(r[1], r[2]) = "raw" =>
            LET p == PerformanceStats(tenant, r[1], r[2]) IN p.summaries = p.requests

\* "the most recent ingest time for every tenant" (usage.go:107).
LastIngestExact ==
    \A tenant \in DOMAIN LastIngestByTenant :
        \E j \in DOMAIN ingested : /\ ingested[j].tenant = tenant
                                   /\ ingested[j].t <= LastIngestByTenant[tenant]
=============================================================================
