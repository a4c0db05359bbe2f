--------------------------- MODULE MCCalculations ---------------------------
(* The pure algorithms of the client and the dashboard, the ring buffer and   *)
(* the range controls, over bounded inputs.  A behaviour picks a unit and     *)
(* then builds the inputs of that unit one item at a time.                    *)
EXTENDS Ring, StoredRows, ClientConfig, Insight, Assembly, Views, Login

CONSTANTS MaxRecords, MaxSamples, MaxLabel, MaxReadings, MaxPoints

VARIABLES unit, x

calcVars == <<buf, head, count, out, clock, url, stage, page, unit, x>>

MCWindows == [w \in {"5m", "1h"} |-> IF w = "5m" THEN 24 ELSE 41]

MCTyped == {<<35, 60>>, <<45, 51>>, <<60, 40>>}
-----------------------------------------------------------------------------
\* Two routes, the class boundary, two codes of one class past the cap, aborted
\* requests, a negative duration, and labels that normalise alike.
Rec(route, status, dur, label, reason) ==
    [route |-> route, status |-> status, dur |-> dur, label |-> label, reason |-> reason]

MCRecords ==
    {Rec("r", 200, 2, << >>, 0), Rec("r", 500, 1, <<"a", "-">>, 0), Rec("r", 503, 3, <<"A">>, 0),
     Rec("r", 500, 3, <<"b">>, 0), Rec("q", 0, -1, << >>, 1), Rec("q", 0, 2, <<"a">>, 9)}

Trusted == [scheme |-> "https", host |-> <<"eu", "mapi-ng", "com">>]
Foreign == [scheme |-> "https", host |-> <<"ingest", "example", "org">>]
Broken == [scheme |-> "ftp", host |-> <<"mapi-ng", "com">>]

MCTokens ==
    {EmptyToken, Encode(Trusted, "s"), Encode(Foreign, "t"), Encode(Broken, "u"), Encode(NoOrigin, "v"),
     [prefixed |-> FALSE, segments |-> <<Text("old"), Text("key")>>],
     [prefixed |-> FALSE, segments |-> <<Base64(Trusted), Text("key")>>],
     [prefixed |-> TRUE, segments |-> <<Text("torn"), Text("key")>>]}

MCConfigs ==
    {[opt |-> [key |-> k, service |-> s, instance |-> s, deployID |-> s, deployVersion |-> s,
               flush |-> f, endpoint |-> e],
      env |-> [key |-> l, service |-> t, otel |-> t, instance |-> "", hostname |-> t, osHostname |-> h,
               deployID |-> "", vcs |-> "", deployVersion |-> "", flush |-> f - 1, endpoint |-> d,
               trust |-> y]] :
        k, l \in MCTokens, s, t \in {"", "n"}, h \in {<< >>, <<"">>, <<"h">>}, f \in {0, 5},
        e \in {NoOrigin, Foreign, Broken}, d \in {NoOrigin, Foreign}, y \in BOOLEAN}

MCDetails ==
    {[d |-> [count |-> n, errors |-> IF e > n THEN n ELSE e, p50 |-> p, p95 |-> q], base |-> b, win |-> w] :
        n \in {0, 5, 10, 19, 20, 50, 500, 1000}, e \in {0, 4, 5, 9, 10, 49, 1000}, p \in {0, 33, 100},
        q \in {100, 200, 800}, b \in {<< >>, <<90, 0, 110>>, <<400, 500>>}, w \in {300, 86400}}

MCPoints ==
    {[post |-> p[1], inuse |-> p[2]] : p \in {<<0, 0>>, <<4, 4>>, <<6, 6>>, <<8, 8>>, <<12, 12>>, <<4, 12>>}}

Stats(cpu, gc, alloc, inFlight, goroutines, fds) ==
    <<[cpu |-> cpu, gomaxprocs |-> 1, gcCPU |-> gc, alloc |-> alloc, numGC |-> alloc,
       goroutines |-> goroutines, inFlight |-> inFlight, openFDs |-> fds, fdLimit |-> 100]>>

MCDiagnoses ==
    {[verdict |-> v, memory |-> m, count |-> 100, noStatus |-> n, winSeconds |-> 10, baselineSeconds |-> 10,
      resources |-> Stats(c, g, g, f, r, o), resourceBaseline |-> Stats(5, 8, 8, 4, 300, 10),
      downstream |-> [count |-> 10, down |-> d, total |-> 100], instances |-> i, versions |-> w] :
        v \in {"Healthy", "Critical"}, m \in {"Leak", "Burst", "Stable"}, n \in {<<0, 0>>, <<4, 6>>},
        c \in {5, 10}, g \in {8, 20}, f \in {4, 50}, r \in {300, 600}, o \in {10, 80},
        d \in {0, 40, 45, 120},
        i \in {<< >>, <<[count |-> 50, p95 |-> 50], [count |-> 50, p95 |-> 40], [count |-> 50, p95 |-> 900]>>},
        w \in {<< >>, <<[version |-> "a", count |-> 50, p95 |-> 100, errors |-> 0],
                        [version |-> "b", count |-> 50, p95 |-> 160, errors |-> 2],
                        [version |-> "", count |-> 50, p95 |-> 900, errors |-> 9]>>}}

MCInstances ==
    {[count |-> p[1], p95 |-> p[2]] : p \in {<<0, 0>>, <<50, 60>>, <<50, 100>>, <<50, 200>>, <<50, 400>>}}

MCDeployments ==
    {[cfg |-> [control |-> c, https |-> h, sessKey |-> k, creds |-> [github |-> g, google |-> i],
               home |-> o, team |-> t, const |-> "dev"], session |-> s] :
        c, h, o, t \in BOOLEAN, k \in {"", "short", "long"},
        g \in {{}, {"id"}, {"id", "secret"}}, i \in {{}, {"id", "secret"}},
        s \in {<< >>, <<[org |-> "o1", role |-> "admin"]>>, <<[org |-> "o1", role |-> "member"]>>,
               <<[org |-> "", role |-> "admin"]>>}}

MCRequests ==
    {[method |-> m, path |-> p, csrf |-> c] :
        m \in Methods, c \in BOOLEAN,
        p \in {<< >>, <<"login">>, <<"logout">>, <<"dashboard">>, <<"setup">>, <<"nowhere">>, <<"doc", "keys">>,
               <<"setup", "keys">>, <<"setup", "invites">>, <<"setup", "members", "m", "remove">>,
               <<"services", "s">>, <<"api", "series">>, <<"assets", "copy.js">>,
               <<"auth", "github", "start">>, <<"auth", "dev", "login">>,
               <<"maping.v1.IngestService", "Upload">>}}

\* Endpoints of two services around the thresholds, some without recent traffic.
MCEndpoints ==
    {[service |-> s, route |-> e[1], count |-> e[2], errors |-> e[3], p99 |-> e[4], recent |-> e[5]] :
        s \in {"a", "b"},
        e \in {<<1, 100, 0, 9, TRUE>>, <<2, 100, 5, 3, TRUE>>, <<3, 10, 1, 3, FALSE>>,
               <<4, 50, 1, 9, TRUE>>, <<5, 400, 0, 1, FALSE>>}}

\* What the two queries return, by window: the five-minute one is the recent traffic.
EndpointsOf(eps) ==
    [w \in DOMAIN MCWindows |-> [s \in {"a", "b"} |->
        SelectSeq(eps, LAMBDA e : e.service = s /\ (w = "1h" \/ e.recent))]]

ServicesOf(eps) ==
    [w \in DOMAIN MCWindows |->
        LET Of(s) == EndpointsOf(eps)[w][s]
            Stat(s) == [service |-> s, count |-> Sum(Of(s), LAMBDA e : e.count),
                        errors |-> Sum(Of(s), LAMBDA e : e.errors), p99 |-> Of(s)[1].p99]
            seen == SelectSeq(<<"a", "b">>, LAMBDA s : Of(s) # << >>)
        IN  [i \in DOMAIN seen |-> Stat(seen[i])]]

\* Classes with few and with many requests; what the latency query answers: nothing,
\* as it failed, the same requests, or one more that came meanwhile.
MCBreakdowns ==
    {[classes |-> [i \in 1 .. 5 |-> [class |-> statusClassLabels[i], count |-> c[i]]],
      byClass |-> IF l = 0 THEN << >>
                  ELSE [class \in {statusClassLabels[i] : i \in {k \in 1 .. 5 : c[k] > 0 \/ k = l}} |->
                          Sum([i \in 1 .. 5 |-> IF statusClassLabels[i] = class
                                                THEN c[i] + (IF i = l THEN 1 ELSE 0) ELSE 0], LAMBDA n : n)],
      versions |-> v] :
        c \in [1 .. 5 -> {0, 1, 3001}], l \in {0, 4, 6},
        v \in {<< >>, <<[version |-> "", count |-> 9]>>,
               <<[version |-> "", count |-> 9], [version |-> "v1", count |-> 2], [version |-> "v2", count |-> 2]>>,
               <<[version |-> "v1", count |-> 1], [version |-> "v2", count |-> 3]>>}}

MCUsers ==
    {[id |-> i, emails |-> <<[email |-> e, primary |-> p, verified |-> v],
                             [email |-> "b", primary |-> TRUE, verified |-> w]>>] :
        i \in {0, 1, 2}, e \in {"", "a"}, p, v, w \in BOOLEAN}
-----------------------------------------------------------------------------
Units == {"ring", "pages", "series", "sketch", "label", "sampler", "memory", "outliers",
          "key", "config", "verdict", "diagnosis", "assembly",
          "tables", "detail", "next", "identity"}

CalcInit ==
    /\ Init /\ PagesInit
    /\ unit \in Units
    /\ x = << >>

Idle == UNCHANGED <<buf, head, count, out, clock, url, stage, page, unit>>

Grow(u, n, items) ==
    unit = u /\ Idle /\ Len(x) < n /\ \E i \in items : x' = Append(x, i)

Observe ==
    unit = "series" /\ Idle /\ Len(x) < MaxRecords
    /\ \E r \in MCRecords, at \in {0, Len(x) + 1} : x' = Append(x, r @@ [at |-> at])

Read ==
    unit = "sampler" /\ Idle /\ Len(x) < MaxReadings
    /\ LET prev == IF x = << >> THEN [cpu |-> 3, gc |-> 1] ELSE Last(x)
       IN  \E c \in {0, 2}, g \in {0, 1}, f \in BOOLEAN :
               x' = Append(x, [cpu |-> prev.cpu + c, gc |-> prev.gc + g, failed |-> f])

Pick(u, inputs) == unit = u /\ Idle /\ x = << >> /\ x' \in {<<i>> : i \in inputs}

RingStep == unit = "ring" /\ Next /\ UNCHANGED <<clock, url, stage, page, unit, x>>

PagesStep == unit = "pages" /\ PagesNext /\ UNCHANGED <<buf, head, count, out, unit, x>>

CalcNext ==
    \/ RingStep \/ PagesStep \/ Observe \/ Read
    \/ Grow("sketch", MaxSamples, MinIndex - 1 .. MaxIndex + 1)
    \/ Grow("label", MaxLabel, {"a", "B", "-", "_"})
    \/ Grow("memory", MaxPoints, MCPoints)
    \/ Grow("outliers", 4, MCInstances)
    \/ Pick("key", {<<o, l>> : o \in {NoOrigin, Trusted, Foreign}, l \in MCTokens})
    \/ Pick("config", MCConfigs)
    \/ Pick("verdict", MCDetails)
    \/ Pick("diagnosis", MCDiagnoses)
    \/ Pick("assembly", MCDeployments)
    \/ Grow("tables", 4, MCEndpoints)
    \/ Pick("detail", MCBreakdowns)
    \/ Grow("next", 5, {"/", "|", "\\", "%", "a"})
    \/ Pick("identity", MCUsers \X MCUsers)

CalcSpec == CalcInit /\ [][CalcNext]_calcVars
-----------------------------------------------------------------------------
Given(u) == unit = u /\ x # << >>

\* Sketch!PercentilesAgree wherever the window is cut.
PercentilesExact ==
    unit = "sketch" => \A cut \in 0 .. Len(x), q \in {0, 50, 95, 99, 100} :
        PercentilesAgree(SubSeq(x, 1, cut), SubSeq(x, cut + 1, Len(x)), q)

\* Every window ships its slowest request and its first errors.
ExemplarsComplete == unit = "series" => ExemplarsKept(x)

\* What a capped breakdown shows is exact.
BreakdownsTrusted == unit = "series" => BreakdownsExactOrAbsent(x)

\* What is stored of a window is what happened in it.
RowsFaithful == unit = "series" => FaithfullyStored(x)

\* A flush between any two requests loses and doubles nothing.
FlushesMerge == unit = "series" => \A cut \in 0 .. Len(x) : FlushInvisible(x, cut)

\* An error label has one spelling.
LabelsCanonical == unit = "label" => LabelCanonical(x)

\* The gauges' deltas add up.
GaugesTelescope == unit = "sampler" => DeltasTelescope(x)

\* An ingest key decodes to what it was made of.
KeysRoundTrip == Given("key") => KeysDecode(x[1][1], "s", x[1][2])

\* Telemetry goes where the operator, or the key that is sent, says.
ConfigSound == Given("config") => ConfigResolves(x[1].opt, x[1].env)

\* The verdict never improves with a failure more.
VerdictsSound == Given("verdict") => VerdictSound(x[1].d, x[1].base, x[1].win)

\* A heap that only grows is a leak, one back at its start is not.
MemoryVerdictsSound == unit = "memory" => MemoryVerdictSound(x)

\* The diagnosis leads with the best corroborated cause.
DiagnosesSound == Given("diagnosis") => DiagnosisSound(x[1])

\* An instance is an outlier among those that answer.
OutliersSound == unit = "outliers" => OutliersAmongLive(x)

\* No visitor of any deployment is stuck.
NoDeadEnds == Given("assembly") => \A r \in MCRequests : NoDeadEnd(x[1].cfg, r, x[1].session)

\* No visitor of any deployment sees or changes another organisation.
OwnTenants == Given("assembly") => \A r \in MCRequests : OwnTenantOnly(x[1].cfg, r, x[1].session)

\* The headlines of the overview and the endpoint tables agree.
HeadlinesAgree == unit = "tables" => HeadlinesHold(ServicesOf(x), EndpointsOf(x))

\* The link of an unhealthy service leads to the endpoint to blame.
TriageLeads == unit = "tables" => TriageStarts(ServicesOf(x), EndpointsOf(x))

\* The breakdowns of the detail page agree.
DetailAgrees ==
    Given("detail") =>
        LET N(i) == x[1].classes[i].count
        IN  DetailHolds([count |-> N(1) + N(2) + N(3) + N(4) + N(5), errors |-> N(4) + N(5),
                         classes |-> x[1].classes], x[1].byClass, x[1].versions)

\* A sign-in ends where it was meant to, with a session that reads back.
SignInsReturn ==
    unit = "next" => \A now \in 1 .. 3 :
        SignInHolds(x, [org |-> <<"o">>, member |-> <<"m">>, role |-> << >>, exp |-> 2], now)

\* Identities come from verified addresses and do not collide.
IdentitiesVerified == Given("identity") => IdentitiesVouched(x[1][1], x[1][2])

-----------------------------------------------------------------------------
(* What the runs check, one statement per component.                        *)

\* A window of a series, however requests and flushes fall and whatever cap
\* was reached, is stored as what happened in it.
WindowsFaithful == ExemplarsComplete /\ BreakdownsTrusted /\ FlushesMerge /\ RowsFaithful

\* Merging loses nothing a measurement is about: percentiles of parts, deltas
\* of gauges and labels of errors are those of the whole.
MeasurementsAddUp == PercentilesExact /\ GaugesTelescope /\ LabelsCanonical

\* Telemetry goes where the options, the environment or the key say.
EndpointResolved == KeysRoundTrip /\ ConfigSound

\* What the insight panels conclude follows from the numbers beside them.
InsightSound == VerdictsSound /\ MemoryVerdictsSound /\ DiagnosesSound /\ OutliersSound

\* In every deployment a visitor reaches a page, as the verified identity they
\* signed in with, and only their own organisation's data.
AccessSound == NoDeadEnds /\ OwnTenants /\ SignInsReturn /\ IdentitiesVerified

\* A range control does what it says, on a range that is always well-formed.
ControlsHold == RangeWellFormed /\ LinksHold

\* Overview, tables and detail page tell one story of the same rows.
PagesAgree == HeadlinesAgree /\ TriageLeads /\ DetailAgrees
=============================================================================
