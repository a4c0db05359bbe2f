------------------------------- MODULE Views -------------------------------
(* What the dashboard's tables show of the statistics of a window: the        *)
(* service overview, the endpoint table it leads to (web/view.go, chrome.go,  *)
(* the two handlers of web.go) and the breakdowns of the detail page          *)
(* (view_detail.go, view_debug.go).  A rate is a fraction of two counts; a    *)
(* route is a number, in the order of the templates as strings; an href is a  *)
(* service with its query parameters.                                         *)
EXTENDS Pages, SequencesExt

Sum(rows, F(_)) == FoldLeft(LAMBDA n, r : n + F(r), 0, rows)

Reaches(rate, pct) == rate.den > 0 /\ 100 * rate.num >= pct * rate.den

SameRate(a, b) == a.num * b.den = b.num * a.den

Rate(stat) == [num |-> stat.errors, den |-> stat.count]

healthClass(rate) == IF Reaches(rate, 5) THEN "err" ELSE IF Reaches(rate, 2) THEN "warn" ELSE "ok"

\* Requests per window, and so per second times its length.
ratePerSec(count_, secs) == IF secs <= 0 THEN 0 ELSE count_

\* Mutant: the query the href already has is replaced.
withWinOnly(href, winKey) == [href EXCEPT !.query = <<<<"win", winKey>>>>]

withWin(href, winKey) == [href EXCEPT !.query = Append(@, <<"win", winKey>>)]

toServiceRows(stats, winKey) ==
    LET Href(s) == [service |-> s.service,
                    query |-> IF healthClass(Rate(s)) # "ok" THEN <<<<"sort", "error">>>> ELSE << >>]
    IN  [i \in DOMAIN stats |->
            stats[i] @@ [rate |-> ratePerSec(stats[i].count, WindowDur[winKey]),
                         drill |-> withWin(Href(stats[i]), winKey)]]

toEndpointRows(stats, winKey) ==
    [i \in DOMAIN stats |-> stats[i] @@ [rate |-> ratePerSec(stats[i].count, WindowDur[winKey])]]

normalizeSort(raw) == IF raw \in {"error", "p99"} THEN raw ELSE "traffic"

\* Whether a row goes before another; a tie is broken by the route.
Precedes(a, b, key) ==
    CASE key = "error" /\ ~SameRate(Rate(a), Rate(b)) -> a.errors * b.count > b.errors * a.count
      [] key = "p99" /\ a.p99 # b.p99 -> a.p99 > b.p99
      [] key = "traffic" /\ a.count # b.count -> a.count > b.count
      [] OTHER -> a.route < b.route

\* sort.SliceStable: a row goes before the first one it precedes.
sortEndpointRows(rows, key) ==
    LET Put(sorted, row) ==
            LET i == SelectInSeq(sorted, LAMBDA r : Precedes(row, r, key))
            IN  IF i = 0 THEN Append(sorted, row) ELSE InsertAt(sorted, i, row)
    IN  FoldLeft(Put, << >>, rows)

\* Mutant: every row has the same weight.
ErrorKPIUnweighted(rows) ==
    [num |-> Sum(rows, LAMBDA r : (100 * r.errors) \div r.count), den |-> 100 * Len(rows)]

\* The error rate of several rows, each weighted by its traffic.
ErrorKPI(rows) ==
    [num |-> Sum(rows, LAMBDA r : (r.errors * r.rate) \div r.count), den |-> Sum(rows, LAMBDA r : r.rate)]

overviewKPIs(rows) ==
    [traffic |-> Sum(rows, LAMBDA r : r.rate), requests |-> Sum(rows, LAMBDA r : r.count),
     errors |-> ErrorKPI(rows), worst |-> FoldLeft(LAMBDA w, r : IF r.p99 > w THEN r.p99 ELSE w, 0, rows)]

endpointKPIs(rows) == [traffic |-> Sum(rows, LAMBDA r : r.rate), errors |-> ErrorKPI(rows)]

Param(query, name) ==
    LET i == SelectInSeq(query, LAMBDA p : p[1] = name) IN IF i = 0 THEN "" ELSE query[i][2]

\* services: what the Services query returns, by window.
serveOverview(services, query) ==
    LET winKey == normalizeWindow(Param(query, "win"))
        rows == toServiceRows(services[winKey], winKey)
    IN  [kpis |-> overviewKPIs(rows), rows |-> rows]

\* endpoints: what the Endpoints query returns, by window and service.
serveEndpoints(endpoints, href) ==
    LET winKey == normalizeWindow(Param(href.query, "win"))
        rows == sortEndpointRows(toEndpointRows(endpoints[winKey][href.service], winKey),
                                 normalizeSort(Param(href.query, "sort")))
    IN  [kpis |-> endpointKPIs(rows), rows |-> rows]
-----------------------------------------------------------------------------
errorClasses == {"4xx", "5xx", "no_status"}

toDetailView(d) ==
    d @@ [views |-> [i \in DOMAIN d.classes |->
                        d.classes[i] @@ [isError |-> d.classes[i].class \in errorClasses]]]

\* The widths in tenths of a percent, rounded: a small class may have no width.
statusBarsFor(v) ==
    [i \in DOMAIN v.views |->
        [class |-> v.views[i].class,
         width |-> IF v.count > 0 THEN (2000 * v.views[i].count + v.count) \div (2 * v.count) ELSE 0]]

statusClassLabels == <<"2xx", "3xx", "4xx", "5xx", "no_status">>

\* byClass: the answer of a query of its own, with no class when that failed.
toClassLatencyRows(byClass) ==
    LET Count(class) == IF class \in DOMAIN byClass THEN byClass[class] ELSE 0
        labels == SelectSeq(statusClassLabels, LAMBDA class : Count(class) # 0)
    IN  [i \in DOMAIN labels |-> [class |-> labels[i], count |-> Count(labels[i])]]

toVersionRows(stats) == SelectSeq(stats, LAMBDA s : s.version # "")

\* The label of the first with the most; "" when there is none.
Dominant(stats, label) ==
    FoldLeft(LAMBDA best, s : IF s.count > best.count
                              THEN [name |-> s[label], count |-> s.count] ELSE best,
             [name |-> "", count |-> 0], stats).name

\* Mutant: requests without a version are a version too.
dominantVersionAny(stats) == Dominant(stats, "version")

dominantVersion(stats) == Dominant(SelectSeq(stats, LAMBDA s : s.version # ""), "version")

dominantErrorClass(views) ==
    LET best == Dominant(SelectSeq(views, LAMBDA c : c.isError), "class")
    IN  IF best = "" THEN "none" ELSE best

buildDebugContext(v, version) ==
    [dominantErr |-> dominantErrorClass(v.views), version |-> version,
     segments |-> IF version # "" THEN {"error", "version"} ELSE {"error"}]
-----------------------------------------------------------------------------
\* The headline of a page is that of the rows under it, and stays the same from
\* the overview down: the KPI strip counts every request once, and the endpoint
\* table an overview row leads to has the traffic and the error rate of the row.
HeadlinesHold(services, endpoints) ==
    \A w \in DOMAIN services :
        LET overview == serveOverview(services, <<<<"win", w>>>>)
        IN  /\ SameRate(overview.kpis.errors,
                        [num |-> Sum(services[w], LAMBDA s : s.errors), den |-> overview.kpis.requests])
            /\ \A i \in DOMAIN overview.rows :
                  LET row == overview.rows[i]
                      table == serveEndpoints(endpoints, row.drill).kpis
                  IN  table.traffic = row.rate /\ SameRate(table.errors, Rate(row))

\* An unhealthy service leads to a table whose first row is to blame: no other
\* row has a higher error rate and it is at least as unhealthy as the service.
\* A healthy one leads to the busiest row.
TriageStarts(services, endpoints) ==
    \A w \in DOMAIN services :
        LET rows == serveOverview(services, <<<<"win", w>>>>).rows
        IN  \A i \in DOMAIN rows :
               LET table == serveEndpoints(endpoints, rows[i].drill).rows
                   first == Head(table)
               IN  /\ ToSet(table) = ToSet(toEndpointRows(endpoints[w][rows[i].service], w))
                   /\ IF healthClass(Rate(rows[i])) = "ok"
                      THEN \A k \in DOMAIN table : table[k].count <= first.count
                      ELSE /\ first.errors * rows[i].count >= rows[i].errors * first.count
                           /\ healthClass(Rate(first)) # "ok"
                           /\ \A k \in DOMAIN table :
                                 table[k].errors * first.count <= first.errors * table[k].count

\* The breakdowns of the detail page agree with its headline and each other: no
\* failure without a dominant error class, bars that fill the width but for what
\* rounding takes, no class with a bar and fewer requests in the latency split,
\* unless the query of that panel failed, and a dominant version exactly if the
\* panel lists one, which is then a busiest one of the list.
DetailHolds(d, byClass, versions) ==
    LET v == toDetailView(d)
        debug == buildDebugContext(v, dominantVersion(versions))
        bars == statusBarsFor(v)
        listed == toVersionRows(versions)
    IN  /\ debug.dominantErr = "none" => d.errors = 0
        /\ \A i \in DOMAIN d.classes : d.classes[i].class \in errorClasses /\ d.classes[i].count > 0
              => \E k \in DOMAIN d.classes : d.classes[k].class = debug.dominantErr
                                             /\ d.classes[k].count >= d.classes[i].count
        /\ LET drawn == Sum(bars, LAMBDA b : b.width)
           IN  IF d.count = 0 THEN drawn = 0
               ELSE 2 * drawn <= 2000 + Len(bars) /\ 2 * drawn >= 2000 - Len(bars)
        /\ DOMAIN byClass # {} => \A i \in DOMAIN bars : bars[i].width > 0 =>
              \E row \in ToSet(toClassLatencyRows(byClass)) :
                  row.class = bars[i].class /\ row.count >= d.classes[i].count
        /\ (debug.version # "") = (listed # << >>)
        /\ listed # << >> => \E i \in DOMAIN listed :
              /\ listed[i].version = debug.version
              /\ \A k \in DOMAIN listed : listed[k].count <= listed[i].count
=============================================================================
