------------------------------- MODULE Pages -------------------------------
(* A visitor moving about the endpoint-detail page (web/web_detail.go,        *)
(* web_range.go, the range controls of view_debug.go, the windows of          *)
(* chrome.go).  Time is in ticks of half a second, because a link carries     *)
(* whole seconds and the clock does not; the clock moves between the read     *)
(* that resolves the range and the one that builds the controls.              *)
EXTENDS Integers, Sequences, FiniteSets

CONSTANTS
    WindowDur,      \* the preset windows: a function from key to ticks
    DefaultWindow,  \* the key an unknown ?win= falls back to
    Panels,         \* the secondary queries of the page
    MinSpan,        \* minDetailSpan, in ticks
    Typed,          \* the ranges a visitor may type into the URL, in seconds
    StartTime, MaxTime,
    Oldest          \* how far back the visitor goes

ASSUME PagesAssumption == DefaultWindow \in DOMAIN WindowDur /\ MinSpan > 0

VARIABLES
    clock,
    url,        \* win and, as << >> or <<from, to>> in seconds, the custom range
    stage,      \* "idle", "headline", "panels", "shown" or "failed"
    page        \* the range in ticks, whether it is custom, the panels' outcomes, the links

pageVars == <<clock, url, stage, page>>

Tick(sec) == 2 * sec

Unix(t) == t \div 2

NoPage == [from |-> 0, to |-> 0, custom |-> FALSE, panels |-> << >>, links |-> << >>]

PagesInit ==
    /\ clock = StartTime
    /\ url = [win |-> DefaultWindow, range |-> << >>]
    /\ stage = "idle" /\ page = NoPage

normalizeWindow(raw) == IF raw \in DOMAIN WindowDur THEN raw ELSE DefaultWindow

windowRange(dur, now) == [from |-> now - dur, to |-> now, custom |-> FALSE]

\* Mutant: the trailing edge is not clamped to now.
customRangeUnclamped(range, now) ==
    IF range = << >> THEN {}
    ELSE IF Tick(range[2]) - Tick(range[1]) < MinSpan THEN {}
    ELSE {[from |-> Tick(range[1]), to |-> Tick(range[2]), custom |-> TRUE]}

\* None or one range: the pair parsed, clamped to now and wide enough.
customRange(range, now) ==
    IF range = << >> THEN {}
    ELSE LET to == IF Tick(range[2]) > now THEN now ELSE Tick(range[2])
         IN  IF to - Tick(range[1]) < MinSpan THEN {}
             ELSE {[from |-> Tick(range[1]), to |-> to, custom |-> TRUE]}

resolveDetailRange(u, now) ==
    LET custom == customRange(u.range, now)
    IN  IF custom # {} THEN CHOOSE r \in custom : TRUE
        ELSE windowRange(WindowDur[normalizeWindow(u.win)], now)

\* The chart's step in seconds for a custom range, about sixty points of at
\* least ten seconds.
adaptiveStep(seconds) == IF seconds \div 60 < 10 THEN 10 ELSE seconds \div 60

detailURL(win, from, to) == [win |-> win, range |-> <<Unix(from), Unix(to)>>]

\* Mutant: a pan to the right moves by half the span whatever the headroom.
buildDetailRangeUnclamped(win, r, now) ==
    LET half == (r.to - r.from) \div 2
    IN  [zoomOut |-> {detailURL(win, r.from - half, IF r.to + half > now THEN now ELSE r.to + half)},
         panLeft |-> {detailURL(win, r.from - half, r.to - half)},
         panRight |-> IF r.to < now THEN {detailURL(win, r.from + half, r.to + half)} ELSE {},
         reset |-> IF r.custom THEN {[win |-> win, range |-> << >>]} ELSE {}]

\* The links under the chart; an absent one is empty.
buildDetailRange(win, r, now) ==
    LET half == (r.to - r.from) \div 2
        shift == IF now - r.to < half THEN now - r.to ELSE half
    IN  [zoomOut |-> {detailURL(win, r.from - half, IF r.to + half > now THEN now ELSE r.to + half)},
         panLeft |-> {detailURL(win, r.from - half, r.to - half)},
         panRight |-> IF r.to < now THEN {detailURL(win, r.from + shift, r.to + shift)} ELSE {},
         reset |-> IF r.custom THEN {[win |-> win, range |-> << >>]} ELSE {}]

\* The switcher drops a custom range.
buildWindows == {[win |-> k, range |-> << >>] : k \in DOMAIN WindowDur}

\* softQuery: a failed panel is empty, the page goes on.
softQuery(ok) == IF ok THEN "data" ELSE "empty"
-----------------------------------------------------------------------------
\* serveEndpointDetail up to the headline query
Resolve ==
    /\ stage = "idle"
    /\ LET r == resolveDetailRange(url, clock)
       IN  page' = [NoPage EXCEPT !.from = r.from, !.to = r.to, !.custom = r.custom]
    /\ stage' = "headline"
    /\ UNCHANGED <<clock, url>>

Headline(ok) ==
    /\ stage = "headline"
    /\ stage' = IF ok THEN "panels" ELSE "failed"
    /\ UNCHANGED <<clock, url, page>>

\* loadDetailPanels: one of the concurrent queries returns.
PanelDone(p, ok) ==
    /\ stage = "panels" /\ p \notin DOMAIN page.panels
    /\ page' = [page EXCEPT !.panels =
                   [q \in DOMAIN page.panels \union {p} |->
                       IF q = p THEN softQuery(ok) ELSE page.panels[q]]]
    /\ UNCHANGED <<clock, url, stage>>

\* wg.Wait returned: the page is rendered, with a second read of the clock.
Render ==
    /\ stage = "panels" /\ DOMAIN page.panels = Panels
    /\ page' = [page EXCEPT !.links = buildDetailRange(normalizeWindow(url.win), page, clock)]
    /\ stage' = "shown"
    /\ UNCHANGED <<clock, url>>

RangeLinks == UNION {page.links.zoomOut, page.links.panLeft, page.links.panRight, page.links.reset}

Go(u) == url' = u /\ stage' = "idle" /\ page' = NoPage /\ UNCHANGED clock

Follow == stage = "shown" /\ page.from >= Oldest /\ \E u \in RangeLinks : Go(u)

Switch == stage = "shown" /\ \E u \in buildWindows : Go(u)

\* A bookmark, an edited URL, or a reload of a page that failed.
Open ==
    \/ stage = "shown" /\ \E r \in Typed, w \in DOMAIN WindowDur \union {"bogus"} :
           Go([win |-> w, range |-> r])
    \/ stage = "failed" /\ Go(url)

Pass == clock < MaxTime /\ clock' = clock + 1 /\ UNCHANGED <<url, stage, page>>

PagesNext ==
    \/ Resolve \/ Render \/ Follow \/ Switch \/ Open \/ Pass
    \/ \E ok \in BOOLEAN : Headline(ok) \/ \E p \in Panels : PanelDone(p, ok)
-----------------------------------------------------------------------------
\* "only a well-formed, non-future, non-degenerate range ever drives a custom
\* query", whatever was typed and however the visitor got here.
RangeWellFormed ==
    stage \notin {"idle", "failed"} =>
        /\ page.to <= clock /\ page.to - page.from >= MinSpan
        /\ ~page.custom => page.to - page.from \in {WindowDur[k] : k \in DOMAIN WindowDur}

\* A control does what it says whenever it is clicked: zooming out keeps the
\* whole range in view, panning keeps its width to the second, and neither is
\* ever refused and turned back into the preset window.
LinksHold ==
    stage = "shown" =>
        \A later \in clock .. MaxTime :
            LET At(u) == resolveDetailRange(u, later)
                Width(r) == r.to - r.from
            IN  /\ \A u \in page.links.zoomOut :
                       /\ At(u).custom /\ At(u).from <= page.from
                       /\ At(u).to >= Tick(Unix(page.to)) /\ Width(At(u)) > Width(page)
                /\ \A u \in page.links.panLeft \union page.links.panRight :
                       At(u).custom /\ Width(At(u)) - Width(page) \in -1 .. 1
                /\ \A u \in page.links.panRight : At(u).from >= Tick(Unix(page.from))

\* "empty when the range is already flush with now": a preset range ends now.
FlushOffersNoPan ==
    stage = "shown" /\ ~page.custom => page.links.panRight = {}

\* No chart bucket of a custom range is narrower than what the tier it reads
\* can fill, so that a steady load draws a steady line.
StepFitsTier(seconds) ==
    LET tier == IF seconds <= 7200 THEN 10 ELSE IF seconds <= 172800 THEN 60 ELSE 3600
        step == IF adaptiveStep(seconds) < tier THEN tier ELSE adaptiveStep(seconds)
    IN  step % tier = 0
=============================================================================
