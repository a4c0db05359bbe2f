------------------------------ MODULE Insight ------------------------------
(* What the endpoint page concludes from its numbers: the health verdict      *)
(* (web/verdict.go), the leak or burst reading of the heap (memory.go) and    *)
(* the ranked causes (diagnosis.go, diagnosis_causes.go).  Latencies are in   *)
(* milliseconds, shares in percent, magnitudes in hundredths, heaps in units  *)
(* of 8 MiB; the sentences and evidence lines are left out.                   *)
EXTENDS Integers, Sequences, FiniteSets, SequencesExt

CONSTANT MinBaselineBuckets   \* 30: buckets with traffic a baseline needs

Severity == 0 .. 2            \* sevNone, sevDegraded, sevCritical

maxSeverity(sevs) == Max(sevs)

\* Mutant: the degraded band stops where the critical count starts.
errorSeverityBanded(errors, count) ==
    IF errors >= 10 /\ 100 * errors >= 5 * count THEN 2
    ELSE IF errors \in 5 .. 9 /\ 100 * errors >= count THEN 1 ELSE 0

errorSeverity(errors, count) ==
    IF errors >= 10 /\ 100 * errors >= 5 * count THEN 2
    ELSE IF errors >= 5 /\ 100 * errors >= count THEN 1 ELSE 0

\* p95 / p50 >= 6 and >= 2.5; no p50, no spread.
spreadSeverity(p50, p95, count) ==
    IF p50 = 0 \/ count < 50 THEN 0
    ELSE IF p95 >= 6 * p50 /\ p95 >= 200 THEN 2
    ELSE IF 2 * p95 >= 5 * p50 /\ p95 >= 100 THEN 1 ELSE 0

latencySeverity(p95, base) ==
    IF p95 >= 800 /\ p95 >= 4 * base THEN 2
    ELSE IF p95 >= 200 /\ p95 >= 2 * base THEN 1 ELSE 0

\* Twice the median, so that it stays an integer.
median2(s) ==
    LET n == Len(s)
        sorted == SortSeq(s, <)
    IN  IF n % 2 = 1 THEN 2 * sorted[n \div 2 + 1] ELSE sorted[n \div 2] + sorted[n \div 2 + 1]

\* baseline: the p95 of each bucket, 0 for one without traffic.
baselineMedianP95(baseline) ==
    LET p95s == SelectSeq(baseline, LAMBDA p : p > 0)
    IN  IF Len(p95s) < MinBaselineBuckets THEN 0 ELSE median2(p95s) \div 2

Components(d, baseline) ==
    LET base == baselineMedianP95(baseline)
        enough == d.count >= 20
    IN  [error |-> errorSeverity(d.errors, d.count),
         spread |-> IF enough THEN spreadSeverity(d.p50, d.p95, d.count) ELSE 0,
         latency |-> IF enough /\ base > 0 THEN latencySeverity(d.p95, base) ELSE 0]

\* The components that fired, strongest first, latency before error before
\* spread at equal strength.
problemSentence(c) ==
    LET Of(level) == SelectSeq(<<"latency", "error", "spread">>, LAMBDA n : c[n] = level)
    IN  Of(2) \o Of(1)

computeVerdict(d, baseline, winSeconds) ==
    LET c == Components(d, baseline)
        level == maxSeverity({c.error, c.spread, c.latency})
    IN  [level |-> IF level = 2 THEN "Critical" ELSE IF level = 1 THEN "Degraded"
                   ELSE IF d.count < 20 THEN "Unknown" ELSE "Healthy",
         reasons |-> problemSentence(c),
         lowTraffic |-> level > 0 /\ winSeconds > 0 /\ 20 * d.count < winSeconds,
         open |-> level > 0]
-----------------------------------------------------------------------------
isBurst(first, last, firstInuse, peakPostGC, peakInuse) ==
    /\ \/ 2 * peakPostGC >= 3 * first
       \/ firstInuse > 0 /\ 2 * peakInuse >= 3 * firstInuse
    /\ 5 * last <= 6 * first

\* Mutant: a step up at the middle that is then flat is not held.
SustainedStrictly(s) ==
    LET half == Len(s) \div 2
    IN  Min({s[i] : i \in half + 1 .. Len(s)}) > Max({s[i] : i \in 1 .. half})

\* The second half's low is at or above the first half's high.
Sustained(s) ==
    LET half == Len(s) \div 2
    IN  Min({s[i] : i \in half + 1 .. Len(s)}) >= Max({s[i] : i \in 1 .. half})

leakVerdict(first, last, n) ==
    [level |-> "Leak", confidence |-> IF last >= 2 * first /\ n >= 8 THEN "High" ELSE "Medium"]

Settled(level, n) == [level |-> level, confidence |-> IF n >= 8 THEN "High" ELSE "Medium"]

computeMemoryVerdict(points) ==
    LET samples == SelectSeq(points, LAMBDA p : p.post # 0)
        n == Len(samples)
        post == [i \in 1 .. n |-> samples[i].post]
        inuse == [i \in 1 .. n |-> samples[i].inuse]
    IN  IF n < 4 THEN [level |-> "Unknown", confidence |-> ""]
        ELSE IF 2 * post[n] >= 3 * post[1] /\ post[n] - post[1] >= 4 /\ Sustained(post)
        THEN leakVerdict(post[1], post[n], n)
        ELSE IF isBurst(post[1], post[n], inuse[1], Max(Range(post)), Max(Range(inuse)))
        THEN Settled("Burst", n)
        ELSE Settled("Stable", n)
-----------------------------------------------------------------------------
\* Gauges take the fleet's peak, counters become rates in hundredths.
aggregateFleet(stats, seconds) ==
    LET Peak(f) == Max({0} \union {stats[i][f] : i \in DOMAIN stats})
        Sum(f) == FoldLeft(LAMBDA acc, s : acc + s[f], 0, stats)
        Rate(f) == IF seconds > 0 THEN (100 * Sum(f)) \div seconds ELSE 0
    IN  [cores |-> Rate("cpu"), gomaxprocs |-> Sum("gomaxprocs"), gcCPU |-> Peak("gcCPU"),
         allocRate |-> Rate("alloc"), gcFreq |-> Rate("numGC"),
         goroutines |-> Peak("goroutines"), inFlight |-> Peak("inFlight"),
         openFDs |-> Peak("openFDs"), fdLimit |-> Peak("fdLimit")]

isUp(cur, base) == base > 0 /\ 2 * cur >= 3 * base

One(b) == IF b THEN 1 ELSE 0

Quiet(name, max) == [name |-> name, fired |-> FALSE, signals |-> 0, max |-> max, mag |-> 0]

Fired(name, max, signals, mag) ==
    [name |-> name, fired |-> TRUE, signals |-> signals, max |-> max, mag |-> mag]

causeMemory(level, win, base) ==
    LET gcUp == win.gcCPU >= 10 /\ isUp(win.gcCPU, base.gcCPU)
        allocUp == isUp(win.allocRate, base.allocRate)
        moved == level \in {"Leak", "Burst"}
    IN  IF ~moved /\ ~(gcUp /\ allocUp) THEN Quiet("Memory", 4)
        ELSE Fired("Memory", 4,
                   One(moved) + One(gcUp) + One(allocUp) + One(isUp(win.gcFreq, base.gcFreq)),
                   10 * win.gcCPU + 300 * One(level = "Leak"))

causeCPU(win) ==
    IF win.gomaxprocs <= 0 \/ win.cores < 85 * win.gomaxprocs THEN Quiet("CPU", 1)
    ELSE Fired("CPU", 1, 1, win.cores \div win.gomaxprocs)

causeCongestion(win, base, ds) ==
    LET selfDominant == ~ds.hasData \/ ds.share <= 40
        inflightUp == isUp(win.inFlight, base.inFlight)
        fdNear == win.fdLimit > 0 /\ 10 * win.openFDs >= 7 * win.fdLimit
        fdUp == isUp(win.openFDs, base.openFDs)
        ratio == IF inflightUp THEN (100 * win.inFlight) \div base.inFlight ELSE 0
        full == IF (fdNear \/ fdUp) /\ win.fdLimit > 0
                THEN (100 * win.openFDs) \div win.fdLimit ELSE 0
    IN  IF ~selfDominant \/ isUp(win.cores, base.cores) \/ isUp(win.gcCPU, base.gcCPU)
           \/ ~(inflightUp \/ fdNear \/ fdUp)
        THEN Quiet("Congestion", 4)
        ELSE Fired("Congestion", 4, 2 + One(inflightUp) + One(fdNear \/ fdUp), Max({ratio, full}))

\* noStatus: the count of each reason; 1 and 2 are canceled and deadline.
causeOverload(count, noStatus, win, base) ==
    LET aborts == noStatus[1] + noStatus[2]
    IN  IF count = 0 \/ 100 * aborts < 5 * count THEN Quiet("Overload", 2)
        ELSE Fired("Overload", 2, 1 + One(isUp(win.inFlight, base.inFlight)),
                   (100 * aborts) \div count)

causeGoroutineLeak(win, base) ==
    IF win.goroutines < 500 \/ ~isUp(win.goroutines, base.goroutines) THEN Quiet("Goroutines", 2)
    ELSE Fired("Goroutines", 2, 2, (100 * win.goroutines) \div base.goroutines)

\* Downstream time is clamped to the total.
toDownstreamView(s) ==
    LET down == IF s.down > s.total THEN s.total ELSE s.down
    IN  IF s.count = 0 \/ s.down = 0 THEN [hasData |-> FALSE, share |-> 0]
        ELSE [hasData |-> TRUE, share |-> IF s.total > 0 THEN (100 * down) \div s.total ELSE 0]

causeDownstream(ds) ==
    IF ~ds.hasData \/ ds.share < 50 THEN Quiet("Downstream", 1)
    ELSE Fired("Downstream", 1, 1, 6 * ds.share)

Trafficked(instances) == SelectSeq(instances, LAMBDA r : r.count > 0)

P95s(rows) == [i \in DOMAIN rows |-> rows[i].p95]

\* Mutant: the median is over every instance that ever reported.
toInstanceRowsAll(instances) ==
    {i \in DOMAIN instances :
        /\ Len(instances) >= 2
        /\ instances[i].p95 >= median2(P95s(instances)) /\ instances[i].p95 >= 100}

\* The positions of the p95 outliers: twice the median of the trafficked.
toInstanceRows(instances) ==
    LET live == Trafficked(instances)
    IN  {i \in DOMAIN instances :
            /\ Len(live) >= 2
            /\ instances[i].p95 >= median2(P95s(live)) /\ instances[i].p95 >= 100}

causeInstanceLocalized(instances) ==
    LET outliers == toInstanceRows(instances)
        worst == Max({instances[i].p95 : i \in outliers})
        med2 == median2(P95s(Trafficked(instances)))
    IN  IF Trafficked(instances) = << >> \/ outliers = {} THEN Quiet("Instance", 1)
        ELSE Fired("Instance", 1, 1, IF med2 > 0 THEN (200 * worst) \div med2 ELSE 0)

Qualifying(versions) ==
    SelectSeq(versions, LAMBDA v : v.version # "" /\ v.count >= 20 /\ v.p95 > 0)

\* The first of the versions with the extreme p95.
bestWorstVersion(versions) ==
    LET q == Qualifying(versions)
        At(p) == q[Min({i \in DOMAIN q : q[i].p95 = p})]
    IN  IF q = << >> THEN << >>
        ELSE LET best == At(Min(Range(P95s(q))))
                 worst == At(Max(Range(P95s(q))))
             IN  IF best.version = worst.version THEN << >> ELSE <<best, worst>>

causeRelease(versions) ==
    LET bw == bestWorstVersion(versions)
    IN  IF bw = << >> THEN Quiet("Release", 2)
        ELSE IF 2 * bw[2].p95 < 3 * bw[1].p95 THEN Quiet("Release", 2)
        ELSE Fired("Release", 2, 1 + One(bw[2].errors >= bw[1].errors + 1),
                   (100 * bw[2].p95) \div bw[1].p95)

\* Mutant: the magnitude is not capped, and outranks corroboration.
scoreUncapped(c) == 1000 * c.signals + c.mag

score(c) == 1000 * c.signals + (IF c.mag > 900 THEN 900 ELSE c.mag)

confidenceLabel(signals) == IF signals >= 3 THEN "High" ELSE IF signals = 2 THEN "Medium" ELSE "Low"

Candidates(p) ==
    LET win == aggregateFleet(p.resources, p.winSeconds)
        base == aggregateFleet(p.resourceBaseline, p.baselineSeconds)
        ds == toDownstreamView(p.downstream)
    IN  <<causeMemory(p.memory, win, base), causeCPU(win), causeCongestion(win, base, ds),
          causeOverload(p.count, p.noStatus, win, base), causeGoroutineLeak(win, base),
          causeDownstream(ds), causeInstanceLocalized(p.instances), causeRelease(p.versions)>>

\* The fired causes by descending score, in the order of the list at equal score.
Ranked(causes) ==
    LET Before(i, j) == score(causes[i]) > score(causes[j])
                        \/ (score(causes[i]) = score(causes[j]) /\ i < j)
        order == SetToSortSeq(DOMAIN causes, Before)
    IN  [k \in DOMAIN causes |-> causes[order[k]]]

computeDiagnosis(p) ==
    LET fired == Ranked(SelectSeq(Candidates(p), LAMBDA c : c.fired))
    IN  IF ~(p.verdict \in {"Degraded", "Critical"} \/ p.memory \in {"Leak", "Burst"})
        THEN [show |-> FALSE, causes |-> << >>, top |-> "", confidence |-> ""]
        ELSE IF fired = << >>
        THEN [show |-> TRUE, causes |-> << >>, top |-> "Unattributed", confidence |-> "Low"]
        ELSE [show |-> TRUE, causes |-> fired, top |-> fired[1].name,
              confidence |-> confidenceLabel(fired[1].signals)]
-----------------------------------------------------------------------------
Rank(level) == CASE level = "Critical" -> 2 [] level = "Degraded" -> 1 [] OTHER -> 0

\* One more failure among the same requests never improves the verdict, "a 100%
\* error rate must read Critical, not Healthy", Healthy needs the samples to say
\* so, and the sentence leads with a component of the level shown.
VerdictSound(d, baseline, win) ==
    LET v == computeVerdict(d, baseline, win)
        worse == computeVerdict([d EXCEPT !.errors = @ + 1], baseline, win)
    IN  /\ d.errors < d.count => Rank(worse.level) >= Rank(v.level)
        /\ d.errors = d.count /\ d.count > 0 => v.level # "Healthy"
        /\ d.errors = d.count /\ d.count >= 10 => v.level = "Critical"
        /\ v.level = "Healthy" => d.count >= 20
        /\ v.open => Components(d, baseline)[v.reasons[1]] = Rank(v.level)
        /\ v.lowTraffic => v.open

\* A heap that never shrinks and has grown by half and by the noise floor is a
\* leak, one back where it started never is, and a bucket without a sample
\* changes no verdict.
MemoryVerdictSound(points) ==
    LET samples == SelectSeq(points, LAMBDA p : p.post # 0)
        n == Len(samples)
        v == computeMemoryVerdict(points)
    IN  /\ v = computeMemoryVerdict(samples)
        /\ n < 4 <=> v.level = "Unknown"
        /\ n >= 4 =>
             LET first == samples[1].post
                 last == samples[n].post
             IN  /\ (\A i \in 2 .. n : samples[i - 1].post <= samples[i].post)
                    /\ 2 * last >= 3 * first /\ last - first >= 4 => v.level = "Leak"
                 /\ last <= first => v.level # "Leak"
                 /\ v.level = "Burst" => last - first < 4 \/ 5 * last <= 6 * first
                 /\ v.level = "Leak" => \A i \in 2 .. n : samples[i].post >= first
                                                           \/ i <= n \div 2

\* The card names the best corroborated cause: nothing below it has more
\* signals, no cause counts more signals than it can have, a stall of the own
\* pool and a slow dependency are never blamed together, an anomaly always gets
\* a card and nothing else does.
DiagnosisSound(p) ==
    LET d == computeDiagnosis(p)
        anomalous == p.verdict \in {"Degraded", "Critical"} \/ p.memory \in {"Leak", "Burst"}
    IN  /\ d.show <=> anomalous
        /\ \A i, j \in DOMAIN d.causes : i < j => d.causes[i].signals >= d.causes[j].signals
        /\ \A i \in DOMAIN d.causes : d.causes[i].signals \in 1 .. d.causes[i].max
        /\ ~({"Congestion", "Downstream"} \subseteq {d.causes[i].name : i \in DOMAIN d.causes})
        /\ p.memory \in {"Leak", "Burst"} => \E i \in DOMAIN d.causes : d.causes[i].name = "Memory"
        /\ d.top = "Unattributed" <=> d.show /\ d.causes = << >>

\* An instance is singled out only against replicas that answer: one without
\* traffic in the window neither is an outlier nor makes one.
OutliersAmongLive(instances) ==
    LET live == Trafficked(instances)
    IN  /\ \A i \in toInstanceRows(instances) : instances[i].count > 0
        /\ {instances[i].p95 : i \in toInstanceRows(instances)}
               = {live[i].p95 : i \in toInstanceRows(live)}
        /\ toInstanceRows(instances) = {} \/ Cardinality(toInstanceRows(instances)) < Len(live)
=============================================================================
