---------------------------- MODULE Aggregation ----------------------------
(* What a flush window holds (client/series.go, the aggregation half of       *)
(* Observe in maping.go, buildRequest) and the process gauges shipped with it *)
(* (sampler.go).  A record is [route, status, dur, label, reason, at]: dur is *)
(* both the duration and its sketch bucket, label a sequence of characters,   *)
(* at the completion time with the trace ids.  The byte counts and the        *)
(* downstream wait are summed as sumDuration is.                              *)
EXTENDS Sketch, SequencesExt

CONSTANTS MaxStatusCodes, MaxErrorClasses, MaxErrorClassLen, MaxErrorExemplars

classify(status) ==
    IF status < 100 THEN "NO_STATUS"
    ELSE IF status < 300 THEN "2XX" ELSE IF status < 400 THEN "3XX"
    ELSE IF status < 500 THEN "4XX" ELSE "5XX"

isError(status) == status <= 0 \/ status >= 400

Upper == [c \in {"a", "A", "b", "B"} |-> IF c \in {"a", "A"} THEN "A" ELSE "B"]

\* Mutant: the trailing underscore left by the cut at the maximum length stays.
sanitizeErrorClassUntrimmed(s) ==
    LET Put(b, c) ==
            IF Len(b) >= MaxErrorClassLen THEN b
            ELSE IF c \in DOMAIN Upper THEN Append(b, Upper[c])
            ELSE IF b # << >> /\ Last(b) # "_" THEN Append(b, "_") ELSE b
    IN  FoldLeft(Put, << >>, s)

sanitizeErrorClass(s) ==
    LET Put(b, c) ==
            IF Len(b) >= MaxErrorClassLen THEN b
            ELSE IF c \in DOMAIN Upper THEN Append(b, Upper[c])
            ELSE IF b # << >> /\ Last(b) # "_" THEN Append(b, "_") ELSE b
        built == FoldLeft(Put, << >>, s)
    IN  IF built # << >> /\ Last(built) = "_" THEN Front(built) ELSE built

Bump(m, k) == IF k \in DOMAIN m THEN [m EXCEPT ![k] = @ + 1] ELSE m @@ (k :> 1)

\* Mutant: a full map refuses the keys it already holds too.
BumpCappedHard(m, k, cap) == IF Cardinality(DOMAIN m) >= cap THEN m ELSE Bump(m, k)

\* recordCode and recordErrorClass: a new key past the cap is dropped.
BumpCapped(m, k, cap) ==
    IF k \notin DOMAIN m /\ Cardinality(DOMAIN m) >= cap THEN m ELSE Bump(m, k)

recordCode(codes, status) ==
    IF status <= 0 THEN codes ELSE BumpCapped(codes, status, MaxStatusCodes)

recordErrorClass(classes, raw) ==
    LET label == sanitizeErrorClass(raw)
    IN  IF label = << >> THEN classes ELSE BumpCapped(classes, label, MaxErrorClasses)

recordNoStatusReason(reasons, r) == Bump(reasons, IF r > 5 THEN 5 ELSE r)

Positive(n) == IF n > 0 THEN n ELSE 0

exemplarOf(rec) == [at |-> rec.at, dur |-> Positive(rec.dur), code |-> Positive(rec.status)]

\* Mutant: an error takes an error slot or the slowest slot, not both.
observeExemplarElse(s, rec) ==
    LET ex == exemplarOf(rec)
        slot == isError(rec.status) /\ Len(s.errs) < MaxErrorExemplars
    IN  [s EXCEPT !.maxDuration = IF ex.dur > @ THEN ex.dur ELSE @,
                  !.slowest = IF ~slot /\ (@ = << >> \/ ex.dur > Head(@).dur) THEN <<ex>> ELSE @,
                  !.errs = IF slot THEN Append(@, ex) ELSE @]

\* slowest is << >> until hasSlowest.
observeExemplar(s, rec) ==
    LET ex == exemplarOf(rec)
    IN  [s EXCEPT !.maxDuration = IF ex.dur > @ THEN ex.dur ELSE @,
                  !.slowest = IF @ = << >> \/ ex.dur > Head(@).dur THEN <<ex>> ELSE @,
                  !.errs = IF isError(rec.status) /\ Len(@) < MaxErrorExemplars
                           THEN Append(@, ex) ELSE @]

exemplars(s) ==
    s.slowest \o SelectSeq(s.errs, LAMBDA e : s.slowest = << >> \/ e # Head(s.slowest))

EmptySeries ==
    [count |-> 0, sumDuration |-> 0, sk |-> EmptySketch, codes |-> << >>,
     errorClasses |-> << >>, noStatusReasons |-> << >>,
     maxDuration |-> 0, slowest |-> << >>, errs |-> << >>]

\* The part of Observe under the shard's lock.
ObserveInto(s, rec) ==
    observeExemplar(
        [s EXCEPT !.count = @ + 1, !.sumDuration = @ + Positive(rec.dur),
                  !.sk = Add(@, rec.dur), !.codes = recordCode(@, rec.status),
                  !.errorClasses = recordErrorClass(@, rec.label),
                  !.noStatusReasons = IF rec.status <= 0
                                      THEN recordNoStatusReason(@, rec.reason) ELSE @],
        rec)

seriesKey(rec) == <<rec.route, classify(rec.status)>>

Observed(window, rec) ==
    LET k == seriesKey(rec)
        s == IF k \in DOMAIN window THEN window[k] ELSE EmptySeries
    IN  [j \in {k} |-> ObserveInto(s, rec)] @@ window

Window(recs) == FoldLeft(Observed, << >>, recs)

\* The summaries of an upload request, by series key.
buildRequest(window) ==
    [k \in DOMAIN window |->
        LET s == window[k]
        IN  [count |-> s.count, sum |-> s.sumDuration, sketch |-> Buckets(s.sk),
             codes |-> s.codes, errors |-> s.errorClasses, reasons |-> s.noStatusReasons,
             max |-> s.maxDuration, exemplars |-> exemplars(s)]]
-----------------------------------------------------------------------------
Unprimed == [primed |-> FALSE, cpu |-> 0, gc |-> 0, cpuDelta |-> 0, gcDelta |-> 0]

\* Mutant: the baselines are those of the first sample.
sampleSinceFirst(s, r) ==
    IF ~s.primed THEN [primed |-> TRUE, cpu |-> r.cpu, gc |-> r.gc, cpuDelta |-> 0, gcDelta |-> 0]
    ELSE [s EXCEPT !.cpuDelta = IF r.cpu >= s.cpu THEN r.cpu - s.cpu ELSE 0,
                   !.gcDelta = r.gc - s.gc]

\* One reading of the cumulative counters: cpu is guarded, the runtime's own
\* counters (pauses, collections, allocations; here gc) never go back.
sample(s, r) ==
    [primed |-> TRUE, cpu |-> r.cpu, gc |-> r.gc,
     cpuDelta |-> IF s.primed /\ r.cpu >= s.cpu THEN r.cpu - s.cpu ELSE 0,
     gcDelta |-> IF s.primed THEN r.gc - s.gc ELSE 0]

\* A failed getrusage reads as zero.
cpuTimeNs(reading) == IF reading.failed THEN 0 ELSE reading.cpu

Samples(readings) ==
    LET after[n \in 0 .. Len(readings)] ==
            IF n = 0 THEN Unprimed
            ELSE sample(after[n - 1], [cpu |-> cpuTimeNs(readings[n]), gc |-> readings[n].gc])
    IN  after
-----------------------------------------------------------------------------
OfKey(recs, k) == SelectSeq(recs, LAMBDA r : seriesKey(r) = k)

Occurrences(recs, P(_)) == Len(SelectSeq(recs, P))

\* The reservoir of every series ends with the slowest request first and the
\* first errors after it, each listed once, whatever the order of arrival.
ExemplarsKept(recs) ==
    LET shipped == buildRequest(Window(recs))
    IN  \A k \in DOMAIN shipped :
            LET mine == OfKey(recs, k)
                errs == SelectSeq(mine, LAMBDA r : isError(r.status))
                ex == shipped[k].exemplars
                first == 1 .. (IF Len(errs) < MaxErrorExemplars THEN Len(errs) ELSE MaxErrorExemplars)
            IN  /\ shipped[k].max = Max({Positive(mine[i].dur) : i \in DOMAIN mine})
                /\ ex # << >> /\ ex[1].dur = shipped[k].max
                /\ \A i \in first : exemplarOf(errs[i]) \in ToSet(ex)
                /\ \A i \in 2 .. Len(ex) : ex[i] # ex[1]
                /\ ToSet(ex) \subseteq {exemplarOf(mine[i]) : i \in DOMAIN mine}
                /\ Len(ex) <= 1 + Cardinality(first)

\* A breakdown is capped, and what it holds is exact: a key that made it in is
\* never undercounted by the cap, so a shown count can be trusted.
BreakdownsExactOrAbsent(recs) ==
    LET shipped == buildRequest(Window(recs))
    IN  \A k \in DOMAIN shipped :
            LET mine == OfKey(recs, k)
                s == shipped[k]
            IN  /\ s.count = Len(mine) /\ Total(s.sketch) = s.count
                /\ Cardinality(DOMAIN s.codes) <= MaxStatusCodes
                /\ Cardinality(DOMAIN s.errors) <= MaxErrorClasses
                /\ \A c \in DOMAIN s.codes :
                       s.codes[c] = Occurrences(mine, LAMBDA r : r.status = c)
                /\ \A e \in DOMAIN s.errors :
                       s.errors[e] = Occurrences(mine, LAMBDA r : sanitizeErrorClass(r.label) = e)
                /\ Total(s.codes) + Total(s.reasons) <= s.count
                /\ k[2] # "NO_STATUS" => s.reasons = << >>

\* A flush between any two requests is invisible once the server has merged the
\* two summaries: counts, sums, sketches and the maximum come out as for one
\* window.
FlushInvisible(recs, cut) ==
    LET whole == Window(recs)
        early == Window(SubSeq(recs, 1, cut))
        late == Window(SubSeq(recs, cut + 1, Len(recs)))
        Of(w, k) == IF k \in DOMAIN w THEN w[k] ELSE EmptySeries
    IN  /\ DOMAIN whole = DOMAIN early \union DOMAIN late
        /\ \A k \in DOMAIN whole :
              LET e == Of(early, k)
                  l == Of(late, k)
              IN  /\ whole[k].count = e.count + l.count
                  /\ whole[k].sumDuration = e.sumDuration + l.sumDuration
                  /\ whole[k].sk = Merge(e.sk, l.sk)
                  /\ whole[k].maxDuration = Max({e.maxDuration, l.maxDuration})

\* A label that went through the normalisation is a fixed point of it: the same
\* error has one spelling, within the length and with no underscore at an edge.
LabelCanonical(s) ==
    LET label == sanitizeErrorClass(s)
    IN  /\ Len(label) <= MaxErrorClassLen
        /\ label # << >> => Head(label) # "_" /\ Last(label) # "_"
        /\ sanitizeErrorClass(label) = label

\* The deltas of the windows add up to what the process used since the first
\* sample, as long as every reading succeeds.
DeltasTelescope(readings) ==
    LET after == Samples(readings)
        n == Len(readings)
        Sum(D(_)) == MapThenSumSet(D, 1 .. n)
    IN  n > 0 /\ (\A i \in 1 .. n : ~readings[i].failed) =>
            /\ Sum(LAMBDA i : after[i].cpuDelta) = readings[n].cpu - readings[1].cpu
            /\ Sum(LAMBDA i : after[i].gcDelta) = readings[n].gc - readings[1].gc

\* "On an error it returns 0 so the gauge simply reads zero" (sampler_unix.go):
\* no window reports more CPU than the process used since the one before.
CPUWithinWindow(readings) ==
    LET after == Samples(readings)
    IN  \A i \in 2 .. Len(readings) : after[i].cpuDelta <= readings[i].cpu - readings[i - 1].cpu
=============================================================================
