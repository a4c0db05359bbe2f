----------------------------- MODULE StoredRows -----------------------------
(* From a summary on the wire to the columns of its row: the conversion in    *)
(* ingest/convert.go, storage.NewRow with the sorted slices it builds, and    *)
(* the maps rebuilt from them for the insert (storage/row.go).  A column that *)
(* is copied unchanged (byte counts, deploy identity) is left out.            *)
EXTENDS Aggregation

\* Mutant: a class added to the protocol after the first four is not converted.
statusClassNameOfFour(sc) ==
    IF sc \in {"2XX", "3XX", "4XX", "5XX"} THEN sc ELSE "UNSPECIFIED"

statusClassName(sc) ==
    IF sc \in {"2XX", "3XX", "4XX", "5XX", "NO_STATUS"} THEN sc ELSE "UNSPECIFIED"

\* Pairs of key and count, in an order that depends on the keys alone.
sortedByKey(m) ==
    LET keys == SetToSeq(DOMAIN m)
    IN  [i \in DOMAIN keys |-> <<keys[i], m[keys[i]]>>]

\* The reason is narrowed to a uint8, so that two pairs can have one key.
sortedNoStatusReasons(m) ==
    LET pairs == sortedByKey(m)
    IN  [i \in DOMAIN pairs |-> <<pairs[i][1] % 256, pairs[i][2]>>]

\* sketchMap, statusCodeMap, errorClassMap, noStatusReasonMap: m[key] = count
\* for one pair after the other.
MapOf(pairs) == FoldLeft(LAMBDA m, p : (p[1] :> p[2]) @@ m, << >>, pairs)

exemplarsToRows(exs) ==
    [i \in DOMAIN exs |-> [At |-> exs[i].at, DurationNs |-> exs[i].dur, StatusCode |-> exs[i].code]]

exemplarTuples(exs) == [i \in DOMAIN exs |-> <<exs[i].At, exs[i].DurationNs, exs[i].StatusCode>>]

NewRow(route, class, s) ==
    [route |-> route, class |-> class, count |-> s.count, sum |-> s.sum, max |-> s.max,
     sketch |-> sortedByKey(s.sketch), codes |-> sortedByKey(s.codes),
     errors |-> sortedByKey(s.errors), reasons |-> sortedNoStatusReasons(s.reasons),
     exemplars |-> exemplarsToRows(s.exemplars)]

summaryToRow(key, s) == NewRow(key[1], statusClassName(key[2]), s)

\* The arguments of batch.Append.
Columns(row) ==
    [row EXCEPT !.sketch = MapOf(@), !.codes = MapOf(@), !.errors = MapOf(@), !.reasons = MapOf(@),
                !.exemplars = exemplarTuples(@)]

Stored(recs) ==
    LET shipped == buildRequest(Window(recs))
    IN  {Columns(summaryToRow(k, shipped[k])) : k \in DOMAIN shipped}
-----------------------------------------------------------------------------
Failing(row) == row.class \in {"5XX", "NO_STATUS"}

\* The requests that the dashboard's queries count as failed, by the class of
\* the stored row, are those the program saw fail; each aborted one has one
\* stored reason the panel has a label for; and the percentiles of the stored
\* buckets are those of the requests, over the route's rows together.
FaithfullyStored(recs) ==
    LET rows == Stored(recs)
        CountOf(P(_)) == MapThenSumSet(LAMBDA r : r.count, {r \in rows : P(r)})
        All(f(_)) == MapThenSumSet(f, rows)
        merged == [i \in Domain |-> All(LAMBDA r : IF i \in DOMAIN r.sketch THEN r.sketch[i] ELSE 0)]
        aborted == Occurrences(recs, LAMBDA r : r.status <= 0)
    IN  /\ CountOf(Failing) = Occurrences(recs, LAMBDA r : r.status < 100 \/ r.status >= 500)
        /\ CountOf(LAMBDA r : r.class = "UNSPECIFIED") = 0
        /\ All(LAMBDA r : Total(r.reasons)) = aborted
        /\ \A r \in rows : DOMAIN r.reasons \subseteq 0 .. 5
        /\ recs # << >> => \A q \in {50, 99} :
              QuantileFromBuckets(merged, q) = SortedAt([i \in DOMAIN recs |-> recs[i].dur], q)
=============================================================================
