------------------------------- MODULE Sketch -------------------------------
(* The latency sketch (client/sketch/ddsketch.go) and the server's reading of *)
(* it (storage/sketch.go).  A latency is its bucket index; the domain is      *)
(* MinIndex .. MaxIndex, and what the logarithm does is left out.  A sketch   *)
(* is a function from its buckets, a wire map one from the non-empty ones.    *)
EXTENDS Integers, Sequences, FiniteSets, FiniteSetsExt

CONSTANTS MinIndex, MaxIndex

Domain == MinIndex .. MaxIndex

EmptySketch == [i \in Domain |-> 0]

clamp(i) == IF i < MinIndex THEN MinIndex ELSE IF i > MaxIndex THEN MaxIndex ELSE i

Add(s, i) == [s EXCEPT ![clamp(i)] = @ + 1]

\* Mutant: a bucket of both sketches is taken from the larger one.
MergeMax(s, o) == [i \in Domain |-> IF s[i] > o[i] THEN s[i] ELSE o[i]]

Merge(s, o) == [i \in Domain |-> s[i] + o[i]]

\* Counts in buckets up to k, and all of them.
Cumulative(m, k) == MapThenSumSet(LAMBDA i : m[i], {i \in DOMAIN m : i <= k})

Total(m) == MapThenSumSet(LAMBDA i : m[i], DOMAIN m)

\* Mutant: the rank is rounded down.
quantileRankFloor(q, total) == IF q * total < 100 THEN 1 ELSE (q * total) \div 100

\* ceil(q * total) within 1 .. total; q in hundredths, clamped to 0 .. 100.
quantileRank(q, total) ==
    LET p == IF q < 0 THEN 0 ELSE IF q > 100 THEN 100 ELSE q
        rank == (p * total + 99) \div 100
    IN  IF rank < 1 THEN 1 ELSE IF rank > total THEN total ELSE rank

\* The smallest bucket whose cumulative count reaches the rank; Nothing stands
\* for the 0 of an empty sketch.
Nothing == MinIndex - 1

Quantile(s, q) ==
    IF Total(s) = 0 THEN Nothing
    ELSE Min({i \in Domain : Cumulative(s, i) >= quantileRank(q, Total(s))})

Buckets(s) == [i \in {j \in Domain : s[j] # 0} |-> s[i]]

FromBuckets(m) ==
    [i \in Domain |-> MapThenSumSet(LAMBDA j : m[j], {j \in DOMAIN m : clamp(j) = i})]

\* The client's walk is over the dense domain: a foreign bucket counts towards
\* the total but is never visited.
ClientQuantileFromBuckets(m, q) ==
    LET inside == [i \in DOMAIN m \intersect Domain |-> m[i]]
        reached == {i \in DOMAIN inside : Cumulative(inside, i) >= quantileRank(q, Total(m))}
    IN  IF Total(m) = 0 THEN Nothing ELSE IF reached = {} THEN MaxIndex ELSE Min(reached)

\* The server's walk is over the sorted keys.
QuantileFromBuckets(m, q) ==
    LET ceil == (q * Total(m) + 99) \div 100
        rank == IF ceil < 1 THEN 1 ELSE IF ceil > Total(m) THEN Total(m) ELSE ceil
    IN  IF Total(m) = 0 THEN Nothing
        ELSE Min({i \in DOMAIN m : Cumulative(m, i) >= rank})
-----------------------------------------------------------------------------
SketchOf(samples) ==
    [i \in Domain |-> Cardinality({k \in DOMAIN samples : clamp(samples[k]) = i})]

Recorded(samples) ==
    LET added[n \in 0 .. Len(samples)] ==
            IF n = 0 THEN EmptySketch ELSE Add(added[n - 1], samples[n])
    IN  added[Len(samples)]

\* The value a sorted list has at the rank, the reference for a percentile.
SortedAt(samples, q) ==
    LET n == Len(samples)
        Below(v) == Cardinality({k \in 1 .. n : clamp(samples[k]) <= v})
    IN  CHOOSE v \in {clamp(samples[k]) : k \in 1 .. n} :
            /\ 100 * Below(v) >= q * n /\ Below(v) >= 1
            /\ \A w \in {clamp(samples[k]) : k \in 1 .. n} :
                   w < v => 100 * Below(w) < q * n

\* "merging is equivalent to feeding all observations to a single sketch", and
\* the four definitions of a percentile (the sketch's, the client's and the
\* server's over the wire map, and the rank of the sorted latencies) agree, for
\* two windows shipped separately and merged by the server.
PercentilesAgree(a, b, q) ==
    LET merged == Merge(Recorded(a), Recorded(b))
        wire == Buckets(merged)
    IN  /\ merged = Recorded(a \o b)
        /\ FromBuckets(wire) = merged
        /\ a \o b = << >> => Quantile(merged, q) = Nothing
        /\ a \o b # << >> => Quantile(merged, q) = SortedAt(a \o b, q)
        /\ ClientQuantileFromBuckets(wire, q) = Quantile(merged, q)
        /\ QuantileFromBuckets(wire, q) = Quantile(merged, q)

\* "agrees exactly on the same data", for a map with buckets of another domain.
BucketsAgree(m, q) == ClientQuantileFromBuckets(m, q) = Quantile(FromBuckets(m), q)
=============================================================================
