---------------------------- MODULE QueryProofs ----------------------------
(***************************************************************************)
(* Proofs about what the collector stores and shows, and about the buffer  *)
(* that uploads to it.                                                     *)
(*                                                                         *)
(* Rollups and Queries: the answers of the data plane are exact, for any   *)
(* traffic, retentions and ranges and any nested widths.  RollupsInv says  *)
(* which row of a tier holds each request; AnswerAlike turns it into the   *)
(* same series, hence the same groups, as the requests themselves give.    *)
(*                                                                         *)
(* buffer.Ring implements the drop-oldest queue for every capacity.  The   *)
(* one inductive invariant is TypeOK with LiveSlotsOnly; the rest is       *)
(* arithmetic on slots modulo the array's length, which the lemmas below   *)
(* turn into additions and one subtraction.                                *)
(***************************************************************************)
EXTENDS Queries, Ring, FiniteSetTheorems, WellFoundedInduction, TLAPS

-----------------------------------------------------------------------------
(* Buckets.                                                                   *)

(* Comparing multiples of a width compares the factors *)
LEMMA FactorsCompare ==
    \A w, x, y \in Nat : w > 0 /\ w * x < w * y + w => x <= y
  <1> SUFFICES ASSUME NEW w \in Nat, NEW x \in Nat, NEW y \in Nat, w > 0, x > y
               PROVE  w * x >= w * y + w
    OBVIOUS
  <1>1. x - y - 1 \in Nat /\ x = y + 1 + (x - y - 1)
    OBVIOUS
  <1>2. w * (x - y - 1) >= 0
    BY <1>1
  <1>3. w * x = w * y + w + w * (x - y - 1)
    OBVIOUS
  <1> QED BY <1>2, <1>3

(* Factors in order give multiples in order *)
LEMMA MultiplesOrdered ==
    \A w, x, y \in Nat : x <= y => w * x <= w * y
  <1> SUFFICES ASSUME NEW w \in Nat, NEW x \in Nat, NEW y \in Nat, x <= y
               PROVE  w * x <= w * y
    OBVIOUS
  <1>1. w * (y - x) >= 0
    OBVIOUS
  <1>2. w * y = w * x + w * (y - x)
    OBVIOUS
  <1> QED BY <1>1, <1>2

(* The bucket of an instant: the last multiple of the width before it *)
LEMMA FloorIs ==
    ASSUME NEW t \in Nat, NEW w \in Nat \ {0}
    PROVE  /\ t \div w \in Nat /\ Floor(t, w) \in Nat /\ Floor(t, w) = w * (t \div w)
           /\ Floor(t, w) <= t /\ t < Floor(t, w) + w
  BY DEF Floor

(* There is one such multiple *)
LEMMA FloorUnique ==
    ASSUME NEW t \in Nat, NEW w \in Nat \ {0}, NEW q \in Nat, w * q <= t, t < w * q + w
    PROVE  Floor(t, w) = w * q
  <1> DEFINE p == t \div w
  <1>1. p \in Nat /\ Floor(t, w) = w * p /\ w * p <= t /\ t < w * p + w
    BY FloorIs
  <1> HIDE DEF p
  <1>2. w * p \in Nat /\ w * q \in Nat /\ w > 0
    BY <1>1
  <1>3. w * p < w * q + w /\ w * q < w * p + w
    BY <1>1, <1>2
  <1>4. p <= q /\ q <= p
    BY <1>1, <1>2, <1>3, FactorsCompare
  <1> QED BY <1>1, <1>4

(* A view over a rollup buckets as a view over the raw rows would *)
LEMMA FloorNested ==
    ASSUME NEW t \in Nat, NEW v \in Nat \ {0}, NEW w \in Nat \ {0}, w % v = 0
    PROVE  Floor(Floor(t, v), w) = Floor(t, w)
  <1> DEFINE k == w \div v
             q == t \div w
             p == t \div v
             s == Floor(t, v)
  <1>1. k \in Nat /\ w = v * k
    OBVIOUS
  <1>2. q \in Nat /\ Floor(t, w) = w * q /\ w * q <= t /\ t < w * q + w
    BY FloorIs
  <1>3. p \in Nat /\ s \in Nat /\ s = v * p /\ s <= t /\ t < v * p + v
    BY FloorIs
  <1> HIDE DEF k, q, p, s
  <1>4. k * q \in Nat /\ w * q = v * (k * q)
    BY <1>1, <1>2
  <1>5. v * (k * q) < v * p + v
    BY <1>2, <1>3, <1>4
  <1>6. k * q <= p
    BY <1>3, <1>4, <1>5, FactorsCompare
  <1>7. v * (k * q) <= v * p
    BY <1>3, <1>4, <1>6, MultiplesOrdered
  <1>8. w * q <= s /\ s < w * q + w
    BY <1>2, <1>3, <1>4, <1>7
  <1>9. Floor(s, w) = w * q
    <2>1. \A x \in Nat, y \in Nat : w * y <= x /\ x < w * y + w => Floor(x, w) = w * y
      BY FloorUnique
    <2> QED BY <1>2, <1>3, <1>8, <2>1
  <1> QED BY <1>2, <1>9 DEF s

(* Later instants have later buckets *)
LEMMA FloorGrows ==
    ASSUME NEW s \in Nat, NEW t \in Nat, s <= t, NEW w \in Nat \ {0}
    PROVE  Floor(s, w) <= Floor(t, w)
  <1> DEFINE q == s \div w
             p == t \div w
  <1>1. q \in Nat /\ Floor(s, w) = w * q /\ w * q <= s
    BY FloorIs
  <1>2. p \in Nat /\ Floor(t, w) = w * p /\ t < w * p + w
    BY FloorIs
  <1> HIDE DEF q, p
  <1>3. w * q < w * p + w
    BY <1>1, <1>2
  <1>4. q <= p
    BY <1>1, <1>2, <1>3, FactorsCompare
  <1> QED BY <1>1, <1>2, <1>4, MultiplesOrdered

(* The buckets that start at or after an instant are those of the instants *)
(* from its rounding up on                                                 *)
LEMMA CeilFloor ==
    ASSUME NEW a \in Nat, NEW t \in Nat, NEW w \in Nat \ {0}
    PROVE  /\ Ceil(a, w) \in Nat
           /\ a <= Floor(t, w) <=> Ceil(a, w) <= t
  <1> DEFINE q == (a + w - 1) \div w
             p == t \div w
  <1>1. q \in Nat /\ Ceil(a, w) = w * q /\ Ceil(a, w) \in Nat /\ w * q <= a + w - 1 /\ a + w - 1 < w * q + w
    <2> DEFINE b == a + w - 1
    <2>1. b \in Nat
      OBVIOUS
    <2>2. Ceil(a, w) = Floor(b, w)
      BY DEF Ceil
    <2> HIDE DEF b
    <2>3. b \div w \in Nat /\ Floor(b, w) \in Nat /\ Floor(b, w) = w * (b \div w) /\ Floor(b, w) <= b /\ b < Floor(b, w) + w
      BY <2>1, FloorIs
    <2> QED BY <2>2, <2>3 DEF b
  <1>2. p \in Nat /\ Floor(t, w) = w * p /\ w * p <= t /\ t < w * p + w
    BY FloorIs
  <1> HIDE DEF q, p
  <1>3. ASSUME a <= w * p PROVE w * q <= t
    <2>1. w * q < w * p + w
      BY <1>1, <1>2, <1>3
    <2>2. q <= p
      BY <1>1, <1>2, <2>1, FactorsCompare
    <2>3. w * q <= w * p
      BY <1>1, <1>2, <2>2, MultiplesOrdered
    <2> QED BY <1>1, <1>2, <2>3
  <1>4. ASSUME w * q <= t PROVE a <= w * p
    <2>1. w * q < w * p + w
      BY <1>1, <1>2, <1>4
    <2>2. q <= p
      BY <1>1, <1>2, <2>1, FactorsCompare
    <2>3. w * q <= w * p
      BY <1>1, <1>2, <2>2, MultiplesOrdered
    <2> QED BY <1>1, <1>2, <2>3
  <1> QED BY <1>1, <1>2, <1>3, <1>4

-----------------------------------------------------------------------------
(* What the tables hold.                                                      *)

IngestedRequest == {[tenant |-> x.tenant, of |-> x.of, t |-> n] : x \in Traffic, n \in Nat}

StoredRow == [tenant : Tenants, of : {x.of : x \in Traffic}, start : Nat, end : Nat, ids : SUBSET Nat]

RollupsTypeOK ==
    /\ now \in Nat
    /\ ingested \in Seq(IngestedRequest)
    /\ table \in [Tables -> SUBSET StoredRow]
    /\ \A t \in Tables : IsFiniteSet(table[t])

(* The columns of the sort key next to the tenant and the bucket *)
Columns == {"service", "ep", "class", "inst", "ver"}

SameSeries(a, b) == \A c \in Columns : a[c] = b[c]

(* What is ingested is ahead of the clock by the tolerance at most *)
Past == \A i \in DOMAIN ingested : ingested[i].t <= now + Skew

(* Request i has the row's tenant, series and bucket, and ended in or before *)
(* the row's end                                                             *)
Belongs(i, r, tier) ==
    /\ ingested[i].tenant = r.tenant
    /\ SameSeries(ingested[i].of, r.of)
    /\ Floor(ingested[i].t, Width[tier]) = r.start
    /\ Floor(ingested[i].t + 1, Width[tier]) <= r.end

(* A row stands for requests that belong to it, and ends where one of them does *)
RowFaithful(r, tier) ==
    /\ r.ids # {} /\ r.ids \subseteq DOMAIN ingested
    /\ \A i \in r.ids : Belongs(i, r, tier)
    /\ \E i \in r.ids : r.end = Floor(ingested[i].t + 1, Width[tier])

(* The rows of a tier are faithful; a request is in one of them unless its    *)
(* bucket has reached the TTL, and in no second one                           *)
TierInv(tier, rows) ==
    /\ \A r \in rows : RowFaithful(r, tier)
    /\ \A i \in DOMAIN ingested :
           Floor(ingested[i].t, Width[tier]) + TTL[tier] > now => \E r \in rows : i \in r.ids
    /\ \A a, b \in rows : a.ids \intersect b.ids # {} => a = b

RollupsInv == RollupsTypeOK /\ Past /\ \A tier \in Tiers : TierInv(tier, table[tier])

(* Before the first insert every table is empty. *)
LEMMA RollupsInvInit == RollupsInit => RollupsInv
  <1> SUFFICES ASSUME RollupsInit PROVE RollupsInv
    OBVIOUS
  <1>1. now = 0 /\ ingested = << >> /\ DOMAIN ingested = {} /\ table = [t \in Tables |-> {}]
    BY DEF RollupsInit
  <1>2. \A t \in Tables : table[t] = {}
    BY <1>1
  <1>3. Tiers \subseteq Tables
    BY DEF Tables
  <1>4. RollupsTypeOK
    BY <1>1, <1>2, FS_EmptySet DEF RollupsTypeOK
  <1>5. Past
    BY <1>1 DEF Past
  <1>6. \A tier \in Tiers : TierInv(tier, table[tier])
    BY <1>1, <1>2, <1>3 DEF TierInv
  <1> QED BY <1>4, <1>5, <1>6 DEF RollupsInv

(* The row an insert adds to a tier, directly or through the views *)
IsRowOf(row, x, start, tier) ==
    /\ row \in StoredRow /\ row.tenant = x.tenant /\ row.of = x.of /\ row.ids = {Len(ingested) + 1}
    /\ row.start = Floor(start, Width[tier]) /\ row.end = Floor(start + 1, Width[tier])

Rebucket(r, s, e) == [r EXCEPT !.start = s, !.end = e]

Rebucketing(q, r, s, e) ==
    /\ q \in StoredRow /\ q.tenant = r.tenant /\ q.of = r.of /\ q.ids = r.ids
    /\ q.start = s /\ q.end = e

(* A view replaces the start and the end of a row *)
LEMMA Rebucketed ==
    ASSUME NEW r \in StoredRow, NEW s \in Nat, NEW e \in Nat, NEW q, q = Rebucket(r, s, e)
    PROVE  Rebucketing(q, r, s, e)
  BY DEF StoredRow, Rebucket, Rebucketing

(* Each view buckets the row of the tier below it: the widths being nested, *)
(* the row it adds is the raw row's own bucket.                              *)
LEMMA InsertAdds ==
    ASSUME RollupsTypeOK, NEW x \in Traffic, NEW start \in Nat, InsertSummary(x, start)
    PROVE  /\ \A tier \in Tiers : \E row : IsRowOf(row, x, start, tier) /\ table'[tier] = table[tier] \union {row}
           /\ \E row \in StoredRow : table'["windows"] = table["windows"] \union {row}
           /\ table' = [t \in Tables |-> table'[t]]
  <1> DEFINE raw == [tenant |-> x.tenant, of |-> x.of, start |-> start, end |-> start + 1,
                     ids |-> {Len(ingested) + 1}]
             minute == MinuteView(raw)
             hour == HourView(minute)
             day == DayView(hour)
             w(t) == Width[t]
  <1>1. /\ w("raw") = 1 /\ \A t \in Tiers : w(t) \in Nat \ {0}
        /\ w("1h") % w("1m") = 0 /\ w("1d") % w("1h") = 0
    BY NestedWidths DEF Tiers
  <1>2. start \in Nat /\ start + 1 \in Nat /\ Len(ingested) + 1 \in Nat
    BY DEF RollupsTypeOK
  <1>3. IsRowOf(raw, x, start, "raw")
    <2>1. Floor(start, w("raw")) = start /\ Floor(start + 1, w("raw")) = start + 1
      BY <1>1, <1>2 DEF Floor
    <2>2. x.tenant \in Tenants /\ x.of \in {y.of : y \in Traffic} /\ {Len(ingested) + 1} \in SUBSET Nat
      BY <1>2 DEF Tenants
    <2>3. raw \in StoredRow
      BY <1>2, <2>2 DEF StoredRow
    <2> QED BY <2>1, <2>3 DEF IsRowOf
  <1>4. ASSUME NEW t \in Tiers PROVE Floor(start, w(t)) \in Nat /\ Floor(start + 1, w(t)) \in Nat
    BY <1>1, <1>2, FloorIs
  <1> HIDE DEF raw
  <1>5. IsRowOf(minute, x, start, "1m")
    <2>0. raw \in StoredRow
      BY <1>3 DEF IsRowOf
    <2>1. raw.start = start /\ raw.end = start + 1
      BY DEF raw
    <2>2. Floor(start, w("1m")) \in Nat /\ Floor(start + 1, w("1m")) \in Nat
      BY <1>4 DEF Tiers
    <2>3. minute = Rebucket(raw, Floor(start, w("1m")), Floor(start + 1, w("1m")))
      BY <2>1 DEF MinuteView, Rebucket
    <2> DEFINE s == Floor(start, w("1m"))
               e == Floor(start + 1, w("1m"))
    <2>4. minute \in StoredRow /\ minute.tenant = raw.tenant /\ minute.of = raw.of /\ minute.ids = raw.ids
          /\ minute.start = s /\ minute.end = e
      <3>1. raw \in StoredRow /\ s \in Nat /\ e \in Nat /\ minute = Rebucket(raw, s, e)
        BY <2>0, <2>2, <2>3
      <3> HIDE DEF minute, s, e
      <3>2. Rebucketing(minute, raw, s, e)
        BY <3>1, Rebucketed
      <3> QED BY <3>2 DEF Rebucketing
    <2> HIDE DEF minute
    <2> QED BY <1>3, <2>4 DEF IsRowOf
  <1> HIDE DEF minute
  <1>6. IsRowOf(hour, x, start, "1h")
    <2>1. Floor(Floor(start, w("1m")), w("1h")) = Floor(start, w("1h"))
      BY <1>1, <1>2, FloorNested DEF Tiers
    <2>2. Floor(Floor(start + 1, w("1m")), w("1h")) = Floor(start + 1, w("1h"))
      BY <1>1, <1>2, FloorNested DEF Tiers
    <2>3. Floor(start, w("1h")) \in Nat /\ Floor(start + 1, w("1h")) \in Nat
      BY <1>4 DEF Tiers
    <2>4. minute \in StoredRow /\ minute.start = Floor(start, w("1m")) /\ minute.end = Floor(start + 1, w("1m"))
      BY <1>5 DEF IsRowOf
    <2>5. hour = Rebucket(minute, Floor(start, w("1h")), Floor(start + 1, w("1h")))
      BY <2>1, <2>2, <2>4 DEF HourView, Rebucket
    <2> HIDE DEF hour
    <2> DEFINE s == Floor(start, w("1h"))
               e == Floor(start + 1, w("1h"))
    <2>6. hour \in StoredRow /\ hour.tenant = minute.tenant /\ hour.of = minute.of /\ hour.ids = minute.ids
          /\ hour.start = s /\ hour.end = e
      <3>1. minute \in StoredRow /\ s \in Nat /\ e \in Nat /\ hour = Rebucket(minute, s, e)
        BY <2>3, <2>4, <2>5
      <3> HIDE DEF s, e
      <3>2. Rebucketing(hour, minute, s, e)
        BY <3>1, Rebucketed
      <3> QED BY <3>2 DEF Rebucketing
    <2> QED BY <1>5, <2>6 DEF IsRowOf
  <1> HIDE DEF hour
  <1>7. IsRowOf(day, x, start, "1d")
    <2>1. Floor(Floor(start, w("1h")), w("1d")) = Floor(start, w("1d"))
      BY <1>1, <1>2, FloorNested DEF Tiers
    <2>2. Floor(Floor(start + 1, w("1h")), w("1d")) = Floor(start + 1, w("1d"))
      BY <1>1, <1>2, FloorNested DEF Tiers
    <2>3. Floor(start, w("1d")) \in Nat /\ Floor(start + 1, w("1d")) \in Nat
      BY <1>4 DEF Tiers
    <2>4. hour \in StoredRow /\ hour.start = Floor(start, w("1h")) /\ hour.end = Floor(start + 1, w("1h"))
      BY <1>6 DEF IsRowOf
    <2>5. day = Rebucket(hour, Floor(start, w("1d")), Floor(start + 1, w("1d")))
      BY <2>1, <2>2, <2>4 DEF DayView, Rebucket
    <2> HIDE DEF day
    <2> DEFINE s == Floor(start, w("1d"))
               e == Floor(start + 1, w("1d"))
    <2>6. day \in StoredRow /\ day.tenant = hour.tenant /\ day.of = hour.of /\ day.ids = hour.ids
          /\ day.start = s /\ day.end = e
      <3>1. hour \in StoredRow /\ s \in Nat /\ e \in Nat /\ day = Rebucket(hour, s, e)
        BY <2>3, <2>4, <2>5
      <3> HIDE DEF s, e
      <3>2. Rebucketing(day, hour, s, e)
        BY <3>1, Rebucketed
      <3> QED BY <3>2 DEF Rebucketing
    <2> QED BY <1>6, <2>6 DEF IsRowOf
  <1>8. table' = [t \in Tables |-> table[t] \union
                    {CASE t \in {"raw", "windows"} -> raw
                       [] t = "1m" -> minute
                       [] t = "1h" -> hour
                       [] t = "1d" -> day}]
    BY DEF InsertSummary, raw, minute, hour
  <1> HIDE DEF day
  <1>9. /\ table'["raw"] = table["raw"] \union {raw}
        /\ table'["windows"] = table["windows"] \union {raw}
        /\ table'["1m"] = table["1m"] \union {minute}
        /\ table'["1h"] = table["1h"] \union {hour}
        /\ table'["1d"] = table["1d"] \union {day}
    BY <1>8 DEF Tables, Tiers
  <1>10. table' = [t \in Tables |-> table'[t]]
    BY <1>8
  <1>11. raw \in StoredRow
    BY <1>3 DEF IsRowOf
  <1>12. ASSUME NEW tier \in Tiers
         PROVE  \E row : IsRowOf(row, x, start, tier) /\ table'[tier] = table[tier] \union {row}
    BY <1>3, <1>5, <1>6, <1>7, <1>9 DEF Tiers
  <1> QED BY <1>9, <1>10, <1>11, <1>12

(* What an insert does to the history *)
LEMMA InsertExtends ==
    ASSUME RollupsTypeOK, NEW x \in Traffic, NEW start \in Nat, InsertSummary(x, start)
    PROVE  /\ now' = now /\ Len(ingested) \in Nat
           /\ DOMAIN ingested = 1 .. Len(ingested) /\ DOMAIN ingested' = 1 .. (Len(ingested) + 1)
           /\ ingested' \in Seq(IngestedRequest)
           /\ \A i \in DOMAIN ingested : ingested'[i] = ingested[i] /\ ingested[i] \in IngestedRequest
           /\ ingested'[Len(ingested) + 1] = [tenant |-> x.tenant, of |-> x.of, t |-> start]
  <1> DEFINE q == [tenant |-> x.tenant, of |-> x.of, t |-> start]
  <1>1. q \in IngestedRequest
    BY DEF IngestedRequest, RollupsTypeOK
  <1>2. ingested' = Append(ingested, q) /\ now' = now
    BY DEF InsertSummary
  <1> HIDE DEF q
  <1>3. ingested \in Seq(IngestedRequest)
    BY DEF RollupsTypeOK
  <1> QED BY <1>1, <1>2, <1>3 DEF q

(* What the type says of a tier and of a request *)
LEMMA Typed ==
    ASSUME RollupsTypeOK
    PROVE  /\ now \in Nat
           /\ \A tier \in Tiers : /\ tier \in Tables /\ Width[tier] \in Nat \ {0} /\ TTL[tier] \in Nat
                                  /\ table[tier] \subseteq StoredRow
           /\ \A i \in DOMAIN ingested : ingested[i].t \in Nat
  <1>1. \A tier \in Tiers : /\ tier \in Tables /\ Width[tier] \in Nat \ {0} /\ TTL[tier] \in Nat
                            /\ table[tier] \subseteq StoredRow
    BY NestedWidths DEF RollupsTypeOK, Tables
  <1>2. \A i \in DOMAIN ingested : ingested[i] \in IngestedRequest
    BY DEF RollupsTypeOK
  <1>3. \A i \in DOMAIN ingested : ingested[i].t \in Nat
    BY <1>2 DEF IngestedRequest
  <1> QED BY <1>1, <1>3 DEF RollupsTypeOK

(* An insert adds to every tier a row of a request no other row stands for. *)
LEMMA InsertKeeps ==
    ASSUME RollupsInv, NEW x \in Traffic, NEW start \in Nat, InsertSummary(x, start)
    PROVE  RollupsInv'
  <1>1. RollupsTypeOK /\ Past /\ \A tier \in Tiers : TierInv(tier, table[tier])
    BY DEF RollupsInv
  <1>2a. PICK n : n = Len(ingested) + 1
    OBVIOUS
  <1>2. /\ \A tier \in Tiers : \E row : IsRowOf(row, x, start, tier) /\ table'[tier] = table[tier] \union {row}
        /\ \E row \in StoredRow : table'["windows"] = table["windows"] \union {row}
        /\ table' = [t \in Tables |-> table'[t]]
    BY <1>1, InsertAdds
  <1>3. /\ now' = now /\ n \in Nat /\ n \notin DOMAIN ingested /\ DOMAIN ingested' = DOMAIN ingested \union {n}
        /\ ingested' \in Seq(IngestedRequest)
        /\ \A i \in DOMAIN ingested : ingested'[i] = ingested[i]
        /\ ingested'[n].tenant = x.tenant /\ ingested'[n].of = x.of /\ ingested'[n].t = start
    <2>1. \A k \in Nat : k + 1 \in Nat /\ k + 1 \notin 1 .. k /\ 1 .. (k + 1) = (1 .. k) \union {k + 1}
      OBVIOUS
    <2>2. ingested'[n] = [tenant |-> x.tenant, of |-> x.of, t |-> start] /\ now' = now
      BY <1>2a, <1>1, InsertExtends
    <2>3. ingested' \in Seq(IngestedRequest) /\ \A i \in DOMAIN ingested : ingested'[i] = ingested[i]
      BY <1>1, InsertExtends
    <2>4. n \in Nat /\ n \notin DOMAIN ingested /\ DOMAIN ingested' = DOMAIN ingested \union {n}
      BY <1>2a, <1>1, <2>1, InsertExtends
    <2> QED BY <2>2, <2>3, <2>4
  <1>4. /\ now \in Nat /\ start + 1 \in Nat
        /\ \A tier \in Tiers : tier \in Tables /\ Width[tier] \in Nat \ {0}
    BY <1>1, Typed
  <1>7. RollupsTypeOK'
    <2>1. \A t \in Tables : t \in Tiers \/ t = "windows"
      BY DEF Tables
    <2>2. ASSUME NEW t \in Tables PROVE table'[t] \subseteq StoredRow /\ IsFiniteSet(table'[t])
      <3>1. PICK row \in StoredRow : table'[t] = table[t] \union {row}
        BY <1>2, <2>1 DEF IsRowOf
      <3>2. table[t] \subseteq StoredRow /\ IsFiniteSet(table[t])
        BY <1>1 DEF RollupsTypeOK
      <3> QED BY <3>1, <3>2, FS_AddElement
    <2>3. table' \in [Tables -> SUBSET StoredRow]
      BY <1>2, <2>2
    <2> QED BY <1>3, <1>4, <2>2, <2>3 DEF RollupsTypeOK
  <1>8. Past'
    <2>1. start <= now + Skew
      BY <1>4, NestedWidths DEF InsertSummary, Accepted
    <2> QED BY <1>1, <1>3, <2>1 DEF Past
  <1>9. ASSUME NEW tier \in Tiers PROVE TierInv(tier, table[tier])'
    <2>1. TierInv(tier, table[tier])
      BY <1>1
    <2>2. PICK new : IsRowOf(new, x, start, tier) /\ table'[tier] = table[tier] \union {new}
      BY <1>2
    <2>3. /\ new.tenant = x.tenant /\ new.of = x.of /\ new.start = Floor(start, Width[tier])
          /\ new.end = Floor(start + 1, Width[tier]) /\ new.ids = {n}
      BY <1>2a, <2>2 DEF IsRowOf
    <2>4. ASSUME NEW r \in table[tier] PROVE RowFaithful(r, tier)' /\ n \notin r.ids
      <3>1. RowFaithful(r, tier)
        BY <2>1 DEF TierInv
      <3> QED BY <1>3, <3>1 DEF RowFaithful, Belongs
    <2>5. RowFaithful(new, tier)'
      <3>1. Floor(start + 1, Width[tier]) \in Nat
        BY <1>4, FloorIs
      <3>2. SameSeries(x.of, x.of)
        BY DEF SameSeries
      <3>3. \A k \in Nat : k <= k
        OBVIOUS
      <3>4. Belongs(n, new, tier)'
        BY <1>3, <2>3, <3>1, <3>2, <3>3 DEF Belongs
      <3>5. n \in DOMAIN ingested' /\ new.end = Floor(ingested'[n].t + 1, Width[tier])
        BY <1>3, <2>3
      <3> QED BY <2>3, <3>4, <3>5 DEF RowFaithful
    <2>6. ASSUME NEW i \in DOMAIN ingested', Floor(ingested'[i].t, Width[tier]) + TTL[tier] > now
          PROVE  \E r \in table'[tier] : i \in r.ids
      <3>1. CASE i = n
        BY <2>2, <2>3, <3>1
      <3>2. CASE i \in DOMAIN ingested
        BY <1>3, <2>1, <2>2, <2>6, <3>2 DEF TierInv
      <3> QED BY <1>3, <3>1, <3>2
    <2>7. ASSUME NEW a \in table'[tier], NEW b \in table'[tier], a.ids \intersect b.ids # {} PROVE a = b
      <3>1. CASE a \in table[tier] /\ b \in table[tier]
        BY <2>1, <2>7, <3>1 DEF TierInv
      <3>2. CASE a = new \/ b = new
        BY <2>2, <2>3, <2>4, <2>7, <3>2
      <3> QED BY <2>2, <3>1, <3>2
    <2>8. ASSUME NEW r \in table'[tier] PROVE RowFaithful(r, tier)'
      <3>1. CASE r \in table[tier]
        BY <2>4, <3>1
      <3>2. CASE r = new
        BY <2>5, <3>2
      <3> QED BY <2>2, <3>1, <3>2
    <2> QED BY <1>3, <2>6, <2>7, <2>8 DEF TierInv
  <1> QED BY <1>7, <1>8, <1>9 DEF RollupsInv

(* A step that changes one table alone keeps what is said of the others. *)
LEMMA OneTable ==
    ASSUME RollupsInv, NEW t \in Tables, NEW rows \in SUBSET StoredRow, IsFiniteSet(rows),
           table' = [table EXCEPT ![t] = rows], UNCHANGED <<now, ingested>>,
           t \in Tiers => TierInv(t, rows)
    PROVE  RollupsInv'
  <1>1. RollupsTypeOK /\ Past /\ \A tier \in Tiers : TierInv(tier, table[tier])
    BY DEF RollupsInv
  <1>2. now' = now /\ ingested' = ingested
    OBVIOUS
  <1>3. table \in [Tables -> SUBSET StoredRow] /\ Tiers \subseteq Tables
    BY <1>1 DEF RollupsTypeOK, Tables
  <1>4. table' \in [Tables -> SUBSET StoredRow] /\ \A u \in Tables : table'[u] = IF u = t THEN rows ELSE table[u]
    BY <1>3
  <1>5. RollupsTypeOK'
    BY <1>1, <1>2, <1>4 DEF RollupsTypeOK
  <1>6. Past'
    BY <1>1, <1>2 DEF Past
  <1>7. ASSUME NEW tier \in Tiers PROVE TierInv(tier, table[tier])'
    <2>1. TierInv(tier, table'[tier])
      BY <1>1, <1>3, <1>4
    <2> QED BY <1>2, <2>1 DEF TierInv, RowFaithful, Belongs
  <1> QED BY <1>5, <1>6, <1>7 DEF RollupsInv

(* The row two merged rows become: one key, the requests of both *)
MergedRow(a, b) ==
    [a EXCEPT !.ids = @ \union b.ids, !.end = IF b.end > @ THEN b.end ELSE @]

(* A merge keeps a tier's rows faithful, because rows that agree on the sort *)
(* key are of one tenant, series and bucket.                                 *)
LEMMA MergeTier ==
    ASSUME RollupsTypeOK, NEW tier \in Tiers, NEW rows \in SUBSET StoredRow, TierInv(tier, rows),
           NEW a \in rows, NEW b \in rows, a # b, SortKey(a) = SortKey(b)
    PROVE  /\ MergedRow(a, b) \in StoredRow
           /\ TierInv(tier, (rows \ {a, b}) \union {MergedRow(a, b)})
  <1> DEFINE m == MergedRow(a, b)
             left == rows \ {a, b}
  <1>1. a \in StoredRow /\ b \in StoredRow
    OBVIOUS
  <1>2. /\ m.tenant = a.tenant /\ m.of = a.of /\ m.start = a.start /\ m.ids = a.ids \union b.ids
        /\ m.end = (IF b.end > a.end THEN b.end ELSE a.end)
    BY <1>1 DEF MergedRow, StoredRow
  <1>3. m \in StoredRow /\ a.end \in Nat /\ b.end \in Nat
    BY <1>1 DEF MergedRow, StoredRow
  <1>4. a.tenant = b.tenant /\ SameSeries(a.of, b.of) /\ a.start = b.start
    BY DEF SortKey, SameSeries, Columns
  <1>5. RowFaithful(a, tier) /\ RowFaithful(b, tier)
    BY DEF TierInv
  <1> HIDE DEF m
  <1>6. RowFaithful(m, tier)
    <2>1. m.ids # {} /\ m.ids \subseteq DOMAIN ingested
      BY <1>2, <1>5 DEF RowFaithful
    <2>2. m.end >= a.end /\ m.end >= b.end /\ (m.end = a.end \/ m.end = b.end)
      BY <1>2, <1>3
    <2>3. ASSUME NEW i \in m.ids PROVE Belongs(i, m, tier) /\ Floor(ingested[i].t + 1, Width[tier]) \in Nat
      <3>1. i \in DOMAIN ingested
        BY <2>1
      <3>2. Floor(ingested[i].t + 1, Width[tier]) \in Nat
        <4>1. ingested[i].t + 1 \in Nat /\ Width[tier] \in Nat \ {0}
          BY <3>1, Typed
        <4> QED BY <4>1, FloorIs
      <3>3. CASE i \in a.ids
        <4>1. Belongs(i, a, tier)
          BY <1>5, <3>3 DEF RowFaithful
        <4> QED BY <1>2, <1>3, <2>2, <3>2, <4>1 DEF Belongs
      <3>4. CASE i \in b.ids
        <4>1. Belongs(i, b, tier)
          BY <1>5, <3>4 DEF RowFaithful
        <4> QED BY <1>2, <1>3, <1>4, <2>2, <3>2, <4>1 DEF Belongs, SameSeries
      <3> QED BY <1>2, <3>3, <3>4
    <2>4. \E i \in m.ids : m.end = Floor(ingested[i].t + 1, Width[tier])
      BY <1>2, <1>5, <2>2 DEF RowFaithful
    <2> QED BY <2>1, <2>3, <2>4 DEF RowFaithful
  <1>7. ASSUME NEW i, \E r \in rows : i \in r.ids PROVE \E r \in left \union {m} : i \in r.ids
    BY <1>2, <1>7
  <1>8. ASSUME NEW c \in left \union {m}, NEW d \in left \union {m}, c.ids \intersect d.ids # {} PROVE c = d
    <2>1. \A e, f \in rows : e.ids \intersect f.ids # {} => e = f
      BY DEF TierInv
    <2>2. CASE c \in left /\ d \in left
      BY <1>8, <2>1, <2>2
    <2>3. ASSUME NEW e \in left, e.ids \intersect m.ids # {} PROVE FALSE
      BY <1>2, <2>1, <2>3
    <2> QED BY <1>8, <2>2, <2>3
  <1>9. TierInv(tier, left \union {m})
    <2>1. \A r \in left \union {m} : RowFaithful(r, tier)
      BY <1>6 DEF TierInv
    <2>2. \A i \in DOMAIN ingested :
            Floor(ingested[i].t, Width[tier]) + TTL[tier] > now => \E r \in left \union {m} : i \in r.ids
      BY <1>7 DEF TierInv
    <2> HIDE DEF left
    <2> QED BY <1>8, <2>1, <2>2 DEF TierInv
  <1> QED BY <1>3, <1>9 DEF m

(* A background merge keeps the invariant. *)
LEMMA MergeKeeps ==
    ASSUME RollupsInv, NEW tier \in Tiers, Merge(tier)
    PROVE  RollupsInv'
  <1>1. PICK a \in table[tier], b \in table[tier] :
          /\ a # b /\ SortKey(a) = SortKey(b) /\ UNCHANGED <<now, ingested>>
          /\ table' = [table EXCEPT ![tier] = (table[tier] \ {a, b}) \union {MergedRow(a, b)}]
    BY DEF Merge, MergedRow
  <1> DEFINE rows == (table[tier] \ {a, b}) \union {MergedRow(a, b)}
  <1>2. RollupsTypeOK /\ TierInv(tier, table[tier]) /\ tier \in Tables
    BY DEF RollupsInv, Tables
  <1>3. table[tier] \in SUBSET StoredRow /\ IsFiniteSet(table[tier])
    BY <1>2 DEF RollupsTypeOK
  <1>4. MergedRow(a, b) \in StoredRow /\ TierInv(tier, rows)
    BY <1>1, <1>2, <1>3, MergeTier
  <1>5. rows \in SUBSET StoredRow
    BY <1>3, <1>4
  <1>6. IsFiniteSet(rows)
    <2>1. table[tier] \ {a, b} \in SUBSET table[tier]
      OBVIOUS
    <2>2. IsFiniteSet(table[tier] \ {a, b})
      BY <1>3, <2>1, FS_Subset
    <2> QED BY <2>2, FS_AddElement
  <1>7. table' = [table EXCEPT ![tier] = rows] /\ UNCHANGED <<now, ingested>>
    BY <1>1
  <1> HIDE DEF rows
  <1> QED BY <1>2, <1>4, <1>5, <1>6, <1>7, OneTable

(* Expiry drops whole buckets that have reached their TTL. *)
LEMMA DropKeeps ==
    ASSUME RollupsInv, NEW t \in Tables, DropExpired(t)
    PROVE  RollupsInv'
  <1> DEFINE rows == {r \in table[t] : ~Expired(t, r)}
  <1>1. RollupsTypeOK /\ table[t] \in SUBSET StoredRow /\ IsFiniteSet(table[t])
    BY DEF RollupsInv, RollupsTypeOK
  <1>2. table' = [table EXCEPT ![t] = rows] /\ UNCHANGED <<now, ingested>>
    BY DEF DropExpired
  <1>3. rows \in SUBSET StoredRow /\ rows \in SUBSET table[t]
    BY <1>1
  <1>4. IsFiniteSet(rows)
    BY <1>1, <1>3, FS_Subset
  <1>5. ASSUME t \in Tiers PROVE TierInv(t, rows)
    <2>1. TierInv(t, table[t])
      BY <1>5 DEF RollupsInv
    <2>2. ASSUME NEW i \in DOMAIN ingested, Floor(ingested[i].t, Width[t]) + TTL[t] > now
          PROVE  \E r \in rows : i \in r.ids
      <3>1. PICK r \in table[t] : i \in r.ids
        BY <2>1, <2>2 DEF TierInv
      <3>2. r.start = Floor(ingested[i].t, Width[t])
        BY <2>1, <3>1 DEF TierInv, RowFaithful, Belongs
      <3>3. r.start + TTL[t] > now /\ now \in Nat /\ TTL[t] \in Nat /\ r.start \in Nat
        BY <1>1, <1>5, <2>2, <3>1, <3>2, Typed DEF StoredRow
      <3>4. ~Expired(t, r)
        BY <3>3 DEF Expired
      <3> QED BY <3>1, <3>4
    <2> QED BY <1>3, <2>1, <2>2 DEF TierInv
  <1> HIDE DEF rows
  <1> QED BY <1>2, <1>3, <1>4, <1>5, OneTable

(* Time passes: more buckets may have reached their TTL, none has less. *)
LEMMA ElapseKeeps ==
    ASSUME RollupsInv, Elapse
    PROVE  RollupsInv'
  <1>1. RollupsTypeOK /\ Past /\ \A tier \in Tiers : TierInv(tier, table[tier])
    BY DEF RollupsInv
  <1>2. now' = now + 1 /\ ingested' = ingested /\ table' = table /\ now \in Nat
    BY <1>1 DEF Elapse, RollupsTypeOK
  <1>3. RollupsTypeOK'
    BY <1>1, <1>2 DEF RollupsTypeOK
  <1>4. Past'
    BY <1>1, <1>2, Typed, NestedWidths DEF Past
  <1>5. ASSUME NEW tier \in Tiers PROVE TierInv(tier, table[tier])'
    <2>1. TierInv(tier, table[tier])
      BY <1>1
    <2>2. ASSUME NEW i \in DOMAIN ingested, Floor(ingested[i].t, Width[tier]) + TTL[tier] > now + 1
          PROVE  \E r \in table[tier] : i \in r.ids
      <3>1. Floor(ingested[i].t, Width[tier]) \in Nat /\ TTL[tier] \in Nat
        BY <1>1, Typed, FloorIs
      <3>2. Floor(ingested[i].t, Width[tier]) + TTL[tier] > now
        BY <1>2, <2>2, <3>1
      <3> QED BY <2>1, <3>2 DEF TierInv
    <2> QED BY <1>2, <2>1, <2>2 DEF TierInv, RowFaithful, Belongs
  <1> QED BY <1>3, <1>4, <1>5 DEF RollupsInv

(* The invariant of the data plane: for any traffic, widths and retentions, *)
(* whatever is merged and dropped when, every row stands for requests of its *)
(* own tenant, series and bucket, and every retained request for one row.    *)
THEOREM RollupsFaithful == RollupsSpec => []RollupsInv
  <1>1. RollupsInit => RollupsInv
    BY RollupsInvInit
  <1>2. RollupsInv /\ [RollupsNext]_rollupVars => RollupsInv'
    <2>1. ASSUME RollupsInv, UNCHANGED rollupVars PROVE RollupsInv'
      BY <2>1 DEF rollupVars, RollupsInv, RollupsTypeOK, Past, TierInv, RowFaithful, Belongs
    <2>2. ASSUME RollupsInv, NEW x \in Traffic, NEW start \in 0 .. (now + Skew), InsertSummary(x, start)
          PROVE  RollupsInv'
      <3>1. start \in Nat
        OBVIOUS
      <3> QED BY <2>2, <3>1, InsertKeeps
    <2> QED BY <2>1, <2>2, MergeKeeps, DropKeeps, ElapseKeeps DEF RollupsNext
  <1> QED BY <1>1, <1>2, PTL DEF RollupsSpec

-----------------------------------------------------------------------------
(* The answers.                                                               *)

(* Two sets of rows that stand for the same requests, series by series *)
Alike(A, B) ==
    /\ Ids(A) = Ids(B)
    /\ \A r \in A \union B : r.ids # {}
    /\ \A r \in A, s \in B : r.ids \intersect s.ids # {} => SameSeries(r.of, s.of)

(* They stay alike when both are filtered by the same columns of the series *)
LEMMA AlikeFilter ==
    ASSUME NEW A, NEW B, Alike(A, B), NEW C \in SUBSET A, NEW D \in SUBSET B,
           \A r \in A, s \in B : SameSeries(r.of, s.of) => (r \in C <=> s \in D)
    PROVE  Alike(C, D)
  <1>1. ASSUME NEW i \in Ids(C) PROVE i \in Ids(D)
    <2>1. PICK r \in C : i \in r.ids
      BY DEF Ids
    <2>2. PICK s \in B : i \in s.ids
      BY <2>1 DEF Alike, Ids
    <2>3. r.ids \intersect s.ids # {} /\ r \in A
      BY <2>1, <2>2
    <2>4. SameSeries(r.of, s.of)
      BY <2>2, <2>3 DEF Alike
    <2>5. s \in D
      BY <2>1, <2>2, <2>3, <2>4
    <2> QED BY <2>2, <2>5 DEF Ids
  <1>2. ASSUME NEW i \in Ids(D) PROVE i \in Ids(C)
    <2>1. PICK s \in D : i \in s.ids
      BY DEF Ids
    <2>2. PICK r \in A : i \in r.ids
      BY <2>1 DEF Alike, Ids
    <2>3. r.ids \intersect s.ids # {} /\ s \in B
      BY <2>1, <2>2
    <2>4. SameSeries(r.of, s.of)
      BY <2>2, <2>3 DEF Alike
    <2>5. r \in C
      BY <2>1, <2>2, <2>3, <2>4
    <2> QED BY <2>2, <2>5 DEF Ids
  <1>3. Ids(C) = Ids(D)
    BY <1>1, <1>2
  <1> QED BY <1>3 DEF Alike

(* Each row of the one has a row of its series in the other *)
LEMMA AlikeMeets ==
    ASSUME NEW A, NEW B, Alike(A, B)
    PROVE  /\ \A r \in A : \E s \in B : SameSeries(r.of, s.of)
           /\ \A s \in B : \E r \in A : SameSeries(r.of, s.of)
  <1>1. ASSUME NEW r \in A PROVE \E s \in B : SameSeries(r.of, s.of)
    <2>1. PICK i : i \in r.ids
      BY DEF Alike
    <2>2. PICK s \in B : i \in s.ids
      BY <2>1 DEF Alike, Ids
    <2> QED BY <2>1, <2>2 DEF Alike
  <1>2. ASSUME NEW s \in B PROVE \E r \in A : SameSeries(r.of, s.of)
    <2>1. PICK i : i \in s.ids
      BY DEF Alike
    <2>2. PICK r \in A : i \in r.ids
      BY <2>1 DEF Alike, Ids
    <2> QED BY <2>1, <2>2 DEF Alike
  <1> QED BY <1>1, <1>2

(* Every column of a statistic is a function of the requests *)
LEMMA AlikeStat ==
    ASSUME NEW A, NEW B, Alike(A, B)
    PROVE  Stat(A) = Stat(B)
  <1> DEFINE F(S) == {r \in S : r.of.class \in Failures}
             K(S) == {r \in S : r.of.class = "4XX"}
  <1>1. Ids(A) = Ids(B)
    BY DEF Alike
  <1>2. Count(A) = Count(B)
    BY <1>1 DEF Count
  <1>3. Merged(A) = Merged(B)
    BY <1>1 DEF Merged
  <1>4. \A q : percentileExpr(A, q) = percentileExpr(B, q)
    BY <1>2, <1>3 DEF percentileExpr
  <1>5. Alike(F(A), F(B))
    <2>1. F(A) \in SUBSET A /\ F(B) \in SUBSET B
      OBVIOUS
    <2>2. \A r \in A, s \in B : SameSeries(r.of, s.of) => (r \in F(A) <=> s \in F(B))
      BY DEF SameSeries, Columns
    <2> HIDE DEF F
    <2> QED BY <2>1, <2>2, AlikeFilter
  <1>6. Alike(K(A), K(B))
    <2>1. K(A) \in SUBSET A /\ K(B) \in SUBSET B
      OBVIOUS
    <2>2. \A r \in A, s \in B : SameSeries(r.of, s.of) => (r \in K(A) <=> s \in K(B))
      BY DEF SameSeries, Columns
    <2> HIDE DEF K
    <2> QED BY <2>1, <2>2, AlikeFilter
  <1>7. Count(F(A)) = Count(F(B)) /\ Count(K(A)) = Count(K(B))
    BY <1>5, <1>6 DEF Alike, Count
  <1> QED BY <1>2, <1>4, <1>7 DEF Stat

(* Alike rows have the same groups, with the same statistics *)
LEMMA AlikeGroups ==
    ASSUME NEW A, NEW B, Alike(A, B), NEW c \in Columns
    PROVE  GroupBy(A, c) = GroupBy(B, c)
  <1> DEFINE At(S, v) == {r \in S : r.of[c] = v}
  <1>1. \A r \in A, s \in B : SameSeries(r.of, s.of) => r.of[c] = s.of[c]
    BY DEF SameSeries
  <1>2. {r.of[c] : r \in A} = {r.of[c] : r \in B}
    BY <1>1, AlikeMeets
  <1>3. ASSUME NEW v PROVE Stat(At(A, v)) = Stat(At(B, v))
    <2>1. At(A, v) \in SUBSET A /\ At(B, v) \in SUBSET B
      OBVIOUS
    <2>2. \A r \in A, s \in B : SameSeries(r.of, s.of) => (r \in At(A, v) <=> s \in At(B, v))
      BY <1>1
    <2> HIDE DEF At
    <2>3. Alike(At(A, v), At(B, v))
      BY <2>1, <2>2, AlikeFilter
    <2> QED BY <2>3, AlikeStat
  <1> QED BY <1>2, <1>3 DEF GroupBy

(* Request i is the tenant's and its bucket starts inside the range *)
Asked(i, tenant, from, to) ==
    LET w == Width[SelectTier(from, to)]
    IN  /\ ingested[i].tenant = tenant
        /\ Ceil(from, w) <= ingested[i].t /\ ingested[i].t < Ceil(to, w)

Kept(i, tier) == Floor(ingested[i].t, Width[tier]) + TTL[tier] > now

(* What a query selects stands for requests asked for, and for all of those *)
(* whose bucket has not expired.                                            *)
LEMMA Selected ==
    ASSUME RollupsInv, NEW tenant, NEW from \in Nat, NEW to \in Nat
    PROVE  /\ \A x \in tierQuery(tenant, from, to) :
                  x.ids # {} /\ \A i \in x.ids : /\ i \in DOMAIN ingested /\ Asked(i, tenant, from, to)
                                               /\ SameSeries(x.of, ingested[i].of)
           /\ \A i \in DOMAIN ingested : Asked(i, tenant, from, to) =>
                  /\ from <= Floor(ingested[i].t, Width[SelectTier(from, to)])
                  /\ Floor(ingested[i].t, Width[SelectTier(from, to)]) \in Nat
                  /\ Kept(i, SelectTier(from, to)) => \E x \in tierQuery(tenant, from, to) : i \in x.ids
  <1> DEFINE tier == SelectTier(from, to)
             w == Width[tier]
             A == tierQuery(tenant, from, to)
             In(i) == Asked(i, tenant, from, to)
  <1>1. RollupsTypeOK /\ tier \in Tiers /\ TierInv(tier, table[tier])
    BY DEF RollupsInv, SelectTier, Tiers
  <1>2. w \in Nat \ {0} /\ \A i \in DOMAIN ingested : ingested[i].t \in Nat
    BY <1>1, Typed
  <1>4. A = {x \in table[tier] : x.tenant = tenant /\ from <= x.start /\ x.start < to}
    BY DEF tierQuery, Scan
  <1>5. \A i : In(i) <=> /\ ingested[i].tenant = tenant
                         /\ Ceil(from, w) <= ingested[i].t /\ ingested[i].t < Ceil(to, w)
    BY DEF Asked
  <1> HIDE DEF tier, w, A, In
  <1>6. ASSUME NEW i \in DOMAIN ingested
        PROVE  /\ (from <= Floor(ingested[i].t, w) /\ Floor(ingested[i].t, w) < to)
                   <=> (Ceil(from, w) <= ingested[i].t /\ ingested[i].t < Ceil(to, w))
               /\ Floor(ingested[i].t, w) \in Nat
    <2>1. ingested[i].t \in Nat
      BY <1>2
    <2>2. Ceil(from, w) \in Nat /\ (from <= Floor(ingested[i].t, w) <=> Ceil(from, w) <= ingested[i].t)
      BY <1>2, <2>1, CeilFloor
    <2>3. Ceil(to, w) \in Nat /\ (to <= Floor(ingested[i].t, w) <=> Ceil(to, w) <= ingested[i].t)
      BY <1>2, <2>1, CeilFloor
    <2>4. Floor(ingested[i].t, w) \in Nat
      BY <1>2, <2>1, FloorIs
    <2> QED BY <2>1, <2>2, <2>3, <2>4
  <1>7. ASSUME NEW x \in A, NEW i \in x.ids
        PROVE  i \in DOMAIN ingested /\ In(i) /\ SameSeries(x.of, ingested[i].of)
    <2>1. RowFaithful(x, tier)
      BY <1>1, <1>4 DEF TierInv
    <2>2. i \in DOMAIN ingested /\ Belongs(i, x, tier)
      BY <2>1 DEF RowFaithful
    <2>3. ingested[i].tenant = tenant /\ from <= Floor(ingested[i].t, w) /\ Floor(ingested[i].t, w) < to
      BY <1>4, <2>2 DEF Belongs, w
    <2> QED BY <1>5, <1>6, <2>2, <2>3 DEF Belongs, SameSeries
  <1>8. ASSUME NEW i \in DOMAIN ingested, In(i)
        PROVE  /\ from <= Floor(ingested[i].t, w) /\ Floor(ingested[i].t, w) \in Nat
               /\ Kept(i, tier) => \E x \in A : i \in x.ids
    <2>1. from <= Floor(ingested[i].t, w) /\ Floor(ingested[i].t, w) < to /\ Floor(ingested[i].t, w) \in Nat
      BY <1>5, <1>6, <1>8
    <2>2. ASSUME Kept(i, tier) PROVE \E x \in A : i \in x.ids
      <3>3. PICK x \in table[tier] : i \in x.ids
        BY <1>1, <2>2 DEF TierInv, Kept
      <3>4. Belongs(i, x, tier)
        BY <1>1, <3>3 DEF TierInv, RowFaithful
      <3>5. x.tenant = tenant /\ from <= x.start /\ x.start < to
        BY <1>5, <1>8, <2>1, <3>4 DEF Belongs, w
      <3> QED BY <1>4, <3>3, <3>5
    <2> QED BY <2>1, <2>2
  <1>9. ASSUME NEW x \in A PROVE x.ids # {}
    BY <1>1, <1>4 DEF TierInv, RowFaithful
  <1>10. \A x \in A : x.ids # {} /\ \A i \in x.ids : i \in DOMAIN ingested /\ In(i) /\ SameSeries(x.of, ingested[i].of)
    BY <1>7, <1>9
  <1>11. \A i \in DOMAIN ingested : In(i) =>
            /\ from <= Floor(ingested[i].t, w) /\ Floor(ingested[i].t, w) \in Nat
            /\ Kept(i, tier) => \E x \in A : i \in x.ids
    BY <1>8
  <1> QED BY <1>10, <1>11 DEF A, In, tier, w

Unmerged(y, i) == y.of = ingested[i].of /\ y.ids = {i}

(* What was asked for, as unmerged rows *)
LEMMA ShownAre ==
    ASSUME NEW tenant, NEW from, NEW to, NEW B, B = Shown(tenant, from, to)
    PROVE  /\ \A y \in B : \E i \in DOMAIN ingested : Asked(i, tenant, from, to) /\ Unmerged(y, i)
           /\ \A i \in DOMAIN ingested : Asked(i, tenant, from, to) =>
                  \E y \in B : Unmerged(y, i)
  <1> DEFINE In(i) == Asked(i, tenant, from, to)
  <1>5. B = {[of |-> ingested[i].of, ids |-> {i}] : i \in {j \in DOMAIN ingested : In(j)}}
    BY DEF Shown, Truth, Asked
  <1> HIDE DEF In
  <1>10. ASSUME NEW y \in B
         PROVE  \E i \in DOMAIN ingested : In(i) /\ Unmerged(y, i)
    BY <1>5 DEF Unmerged
  <1>11. ASSUME NEW i \in DOMAIN ingested, In(i) PROVE \E y \in B : Unmerged(y, i)
    <2> DEFINE y == [of |-> ingested[i].of, ids |-> {i}]
    <2>1. y \in B
      BY <1>5, <1>11
    <2>2. Unmerged(y, i)
      BY DEF Unmerged
    <2> QED BY <2>1, <2>2
  <1> QED BY <1>10, <1>11 DEF In

(* A range that is retained selects rows that stand for exactly the tenant's *)
(* requests of the buckets starting inside it.                               *)
LEMMA AnswerAlike ==
    ASSUME RollupsInv, NEW tenant, NEW r \in Retained
    PROVE  Alike(tierQuery(tenant, r[1], r[2]), Shown(tenant, r[1], r[2]))
  <1> DEFINE from == r[1]
             to == r[2]
             A == tierQuery(tenant, from, to)
             B == Shown(tenant, from, to)
             In(i) == Asked(i, tenant, from, to)
  <1>1. RollupsTypeOK /\ SelectTier(from, to) \in Tiers
    BY DEF RollupsInv, SelectTier, Tiers
  <1>2. now \in Nat /\ TTL[SelectTier(from, to)] \in Nat
    BY <1>1, Typed
  <1>3. from \in Nat /\ to \in Nat /\ from + TTL[SelectTier(from, to)] > now
    BY <1>2, NestedWidths DEF Retained, Ranges
  <1> HIDE DEF from, to
  <1>4. \A x \in A : x.ids # {} /\ \A i \in x.ids : i \in DOMAIN ingested /\ In(i) /\ SameSeries(x.of, ingested[i].of)
    BY <1>3, Selected
  <1>5. ASSUME NEW i \in DOMAIN ingested, In(i) PROVE \E x \in A : i \in x.ids
    <2> DEFINE f == Floor(ingested[i].t, Width[SelectTier(from, to)])
    <2>1. from <= f /\ f \in Nat /\ (Kept(i, SelectTier(from, to)) => \E x \in A : i \in x.ids)
      BY <1>3, <1>5, Selected
    <2>2. f + TTL[SelectTier(from, to)] > now
      <3> HIDE DEF f
      <3> QED BY <1>2, <1>3, <2>1
    <2> QED BY <2>1, <2>2 DEF Kept
  <1>6a. /\ \A y \in B : \E i \in DOMAIN ingested : In(i) /\ Unmerged(y, i)
         /\ \A i \in DOMAIN ingested : In(i) => \E y \in B : Unmerged(y, i)
    BY ShownAre
  <1>6. /\ \A y \in B : \E i \in DOMAIN ingested : In(i) /\ y.of = ingested[i].of /\ y.ids = {i}
        /\ \A i \in DOMAIN ingested : In(i) => \E y \in B : y.ids = {i}
    <2> HIDE DEF In, B
    <2> QED BY <1>6a DEF Unmerged
  <1> HIDE DEF In, A, B
  <1>12. Ids(A) = Ids(B)
    <2>1. ASSUME NEW i \in Ids(A) PROVE i \in Ids(B)
      <3>1. i \in DOMAIN ingested /\ In(i)
        BY <1>4 DEF Ids
      <3>2. PICK y \in B : y.ids = {i}
        BY <1>6, <3>1
      <3> QED BY <3>2 DEF Ids
    <2>2. ASSUME NEW i \in Ids(B) PROVE i \in Ids(A)
      BY <1>5, <1>6 DEF Ids
    <2> QED BY <2>1, <2>2
  <1>13. \A x \in A, y \in B : x.ids \intersect y.ids # {} => SameSeries(x.of, y.of)
    BY <1>4, <1>6
  <1>14. Alike(A, B)
    BY <1>4, <1>6, <1>12, <1>13 DEF Alike
  <1> QED BY <1>14 DEF A, B, from, to

(* Whatever the range, and whatever has expired *)
LEMMA QueryHolds == RollupsInv => QueryExact
  <1> SUFFICES ASSUME RollupsInv, NEW tenant \in Tenants, NEW r \in Ranges
               PROVE  LET tier == SelectTier(r[1], r[2])
                          shown == Ids(Shown(tenant, r[1], r[2]))
                          got == Ids(tierQuery(tenant, r[1], r[2]))
                      IN  /\ got \subseteq shown
                          /\ \A i \in shown : Floor(ingested[i].t, Width[tier]) + TTL[tier] > now => i \in got
    BY DEF QueryExact
  <1> DEFINE from == r[1]
             to == r[2]
             A == tierQuery(tenant, from, to)
             B == Shown(tenant, from, to)
             In(i) == Asked(i, tenant, from, to)
  <1>1. from \in Nat /\ to \in Nat
    BY NestedWidths DEF Ranges, RollupsInv, RollupsTypeOK
  <1> HIDE DEF from, to
  <1>2. /\ \A x \in A : \A i \in x.ids : i \in DOMAIN ingested /\ In(i)
        /\ \A i \in DOMAIN ingested : In(i) /\ Kept(i, SelectTier(from, to)) => \E x \in A : i \in x.ids
    BY <1>1, Selected
  <1>3a. /\ \A y \in B : \E i \in DOMAIN ingested : In(i) /\ Unmerged(y, i)
         /\ \A i \in DOMAIN ingested : In(i) => \E y \in B : Unmerged(y, i)
    BY ShownAre
  <1>3. /\ \A y \in B : \E i \in DOMAIN ingested : In(i) /\ y.ids = {i}
        /\ \A i \in DOMAIN ingested : In(i) => \E y \in B : y.ids = {i}
    <2> HIDE DEF In, B
    <2> QED BY <1>3a DEF Unmerged
  <1> HIDE DEF In, A, B
  <1>4. Ids(A) \subseteq Ids(B)
    BY <1>2, <1>3 DEF Ids
  <1>5. ASSUME NEW i \in Ids(B), Kept(i, SelectTier(from, to)) PROVE i \in Ids(A)
    <2>1. i \in DOMAIN ingested /\ In(i)
      BY <1>3 DEF Ids
    <2> QED BY <1>2, <1>5, <2>1 DEF Ids
  <1> QED BY <1>4, <1>5 DEF A, B, Kept, from, to

-----------------------------------------------------------------------------
(* The operator's view.                                                       *)

(* A nonempty set of numbers has a least one *)
LEMMA LeastExists ==
    ASSUME NEW S \in SUBSET Nat, S # {}
    PROVE  \E x \in S : \A y \in S : x <= y
  <1>1. PICK x \in S : \A y \in S : ~(<<y, x>> \in OpToRel(<, Nat))
    BY NatLessThanWellFounded, WFMin, Zenon
  <1>2. ASSUME NEW y \in S, y < x PROVE FALSE
    <2>1. <<y, x>> \in OpToRel(<, Nat)
      BY <1>2 DEF OpToRel
    <2> QED BY <1>1, <2>1, Zenon
  <1>3. \A y \in S : ~(y < x)
    BY <1>2
  <1> QED BY <1>3

(* and, when it is bounded, a greatest one *)
LEMMA GreatestExists ==
    ASSUME NEW S \in SUBSET Nat, S # {}, NEW n \in Nat, \A y \in S : y <= n
    PROVE  \E x \in S : \A y \in S : y <= x
  <1> DEFINE U == {u \in Nat : \A y \in S : y <= u}
  <1>1. PICK u \in U : \A v \in U : u <= v
    <2>1. U \in SUBSET Nat /\ n \in U
      OBVIOUS
    <2> HIDE DEF U
    <2> QED BY <2>1, LeastExists
  <1>2. ASSUME u \notin S PROVE FALSE
    <2>1. \A y \in S : y < u
      BY <1>1, <1>2
    <2>2. u \in Nat /\ u > 0 /\ u - 1 \in Nat
      <3>1. PICK y \in S : y < u
        BY <2>1
      <3>2. u \in Nat /\ y \in Nat
        OBVIOUS
      <3> QED BY <3>1, <3>2
    <2>3. \A y \in S : y <= u - 1
      BY <2>1, <2>2
    <2>4. u - 1 \in U
      BY <2>2, <2>3
    <2> HIDE DEF U
    <2> QED BY <1>1, <2>2, <2>4
  <1> QED BY <1>1, <1>2

(* Max and Min are the greatest and the least of such a set *)
LEMMA MaxMin ==
    ASSUME NEW S \in SUBSET Nat, NEW x \in S
    PROVE  /\ (\A y \in S : y <= x) => Max(S) = x
           /\ Min(S) \in S /\ Min(S) <= x
  <1>1. ASSUME \A y \in S : y <= x PROVE Max(S) = x
    <2>1. \A z \in S : (\A y \in S : z >= y) => z = x
      BY <1>1
    <2>2. \A y \in S : x >= y
      BY <1>1
    <2> QED BY <2>1, <2>2 DEF Max
  <1>2. \E z \in S : \A y \in S : z <= y
    BY LeastExists
  <1>3. Min(S) \in S /\ \A y \in S : Min(S) <= y
    BY <1>2 DEF Min
  <1> QED BY <1>1, <1>3

(* There are at least as many series as endpoints *)
LEMMA PairsCover ==
    ASSUME NEW S, IsFiniteSet(S)
    PROVE  Cardinality({<<r.of.ep, r.of.class>> : r \in S}) >= Cardinality({r.of.ep : r \in S})
  <1> DEFINE P == {<<r.of.ep, r.of.class>> : r \in S}
             E == {r.of.ep : r \in S}
             g == [r \in S |-> <<r.of.ep, r.of.class>>]
             f == [p \in P |-> p[1]]
  <1>1. g \in Surjection(S, P)
    BY DEF Surjection
  <1>2. IsFiniteSet(P)
    BY <1>1, FS_Surjection DEF ExistsSurjection
  <1>3. f \in Surjection(P, E)
    <2>1. ASSUME NEW p \in P PROVE p[1] \in E
      OBVIOUS
    <2>2. ASSUME NEW e \in E PROVE \E p \in P : p[1] = e
      <3>1. PICK r \in S : e = r.of.ep
        OBVIOUS
      <3>2. <<r.of.ep, r.of.class>> \in P
        OBVIOUS
      <3> HIDE DEF P
      <3> QED BY <3>1, <3>2
    <2> HIDE DEF P, E
    <2> QED BY <2>1, <2>2 DEF Surjection
  <1>4. IsFiniteSet(E) /\ Cardinality(E) <= Cardinality(P)
    BY <1>2, <1>3, FS_Surjection DEF ExistsSurjection
  <1>5. Cardinality(E) \in Nat /\ Cardinality(P) \in Nat
    BY <1>2, <1>4, FS_CardinalityType
  <1> HIDE DEF P, E
  <1>6. Cardinality(P) >= Cardinality(E)
    BY <1>4, <1>5
  <1> QED BY <1>6 DEF P, E

(* A tenant's rows of the 1d tier, and the times they carry *)
DayRows(tenant) == {r \in table["1d"] : r.tenant = tenant}
DayStarts(tenant) == {r.start : r \in DayRows(tenant)}
DayEnds(tenant) == {r.end : r \in DayRows(tenant)}

(* While the 1d tier retains a tenant's newest request, its rows date it *)
LEMMA DayDates ==
    ASSUME RollupsInv, NEW tenant,
           NEW last, NEW j \in DOMAIN ingested, ingested[j].tenant = tenant, ingested[j].t = last,
           \A i \in DOMAIN ingested : ingested[i].tenant = tenant => ingested[i].t <= last,
           Floor(last, Width["1d"]) + TTL["1d"] > now
    PROVE  /\ DayRows(tenant) # {} /\ Max(DayEnds(tenant)) = Floor(last + 1, Width["1d"])
           /\ Min(DayStarts(tenant)) <= Floor(last + 1, Width["1d"]) /\ Min(DayStarts(tenant)) <= last
  <1> DEFINE w == Width["1d"]
             rows == DayRows(tenant)
             ends == DayEnds(tenant)
             starts == DayStarts(tenant)
             day == Floor(last + 1, w)
  <1>1. RollupsTypeOK /\ TierInv("1d", table["1d"]) /\ "1d" \in Tiers
    BY DEF RollupsInv, Tiers
  <1>2. /\ w \in Nat \ {0} /\ table["1d"] \subseteq StoredRow
        /\ \A i \in DOMAIN ingested : ingested[i].t \in Nat /\ ingested[i].t + 1 \in Nat
    BY <1>1, Typed
  <1>3. PICK x \in table["1d"] : j \in x.ids
    BY <1>1 DEF TierInv
  <1>4. Belongs(j, x, "1d")
    BY <1>1, <1>3 DEF TierInv, RowFaithful
  <1>5. x \in rows /\ x.start = Floor(last, w) /\ day <= x.end
    BY <1>4 DEF Belongs, DayRows
  <1>6. last \in Nat /\ Floor(last, w) \in Nat /\ day \in Nat /\ Floor(last, w) <= last /\ Floor(last, w) <= day
    <2>1. last \in Nat /\ last + 1 \in Nat /\ last <= last + 1
      BY <1>2
    <2> QED BY <1>2, <2>1, FloorIs, FloorGrows
  <1>7. ASSUME NEW r \in rows PROVE r.end <= day /\ r.end \in Nat /\ r.start \in Nat
    <2>1. r.end \in Nat /\ r.start \in Nat
      BY <1>2 DEF StoredRow, DayRows
    <2>2. PICK i \in r.ids : r.end = Floor(ingested[i].t + 1, w)
      BY <1>1 DEF TierInv, RowFaithful, DayRows
    <2>3. i \in DOMAIN ingested /\ ingested[i].tenant = tenant
      BY <1>1, <2>2 DEF TierInv, RowFaithful, Belongs, DayRows
    <2>4. ingested[i].t + 1 <= last + 1 /\ ingested[i].t + 1 \in Nat /\ last + 1 \in Nat
      BY <1>2, <2>3
    <2>5. Floor(ingested[i].t + 1, w) <= day
      BY <1>2, <2>4, FloorGrows
    <2> QED BY <2>1, <2>2, <2>5
  <1> HIDE DEF day, w
  <1>8. x.end = day
    BY <1>5, <1>6, <1>7
  <1>9. ends \in SUBSET Nat /\ day \in ends /\ \A y \in ends : y <= day
    BY <1>5, <1>7, <1>8 DEF DayEnds
  <1>10. starts \in SUBSET Nat /\ Floor(last, w) \in starts
    BY <1>5, <1>7 DEF DayStarts
  <1>11. Max(ends) = day
    BY <1>9, MaxMin
  <1>12. Min(starts) \in Nat /\ Min(starts) <= Floor(last, w)
    BY <1>10, MaxMin
  <1>13. Min(starts) <= day /\ Min(starts) <= last
    BY <1>6, <1>12
  <1> QED BY <1>5, <1>11, <1>13 DEF day, w

(* The operator's view of a tenant *)
LEMMA UsageHolds ==
    ASSUME RollupsInv
    PROVE  UsageDated
  <1> SUFFICES ASSUME NEW tenant \in Tenants
               PROVE  LET mine == {j \in DOMAIN ingested : ingested[j].tenant = tenant}
                          last == Max({ingested[j].t : j \in mine})
                          u == Usage(tenant)
                      IN  /\ (mine # {} /\ Floor(last, Width["1d"]) + TTL["1d"] > now) =>
                                 \E l \in u.liveness :
                                     /\ l.last = Floor(last + 1, Width["1d"])
                                     /\ l.last = LastIngestByTenant[tenant]
                                     /\ l.first <= l.last /\ l.first <= last
                          /\ u.requests <= Cardinality(mine) /\ u.series >= u.endpoints
    BY DEF UsageDated
  <1> DEFINE mine == {j \in DOMAIN ingested : ingested[j].tenant = tenant}
             times == {ingested[j].t : j \in mine}
             last == Max(times)
             u == Usage(tenant)
             rows == {r \in table["1m"] : r.tenant = tenant /\ r.start >= now - TTL["1m"]}
  <1>1. RollupsTypeOK /\ Past /\ \A tier \in Tiers : TierInv(tier, table[tier])
    BY DEF RollupsInv
  <1>2. now \in Nat /\ \A i \in DOMAIN ingested : ingested[i].t \in Nat
    BY <1>1, Typed
  <1>3. /\ u.liveness = Liveness("1d", tenant) /\ u.requests = Count(rows)
        /\ u.endpoints = Cardinality({r.of.ep : r \in rows})
        /\ u.series = Cardinality({<<r.of.ep, r.of.class>> : r \in rows})
    BY DEF Usage
  <1> HIDE DEF u
  <1>4. ASSUME mine # {}, Floor(last, Width["1d"]) + TTL["1d"] > now
        PROVE  \E l \in u.liveness :
                  /\ l.last = Floor(last + 1, Width["1d"])
                  /\ l.last = LastIngestByTenant[tenant]
                  /\ l.first <= l.last /\ l.first <= last
    <2>1. times \in SUBSET Nat /\ times # {} /\ now + Skew \in Nat /\ \A y \in times : y <= now + Skew
      BY <1>1, <1>2, <1>4, NestedWidths DEF Past
    <2>2. PICK m \in times : \A y \in times : y <= m
      <3> HIDE DEF times
      <3> QED BY <1>2, <2>1, GreatestExists
    <2>3. last = m
      <3> HIDE DEF times
      <3> QED BY <2>1, <2>2, MaxMin
    <2>4. PICK j \in DOMAIN ingested : ingested[j].tenant = tenant /\ ingested[j].t = last
      BY <2>2, <2>3
    <2>5. \A i \in DOMAIN ingested : ingested[i].tenant = tenant => ingested[i].t <= ingested[j].t
      BY <2>2, <2>3, <2>4
    <2> DEFINE first == Min(DayStarts(tenant))
               day == Max(DayEnds(tenant))
    <2> HIDE DEF last
    <2>6. DayRows(tenant) # {} /\ day = Floor(last + 1, Width["1d"]) /\ first <= day /\ first <= last
      <3>1. \A i \in DOMAIN ingested : ingested[i].tenant = tenant => ingested[i].t <= last
        BY <2>4, <2>5
      <3>2. Floor(last, Width["1d"]) + TTL["1d"] > now
        BY <1>4
      <3> QED BY <2>4, <3>1, <3>2, DayDates
    <2>7. Liveness("1d", tenant) = {[first |-> first, last |-> day]}
      BY <2>6 DEF Liveness, DayRows, DayStarts, DayEnds
    <2>8. LastIngestByTenant[tenant] = day
      <3>1. tenant \in {r.tenant : r \in table["1d"]}
        BY <2>6 DEF DayRows
      <3> QED BY <3>1 DEF LastIngestByTenant, DayRows, DayEnds
    <2> HIDE DEF first, day
    <2> DEFINE l == [first |-> first, last |-> day]
    <2>9. l.first = first /\ l.last = day
      OBVIOUS
    <2>10. l \in u.liveness
      BY <1>3, <2>7
    <2> HIDE DEF l
    <2> QED BY <2>6, <2>8, <2>9, <2>10
  <1>5. u.requests <= Cardinality(mine)
    <2>1. Ids(rows) \in SUBSET mine
      <3>1. ASSUME NEW r \in rows, NEW i \in r.ids PROVE i \in mine
        <4>1. RowFaithful(r, "1m")
          BY <1>1 DEF TierInv, Tiers
        <4> QED BY <4>1 DEF RowFaithful, Belongs
      <3> QED BY <3>1 DEF Ids
    <2>2. IsFiniteSet(mine)
      <3>1. Len(ingested) \in Nat /\ DOMAIN ingested = 1 .. Len(ingested)
        BY <1>1 DEF RollupsTypeOK
      <3>2. IsFiniteSet(DOMAIN ingested)
        BY <3>1, FS_Interval
      <3> QED BY <3>2, FS_Subset
    <2> HIDE DEF mine, rows
    <2> QED BY <1>3, <2>1, <2>2, FS_Subset DEF Count
  <1>6. u.series >= u.endpoints
    <2>1. IsFiniteSet(rows)
      <3>1. IsFiniteSet(table["1m"])
        BY <1>1 DEF RollupsTypeOK, Tables, Tiers
      <3> QED BY <3>1, FS_Subset
    <2> HIDE DEF rows
    <2> QED BY <1>3, <2>1, PairsCover
  <1> QED BY <1>4, <1>5, <1>6 DEF u

(* AnswersExact: for any tenants, series, widths of the tiers and retentions, *)
(* however late or early requests arrive, and whatever was rolled up, merged   *)
(* or dropped before a query reads, it sums the requests of its range that the *)
(* tier still keeps; every breakdown of a retained range is the requests' own, *)
(* and the operator's view dates a tenant by its own days.                     *)
THEOREM QueriesAnswerExactly == RollupsSpec => []AnswersExact
  <1>1. ASSUME RollupsInv PROVE QueryExact
    BY <1>1, QueryHolds
  <1>2. ASSUME RollupsInv PROVE CountedOnce
    BY <1>2 DEF RollupsInv, TierInv, CountedOnce
  <1>3. ASSUME RollupsInv PROVE BreakdownsExact
    <2> SUFFICES ASSUME NEW tenant \in Tenants, NEW r \in Retained, NEW service \in {p[1] : p \in Pages}
                 PROVE  GroupsKept(tenant, service, r[1], r[2]) /\ LabelsKept(tenant, service, r[1], r[2])
      BY DEF BreakdownsExact
    <2> DEFINE A == tierQuery(tenant, r[1], r[2])
               B == Shown(tenant, r[1], r[2])
               C == OfEndpoint(A, service, "")
               D == OfEndpoint(B, service, "")
    <2>1. Alike(A, B)
      BY <1>3, AnswerAlike
    <2>2. Alike(C, D)
      <3>1. C \in SUBSET A /\ D \in SUBSET B
        BY DEF OfEndpoint
      <3>2. \A x \in A, y \in B : SameSeries(x.of, y.of) => (x \in C <=> y \in D)
        BY DEF OfEndpoint, SameSeries, Columns
      <3> HIDE DEF A, B, C, D
      <3> QED BY <2>1, <3>1, <3>2, AlikeFilter
    <2>3. GroupBy(A, "service") = GroupBy(B, "service")
      <3> HIDE DEF A, B
      <3> QED BY <2>1, AlikeGroups DEF Columns
    <2>4. /\ GroupBy(C, "ep") = GroupBy(D, "ep")
          /\ GroupBy(C, "inst") = GroupBy(D, "inst")
          /\ GroupBy(C, "ver") = GroupBy(D, "ver")
      <3> HIDE DEF C, D
      <3> QED BY <2>2, AlikeGroups DEF Columns
    <2>5. CountBy(C, "err") = CountBy(D, "err") /\ CountBy(C, "reason") = CountBy(D, "reason") /\ Split(C) = Split(D)
      <3>1. Ids(C) = Ids(D)
        BY <2>2 DEF Alike
      <3> HIDE DEF C, D
      <3> QED BY <3>1 DEF CountBy, Split, Count
    <2>6. GroupsKept(tenant, service, r[1], r[2])
      BY <2>3, <2>4 DEF GroupsKept, Services, Endpoints, InstancesForEndpoint, VersionsForEndpoint
    <2>7. LabelsKept(tenant, service, r[1], r[2])
      BY <2>5 DEF LabelsKept, ErrorClassesForEndpoint, NoStatusReasonsForEndpoint, DownstreamForEndpoint
    <2> QED BY <2>6, <2>7
  <1>4. RollupsInv => AnswersExact
    BY <1>1, <1>2, <1>3, UsageHolds DEF AnswersExact
  <1> QED BY <1>4, RollupsFaithful, PTL
-----------------------------------------------------------------------------
(* buffer.Ring. *)

(* An index below the array's length is its own residue. *)
LEMMA ModSmall ==
    ASSUME NEW N \in Nat \ {0}, NEW a \in 0..(N - 1)
    PROVE  a % N = a
  OBVIOUS

(* An index at most one lap too far wraps by one length. *)
LEMMA ModWrap ==
    ASSUME NEW N \in Nat \ {0}, NEW a \in N..(2 * N - 1)
    PROVE  a % N = a - N
  OBVIOUS

(* New's clamp: the array has at least one slot. *)
LEMMA SlotsPositive == Slots \in Nat \ {0}
  BY RingAssumption DEF Slots

(* The n-th slot from h on, with the wrap spelled out. *)
LEMMA SlotWrap ==
    ASSUME NEW h \in 0..(Slots - 1), NEW n \in 0..Slots
    PROVE  (h + n) % Slots = IF h + n < Slots THEN h + n ELSE h + n - Slots
  <1>1. CASE h + n < Slots
    BY <1>1, SlotsPositive, ModSmall
  <1>2. CASE ~(h + n < Slots)
    BY <1>2, SlotsPositive, ModWrap
  <1> QED BY <1>1, <1>2

(* Where the entries are, and where head moves. *)
LEMMA SlotFacts ==
    ASSUME head \in 0..(Slots - 1)
    PROVE  /\ \A k \in 1..Slots : SlotOf(k) = IF head + k - 1 < Slots
                                              THEN head + k - 1
                                              ELSE head + k - 1 - Slots
           /\ Advance = IF head + 1 < Slots THEN head + 1 ELSE 0
           /\ \A n \in 0..(Slots - 1) :
                TailSlot(head, n) = IF head + n < Slots THEN head + n ELSE head + n - Slots
           /\ TailSlot(Advance, Slots - 1) = head
  <1>1. ASSUME NEW k \in 1..Slots
        PROVE  SlotOf(k) = IF head + k - 1 < Slots THEN head + k - 1
                                                   ELSE head + k - 1 - Slots
    <2>1. k - 1 \in 0..Slots /\ head + k - 1 = head + (k - 1)
      BY SlotsPositive
    <2> QED BY <2>1, SlotWrap, SlotsPositive DEF SlotOf
  <1>2. Advance = IF head + 1 < Slots THEN head + 1 ELSE 0
    <2>1. 1 \in 0..Slots
      BY SlotsPositive
    <2>2. (head + 1) % Slots = IF head + 1 < Slots THEN head + 1 ELSE head + 1 - Slots
      BY <2>1, SlotWrap
    <2> QED BY <2>2, SlotsPositive DEF Advance
  <1>3. ASSUME NEW n \in 0..(Slots - 1)
        PROVE  TailSlot(head, n) = IF head + n < Slots THEN head + n ELSE head + n - Slots
    BY SlotWrap, SlotsPositive DEF TailSlot
  <1>4. TailSlot(Advance, Slots - 1) = head
    <2>1. Advance \in 0..(Slots - 1) /\ Slots - 1 \in 0..Slots
      BY <1>2, SlotsPositive
    <2>2. (Advance + (Slots - 1)) % Slots = IF Advance + (Slots - 1) < Slots
                THEN Advance + (Slots - 1) ELSE Advance + (Slots - 1) - Slots
      BY <2>1, SlotWrap
    <2> QED BY <1>2, <2>1, <2>2, SlotsPositive DEF TailSlot
  <1> QED BY <1>1, <1>2, <1>3, <1>4

(* Slot i is one of the n slots from h on: on this lap or on the next. *)
LEMMA LiveSlots ==
    ASSUME NEW h \in 0..(Slots - 1), NEW n \in 0..Slots, NEW i \in 0..(Slots - 1)
    PROVE  (\E k \in 1..n : i = (h + k - 1) % Slots)
             <=> (h <= i /\ i < h + n) \/ i + Slots < h + n
  <1> USE SlotsPositive
  <1>1. ASSUME NEW k \in 1..n
        PROVE  (h + k - 1) % Slots = IF h + k - 1 < Slots THEN h + k - 1
                                                       ELSE h + k - 1 - Slots
    <2>1. k - 1 \in 0..Slots /\ h + k - 1 = h + (k - 1)
      OBVIOUS
    <2> QED BY <2>1, SlotWrap
  <1>2. ASSUME NEW k \in 1..n, i = (h + k - 1) % Slots
        PROVE  (h <= i /\ i < h + n) \/ i + Slots < h + n
    BY <1>1, <1>2
  <1>3. ASSUME h <= i, i < h + n
        PROVE  \E k \in 1..n : i = (h + k - 1) % Slots
    <2>1. i - h + 1 \in 1..n /\ h + (i - h + 1) - 1 = i
      BY <1>3
    <2>2. i = (h + (i - h + 1) - 1) % Slots
      BY <2>1, ModSmall
    <2> QED BY <2>1, <2>2
  <1>4. ASSUME i + Slots < h + n
        PROVE  \E k \in 1..n : i = (h + k - 1) % Slots
    <2> DEFINE k0 == i + Slots - h + 1
    <2>1. k0 \in 1..n /\ h + k0 - 1 = i + Slots
      BY <1>4
    <2>2. i = (h + k0 - 1) % Slots
      BY <2>1, <1>1
    <2> QED BY <2>1, <2>2
  <1> QED BY <1>2, <1>3, <1>4

(* LiveSlotsOnly without its quantifier over k, now and after a step. *)
LEMMA LiveArith ==
    ASSUME head \in 0..(Slots - 1), count \in 0..Slots
    PROVE  LiveSlotsOnly <=>
             \A i \in 0..(Slots - 1) :
               buf[i] # Nil <=> (head <= i /\ i < head + count) \/ i + Slots < head + count
  BY LiveSlots DEF LiveSlotsOnly, SlotOf

(* The same for the state after a step. *)
LEMMA LiveArithNext ==
    ASSUME head' \in 0..(Slots - 1), count' \in 0..Slots
    PROVE  LiveSlotsOnly' <=>
             \A i \in 0..(Slots - 1) :
               buf'[i] # Nil <=> (head' <= i /\ i < head' + count')
                                   \/ i + Slots < head' + count'
  <1>1. LiveSlotsOnly' <=> \A i \in 0..(Slots - 1) :
            buf'[i] # Nil <=> \E k \in 1..count' : i = (head' + k - 1) % Slots
    BY DEF LiveSlotsOnly, SlotOf, Slots
  <1> QED BY <1>1, LiveSlots

Inv == TypeOK /\ LiveSlotsOnly

(* Where the entries are after a step that moves head or not. *)
LEMMA SlotFactsNext ==
    ASSUME head' \in 0..(Slots - 1)
    PROVE  \A k \in 1..Slots : SlotOf(k)' = IF head' + k - 1 < Slots
                                            THEN head' + k - 1
                                            ELSE head' + k - 1 - Slots
  <1> SUFFICES ASSUME NEW k \in 1..Slots
               PROVE  SlotOf(k)' = IF head' + k - 1 < Slots THEN head' + k - 1
                                                         ELSE head' + k - 1 - Slots
    OBVIOUS
  <1>1. k - 1 \in 0..Slots /\ head' + k - 1 = head' + (k - 1)
    BY SlotsPositive
  <1>2. SlotOf(k)' = (head' + k - 1) % Slots
    BY DEF SlotOf, Slots
  <1> QED BY <1>1, <1>2, SlotWrap, SlotsPositive

(* New starts with an empty array. *)
LEMMA InvInit == Init => Inv
  BY SlotsPositive DEF Init, Inv, TypeOK, LiveSlotsOnly

(* Push, Peek and PopOldest keep exactly the pending requests in the array. *)
LEMMA InvNext == Inv /\ [Next]_vars => Inv'
  <1> SUFFICES ASSUME Inv, [Next]_vars PROVE Inv'
    OBVIOUS
  <1> USE SlotsPositive
  <1>0. head \in 0..(Slots - 1) /\ count \in 0..Slots
    BY DEF Inv, TypeOK
  <1>1. ASSUME NEW r \in Requests, Push(r) PROVE Inv'
    <2>1. CASE count = Slots
      <3>1. /\ out' = buf[head]
            /\ buf' = [buf EXCEPT ![head] = r]
            /\ head' = Advance /\ count' = Slots
        BY <1>0, <1>1, <2>1, SlotFacts DEF Push, Inv, TypeOK
      <3>2. TypeOK'
        BY <1>0, <3>1, SlotFacts DEF Inv, TypeOK
      <3>3. LiveSlotsOnly'
        <4>1. \A i \in 0..(Slots - 1) : buf[i] # Nil
          BY <1>0, <2>1, LiveArith DEF Inv, TypeOK
        <4>2. \A i \in 0..(Slots - 1) : buf'[i] # Nil
          BY <1>0, <3>1, <4>1, RingAssumption DEF Inv, TypeOK
        <4>3. head' \in 0..(Slots - 1) /\ count' = Slots
          BY <3>1, <3>2 DEF TypeOK
        <4>4. \A i \in 0..(Slots - 1) :
                (head' <= i /\ i < head' + count') \/ i + Slots < head' + count'
          <5>1. ASSUME NEW h \in 0..(Slots - 1)
                PROVE  \A i \in 0..(Slots - 1) : (h <= i /\ i < h + Slots) \/ i + Slots < h + Slots
            OBVIOUS
          <5> QED BY <4>3, <5>1
        <4> QED BY <3>2, <4>2, <4>4, LiveArithNext DEF TypeOK
      <3> QED BY <3>2, <3>3 DEF Inv
    <2>2. CASE count # Slots
      <3>1. /\ out' = Nil
            /\ buf' = [buf EXCEPT ![SlotOf(count + 1)] = r]
            /\ head' = head /\ count' = count + 1
        BY <1>0, <1>1, <2>2, SlotFacts DEF Push
      <3>2. TypeOK'
        BY <1>0, <2>2, <3>1, SlotFacts DEF Inv, TypeOK
      <3>3. LiveSlotsOnly'
        BY <1>0, <2>2, <3>1, <3>2, SlotFacts, LiveArith, LiveArithNext, RingAssumption DEF Inv, TypeOK
      <3> QED BY <3>2, <3>3 DEF Inv
    <2> QED BY <2>1, <2>2
  <1>2. CASE Peek
    BY <1>0, <1>2, SlotFacts DEF Peek, Inv, TypeOK, LiveSlotsOnly, SlotOf
  <1>3. CASE PopOldest
    <2>1. CASE count = 0
      BY <1>3, <2>1 DEF PopOldest, Inv, TypeOK, LiveSlotsOnly, SlotOf
    <2>2. CASE count # 0
      <3>1. /\ out' = buf[head]
            /\ buf' = [buf EXCEPT ![head] = Nil]
            /\ head' = Advance /\ count' = count - 1
        BY <1>3, <2>2 DEF PopOldest, Vacated
      <3>2. TypeOK'
        BY <1>0, <2>2, <3>1, SlotFacts DEF Inv, TypeOK
      <3>3. LiveSlotsOnly'
        <4>1. \A i \in 0..(Slots - 1) :
                buf[i] # Nil <=> (head <= i /\ i < head + count) \/ i + Slots < head + count
          BY <1>0, LiveArith DEF Inv
        <4>2. \A i \in 0..(Slots - 1) : buf'[i] = IF i = head THEN Nil ELSE buf[i]
          BY <1>0, <3>1 DEF Inv, TypeOK
        <4>3. head' = IF head + 1 < Slots THEN head + 1 ELSE 0
          BY <1>0, <3>1, SlotFacts
        <4>4. \A i \in 0..(Slots - 1) :
                buf'[i] # Nil <=> (head' <= i /\ i < head' + count') \/ i + Slots < head' + count'
          BY <1>0, <2>2, <3>1, <4>1, <4>2, <4>3
        <4> QED BY <3>2, <4>4, LiveArithNext DEF TypeOK
      <3> QED BY <3>2, <3>3 DEF Inv
    <2> QED BY <2>1, <2>2
  <1>4. CASE UNCHANGED vars
    BY <1>4 DEF vars, Inv, TypeOK, LiveSlotsOnly, SlotOf
  <1> QED BY <1>1, <1>2, <1>3, <1>4 DEF Next

(* At every capacity, after any sequence of Push, Peek and PopOldest, the  *)
(* array holds exactly the pending requests: no slot pins a removed one.   *)
THEOREM RingNeverPins == Spec => [](TypeOK /\ LiveSlotsOnly)
  BY InvInit, InvNext, PTL DEF Spec, Inv

(* The queue the array stands for. *)
QBar == [k \in 1..count |-> buf[SlotOf(k)]]

(* The mapped queue is a sequence of count requests, slot by slot. *)
QFacts ==
    /\ QBar \in Seq(Requests) /\ Len(QBar) = count
    /\ \A k \in 1..count : QBar[k] = buf[SlotOf(k)]
    /\ count > 0 => Head(QBar) = buf[head]

(* Under the invariant the live slots make up such a queue. *)
LEMMA QBarFacts == Inv => QFacts
  <1> SUFFICES ASSUME Inv PROVE QFacts
    OBVIOUS
  <1> USE SlotsPositive
  <1>1. \A k \in 1..count : SlotOf(k) \in 0..(Slots - 1) /\ buf[SlotOf(k)] \in Requests
    BY SlotFacts DEF Inv, TypeOK, LiveSlotsOnly
  <1>2. QBar \in Seq(Requests) /\ Len(QBar) = count
    BY <1>1 DEF QBar, Inv, TypeOK
  <1>3. count > 0 => SlotOf(1) = head
    BY SlotFacts DEF Inv, TypeOK
  <1> QED BY <1>1, <1>2, <1>3 DEF QBar, QFacts, Inv, TypeOK

(* Equal lengths and equal elements make equal sequences. *)
LEMMA SeqExt ==
    ASSUME NEW S, NEW s \in Seq(S), NEW t \in Seq(S), Len(s) = Len(t),
           \A i \in 1..Len(s) : s[i] = t[i]
    PROVE  s = t
  OBVIOUS

(* What Tail and Append hold at each position. *)
LEMMA TailAppend ==
    ASSUME NEW S, NEW s \in Seq(S), NEW r \in S
    PROVE  /\ Append(s, r) \in Seq(S) /\ Len(Append(s, r)) = Len(s) + 1
           /\ \A i \in 1..Len(s) : Append(s, r)[i] = s[i]
           /\ Append(s, r)[Len(s) + 1] = r
           /\ s # <<>> => /\ Tail(s) \in Seq(S) /\ Len(Tail(s)) = Len(s) - 1
                          /\ \A i \in 1..(Len(s) - 1) : Tail(s)[i] = s[i + 1]
           /\ s # <<>> <=> Len(s) > 0
  OBVIOUS

(* An empty array is the empty queue. *)
LEMMA QInit == Init => Queue!Init
  BY SlotsPositive DEF Init, Queue!Init

(* Every step of the array is a step of the queue, or leaves it alone. *)
LEMMA QNext ==
    ASSUME Inv, Inv', [Next]_vars
    PROVE  [Queue!Next]_<<QBar, out>>
  <1> USE SlotsPositive
  <1>0. head \in 0..(Slots - 1) /\ count \in 0..Slots
    BY DEF Inv, TypeOK
  <1>q. /\ QBar \in Seq(Requests) /\ Len(QBar) = count
        /\ \A k \in 1..count : QBar[k] = buf[SlotOf(k)]
        /\ count > 0 => Head(QBar) = buf[head]
        /\ QBar = <<>> <=> count = 0
    BY QBarFacts DEF QFacts
  <1>p. QFacts'
    BY QBarFacts, PTL
  <1>n. /\ QBar' \in Seq(Requests) /\ Len(QBar') = count'
        /\ \A k \in 1..count' : QBar'[k] = buf'[SlotOf(k)']
    BY <1>p DEF QFacts
  <1>s. /\ \A k \in 1..Slots : SlotOf(k) = IF head + k - 1 < Slots
                                           THEN head + k - 1 ELSE head + k - 1 - Slots
        /\ \A k \in 1..Slots : SlotOf(k)' = IF head' + k - 1 < Slots
                                            THEN head' + k - 1 ELSE head' + k - 1 - Slots
    BY <1>0, SlotFacts, SlotFactsNext DEF Inv, TypeOK
  <1>a. \A r : Queue!Push(r) <=>
           \/ Len(QBar) < Slots /\ QBar' = Append(QBar, r) /\ out' = Nil
           \/ Len(QBar) = Slots /\ QBar' = Append(Tail(QBar), r) /\ out' = Head(QBar)
    BY DEF Queue!Push, QBar
  <1>b. Queue!PopOldest <=>
           \/ QBar = <<>> /\ out' = Nil /\ QBar' = QBar
           \/ QBar # <<>> /\ out' = Head(QBar) /\ QBar' = Tail(QBar)
    BY DEF Queue!PopOldest, QBar
  <1>1. ASSUME NEW r \in Requests, Push(r) PROVE Queue!Push(r)
    <2>1. CASE count = Slots
      <3>1. /\ out' = buf[head] /\ buf' = [buf EXCEPT ![head] = r]
            /\ head' = Advance /\ count' = count
        BY <1>0, <1>1, <2>1, SlotFacts DEF Push, Inv, TypeOK
      <3>2. head' = IF head + 1 < Slots THEN head + 1 ELSE 0
        BY <1>0, <3>1, SlotFacts
      <3>3. \A k \in 1..(count - 1) : SlotOf(k)' = SlotOf(k + 1) /\ SlotOf(k + 1) # head
                                       /\ SlotOf(k + 1) \in 0..(Slots - 1)
        BY <1>0, <1>s, <2>1, <3>2
      <3>4. \A k \in 1..count : k = count => SlotOf(k)' = head
        BY <1>0, <1>s, <2>1, <3>2
      <3>5. \A k \in 1..count : QBar'[k] = IF k = count THEN r ELSE QBar[k + 1]
        <4>1. \A i \in 0..(Slots - 1) : buf'[i] = IF i = head THEN r ELSE buf[i]
          BY <1>0, <3>1 DEF Inv, TypeOK
        <4>2. ASSUME NEW k \in 1..count, k = count PROVE QBar'[k] = r
          BY <1>0, <1>n, <3>1, <3>4, <4>1, <4>2
        <4>3. ASSUME NEW k \in 1..count, k # count PROVE QBar'[k] = QBar[k + 1]
          <5>1. k \in 1..(count - 1) /\ k + 1 \in 1..count
            BY <1>0, <4>3
          <5>2. QBar'[k] = buf'[SlotOf(k + 1)]
            BY <1>n, <3>1, <3>3, <5>1
          <5> QED BY <1>q, <3>3, <4>1, <5>1, <5>2
        <4> QED BY <4>2, <4>3
      <3>6. QBar' = Append(Tail(QBar), r)
        <4>1. Tail(QBar) \in Seq(Requests) /\ Len(Tail(QBar)) = count - 1
              /\ \A i \in 1..(count - 1) : Tail(QBar)[i] = QBar[i + 1]
          BY <1>q, <2>1, TailAppend
        <4> DEFINE t == Append(Tail(QBar), r)
        <4>2. t \in Seq(Requests) /\ Len(t) = count /\ t[count] = r
              /\ \A i \in 1..(count - 1) : t[i] = QBar[i + 1]
          BY <1>0, <4>1, TailAppend
        <4> HIDE DEF t
        <4>3. \A i \in 1..count : QBar'[i] = t[i]
          BY <1>0, <3>5, <4>2
        <4>4. QBar' = t
          BY <1>n, <3>1, <4>2, <4>3, SeqExt
        <4> QED BY <4>4 DEF t
      <3> QED BY <1>a, <1>q, <2>1, <3>1, <3>6
    <2>2. CASE count # Slots
      <3>1. /\ out' = Nil /\ buf' = [buf EXCEPT ![SlotOf(count + 1)] = r]
            /\ head' = head /\ count' = count + 1
        BY <1>0, <1>1, <2>2, SlotFacts DEF Push
      <3>2. \A k \in 1..count : SlotOf(k)' = SlotOf(k) /\ SlotOf(k) # SlotOf(count + 1)
                                /\ SlotOf(k) \in 0..(Slots - 1)
        BY <1>0, <1>s, <2>2, <3>1
      <3>3. \A k \in 1..(count + 1) : k = count + 1 =>
                SlotOf(k)' = SlotOf(count + 1) /\ SlotOf(count + 1) \in 0..(Slots - 1)
        BY <1>0, <1>s, <2>2, <3>1
      <3>4. \A k \in 1..(count + 1) : QBar'[k] = IF k = count + 1 THEN r ELSE QBar[k]
        BY <1>0, <1>q, <1>n, <3>1, <3>2, <3>3 DEF Inv, TypeOK
      <3>5. QBar' = Append(QBar, r)
        <4> DEFINE t == Append(QBar, r)
        <4>1. t \in Seq(Requests) /\ Len(t) = count + 1 /\ t[count + 1] = r
              /\ \A i \in 1..count : t[i] = QBar[i]
          BY <1>q, TailAppend
        <4> HIDE DEF t
        <4>2. \A i \in 1..(count + 1) : QBar'[i] = t[i]
          BY <1>0, <3>4, <4>1
        <4>3. QBar' = t
          BY <1>n, <3>1, <4>1, <4>2, SeqExt
        <4> QED BY <4>3 DEF t
      <3> QED BY <1>0, <1>a, <1>q, <2>2, <3>1, <3>5
    <2> QED BY <2>1, <2>2
  <1>2. CASE Peek
    <2>1. QBar' = QBar
      BY <1>2 DEF Peek, QBar, SlotOf
    <2> QED BY <1>0, <1>2, <1>q, <2>1 DEF Peek, Queue!Next, Queue!Peek, QBar
  <1>3. CASE PopOldest
    <2>1. CASE count = 0
      <3>1. QBar' = QBar
        BY <1>3, <2>1 DEF PopOldest, QBar, SlotOf
      <3> QED BY <1>3, <1>q, <2>1, <3>1 DEF PopOldest, Queue!Next, Queue!PopOldest, QBar
    <2>2. CASE count # 0
      <3>1. /\ out' = buf[head] /\ buf' = [buf EXCEPT ![head] = Nil]
            /\ head' = Advance /\ count' = count - 1
        BY <1>3, <2>2 DEF PopOldest, Vacated
      <3>2. head' = IF head + 1 < Slots THEN head + 1 ELSE 0
        BY <1>0, <3>1, SlotFacts
      <3>3. \A k \in 1..(count - 1) : SlotOf(k)' = SlotOf(k + 1) /\ SlotOf(k + 1) # head
                                       /\ SlotOf(k + 1) \in 0..(Slots - 1)
        BY <1>0, <1>s, <2>2, <3>2
      <3>4. \A k \in 1..(count - 1) : QBar'[k] = QBar[k + 1]
        BY <1>0, <1>q, <1>n, <3>1, <3>3 DEF Inv, TypeOK
      <3>5. QBar' = Tail(QBar)
        <4>1. Tail(QBar) \in Seq(Requests) /\ Len(Tail(QBar)) = count - 1
              /\ \A i \in 1..(count - 1) : Tail(QBar)[i] = QBar[i + 1]
          BY <1>q, <2>2, TailAppend
        <4> QED BY <1>n, <3>1, <3>4, <4>1, SeqExt
      <3> QED BY <1>0, <1>b, <1>q, <2>2, <3>1, <3>5 DEF Queue!Next
    <2> QED BY <2>1, <2>2
  <1>4. CASE UNCHANGED vars
    BY <1>4 DEF vars, QBar, SlotOf
  <1> QED BY <1>1, <1>2, <1>3, <1>4 DEF Next, Queue!Next

(* At every capacity the array, its head and its count behave as the       *)
(* drop-oldest queue: same entries in the same order, same results, the    *)
(* evicted request returned exactly when the queue was full.               *)
THEOREM RingImplementsQueue == Spec => ImplementsQueue
  <1>1. Spec => []Inv
    BY InvInit, InvNext, PTL DEF Spec
  <1>2. Init => Queue!Init
    BY QInit
  <1>3. Inv /\ Inv' /\ [Next]_vars => [Queue!Next]_<<QBar, out>>
    BY QNext
  <1>4. [Queue!Next]_<<QBar, out>> <=> [Queue!Next]_<<[k \in 1..count |-> buf[SlotOf(k)]], out>>
    BY DEF QBar
  <1> QED BY <1>1, <1>2, <1>3, <1>4, PTL DEF Spec, ImplementsQueue, Queue!Spec
=============================================================================
