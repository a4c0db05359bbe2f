---------------------------- MODULE AdapterProofs ----------------------------
(***************************************************************************)
(* guardrail.RateLimiter: what suspension and plan changes guarantee, for  *)
(* any calls, plans, TTLs and duration of a call.                          *)
(*                                                                         *)
(* The in-flight gauge's guarantees for any number of goroutines, and the  *)
(* adapters' for any frameworks, handlers and outbound calls of theirs.    *)
(***************************************************************************)
EXTENDS Adapters, RateLimiter, FiniteSetTheorems, WellFoundedInduction, TLAPS

-----------------------------------------------------------------------------
(* What the adapters are told.                                             *)

Responses == [status : Nat, committed : BOOLEAN, wire : Nat]

(* What a handler can write *)
LEMMA Operations ==
    ASSUME NEW o \in AllOps
    PROVE  /\ o.op \in {"header", "write", "flush"} /\ o.code \in Nat
           /\ o.op = "header" => o.code # 0
  <1>1. CASE o = Write \/ o = Flush
    BY <1>1 DEF Write, Flush
  <1>2. CASE o \in {Header(code) : code \in 100..999}
    <2>1. PICK code \in 100..999 : o = Header(code)
      BY <1>2
    <2>2. o.op = "header" /\ o.code = code
      BY <2>1 DEF Header
    <2> QED
      BY <2>2
  <1> QED
    BY <1>1, <1>2 DEF AllOps

(* A response's fields *)
LEMMA ResponseOf ==
    ASSUME NEW s \in Nat, NEW c \in BOOLEAN, NEW x \in Nat
    PROVE  /\ Response(s, c, x) \in Responses
           /\ Response(s, c, x).status = s /\ Response(s, c, x).committed = c /\ Response(s, c, x).wire = x
  BY DEF Response, Responses

(* the header taken for written, or not *)
LEMMA CommittedOrNot ==
    ASSUME NEW s \in Nat, NEW x \in Nat
    PROVE  /\ LET w == Response(s, TRUE, x) IN w \in Responses /\ w.status = s /\ w.committed /\ w.wire = x
           /\ LET w == Response(s, FALSE, x) IN w \in Responses /\ w.status = s /\ ~w.committed /\ w.wire = x
  BY DEF Response, Responses

(* net/http sends the first final header, or an implicit 200 *)
LEMMA SentIsNat ==
    ASSUME NEW x \in Nat, NEW o \in AllOps
    PROVE  /\ Sent(x, o) \in Nat
           /\ x # 0 => Sent(x, o) = x
           /\ x = 0 /\ o.op # "header" => Sent(x, o) = OK
           /\ x = 0 /\ o.op = "header" /\ ~Informational(o.code) => Sent(x, o) = o.code
           /\ x = 0 /\ o.op = "header" /\ Informational(o.code) => Sent(x, o) = 0
  BY Operations DEF Sent, OK

(* What a writer holds agrees with what was sent, but for an early hint    *)
(* and for what it has not noticed; until it takes the header for written, *)
(* an implicit 200 at most has been sent, and by gin nothing.              *)
Faithful(fw, w, u) ==
    /\ w \in Responses
    /\ IF w.committed THEN w.status # 0 /\ (u \/ Informational(w.status) \/ w.status = w.wire)
       ELSE IF fw = "gin" THEN w.status # 0 /\ w.wire = 0
       ELSE w.wire \in {0, OK} /\ w.status = IF fw = "beego" THEN 0 ELSE OK

(* The three ways to be faithful *)
LEMMA FaithfulWhen ==
    ASSUME NEW fw, NEW w \in Responses, NEW u
    PROVE  /\ w.committed /\ w.status # 0 /\ (u \/ Informational(w.status) \/ w.status = w.wire) => Faithful(fw, w, u)
           /\ ~w.committed /\ fw = "gin" /\ w.status # 0 /\ w.wire = 0 => Faithful(fw, w, u)
           /\ ~w.committed /\ fw # "gin" /\ w.wire \in {0, OK} /\ w.status = (IF fw = "beego" THEN 0 ELSE OK)
              => Faithful(fw, w, u)
  BY Zenon DEF Faithful

(* and what each means *)
LEMMA FaithfulThen ==
    ASSUME NEW fw, NEW w, NEW u, Faithful(fw, w, u)
    PROVE  /\ w \in Responses /\ w.status \in Nat /\ w.committed \in BOOLEAN /\ w.wire \in Nat
           /\ w.committed => w.status # 0 /\ (u \/ Informational(w.status) \/ w.status = w.wire)
           /\ ~w.committed /\ fw = "gin" => w.status # 0 /\ w.wire = 0
           /\ ~w.committed /\ fw # "gin" => w.wire \in {0, OK} /\ w.status = (IF fw = "beego" THEN 0 ELSE OK)
  <1>1. w \in Responses
    BY Zenon DEF Faithful
  <1>2. w.status \in Nat /\ w.committed \in BOOLEAN /\ w.wire \in Nat
    BY <1>1 DEF Responses
  <1> QED
    BY <1>1, <1>2, Zenon DEF Faithful

(* Whatever a handler writes keeps that so *)
LEMMA WrittenFaithful ==
    ASSUME NEW fw \in Frameworks, NEW w, NEW u \in BOOLEAN, NEW o \in AllOps, Faithful(fw, w, u)
    PROVE  Faithful(fw, Written(fw, w, o), u \/ Unnoticed(w, o))
  <1> DEFINE v == Written(fw, w, o)
  <1>0. /\ w \in Responses /\ w.status \in Nat /\ w.committed \in BOOLEAN /\ w.wire \in Nat
        /\ o.op \in {"header", "write", "flush"} /\ o.code \in Nat /\ (o.op = "header" => o.code # 0)
        /\ OK \in Nat /\ OK # 0
    BY Operations DEF Faithful, Responses, OK
  <1>1. CASE fw \in {"nethttp", "chi", "echo", "beego"}
    <2> DEFINE st == IF o.op = "header" /\ ~w.committed THEN o.code ELSE w.status
               co == w.committed \/ (IF fw = "beego" THEN o.op = "header" ELSE o.op # "flush")
               wi == IF fw \in {"echo", "beego"} /\ o.op = "header" /\ w.committed THEN w.wire ELSE Sent(w.wire, o)
    <2>1. st \in Nat /\ co \in BOOLEAN /\ wi \in Nat
      BY <1>0, SentIsNat
    <2>2. v = Response(st, co, wi)
      BY <1>1 DEF Written, Capture, echoWrites, beegoWrites
    <2>3. v \in Responses /\ v.status = st /\ v.committed = co /\ v.wire = wi
      <3> HIDE DEF st, co, wi
      <3> QED
        BY <2>1, <2>2, ResponseOf
    <2>6. v.status \in Nat /\ v.wire \in Nat
      BY <2>3 DEF Responses
    <2> DEFINE y == u \/ Unnoticed(w, o)
    <2> SUFFICES Faithful(fw, v, y)
      OBVIOUS
    <2> HIDE DEF v
    <2>4. CASE w.committed
      <3>1. v.status = w.status /\ v.committed /\ v.wire = wi
        BY <2>3, <2>4
      <3>2. w.wire # 0 => v.wire = w.wire
        BY <1>0, <3>1, SentIsNat
      <3>3. v.status # 0 /\ (y \/ Informational(v.status) \/ v.status = v.wire)
        <4>1. w.status # 0 /\ (u \/ Informational(w.status) \/ w.status = w.wire)
          BY <2>4, FaithfulThen, Zenon
        <4> HIDE DEF st, co, wi
        <4> QED
          BY <3>1, <3>2, <4>1, Zenon
      <3> HIDE DEF y
      <3> QED
        BY <2>3, <3>1, <3>3, FaithfulWhen, Zenon
    <2>5. CASE ~w.committed
      <3>1. w.wire \in {0, OK} /\ w.status = (IF fw = "beego" THEN 0 ELSE OK) /\ v.wire = Sent(w.wire, o) /\ fw # "gin"
        BY <1>1, <2>3, <2>5, FaithfulThen
      <3>2. CASE o.op = "header"
        <4>1. v.status = o.code /\ v.committed /\ v.status # 0
          BY <1>0, <2>3, <2>5, <3>2
        <4>2. w.wire # 0 => y
          BY <2>5, <3>2, Zenon DEF Unnoticed
        <4>3. w.wire = 0 => Informational(v.status) \/ v.status = v.wire
          <5>1. w.wire = 0 => Informational(o.code) \/ v.wire = o.code
            BY <1>0, <3>1, <3>2, SentIsNat, Zenon
          <5> QED
            BY <4>1, <5>1, Zenon
        <4> HIDE DEF y, st, co, wi
        <4>4. y \/ Informational(v.status) \/ v.status = v.wire
          BY <4>2, <4>3, Zenon
        <4> QED
          BY <2>3, <4>1, <4>4, FaithfulWhen, Zenon
      <3>3. CASE o.op # "header"
        <4>1. v.status = w.status /\ v.wire = OK
          BY <1>0, <2>3, <3>1, <3>3, SentIsNat
        <4>2. CASE fw = "beego"
          <5>1. ~v.committed
            BY <2>3, <2>5, <3>3, <4>2
          <5> QED
            BY <2>3, <3>1, <4>1, <4>2, <5>1, FaithfulWhen, Zenon
        <4>3. CASE fw # "beego"
          <5>1. v.status = OK
            BY <3>1, <4>1, <4>3
          <5> HIDE DEF y, st, co, wi
          <5>2. CASE v.committed
            BY <1>0, <2>3, <4>1, <5>1, <5>2, FaithfulWhen, Zenon
          <5>3. CASE ~v.committed
            BY <2>3, <3>1, <4>1, <4>3, <5>3, <5>1, FaithfulWhen, Zenon
          <5> QED
            BY <5>2, <5>3, Zenon
        <4> QED
          BY <4>2, <4>3
      <3> QED
        BY <3>2, <3>3
    <2> QED
      BY <1>0, <2>4, <2>5
  <1>2. CASE fw = "gin"
    <2>1. CASE o.op = "header"
      <3>1. v = Response(IF w.committed THEN w.status ELSE o.code, w.committed, w.wire)
        BY <1>2, <2>1 DEF Written, ginWrites
      <3>2. /\ v \in Responses /\ v.status = (IF w.committed THEN w.status ELSE o.code)
            /\ v.committed = w.committed /\ v.wire = w.wire
        BY <1>0, <3>1, ResponseOf
      <3> DEFINE y == u \/ Unnoticed(w, o)
      <3> SUFFICES Faithful(fw, v, y)
        OBVIOUS
      <3> HIDE DEF v
      <3>3. CASE w.committed
        <4>1. w.status # 0 /\ (y \/ Informational(w.status) \/ w.status = w.wire)
          BY <3>3, FaithfulThen, Zenon
        <4>2. v.committed /\ v.status = w.status /\ v.wire = w.wire
          BY <3>2, <3>3
        <4> HIDE DEF y
        <4> QED
          BY <3>2, <4>1, <4>2, FaithfulWhen, Zenon
      <3>4. CASE ~w.committed
        <4>1. ~v.committed /\ v.status # 0 /\ v.wire = 0
          BY <1>0, <1>2, <2>1, <3>2, <3>4, FaithfulThen
        <4> QED
          BY <1>2, <3>2, <4>1, FaithfulWhen, Zenon
      <3> QED
        BY <3>3, <3>4
    <2>2. CASE o.op # "header"
      <3> DEFINE x == Sent(HeaderNow(w), o)
      <3>1. HeaderNow(w) \in Nat /\ (~w.committed => HeaderNow(w) = w.status \/ Informational(w.status))
        <4>1. CASE w.committed
          BY <1>0, <4>1 DEF HeaderNow
        <4>2. CASE ~w.committed
          <5>1. w.wire = 0
            BY <1>2, <4>2 DEF Faithful
          <5>2. HeaderNow(w) = IF Informational(w.status) THEN 0 ELSE w.status
            BY <4>2, <5>1 DEF HeaderNow, Sent, Header
          <5> QED
            BY <1>0, <5>2
        <4> QED
          BY <1>0, <4>1, <4>2
      <3>2. x \in Nat /\ (HeaderNow(w) # 0 => x = HeaderNow(w))
        BY <3>1, SentIsNat
      <3>3. v = Response(w.status, TRUE, x)
        BY <1>2, <2>2 DEF Written, ginWrites
      <3> HIDE DEF x
      <3>4. v \in Responses /\ v.status = w.status /\ v.committed /\ v.wire = x
        <4>1. w.status \in Nat /\ x \in Nat
          BY <1>0, <3>2
        <4> DEFINE st == w.status
        <4>2. v = Response(st, TRUE, x) /\ st \in Nat
          BY <3>3, <4>1
        <4> HIDE DEF v, st
        <4>3. v \in Responses /\ v.status = st /\ v.committed /\ v.wire = x
          BY <4>1, <4>2, CommittedOrNot
        <4> QED
          BY <4>3 DEF st
      <3>5. w.committed => HeaderNow(w) = w.wire
        BY DEF HeaderNow
      <3> DEFINE y == u \/ Unnoticed(w, o)
      <3> SUFFICES Faithful(fw, v, y)
        OBVIOUS
      <3> HIDE DEF v
      <3>6. v.status # 0
        BY <1>0, <1>2, <3>4, FaithfulThen
      <3>7. y \/ Informational(v.status) \/ v.status = v.wire
        <4>1. CASE w.committed
          <5>1. u \/ Informational(w.status) \/ w.status = w.wire
            BY <4>1, FaithfulThen, Zenon
          <5>2. w.wire # 0 => v.wire = w.wire
            BY <3>2, <3>4, <3>5, <4>1
          <5> QED
            BY <3>4, <3>6, <5>1, <5>2, Zenon
        <4>2. CASE ~w.committed
          <5>1. HeaderNow(w) = w.status => v.wire = v.status
            BY <3>2, <3>4, <3>6
          <5> QED
            BY <3>1, <3>4, <4>2, <5>1, Zenon
        <4> QED
          BY <4>1, <4>2
      <3> HIDE DEF y
      <3> QED
        BY <3>4, <3>6, <3>7, FaithfulWhen, Zenon
    <2> QED
      BY <2>1, <2>2
  <1> QED
    BY <1>1, <1>2 DEF Frameworks

Positive(d) == IF d > 0 THEN d ELSE 0

(* The accumulator counts no negative duration *)
LEMMA AddsPositive ==
    ASSUME NEW e \in Nat, NEW d \in Int
    PROVE  AddDownstream(e, d) = Positive(d) + e
  BY DEF AddDownstream, Positive

(* An accumulator's fields *)
LEMMA AccumulatorFields ==
    ASSUME NEW k, NEW open, NEW took, NEW elapsed, k = [open |-> open, took |-> took, elapsed |-> elapsed]
    PROVE  k.open = open /\ k.took = took /\ k.elapsed = elapsed /\ k = [x \in {"open", "took", "elapsed"} |-> k[x]]
  OBVIOUS
-----------------------------------------------------------------------------
(* guardrail.RateLimiter and its limit cache. *)

CallStates ==
    [pc : {"idle", "base", "store", "tune", "burst", "take", "done"}, started : Nat,
     limits : Plans \cup {Unresolved}, allowed : BOOLEAN, age : Nat]

Buckets == [made : BOOLEAN, rate : Plans, limits : Plans, tokens : Nat]

(* The last instant at which a budget above zero could be answered.        *)
Since == IF Burst[plan] > 0 THEN now ELSE entitled

Pays(l) == Burst[Effective(l)] > 0

Busy(c) == call[c].pc \notin {"idle", "done"}

(* A call lasts at most Span. *)
Timely == \A c \in Calls : Busy(c) => call[c].started <= now /\ now <= call[c].started + Span

(* How long a budget above zero outlives the instant it was last true: in  *)
(* a call that has read it, in the cache, in a call that found it there,   *)
(* and in the bucket, for the calls that are about to take a token.        *)
Stale(c) ==
    /\ call[c].pc = "store" /\ Pays(call[c].limits) => call[c].started <= Since
    /\ call[c].pc \in {"tune", "burst"} /\ Pays(call[c].limits) => call[c].started < Since + Span + PositiveTTL
    /\ call[c].pc = "take" /\ Burst[limiter.limits] > 0 => call[c].started < Since + Span + Span + PositiveTTL
    /\ call[c].allowed => call[c].age < PositiveTTL + 3 * Span

LimiterInv ==
    /\ LimiterTypeOK /\ entitled <= now
    /\ Timely
    /\ Pays(cache.limits) => cache.expiry <= Since + Span + PositiveTTL
    /\ \A c \in Calls : Stale(c)

(* The bucket exists before a token is taken from it. *)
Made ==
    /\ \A c \in Calls : call[c].pc \in {"burst", "take"} => limiter.made
    /\ ~limiter.made => granted = 0
-----------------------------------------------------------------------------
(* The parts of the state that the proofs use most. *)
LEMMA Parts ==
    ASSUME LimiterTypeOK
    PROVE  /\ now \in Nat /\ entitled \in Nat /\ granted \in Nat /\ plan \in Plans /\ Default \in Plans
           /\ call \in [Calls -> CallStates]
           /\ \A c \in Calls : /\ call[c] \in CallStates /\ call[c].started \in Nat /\ call[c].age \in Nat
                               /\ Effective(call[c].limits) \in Plans
           /\ limiter \in Buckets
           /\ limiter.rate \in Plans /\ limiter.limits \in Plans /\ limiter.tokens \in Nat /\ limiter.made \in BOOLEAN
           /\ cache.expiry \in Nat /\ Effective(cache.limits) \in Plans
           /\ \A p \in Plans : Burst[p] \in Nat /\ Rps[p] \in Nat
  <1>1. now \in Nat /\ entitled \in Nat /\ granted \in Nat /\ plan \in Plans /\ Default \in Plans
    BY LimiterAssumption DEF LimiterTypeOK
  <1>2. call \in [Calls -> CallStates]
    BY DEF LimiterTypeOK, CallStates
  <1>3. \A c \in Calls : call[c] \in CallStates
    BY <1>2
  <1>4. \A c \in Calls : call[c].started \in Nat /\ call[c].age \in Nat /\ call[c].limits \in Plans \cup {Unresolved}
    BY <1>3 DEF CallStates
  <1>5. /\ limiter \in Buckets
        /\ limiter.rate \in Plans /\ limiter.limits \in Plans /\ limiter.tokens \in Nat /\ limiter.made \in BOOLEAN
    BY DEF LimiterTypeOK, Buckets
  <1>6. cache.expiry \in Nat /\ cache.limits \in Plans \cup {Unresolved}
    BY DEF LimiterTypeOK
  <1>7. \A p \in Plans : Burst[p] \in Nat /\ Rps[p] \in Nat
    BY LimiterAssumption
  <1> QED BY <1>1, <1>2, <1>3, <1>4, <1>5, <1>6, <1>7 DEF Effective

(* One call moves, the others stay. *)
Moved(c, k) == call'[c] = k /\ (\A d \in Calls : d # c => call'[d] = call[d]) /\ call' \in [Calls -> CallStates]

(* What a step does to the calls. *)
LEMMA OneCall ==
    ASSUME LimiterTypeOK, NEW c \in Calls, NEW k \in CallStates, call' = [call EXCEPT ![c] = k]
    PROVE  Moved(c, k)
  BY Parts DEF Moved

(* What the tokens are after a call, a tuning or a tick. *)
LEMMA TokensAreNat ==
    ASSUME LimiterTypeOK
    PROVE  /\ Available \in Nat /\ Available <= limiter.tokens /\ Available <= Burst[limiter.limits]
           /\ \A l \in Plans : Tuned(l) \in Buckets /\ Reburst(l) \in Buckets
  <1>1. limiter \in Buckets /\ limiter.limits \in Plans /\ limiter.tokens \in Nat /\ \A p \in Plans : Burst[p] \in Nat
    BY Parts
  <1>2. Available \in Nat /\ Available <= limiter.tokens /\ Available <= Burst[limiter.limits]
    BY <1>1 DEF Available, Minimum
  <1>3. \A l \in Plans : Tuned(l) \in Buckets /\ Reburst(l) \in Buckets
    BY <1>1, <1>2 DEF Tuned, Reburst, Buckets
  <1> QED BY <1>2, <1>3

(* Since only grows, and never runs ahead of the clock. *)
LEMMA SinceGrows ==
    ASSUME LimiterTypeOK, LimiterTypeOK', entitled <= now, now <= now',
           \/ plan' = plan /\ entitled' \in {entitled, now}
           \/ now' = now /\ entitled' = IF Burst[plan] > 0 THEN now ELSE entitled
    PROVE  Since \in Nat /\ Since' \in Nat /\ Since <= Since' /\ Since <= now /\ entitled' <= now'
  <1>1. now \in Nat /\ entitled \in Nat /\ plan \in Plans /\ \A p \in Plans : Burst[p] \in Nat
    BY Parts
  <1>2. now' \in Nat /\ entitled' \in Nat /\ plan' \in Plans
    BY DEF LimiterTypeOK
  <1> QED BY <1>1, <1>2 DEF Since

(* Durations add up to a number. *)
LEMMA SumIsNat == \A a, b, c \in Nat : a + b + b + c \in Nat
  OBVIOUS

(* What was due before an instant is due before any later one. *)
LEMMA DueLater ==
    /\ \A x, y, z \in Nat : x <= y /\ y <= z => x <= z
    /\ \A x, y, z, s, t \in Nat : x < y + s + t /\ y <= z => x < z + s + t
    /\ \A x, y, z, s, t \in Nat : x < y + s + s + t /\ y <= z => x < z + s + s + t
  OBVIOUS

(* A step of one call, with the clock standing still. *)
LEMMA CallStep ==
    ASSUME LimiterInv, LimiterTypeOK', now' = now, plan' = plan, entitled' \in {entitled, now},
           NEW c \in Calls, NEW k \in CallStates, Moved(c, k),
           k.pc \notin {"idle", "done"} => k.started <= now /\ now <= k.started + Span,
           Pays(cache'.limits) => cache'.expiry <= Since' + Span + PositiveTTL,
           \/ Burst[limiter'.limits] = Burst[limiter.limits]
           \/ Burst[limiter'.limits] > 0 => now < Since' + Span + Span + PositiveTTL,
           Stale(c)'
    PROVE  LimiterInv'
  <1>1. call'[c] = k /\ \A d \in Calls : d # c => call'[d] = call[d]
    BY DEF Moved
  <1>2. now \in Nat /\ (\A d \in Calls : call[d].started \in Nat) /\ Span \in Nat /\ PositiveTTL \in Nat
    BY Parts, LimiterAssumption DEF LimiterInv
  <1>3. Since \in Nat /\ Since' \in Nat /\ Since <= Since' /\ entitled' <= now'
    <2>1. now <= now'
      BY <1>2
    <2> QED BY <2>1, SinceGrows, Zenon DEF LimiterInv
  <1>4. Timely'
    BY <1>1 DEF LimiterInv, Timely, Busy
  <1>5. ASSUME NEW d \in Calls, d # c PROVE Stale(d)'
    <2>0. Stale(d) /\ (Busy(d) => call[d].started <= now)
      BY DEF LimiterInv, Timely
    <2>1. call'[d] = call[d] /\ Stale(d) /\ (Busy(d) => call[d].started <= now)
      BY <1>1, <1>5, <2>0
    <2>2. Pays(call'[d].limits) <=> Pays(call[d].limits)
      BY <2>1
    <2>3. call'[d].pc = "take" /\ Burst[limiter'.limits] > 0 => call'[d].started < Since' + Span + Span + PositiveTTL
      <3>1. call[d].pc = "take" => call[d].started <= now
        BY <2>1 DEF Busy
      <3>2. call[d].pc = "take" /\ Burst[limiter.limits] > 0 => call[d].started < Since + Span + Span + PositiveTTL
        BY <2>1 DEF Stale
      <3>3. CASE Burst[limiter'.limits] = Burst[limiter.limits]
        <4>1. Burst[limiter'.limits] > 0 <=> Burst[limiter.limits] > 0
          BY <3>3, Zenon
        <4> QED
          BY <1>2, <1>3, <2>1, <3>2, <4>1, DueLater, Zenon
      <3>4. CASE Burst[limiter'.limits] > 0 => now < Since' + Span + Span + PositiveTTL
        <4>1. Span \in Nat /\ PositiveTTL \in Nat /\ Since' \in Nat
          BY <1>2, <1>3
        <4>2. Since' + Span + Span + PositiveTTL \in Nat
          BY <4>1, SumIsNat
        <4>3. call[d].started \in Nat /\ now \in Nat
          BY <1>2
        <4>5. call[d].started < Since' + Span + Span + PositiveTTL \/ ~(call'[d].pc = "take" /\ Burst[limiter'.limits] > 0)
          BY <2>1, <3>1, <3>4, <4>2, <4>3
        <4> QED BY <2>1, <4>5
      <3> QED BY <3>3, <3>4
    <2>4. call'[d].pc = "store" /\ Pays(call'[d].limits) => call'[d].started <= Since'
      BY <1>2, <1>3, <2>1, <2>2, DueLater, Zenon DEF Stale
    <2>5. call'[d].pc \in {"tune", "burst"} /\ Pays(call'[d].limits) => call'[d].started < Since' + Span + PositiveTTL
      BY <1>2, <1>3, <2>1, <2>2, DueLater, Zenon DEF Stale
    <2> QED BY <2>1, <2>3, <2>4, <2>5 DEF Stale, Pays
  <1>6. Pays(cache.limits)' <=> Pays(cache'.limits)
    BY DEF Pays, Effective
  <1>7. \A d \in Calls : Stale(d)'
    BY <1>5
  <1> QED BY <1>3, <1>4, <1>6, <1>7 DEF LimiterInv

(* Types are kept by every action. *)
LEMMA TypesKept == LimiterInv /\ [LimiterNext]_limiterVars => LimiterTypeOK'
  <1> SUFFICES ASSUME LimiterTypeOK, entitled <= now, [LimiterNext]_limiterVars PROVE LimiterTypeOK'
    BY DEF LimiterInv
  <1> DEFINE L == Plans \cup {Unresolved}
  <1>1. /\ now \in 0..MaxTime /\ now \in Nat /\ entitled \in Nat /\ granted \in Nat /\ plan \in Plans /\ changes \in 0..MaxChanges
        /\ call \in [Calls -> CallStates] /\ cache \in [limits : L, expiry : Nat]
        /\ limiter \in Buckets
        /\ MaxTime \in Nat /\ MaxChanges \in Nat /\ PositiveTTL \in Nat /\ NegativeTTL \in Nat
    BY LimiterAssumption, Parts DEF LimiterTypeOK
  <1>2. ASSUME call' \in [Calls -> CallStates], UNCHANGED <<now, plan, cache, limiter, entitled, granted, changes>>
        PROVE  LimiterTypeOK'
    BY <1>2 DEF LimiterTypeOK, CallStates
  <1>3. ASSUME NEW c \in Calls, AllowStart(c) PROVE LimiterTypeOK'
    <2>1. [Idle EXCEPT !.pc = "tune", !.started = now, !.limits = cache.limits] \in CallStates
      BY <1>1 DEF Idle, CallStates
    <2>2. [Idle EXCEPT !.pc = "base", !.started = now] \in CallStates
      BY <1>1 DEF Idle, CallStates
    <2> QED BY <1>1, <1>2, <1>3, <2>1, <2>2 DEF AllowStart
  <1>4. ASSUME NEW c \in Calls, BaseOk(c) PROVE LimiterTypeOK'
    <2>1. call' \in [Calls -> CallStates]
      BY <1>1, <1>4, ZenonT(60) DEF BaseOk, CallStates
    <2> QED BY <1>2, <1>4, <2>1 DEF BaseOk
  <1>5. ASSUME NEW c \in Calls, BaseError(c) PROVE LimiterTypeOK'
    <2>1. call' \in [Calls -> CallStates]
      BY <1>1, <1>5, ZenonT(60) DEF BaseError, CallStates
    <2> QED BY <1>1, <1>5, <2>1 DEF BaseError, LimiterTypeOK, CallStates
  <1>6. ASSUME NEW c \in Calls, Store(c) PROVE LimiterTypeOK'
    <2>1. call' \in [Calls -> CallStates]
      BY <1>1, <1>6 DEF Store, CallStates
    <2>2. call[c].limits \in L
      BY <1>1 DEF CallStates
    <2>3. cache' \in [limits : L, expiry : Nat]
      BY <1>1, <1>6, <2>2 DEF Store
    <2> QED BY <1>6, <2>1, <2>3 DEF Store, LimiterTypeOK, CallStates
  <1>7. ASSUME NEW c \in Calls, Tune(c) PROVE LimiterTypeOK'
    <2>1. call' \in [Calls -> CallStates]
      BY <1>1, <1>7 DEF Tune, CallStates
    <2>2. limiter' \in Buckets
      BY <1>7, Parts, TokensAreNat DEF Tune
    <2> QED BY <1>7, <2>1, <2>2 DEF Tune, LimiterTypeOK, CallStates, Buckets
  <1>13. ASSUME NEW c \in Calls, SetBurst(c) PROVE LimiterTypeOK'
    <2>1. call' \in [Calls -> CallStates]
      BY <1>1, <1>13 DEF SetBurst, CallStates
    <2>2. limiter' \in Buckets
      BY <1>13, Parts, TokensAreNat DEF SetBurst
    <2> QED BY <1>13, <2>1, <2>2 DEF SetBurst, LimiterTypeOK, CallStates, Buckets
  <1>8. ASSUME NEW c \in Calls, Take(c) PROVE LimiterTypeOK'
    <2>1. Available \in Nat /\ Age \in Nat
      BY <1>1, TokensAreNat DEF Age
    <2>2. call' \in [Calls -> CallStates]
      <3>1. (Available >= 1) \in BOOLEAN
        BY <2>1
      <3>2. [call[c] EXCEPT !.pc = "done", !.allowed = Available >= 1, !.age = Age] \in CallStates
        BY <1>1, <2>1, <3>1 DEF CallStates
      <3>3. call' = [call EXCEPT ![c] = [call[c] EXCEPT !.pc = "done", !.allowed = Available >= 1, !.age = Age]]
        BY <1>1, <1>8 DEF Take, CallStates
      <3> QED BY <1>1, <3>2, <3>3
    <2>3. limiter' \in Buckets /\ granted' \in Nat
      BY <1>1, <1>8, <2>1 DEF Take, Buckets
    <2> QED BY <1>8, <2>2, <2>3 DEF Take, LimiterTypeOK, CallStates, Buckets
  <1>9. ASSUME NEW c \in Calls, Return(c) PROVE LimiterTypeOK'
    <2>1. Idle \in CallStates
      BY DEF Idle, CallStates
    <2> QED BY <1>1, <1>2, <1>9, <2>1 DEF Return
  <1>10. ASSUME NEW p \in Plans, ChangePlan(p) PROVE LimiterTypeOK'
    BY <1>1, <1>10 DEF ChangePlan, LimiterTypeOK
  <1>11. ASSUME Tick PROVE LimiterTypeOK'
    <2>1. limiter.tokens \in Nat /\ Rps[limiter.rate] \in Nat /\ Burst[limiter.limits] \in Nat
      BY Parts
    <2>2. limiter' \in Buckets
      BY <1>1, <1>11, <2>1 DEF Tick, Minimum, Buckets
    <2> QED BY <1>1, <1>11, <2>2 DEF Tick, LimiterTypeOK, Buckets
  <1>12. CASE UNCHANGED limiterVars
    BY <1>12 DEF limiterVars, LimiterTypeOK
  <1> QED BY <1>3, <1>4, <1>5, <1>6, <1>7, <1>8, <1>9, <1>10, <1>11, <1>12, <1>13 DEF LimiterNext

(* Every step keeps the budget's age bounded. *)
LEMMA LimiterKept == LimiterInv /\ [LimiterNext]_limiterVars => LimiterInv'
  <1> SUFFICES ASSUME LimiterInv, [LimiterNext]_limiterVars PROVE LimiterInv'
    OBVIOUS
  <1>1. LimiterTypeOK /\ LimiterTypeOK' /\ entitled <= now
    BY TypesKept DEF LimiterInv
  <1>2. /\ now \in Nat /\ entitled \in Nat /\ plan \in Plans /\ call \in [Calls -> CallStates]
        /\ \A c \in Calls : call[c] \in CallStates /\ call[c].started \in Nat
        /\ \A p \in Plans : Burst[p] \in Nat
        /\ Span \in Nat /\ PositiveTTL \in Nat \ {0} /\ NegativeTTL \in 0..PositiveTTL
    BY <1>1, Parts, LimiterAssumption
  <1>3. ASSUME NEW c \in Calls, NEW k \in CallStates, call' = [call EXCEPT ![c] = k],
               UNCHANGED <<now, plan, cache, limiter, entitled>>,
               k.pc \notin {"idle", "done"} => k.started <= now /\ now <= k.started + Span,
               Stale(c)'
        PROVE  LimiterInv'
    <2>1. Moved(c, k)
      BY <1>1, <1>3, OneCall
    <2>2. Since' = Since
      BY <1>3 DEF Since
    <2>3. Pays(cache'.limits) => cache'.expiry <= Since' + Span + PositiveTTL
      BY <1>3, <2>2 DEF LimiterInv
    <2> QED BY <1>1, <1>3, <2>1, <2>3, CallStep
  <1>4. ASSUME NEW c \in Calls, AllowStart(c) PROVE LimiterInv'
    <2> DEFINE tune == [Idle EXCEPT !.pc = "tune", !.started = now, !.limits = cache.limits]
               base == [Idle EXCEPT !.pc = "base", !.started = now]
               k == IF Fresh THEN tune ELSE base
    <2>1. /\ tune \in CallStates /\ tune.pc = "tune" /\ tune.started = now /\ tune.limits = cache.limits /\ ~tune.allowed
          /\ base \in CallStates /\ base.pc = "base" /\ base.started = now /\ ~base.allowed
      BY <1>1, <1>2 DEF Idle, CallStates, LimiterTypeOK
    <2>2. call' = [call EXCEPT ![c] = k] /\ UNCHANGED <<now, plan, cache, limiter, entitled>>
      BY <1>4 DEF AllowStart
    <2>3. /\ k \in CallStates /\ k.pc \in {"tune", "base"} /\ k.started = now /\ ~k.allowed
          /\ k.pc = "tune" => Fresh /\ k.limits = cache.limits
      BY <2>1
    <2> HIDE DEF k
    <2>4. call'[c] = k /\ Since' = Since
      BY <1>2, <2>2, <2>3 DEF Since
    <2>5. k.pc = "tune" /\ Pays(k.limits) => now < Since + Span + PositiveTTL
      <3>1. Pays(cache.limits) => cache.expiry <= Since + Span + PositiveTTL
        BY DEF LimiterInv
      <3>2. cache.expiry \in Nat /\ Since \in Nat /\ (Fresh => now < cache.expiry)
        BY <1>1, <1>2, Parts DEF Fresh, Since
      <3> QED BY <1>2, <2>3, <3>1, <3>2
    <2>6. Stale(c)'
      BY <2>3, <2>4, <2>5 DEF Stale, Pays, Effective
    <2>7. k.started <= now /\ now <= k.started + Span
      BY <1>2, <2>3
    <2> QED BY <1>3, <2>2, <2>3, <2>6, <2>7
  <1>5. ASSUME NEW c \in Calls, BaseOk(c) PROVE LimiterInv'
    <2> DEFINE k == [[call[c] EXCEPT !.pc = "store"] EXCEPT !.limits = plan]
    <2>1. /\ call[c] \in CallStates /\ call[c].pc = "base" /\ call[c].started <= now /\ now <= call[c].started + Span
          /\ Stale(c)
      BY <1>2, <1>5 DEF BaseOk, LimiterInv, Timely, Busy
    <2>2. k \in CallStates /\ k.pc = "store" /\ k.limits = plan /\ k.started = call[c].started
          /\ k.allowed = call[c].allowed /\ k.age = call[c].age
      BY <1>2, <2>1 DEF CallStates
    <2>3. call' = [call EXCEPT ![c] = k] /\ UNCHANGED <<now, plan, cache, limiter, entitled>>
      BY <1>2, <1>5 DEF BaseOk, CallStates
    <2> HIDE DEF k
    <2>4. call'[c] = k /\ Since' = Since
      BY <1>2, <2>2, <2>3 DEF Since
    <2>5. Pays(plan) => Since = now
      BY LimiterAssumption, <1>2 DEF Pays, Effective, Since
    <2>6. Stale(c)'
      BY <1>2, <2>1, <2>2, <2>3, <2>4, <2>5 DEF Stale, Pays, Effective
    <2> QED BY <1>3, <2>1, <2>2, <2>3, <2>6
  <1>6. ASSUME NEW c \in Calls, Return(c) PROVE LimiterInv'
    <2>1. Idle \in CallStates /\ Idle.pc = "idle" /\ ~Idle.allowed
      BY DEF Idle, CallStates
    <2>2. call' = [call EXCEPT ![c] = Idle] /\ UNCHANGED <<now, plan, cache, limiter, entitled>>
      BY <1>6 DEF Return
    <2>3. call'[c] = Idle
      BY <1>2, <2>2
    <2>4. Stale(c)'
      BY <2>1, <2>3 DEF Stale
    <2> QED BY <1>3, <2>1, <2>2, <2>4
  <1>7. ASSUME NEW c \in Calls, BaseError(c) PROVE LimiterInv'
    <2> DEFINE k == [[call[c] EXCEPT !.pc = "store"] EXCEPT !.limits = Unresolved]
    <2>1. /\ call[c] \in CallStates /\ call[c].pc = "base" /\ call[c].started <= now /\ now <= call[c].started + Span
          /\ Stale(c)
      BY <1>2, <1>7 DEF BaseError, LimiterInv, Timely, Busy
    <2>2. /\ k \in CallStates /\ k.pc = "store" /\ k.started = call[c].started
          /\ k.allowed = call[c].allowed /\ k.age = call[c].age
      BY <1>2, <2>1 DEF CallStates
    <2>3. /\ call' = [call EXCEPT ![c] = k] /\ UNCHANGED <<now, plan, cache, limiter>> /\ entitled' = now
      BY <1>2, <1>7 DEF BaseError, CallStates
    <2> HIDE DEF k
    <2>4. call'[c] = k /\ Since' = now /\ Since <= now /\ Since \in Nat
      BY <1>1, <1>2, <2>2, <2>3 DEF Since
    <2>5. Stale(c)'
      BY <2>1, <2>2, <2>4 DEF Stale
    <2>6. Pays(cache'.limits) => cache'.expiry <= Since' + Span + PositiveTTL
      <3>1. Pays(cache.limits) => cache.expiry <= Since + Span + PositiveTTL
        BY DEF LimiterInv
      <3>2. cache.expiry \in Nat /\ cache' = cache
        BY <1>1, <2>3, Parts
      <3> QED BY <1>2, <2>4, <3>1, <3>2
    <2>7. Moved(c, k)
      BY <1>1, <2>2, <2>3, OneCall
    <2> QED BY <1>1, <2>1, <2>2, <2>3, <2>5, <2>6, <2>7, CallStep
  <1>8. ASSUME NEW c \in Calls, Store(c) PROVE LimiterInv'
    <2> DEFINE k == [call[c] EXCEPT !.pc = "tune"]
               ttl == IF call[c].limits = Unresolved THEN NegativeTTL ELSE PositiveTTL
    <2>1. /\ call[c] \in CallStates /\ call[c].pc = "store" /\ call[c].started <= now /\ now <= call[c].started + Span
          /\ Stale(c)
      BY <1>2, <1>8 DEF Store, LimiterInv, Timely, Busy
    <2>2. /\ k \in CallStates /\ k.pc = "tune" /\ k.started = call[c].started /\ k.limits = call[c].limits
          /\ k.allowed = call[c].allowed /\ k.age = call[c].age
      BY <2>1 DEF CallStates
    <2>3. /\ call' = [call EXCEPT ![c] = k] /\ UNCHANGED <<now, plan, limiter, entitled>>
          /\ cache'.limits = call[c].limits /\ cache'.expiry = now + ttl
      BY <1>2, <1>8 DEF Store, CallStates
    <2>4. ttl \in Nat /\ ttl <= PositiveTTL
      BY <1>2
    <2> HIDE DEF k, ttl
    <2>5. call'[c] = k /\ Since' = Since /\ Since \in Nat
      BY <1>1, <1>2, <2>2, <2>3 DEF Since
    <2>6. Pays(call[c].limits) => call[c].started <= Since
      BY <2>1 DEF Stale
    <2>7. Pays(call[c].limits) => call[c].started < Since + Span + PositiveTTL
      BY <1>2, <2>5, <2>6
    <2>8. Stale(c)'
      BY <2>1, <2>2, <2>3, <2>5, <2>7 DEF Stale, Pays, Effective
    <2>9. Pays(cache'.limits) => cache'.expiry <= Since' + Span + PositiveTTL
      BY <1>2, <2>1, <2>3, <2>4, <2>5, <2>6
    <2>10. Moved(c, k)
      BY <1>1, <2>2, <2>3, OneCall
    <2> QED BY <1>1, <2>1, <2>2, <2>3, <2>8, <2>9, <2>10, CallStep
  <1>0. ASSUME NEW c \in Calls, call[c].pc \in {"tune", "burst"}, call' = [call EXCEPT ![c].pc = "take"],
               UNCHANGED <<now, plan, cache, entitled>>, limiter'.limits = Effective(call[c].limits)
        PROVE  LimiterInv'
    <2> DEFINE k == [call[c] EXCEPT !.pc = "take"]
               l == Effective(call[c].limits)
    <2>1. /\ call[c] \in CallStates /\ call[c].started <= now /\ now <= call[c].started + Span
          /\ Stale(c)
      BY <1>2, <1>0 DEF LimiterInv, Timely, Busy
    <2>2. /\ k \in CallStates /\ k.pc = "take" /\ k.started = call[c].started
          /\ k.allowed = call[c].allowed /\ k.age = call[c].age
      BY <2>1 DEF CallStates
    <2>3. /\ call' = [call EXCEPT ![c] = k] /\ UNCHANGED <<now, plan, cache, entitled>> /\ limiter'.limits = l
      BY <1>2, <1>0 DEF CallStates
    <2> HIDE DEF k
    <2>4. call'[c] = k /\ Since' = Since /\ Since \in Nat
      BY <1>1, <1>2, <2>2, <2>3 DEF Since
    <2>5. Burst[l] > 0 => call[c].started < Since + Span + PositiveTTL
      BY <1>0, <2>1 DEF Stale, Pays
    <2> HIDE DEF l
    <2>6. Burst[l] > 0 => now < Since + Span + Span + PositiveTTL /\ call[c].started < Since + Span + Span + PositiveTTL
      BY <1>2, <2>1, <2>4, <2>5
    <2>7. Stale(c)'
      BY <2>1, <2>2, <2>3, <2>4, <2>6 DEF Stale
    <2>8. Pays(cache'.limits) => cache'.expiry <= Since' + Span + PositiveTTL
      BY <2>3, <2>4 DEF LimiterInv
    <2>9. Moved(c, k)
      BY <1>1, <2>2, <2>3, OneCall
    <2>10. Burst[limiter'.limits] > 0 => now < Since' + Span + Span + PositiveTTL
      BY <2>3, <2>4, <2>6
    <2> QED BY <1>1, <2>1, <2>2, <2>3, <2>7, <2>8, <2>9, <2>10, CallStep
  <1>9. ASSUME NEW c \in Calls, Tune(c) PROVE LimiterInv'
    <2> DEFINE k == [call[c] EXCEPT !.pc = "burst"]
    <2>0. limiter \in Buckets /\ call[c].pc = "tune" /\ UNCHANGED <<now, plan, cache, entitled>>
      BY <1>1, <1>9, Parts DEF Tune
    <2>1. CASE ~limiter.made
      <3>1. call' = [call EXCEPT ![c].pc = "take"] /\ limiter'.limits = Effective(call[c].limits)
        BY <1>9, <2>1 DEF Tune, Tuned
      <3> QED BY <1>0, <2>0, <3>1
    <2>2. CASE limiter.made
      <3>1. /\ call[c] \in CallStates /\ call[c].started <= now /\ now <= call[c].started + Span
            /\ Stale(c)
        BY <1>2, <2>0 DEF LimiterInv, Timely, Busy
      <3>2. /\ k \in CallStates /\ k.pc = "burst" /\ k.started = call[c].started /\ k.limits = call[c].limits
            /\ k.allowed = call[c].allowed /\ k.age = call[c].age
        BY <3>1 DEF CallStates
      <3>3. call' = [call EXCEPT ![c] = k]
        BY <1>2, <1>9, <2>2 DEF Tune, CallStates
      <3>4. limiter'.limits = limiter.limits
        BY <1>9, <2>0, <2>2 DEF Tune, Tuned, Buckets
      <3> HIDE DEF k
      <3>5. call'[c] = k /\ Since' = Since
        BY <1>2, <2>0, <3>2, <3>3 DEF Since
      <3>6. Stale(c)'
        BY <2>0, <3>1, <3>2, <3>5 DEF Stale, Pays, Effective
      <3>7. Pays(cache'.limits) => cache'.expiry <= Since' + Span + PositiveTTL
        BY <2>0, <3>5 DEF LimiterInv
      <3>8. Moved(c, k)
        BY <1>1, <3>2, <3>3, OneCall
      <3> QED BY <1>1, <2>0, <3>1, <3>2, <3>4, <3>6, <3>7, <3>8, CallStep
    <2> QED BY <2>1, <2>2
  <1>15. ASSUME NEW c \in Calls, SetBurst(c) PROVE LimiterInv'
    <2>1. limiter \in Buckets /\ call[c].pc = "burst" /\ UNCHANGED <<now, plan, cache, entitled>>
      BY <1>1, <1>15, Parts DEF SetBurst
    <2>2. call' = [call EXCEPT ![c].pc = "take"] /\ limiter'.limits = Effective(call[c].limits)
      BY <1>15, <2>1 DEF SetBurst, Reburst, Buckets
    <2> QED BY <1>0, <2>1, <2>2
  <1>10. ASSUME NEW c \in Calls, Take(c) PROVE LimiterInv'
    <2> DEFINE k == [[[call[c] EXCEPT !.pc = "done"] EXCEPT !.allowed = (Available >= 1)] EXCEPT !.age = Age]
    <2>1. /\ call[c] \in CallStates /\ call[c].pc = "take" /\ call[c].started <= now /\ now <= call[c].started + Span
          /\ Stale(c)
      BY <1>2, <1>10 DEF Take, LimiterInv, Timely, Busy
    <2>2. Available \in Nat /\ Available <= Burst[limiter.limits] /\ Burst[limiter.limits] \in Nat
      BY <1>1, TokensAreNat, Parts
    <2>3. Since \in Nat /\ Age = now - Since /\ Age \in Nat
      BY <1>1, <1>2 DEF Since, Age
    <2>4. (Available >= 1) \in BOOLEAN
      BY <2>2
    <2>5. k \in CallStates /\ k.pc = "done" /\ k.allowed = (Available >= 1) /\ k.age = Age
      BY <2>1, <2>3, <2>4 DEF CallStates
    <2>6. /\ call' = [call EXCEPT ![c] = k] /\ UNCHANGED <<now, plan, cache, entitled>>
          /\ limiter'.limits = limiter.limits
      BY <1>1, <1>2, <1>10 DEF Take, CallStates, LimiterTypeOK
    <2> HIDE DEF k
    <2>7. call'[c] = k /\ Since' = Since
      BY <1>2, <2>5, <2>6 DEF Since
    <2>8. k.allowed => k.age < PositiveTTL + 3 * Span
      <3> SUFFICES ASSUME k.allowed PROVE k.age < PositiveTTL + 3 * Span
        OBVIOUS
      <3>1. Burst[limiter.limits] > 0
        <4>1. Available >= 1
          BY <2>5
        <4> QED BY <2>2, <4>1
      <3>2. call[c].started < Since + Span + Span + PositiveTTL
        BY <2>1, <3>1 DEF Stale
      <3>3. now - Since < PositiveTTL + 3 * Span
        BY <1>2, <2>1, <2>3, <3>2
      <3> QED BY <2>3, <2>5, <3>3
    <2>9. Stale(c)'
      BY <2>5, <2>7, <2>8 DEF Stale
    <2>10. Pays(cache'.limits) => cache'.expiry <= Since' + Span + PositiveTTL
      BY <2>6, <2>7 DEF LimiterInv
    <2>11. Moved(c, k)
      BY <1>1, <2>5, <2>6, OneCall
    <2> QED BY <1>1, <2>5, <2>6, <2>9, <2>10, <2>11, CallStep
  <1>11. ASSUME call' = call, cache' = cache, limiter'.limits = limiter.limits, entitled' <= now',
                Since \in Nat, Since' \in Nat, Since <= Since', Timely'
         PROVE  LimiterInv'
    <2>1. ASSUME NEW c \in Calls PROVE Stale(c)'
      <3>1. Stale(c) /\ call[c].started \in Nat
        BY <1>2 DEF LimiterInv
      <3>2. Pays(call[c].limits)' <=> Pays(call[c].limits)
        BY <1>11 DEF Pays, Effective
      <3> QED BY <1>2, <1>11, <3>1, <3>2, DueLater, ZenonT(30) DEF Stale
    <2>2. Pays(cache.limits)' => cache'.expiry <= Since' + Span + PositiveTTL
      <3>1. cache.expiry \in Nat /\ (Pays(cache.limits) => cache.expiry <= Since + Span + PositiveTTL)
        BY <1>1, Parts DEF LimiterInv
      <3>2. Pays(cache.limits)' <=> Pays(cache.limits)
        BY <1>11 DEF Pays, Effective
      <3> QED BY <1>2, <1>11, <3>1, <3>2
    <2> QED BY <1>1, <1>11, <2>1, <2>2 DEF LimiterInv
  <1>12. ASSUME NEW p \in Plans, ChangePlan(p) PROVE LimiterInv'
    <2>1. /\ UNCHANGED <<now, cache, limiter, call>>
          /\ entitled' = IF Burst[plan] > 0 THEN now ELSE entitled
      BY <1>12 DEF ChangePlan
    <2>2. Since \in Nat /\ Since' \in Nat /\ Since <= Since' /\ entitled' <= now'
      BY <1>1, <1>2, <2>1, SinceGrows
    <2>3. Timely'
      BY <2>1 DEF LimiterInv, Timely, Busy
    <2> QED BY <1>11, <2>1, <2>2, <2>3
  <1>13. ASSUME Tick PROVE LimiterInv'
    <2>1. /\ now' = now + 1 /\ UNCHANGED <<plan, cache, call, entitled>> /\ limiter'.limits = limiter.limits
          /\ \A c \in Calls : Busy(c) => now - call[c].started < Span
      BY <1>1, <1>13 DEF Tick, LimiterTypeOK, Busy
    <2>2. Since \in Nat /\ Since' \in Nat /\ Since <= Since' /\ entitled' <= now'
      BY <1>1, <1>2, <2>1, SinceGrows
    <2>3. Timely'
      BY <1>2, <2>1 DEF LimiterInv, Timely, Busy
    <2> QED BY <1>11, <2>1, <2>2, <2>3
  <1>14. CASE UNCHANGED limiterVars
    <2>1. UNCHANGED <<now, plan, cache, call, limiter, entitled>>
      BY <1>14 DEF limiterVars
    <2>2. Since \in Nat /\ Since' \in Nat /\ Since <= Since' /\ entitled' <= now'
      BY <1>1, <1>2, <2>1, SinceGrows
    <2>3. Timely'
      BY <2>1 DEF LimiterInv, Timely, Busy
    <2> QED BY <1>11, <2>1, <2>2, <2>3
  <1> QED BY <1>4, <1>5, <1>6, <1>7, <1>8, <1>9, <1>10, <1>12, <1>13, <1>14, <1>15 DEF LimiterNext

(* The limiter starts with nothing cached and no call under way. *)
LEMMA LimiterStarts == LimiterInit => LimiterInv
  <1> SUFFICES ASSUME LimiterInit PROVE LimiterInv
    OBVIOUS
  <1>1. \A c \in Calls : call[c] = Idle
    BY DEF LimiterInit
  <1>2. LimiterTypeOK
    <2>1. Idle \in CallStates
      BY DEF Idle, CallStates
    <2>2. call \in [Calls -> CallStates]
      BY <2>1 DEF LimiterInit
    <2>3. MaxTime \in Nat /\ MaxChanges \in Nat /\ Default \in Plans
      BY LimiterAssumption
    <2> QED BY <2>2, <2>3 DEF LimiterInit, LimiterTypeOK, CallStates
  <1>3. Since = 0 /\ Span \in Nat /\ PositiveTTL \in Nat
    BY LimiterAssumption DEF LimiterInit, Since
  <1>4. \A c \in Calls : Stale(c) /\ ~Busy(c)
    <2>1. Idle.pc = "idle" /\ ~Idle.allowed
      BY DEF Idle
    <2> QED BY <1>1, <2>1 DEF Stale, Busy
  <1>5. cache.expiry = 0 /\ entitled <= now
    BY DEF LimiterInit
  <1> QED BY <1>2, <1>3, <1>4, <1>5 DEF LimiterInv, Timely

(* Types of the limiter; the age of an entitlement is never negative.      *)
THEOREM LimiterTypes == LimiterSpec => []LimiterTypeOK
  <1>1. LimiterInv => LimiterTypeOK
    BY DEF LimiterInv
  <1> QED BY <1>1, LimiterStarts, LimiterKept, PTL DEF LimiterSpec

(* A suspension takes effect within the cache's TTL and three calls, for   *)
(* any plans, any number of overlapping calls and any store errors.        *)
THEOREM LimiterSuspends == LimiterSpec => []SuspensionTakesEffect
  <1>1. LimiterInv => SuspensionTakesEffect
    BY DEF LimiterInv, Stale, SuspensionTakesEffect
  <1> QED BY <1>1, LimiterStarts, LimiterKept, PTL DEF LimiterSpec
-----------------------------------------------------------------------------
Within(b, r) == granted + limiter.tokens <= Burst[b] + Rps[r] * now

(* Products with a clock are numbers, and grow with rate and clock.        *)
LEMMA Products ==
    \A q, r, n \in Nat : /\ r * n \in Nat /\ r * (n + 1) = r * n + r
                         /\ q <= r => q * n <= r * n
  OBVIOUS

(* A tick adds no more than the larger of two rates. *)
LEMMA TickWithin ==
    ASSUME LimiterTypeOK, Tick, NEW b \in Plans, NEW r \in Plans, Within(b, r)
    PROVE  \E q \in Plans : Within(b, q)'
  <1> DEFINE l == limiter.rate
             m == limiter.limits
  <1>1. /\ now \in Nat /\ granted \in Nat /\ l \in Plans /\ limiter.tokens \in Nat
        /\ Burst[m] \in Nat /\ Rps[l] \in Nat /\ Burst[b] \in Nat /\ Rps[r] \in Nat
    BY Parts
  <1>2. now' = now + 1 /\ granted' = granted /\ limiter'.tokens = Minimum(limiter.tokens + Rps[l], Burst[m])
    BY DEF Tick, LimiterTypeOK
  <1>3. limiter'.tokens \in Nat /\ limiter'.tokens <= limiter.tokens + Rps[l]
    BY <1>1, <1>2 DEF Minimum
  <1>4. granted + limiter.tokens <= Burst[b] + Rps[r] * now
    BY DEF Within
  <1> HIDE DEF l, m
  <1>5. CASE Rps[l] <= Rps[r]
    <2>1. Rps[r] * now \in Nat /\ Rps[r] * (now + 1) = Rps[r] * now + Rps[r]
      BY <1>1, Products
    <2>2. granted' + limiter'.tokens <= Burst[b] + Rps[r] * now'
      BY <1>1, <1>2, <1>3, <1>4, <1>5, <2>1
    <2> QED BY <2>2 DEF Within
  <1>6. CASE Rps[r] <= Rps[l]
    <2>1. /\ Rps[r] * now \in Nat /\ Rps[l] * now \in Nat /\ Rps[l] * (now + 1) = Rps[l] * now + Rps[l]
          /\ Rps[r] * now <= Rps[l] * now
      BY <1>1, <1>6, Products
    <2>2. granted' + limiter'.tokens <= Burst[b] + Rps[l] * now'
      BY <1>1, <1>2, <1>3, <1>4, <2>1
    <2> QED BY <1>1, <2>2 DEF Within
  <1> QED BY <1>1, <1>5, <1>6

(* Every step keeps the bucket made before it is used. *)
LEMMA MadeKept == LimiterTypeOK /\ Made /\ [LimiterNext]_limiterVars => Made'
  <1> SUFFICES ASSUME LimiterTypeOK, Made, [LimiterNext]_limiterVars PROVE Made'
    OBVIOUS
  <1>1. call \in [Calls -> CallStates] /\ (\A c \in Calls : call[c] \in CallStates) /\ limiter.made \in BOOLEAN
        /\ limiter \in Buckets
    BY Parts DEF LimiterTypeOK
  <1>2. ASSUME NEW c \in Calls, AllowStart(c) \/ BaseOk(c) \/ BaseError(c) \/ Store(c) \/ Return(c) PROVE Made'
    <2>1. limiter' = limiter /\ granted' = granted
      BY <1>2 DEF AllowStart, BaseOk, BaseError, Store, Return
    <2>2. \A d \in Calls : call'[d].pc \in {"burst", "take"} => call'[d] = call[d]
      <3>1. \A d \in Calls : d # c => call'[d] = call[d]
        BY <1>1, <1>2 DEF AllowStart, BaseOk, BaseError, Store, Return
      <3>2. call'[c].pc \notin {"burst", "take"}
        <4>1. CASE AllowStart(c)
          BY <1>1, <4>1 DEF AllowStart, Idle
        <4>2. CASE BaseOk(c)
          BY <1>1, <4>2 DEF BaseOk, CallStates
        <4>3. CASE BaseError(c)
          BY <1>1, <4>3 DEF BaseError, CallStates
        <4>4. CASE Store(c)
          BY <1>1, <4>4 DEF Store, CallStates
        <4>5. CASE Return(c)
          BY <1>1, <4>5 DEF Return, Idle
        <4> QED BY <1>2, <4>1, <4>2, <4>3, <4>4, <4>5
      <3> QED BY <3>1, <3>2
    <2> QED BY <2>1, <2>2 DEF Made
  <1>3. ASSUME NEW c \in Calls, Tune(c) \/ SetBurst(c) PROVE Made'
    <2>1. CASE Tune(c)
      <3>1. limiter'.made = TRUE
        BY <1>1, <2>1 DEF Tune, Tuned, Buckets
      <3> QED BY <3>1 DEF Made
    <2>2. CASE SetBurst(c)
      <3>1. limiter.made /\ limiter'.made = limiter.made
        BY <1>1, <2>2 DEF SetBurst, Reburst, Made, Buckets
      <3> QED BY <3>1 DEF Made
    <2> QED BY <1>3, <2>1, <2>2
  <1>4. ASSUME NEW c \in Calls, Take(c) PROVE Made'
    <2>1. limiter.made /\ limiter'.made = limiter.made
      BY <1>1, <1>4 DEF Take, Made, Buckets
    <2> QED BY <2>1 DEF Made
  <1>5. CASE (\E p \in Plans : ChangePlan(p)) \/ Tick \/ UNCHANGED limiterVars
    <2>1. call' = call /\ granted' = granted /\ limiter'.made = limiter.made
      BY <1>1, <1>5 DEF ChangePlan, Tick, limiterVars, Buckets
    <2> QED BY <2>1 DEF Made
  <1> QED BY <1>2, <1>3, <1>4, <1>5 DEF LimiterNext

(* Tokens come from the first burst and the clock alone. *)
LEMMA MintedKept == LimiterTypeOK /\ LimiterTypeOK' /\ Made /\ NoTokenMinted /\ [LimiterNext]_limiterVars => NoTokenMinted'
  <1> SUFFICES ASSUME LimiterTypeOK, LimiterTypeOK', Made, NoTokenMinted, [LimiterNext]_limiterVars PROVE NoTokenMinted'
    OBVIOUS
  <1>1. PICK b \in Plans, r \in Plans : Within(b, r)
    BY DEF NoTokenMinted, Within
  <1>2. ASSUME NEW q \in Plans, NEW p \in Plans, Within(q, p)' PROVE NoTokenMinted'
    BY <1>2 DEF NoTokenMinted, Within
  <1>3. now \in Nat /\ granted \in Nat /\ limiter \in Buckets /\ limiter.tokens \in Nat /\ \A p \in Plans : Burst[p] \in Nat /\ Rps[p] \in Nat
    BY Parts
  <1>4. ASSUME now' = now, granted' = granted, limiter' = limiter PROVE NoTokenMinted'
    BY <1>1, <1>2, <1>4 DEF Within
  <1>8. ASSUME now' = now, granted' = granted, limiter'.tokens = Available PROVE NoTokenMinted'
    <2>1. Available \in Nat /\ Available <= limiter.tokens
      BY TokensAreNat
    <2>2. Rps[r] * now \in Nat
      BY <1>3, Products
    <2>3. Within(b, r)'
      BY <1>1, <1>3, <1>8, <2>1, <2>2 DEF Within
    <2> QED BY <1>2, <2>3
  <1>9. ASSUME NEW c \in Calls, SetBurst(c) PROVE NoTokenMinted'
    <2>1. now' = now /\ granted' = granted /\ limiter'.tokens = Available
      BY <1>3, <1>9 DEF SetBurst, Reburst, Buckets
    <2> QED BY <1>8, <2>1
  <1>5. ASSUME NEW c \in Calls, Tune(c) PROVE NoTokenMinted'
    <2>0. PICK l \in Plans : l = Effective(call[c].limits)
      BY Parts
    <2>1. /\ now' = now /\ granted' = granted
          /\ limiter'.tokens = IF limiter.made THEN Available ELSE Burst[l]
      BY <1>3, <1>5, <2>0 DEF Tune, Tuned, Buckets
    <2>2. CASE limiter.made
      BY <1>8, <2>1, <2>2
    <2>3. CASE ~limiter.made
      <3>1. granted' = 0 /\ limiter'.tokens = Burst[l]
        BY <2>1, <2>3 DEF Made
      <3>2. Rps[l] * now \in Nat /\ Burst[l] \in Nat
        BY <1>3, <2>1, Products
      <3>3. Within(l, l)'
        BY <2>1, <3>1, <3>2 DEF Within
      <3> QED BY <1>2, <2>1, <3>3
    <2> QED BY <2>2, <2>3
  <1>6. ASSUME NEW c \in Calls, Take(c) PROVE NoTokenMinted'
    <2>1. Available \in Nat /\ Available <= limiter.tokens
      BY TokensAreNat
    <2>2. now' = now /\ (Available >= 1 => granted' = granted + 1 /\ limiter'.tokens = Available - 1)
          /\ (~(Available >= 1) => granted' = granted /\ limiter' = limiter)
      BY <1>6 DEF Take, LimiterTypeOK
    <2>3. granted' + limiter'.tokens <= granted + limiter.tokens
      BY <1>3, <2>1, <2>2
    <2>4. Rps[r] * now \in Nat /\ granted' \in Nat /\ limiter'.tokens \in Nat
      BY <1>3, Products DEF LimiterTypeOK
    <2>5. Within(b, r)'
      BY <1>1, <1>3, <2>2, <2>3, <2>4 DEF Within
    <2> QED BY <1>2, <2>5
  <1>7. ASSUME Tick PROVE NoTokenMinted'
    BY <1>1, <1>2, <1>7, TickWithin
  <1> QED BY <1>4, <1>5, <1>6, <1>7, <1>9 DEF LimiterNext, AllowStart, BaseOk, BaseError, Store, Return, ChangePlan, limiterVars

(* Re-tuning mints no token: for any plans, changes of plan and overlap of *)
(* calls, what was let through is within one burst and one rate.           *)
THEOREM LimiterMintsNothing == LimiterSpec => []NoTokenMinted
  <1>1. LimiterInit => Made /\ NoTokenMinted
    <2> SUFFICES ASSUME LimiterInit PROVE Made /\ NoTokenMinted
      OBVIOUS
    <2>1. now = 0 /\ granted = 0 /\ limiter.tokens = 0 /\ \A c \in Calls : call[c].pc = "idle"
      BY DEF LimiterInit, Idle
    <2>2. Default \in Plans /\ Burst[Default] \in Nat /\ Rps[Default] \in Nat
      BY LimiterAssumption
    <2>3. Rps[Default] * now = 0
      BY <2>1, <2>2
    <2> QED BY <2>1, <2>2, <2>3 DEF Made, NoTokenMinted
  <1>2. LimiterTypeOK /\ LimiterTypeOK' /\ Made /\ NoTokenMinted /\ [LimiterNext]_limiterVars => Made' /\ NoTokenMinted'
    BY MadeKept, MintedKept
  <1> QED BY <1>1, <1>2, LimiterTypes, PTL DEF LimiterSpec
-----------------------------------------------------------------------------
(* The in-flight gauge and the adapters. *)

Inside(f) == {r \in Requests : f[r].pc # "out"}

ReqStates == [pc : {"out", "load", "cas", "in"}, n : 0..N, p : 0..N]

(* The count is the goroutines between Add(1) and Add(-1); a call swaps    *)
(* only to raise the peak; a call that returned is covered by the peak.    *)
IInv ==
    /\ TypeOK
    /\ inFlight = Cardinality(Inside(req))
    /\ \A r \in Requests : req[r].pc = "cas" => req[r].p <= req[r].n
    /\ \A r \in fresh : req[r].pc = "in" /\ req[r].n <= peak

(* The goroutines inside are at most all of them. *)
LEMMA InsideBounded ==
    ASSUME NEW f
    PROVE  /\ N \in Nat /\ IsFiniteSet(Inside(f)) /\ Cardinality(Inside(f)) \in 0..N
           /\ \A r \in Requests : r \notin Inside(f) => Cardinality(Inside(f)) + 1 <= N
  <1>1. IsFiniteSet(Requests) /\ Inside(f) \subseteq Requests
    BY PeakAssumption DEF Inside
  <1>2. IsFiniteSet(Inside(f)) /\ Cardinality(Inside(f)) <= Cardinality(Requests)
    BY <1>1, FS_Subset
  <1>3. Cardinality(Inside(f)) \in Nat /\ Cardinality(Requests) \in Nat
    BY <1>1, <1>2, FS_CardinalityType
  <1>4. ASSUME NEW r \in Requests, r \notin Inside(f) PROVE Cardinality(Inside(f)) + 1 <= Cardinality(Requests)
    <2>1. Inside(f) \cup {r} \subseteq Requests
      BY <1>1
    <2>2. Cardinality(Inside(f) \cup {r}) <= Cardinality(Requests)
      BY <1>1, <2>1, FS_Subset
    <2>3. Cardinality(Inside(f) \cup {r}) = Cardinality(Inside(f)) + 1
      BY <1>2, <1>4, FS_AddElement
    <2> QED BY <2>2, <2>3
  <1> QED BY <1>2, <1>3, <1>4 DEF N

(* How the count changes when one goroutine moves. *)
LEMMA InsideStep ==
    ASSUME NEW f, NEW g, NEW r \in Requests, \A q \in Requests : q # r => g[q] = f[q]
    PROVE  /\ (f[r].pc = "out" <=> g[r].pc = "out") => Cardinality(Inside(g)) = Cardinality(Inside(f))
           /\ f[r].pc = "out" /\ g[r].pc # "out" => Cardinality(Inside(g)) = Cardinality(Inside(f)) + 1
           /\ f[r].pc # "out" /\ g[r].pc = "out" => Cardinality(Inside(g)) = Cardinality(Inside(f)) - 1
  <1>1. IsFiniteSet(Inside(f)) /\ IsFiniteSet(Inside(g)) /\ Cardinality(Inside(f)) \in Nat /\ Cardinality(Inside(g)) \in Nat
    BY InsideBounded
  <1>2. ASSUME f[r].pc = "out" <=> g[r].pc = "out" PROVE Cardinality(Inside(g)) = Cardinality(Inside(f))
    <2>1. Inside(g) = Inside(f)
      BY <1>2 DEF Inside
    <2> QED BY <2>1, Zenon
  <1>3. ASSUME f[r].pc = "out", g[r].pc # "out" PROVE Cardinality(Inside(g)) = Cardinality(Inside(f)) + 1
    <2>1. Inside(g) = Inside(f) \cup {r} /\ r \notin Inside(f)
      BY <1>3 DEF Inside
    <2>2. Cardinality(Inside(f) \cup {r}) = Cardinality(Inside(f)) + 1
      BY <1>1, <2>1, FS_AddElement
    <2> QED BY <2>1, <2>2
  <1>4. ASSUME f[r].pc # "out", g[r].pc = "out" PROVE Cardinality(Inside(g)) = Cardinality(Inside(f)) - 1
    <2>1. Inside(f) = Inside(g) \cup {r} /\ r \notin Inside(g)
      BY <1>4 DEF Inside
    <2>2. Cardinality(Inside(g) \cup {r}) = Cardinality(Inside(g)) + 1
      BY <1>1, <2>1, FS_AddElement
    <2> QED BY <1>1, <2>1, <2>2
  <1> QED BY <1>2, <1>3, <1>4

(* Every atomic operation keeps the count exact and the peak covering. *)
LEMMA Kept == IInv /\ [Next]_vars => IInv'
  <1> SUFFICES ASSUME IInv, [Next]_vars PROVE IInv'
    OBVIOUS
  <1>1. /\ N \in Nat /\ inFlight \in 0..N /\ peak \in 0..N /\ req \in [Requests -> ReqStates] /\ fresh \subseteq Requests
        /\ sampler \in [pc : {"idle", "swap"}, live : 0..N]
        /\ \A r \in Requests : req[r] \in ReqStates
    BY InsideBounded DEF IInv, TypeOK, ReqStates
  <1>2. ASSUME NEW r \in Requests, NEW k \in ReqStates, req' = [req EXCEPT ![r] = k]
        PROVE  /\ req' \in [Requests -> ReqStates] /\ req'[r] = k /\ \A q \in Requests : q # r => req'[q] = req[q]
               /\ Cardinality(Inside(req')) \in 0..N
               /\ (req[r].pc = "out" <=> k.pc = "out") => Cardinality(Inside(req')) = inFlight
               /\ req[r].pc = "out" /\ k.pc # "out" => Cardinality(Inside(req')) = inFlight + 1
               /\ req[r].pc # "out" /\ k.pc = "out" => Cardinality(Inside(req')) = inFlight - 1
    <2>1. req' \in [Requests -> ReqStates] /\ req'[r] = k /\ \A q \in Requests : q # r => req'[q] = req[q]
      BY <1>1, <1>2
    <2>2. inFlight = Cardinality(Inside(req))
      BY DEF IInv
    <2> QED BY <2>1, <2>2, InsideStep, InsideBounded
  <1>3. ASSUME NEW r \in Requests, BeginAdd(r) PROVE IInv'
    <2> DEFINE k == [pc |-> "load", n |-> inFlight + 1, p |-> 0]
    <2>1. req[r].pc = "out" /\ inFlight' = inFlight + 1 /\ req' = [req EXCEPT ![r] = k] /\ UNCHANGED <<peak, sampler, fresh>>
      BY <1>3 DEF BeginAdd
    <2>2. inFlight + 1 \in 0..N
      <3>1. r \notin Inside(req) /\ inFlight = Cardinality(Inside(req))
        BY <2>1 DEF Inside, IInv
      <3> QED BY <1>1, <3>1, InsideBounded
    <2>3. k \in ReqStates /\ k.pc = "load"
      BY <1>1, <2>2 DEF ReqStates
    <2> HIDE DEF k
    <2>4. /\ req' \in [Requests -> ReqStates] /\ req'[r] = k /\ \A q \in Requests : q # r => req'[q] = req[q]
          /\ Cardinality(Inside(req')) = inFlight'
      BY <1>2, <2>1, <2>3
    <2>5. r \notin fresh
      BY <2>1 DEF IInv
    <2>6. TypeOK'
      BY <1>1, <2>1, <2>2, <2>4 DEF TypeOK, ReqStates
    <2> QED BY <2>1, <2>3, <2>4, <2>5, <2>6 DEF IInv, TypeOK
  <1>4. ASSUME NEW r \in Requests, NEW k \in ReqStates, req' = [req EXCEPT ![r] = k], k.pc # "out", req[r].pc # "out",
               inFlight' = inFlight, sampler' = sampler, peak' \in 0..N, peak <= peak',
               k.pc = "cas" => k.p <= k.n,
               \/ fresh' = fresh /\ req[r].pc # "in"
               \/ fresh' = fresh \cup {r} /\ k.pc = "in" /\ k.n <= peak'
        PROVE  IInv'
    <2>1. /\ req' \in [Requests -> ReqStates] /\ req'[r] = k /\ \A q \in Requests : q # r => req'[q] = req[q]
          /\ Cardinality(Inside(req')) = inFlight'
      BY <1>2, <1>4
    <2>2. TypeOK'
      BY <1>1, <1>4, <2>1 DEF TypeOK, ReqStates
    <2>3. ASSUME NEW q \in fresh' PROVE req'[q].pc = "in" /\ req'[q].n <= peak'
      <3>1. CASE q = r
        BY <1>4, <2>1, <2>3, <3>1 DEF IInv
      <3>2. CASE q # r
        <4>1. q \in fresh /\ q \in Requests /\ req'[q] = req[q] /\ req[q].pc = "in" /\ req[q].n <= peak
          BY <1>1, <1>4, <2>1, <2>3, <3>2 DEF IInv
        <4>2. req[q].n \in Nat
          BY <1>1, <4>1 DEF ReqStates
        <4> QED BY <1>1, <1>4, <4>1, <4>2
      <3> QED BY <3>1, <3>2
    <2>4. \A q \in Requests : req'[q].pc = "cas" => req'[q].p <= req'[q].n
      BY <1>4, <2>1 DEF IInv
    <2> QED BY <2>1, <2>2, <2>3, <2>4 DEF IInv
  <1>5. ASSUME NEW r \in Requests, BeginLoad(r) PROVE IInv'
    <2>1. req[r].pc = "load" /\ UNCHANGED <<inFlight, peak, sampler>> /\ req[r] \in ReqStates
      BY <1>1, <1>5 DEF BeginLoad
    <2>0. inFlight' = inFlight /\ sampler' = sampler /\ peak' = peak /\ peak' \in 0..N /\ peak <= peak'
      BY <1>1, <2>1
    <2>2. CASE req[r].n <= peak
      <3> DEFINE k == [req[r] EXCEPT !.pc = "in"]
      <3>1. k \in ReqStates /\ k.pc = "in" /\ k.n = req[r].n
        BY <2>1 DEF ReqStates
      <3>2. req' = [req EXCEPT ![r] = k] /\ fresh' = fresh \cup {r}
        BY <1>1, <1>5, <2>2 DEF BeginLoad, ReqStates
      <3> HIDE DEF k
      <3> QED BY <1>4, <2>0, <2>1, <2>2, <3>1, <3>2
    <2>3. CASE ~(req[r].n <= peak)
      <3> DEFINE k == [[req[r] EXCEPT !.pc = "cas"] EXCEPT !.p = peak]
      <3>1. k \in ReqStates /\ k.pc = "cas" /\ k.n = req[r].n /\ k.p = peak
        BY <1>1, <2>1 DEF ReqStates
      <3>2. req' = [req EXCEPT ![r] = k] /\ fresh' = fresh
        BY <1>1, <1>5, <2>3 DEF BeginLoad, ReqStates
      <3>3. req[r].n \in Nat /\ peak \in Nat
        BY <1>1, <2>1 DEF ReqStates
      <3> HIDE DEF k
      <3>4. k.p <= k.n
        BY <2>3, <3>1, <3>3
      <3> QED BY <1>4, <2>0, <2>1, <3>1, <3>2, <3>4
    <2> QED BY <2>2, <2>3
  <1>6. ASSUME NEW r \in Requests, BeginCAS(r) PROVE IInv'
    <2>1. /\ req[r].pc = "cas" /\ inFlight' = inFlight /\ sampler' = sampler /\ req[r] \in ReqStates
          /\ req[r].p <= req[r].n /\ req[r].n \in 0..N
      BY <1>1, <1>6 DEF BeginCAS, IInv, ReqStates
    <2>0. 0 \in 0..N
      BY <1>1
    <2>2. CASE Swaps(r)
      <3> DEFINE k == [[req[r] EXCEPT !.pc = "in"] EXCEPT !.p = 0]
      <3>1. k \in ReqStates /\ k.pc = "in" /\ k.n = req[r].n
        BY <2>0, <2>1 DEF ReqStates
      <3>2. req' = [req EXCEPT ![r] = k] /\ fresh' = fresh \cup {r} /\ peak' = req[r].n
        <4>1. /\ req' = [req EXCEPT ![r].pc = "in", ![r].p = 0]
              /\ fresh' = fresh \cup {r} /\ peak' = req[r].n
          BY <1>6, <2>2 DEF BeginCAS
        <4>2. [req EXCEPT ![r].pc = "in", ![r].p = 0] = [req EXCEPT ![r] = k]
          BY <1>1, <2>1 DEF ReqStates
        <4> QED BY <4>1, <4>2
      <3> HIDE DEF k
      <3>3. peak' \in 0..N /\ peak <= peak' /\ k.n <= peak'
        BY <1>1, <2>1, <2>2, <3>1, <3>2 DEF Swaps
      <3> QED BY <1>4, <2>1, <3>1, <3>2, <3>3
    <2>3. CASE ~Swaps(r)
      <3> DEFINE k == [[req[r] EXCEPT !.pc = "load"] EXCEPT !.p = 0]
      <3>1. k \in ReqStates /\ k.pc = "load"
        BY <2>0, <2>1 DEF ReqStates
      <3>2. req' = [req EXCEPT ![r] = k] /\ fresh' = fresh /\ peak' = peak
        <4>1. /\ req' = [req EXCEPT ![r].pc = "load", ![r].p = 0]
              /\ fresh' = fresh /\ peak' = peak
          BY <1>6, <2>3 DEF BeginCAS
        <4>2. [req EXCEPT ![r].pc = "load", ![r].p = 0] = [req EXCEPT ![r] = k]
          BY <1>1, <2>1 DEF ReqStates
        <4> QED BY <4>1, <4>2
      <3> HIDE DEF k
      <3>3. peak' \in 0..N /\ peak <= peak'
        BY <1>1, <3>2
      <3> QED BY <1>4, <2>1, <3>1, <3>2, <3>3
    <2> QED BY <2>2, <2>3
  <1>7. ASSUME NEW r \in Requests, EndRequest(r) PROVE IInv'
    <2> DEFINE k == [pc |-> "out", n |-> 0, p |-> 0]
    <2>1. /\ req[r].pc = "in" /\ inFlight' = inFlight - 1 /\ req' = [req EXCEPT ![r] = k]
          /\ fresh' = fresh \ {r} /\ UNCHANGED <<peak, sampler>>
      BY <1>7 DEF EndRequest, Ended
    <2>2. k \in ReqStates /\ k.pc = "out"
      BY <1>1 DEF ReqStates
    <2> HIDE DEF k
    <2>3. /\ req' \in [Requests -> ReqStates] /\ req'[r] = k /\ \A q \in Requests : q # r => req'[q] = req[q]
          /\ Cardinality(Inside(req')) = inFlight' /\ Cardinality(Inside(req')) \in 0..N
      BY <1>2, <2>1, <2>2
    <2>4. TypeOK'
      BY <1>1, <2>1, <2>3 DEF TypeOK, ReqStates
    <2> QED BY <1>1, <2>1, <2>2, <2>3, <2>4 DEF IInv
  <1>8. ASSUME req' = req, inFlight' = inFlight, peak' \in 0..N, fresh' = {} \/ (fresh' = fresh /\ peak' = peak),
               sampler' \in [pc : {"idle", "swap"}, live : 0..N]
        PROVE  IInv'
    <2>1. TypeOK'
      BY <1>1, <1>8 DEF TypeOK, ReqStates
    <2>2. inFlight' = Cardinality(Inside(req'))
      BY <1>8, Zenon DEF IInv
    <2> QED BY <1>8, <2>1, <2>2 DEF IInv
  <1>9. CASE TakeLoad
    BY <1>1, <1>8, <1>9 DEF TakeLoad
  <1>10. CASE TakeSwap
    BY <1>1, <1>8, <1>10 DEF TakeSwap
  <1>11. CASE UNCHANGED vars
    BY <1>1, <1>8, <1>11 DEF vars
  <1> QED BY <1>3, <1>5, <1>6, <1>7, <1>9, <1>10, <1>11 DEF Next

(* Nobody is inside at first. *)
LEMMA Holds0 == Init => IInv
  <1> SUFFICES ASSUME Init PROVE IInv
    OBVIOUS
  <1>1. N \in Nat
    BY InsideBounded
  <1>2. Inside(req) = {}
    BY DEF Init, Inside
  <1>3. Cardinality(Inside(req)) = 0
    BY <1>2, FS_EmptySet, Zenon
  <1> QED BY <1>1, <1>3 DEF Init, IInv, TypeOK

(* The gauge never counts more goroutines than there are, nor fewer than   *)
(* none, whatever the order of the atomic operations.                      *)
THEOREM GaugeTypes == Spec => []TypeOK
  <1>1. IInv => TypeOK
    BY DEF IInv
  <1> QED BY <1>1, Holds0, Kept, PTL DEF Spec

(* For any number of goroutines no concurrent BeginRequest, end or sample  *)
(* loses a maximum within the window.                                      *)
THEOREM GaugeKeepsMaximum == Spec => []BegunAreCounted
  <1>1. IInv => BegunAreCounted
    BY DEF IInv, BegunAreCounted
  <1> QED BY <1>1, Holds0, Kept, PTL DEF Spec
-----------------------------------------------------------------------------
(* Every step of an adapter moves the gauge as BeginRequest, its returned  *)
(* function or the sampler do, or leaves it alone: the adapters run the    *)
(* gauge as InFlightPeak says.                                             *)
THEOREM AdaptersRunGauge == AdaptersSpec => Spec
  <1>1. AdaptersInit => Init
    BY DEF AdaptersInit
  <1>2. [AdaptersNext]_allVars => [Next]_vars
    <2> SUFFICES ASSUME AdaptersNext PROVE Next \/ UNCHANGED vars
      BY DEF allVars
    <2>1. CASE \E r \in Requests : (BeginAdd(r) \/ BeginLoad(r) \/ BeginCAS(r)) /\ UNCHANGED adapterVars
      BY <2>1, Zenon DEF Next
    <2>2. CASE (TakeLoad \/ TakeSwap) /\ UNCHANGED adapterVars
      BY <2>2, Zenon DEF Next
    <2>3. ASSUME NEW r \in Requests, Leave(r) PROVE Next
      BY <2>3, Zenon DEF Leave, Leaves, Next
    <2>4. ASSUME NEW r \in Requests, Observe(r) PROVE UNCHANGED vars
      BY <2>4 DEF Observe
    <2>5. CASE \E r \in Requests :
                 \/ \E fw \in Host[r].frameworks, routed \in BOOLEAN : Enter(r, fw, routed)
                 \/ \E cause \in Host[r].causes : ContextEnds(r, cause)
                 \/ \E c \in Host[r].calls : CallStart(r, c) \/ \E d \in Elapsed : CallEnd(r, c, d)
                 \/ \E o \in Host[r].ops : Respond(r, o)
                 \/ \E e \in Host[r].ends : HandlerEnds(r, e)
      BY <2>5, Zenon DEF Enter, ContextEnds, CallStart, CallEnd, Respond, HandlerEnds
    <2> QED
      BY <2>1, <2>2, <2>3, <2>4, <2>5 DEF AdaptersNext
  <1> QED
    BY <1>1, <1>2, PTL DEF AdaptersSpec, Spec

(* No adapter leaks a slot or loses a maximum, whether its handler         *)
(* returns, panics, is aborted or was never routed to.                     *)
THEOREM AdaptersCountExactly == AdaptersSpec => [](InFlightExact /\ BegunAreCounted)
  <1>1. IInv => InFlightExact /\ BegunAreCounted
    BY Zenon DEF IInv, InFlightExact, Inside, BegunAreCounted
  <1>2. Spec => []IInv
    BY Holds0, Kept, PTL DEF Spec
  <1> QED
    BY <1>1, <1>2, AdaptersRunGauge, PTL
-----------------------------------------------------------------------------
(* A nonempty set of numbers has a least one *)
LEMMA NatLeast ==
    ASSUME NEW T \in SUBSET Nat, T # {}
    PROVE  \E x \in T : \A y \in T : x <= y
  <1>1. PICK x \in T : \A y \in T : ~(<<y, x>> \in OpToRel(<, Nat))
    BY NatLessThanWellFounded, WFMin, Zenon
  <1>2. ASSUME NEW y \in T, y < x PROVE FALSE
    <2>1. <<y, x>> \in OpToRel(<, Nat)
      BY <1>2 DEF OpToRel
    <2> QED
      BY <1>1, <2>1, Zenon
  <1>3. \A y \in T : ~(y < x)
    BY <1>2
  <1> QED
    BY <1>3

(* Induction over the numbers, on a set *)
LEMMA NatInSet ==
    ASSUME NEW S, 0 \in S, \A n \in Nat : n \in S => n + 1 \in S
    PROVE  Nat \subseteq S
  <1> SUFFICES ASSUME Nat \ S # {} PROVE FALSE
    OBVIOUS
  <1>1. PICK x \in Nat \ S : \A y \in Nat \ S : x <= y
    BY NatLeast
  <1>2. x # 0 /\ x - 1 \in Nat
    BY <1>1
  <1>3. x - 1 \in S
    BY <1>1, <1>2
  <1> QED
    BY <1>1, <1>2, <1>3

(* Induction over the subsets of a finite set, the smaller ones first *)
LEMMA SubsetsInSet ==
    ASSUME NEW D, IsFiniteSet(D), NEW G,
           \A s \in SUBSET D : (\A t \in SUBSET s : t # s => t \in G) => s \in G
    PROVE  SUBSET D \subseteq G
  <1> DEFINE K == {n \in Nat : \A s \in SUBSET D : Cardinality(s) <= n => s \in G}
  <1>1. \A s \in SUBSET D : IsFiniteSet(s) /\ Cardinality(s) \in Nat
    BY FS_Subset, FS_CardinalityType
  <1>2. 0 \in K
    <2>1. ASSUME NEW s \in SUBSET D, Cardinality(s) <= 0 PROVE s \in G
      <3>1. s = {}
        BY <1>1, <2>1, FS_EmptySet
      <3> QED
        BY <3>1
    <2> QED
      BY <2>1
  <1>3. ASSUME NEW n \in Nat, n \in K PROVE n + 1 \in K
    <2>1. ASSUME NEW s \in SUBSET D, Cardinality(s) <= n + 1 PROVE s \in G
      <3>1. ASSUME NEW t \in SUBSET s, t # s PROVE t \in G
        <4>1. Cardinality(t) <= Cardinality(s) /\ Cardinality(t) # Cardinality(s)
          BY <1>1, <3>1, FS_Subset
        <4>2. Cardinality(t) \in Nat /\ Cardinality(s) \in Nat /\ t \in SUBSET D
          BY <1>1
        <4>3. Cardinality(t) <= n
          BY <2>1, <4>1, <4>2
        <4> QED
          BY <1>3, <4>2, <4>3
      <3> QED
        BY <3>1
    <2> QED
      BY <2>1
  <1>4. Nat \subseteq K
    <2> HIDE DEF K
    <2> QED
      BY <1>2, <1>3, NatInSet
  <1>5. ASSUME NEW s \in SUBSET D PROVE s \in G
    <2>1. Cardinality(s) \in K /\ Cardinality(s) <= Cardinality(s)
      BY <1>1, <1>4
    <2> QED
      BY <2>1
  <1> QED
    BY <1>5

(* What a fold over the subsets of a finite set says of its iteration *)
Iterates(it, D, b, pick, step) ==
    \A s \in SUBSET D : it[s] = IF s = {} THEN b ELSE step[<<pick[s], it[s \ {pick[s]}]>>]

(* Such an iteration exists: the smaller subsets first *)
LEMMA IterationExists ==
    ASSUME NEW D, IsFiniteSet(D), NEW V, NEW b \in V, NEW pick, \A s \in SUBSET D : s # {} => pick[s] \in s,
           NEW step \in [D \X V -> V]
    PROVE  \E it \in [SUBSET D -> V] : Iterates(it, D, b, pick, step)
  <1> DEFINE L(k) == {s \in SUBSET D : Cardinality(s) <= k}
             Q(it, k) == \A s \in L(k) : it[s] = IF s = {} THEN b ELSE step[<<pick[s], it[s \ {pick[s]}]>>]
             K == {k \in Nat : \E it \in [L(k) -> V] : Q(it, k)}
  <1>1. \A s \in SUBSET D : IsFiniteSet(s) /\ Cardinality(s) \in Nat /\ (Cardinality(s) = 0 <=> s = {})
    BY FS_Subset, FS_CardinalityType, FS_EmptySet
  <1>2. ASSUME NEW s \in SUBSET D, s # {} PROVE Cardinality(s \ {pick[s]}) = Cardinality(s) - 1 /\ s \ {pick[s]} \in SUBSET D
    BY <1>1, <1>2, FS_RemoveElement
  <1>3. 0 \in K
    <2> DEFINE it == [s \in L(0) |-> b]
    <2>1. \A s \in L(0) : s = {}
      BY <1>1
    <2>2. it \in [L(0) -> V] /\ Q(it, 0)
      BY <2>1
    <2> QED
      BY <2>2
  <1>4. ASSUME NEW k \in Nat, k \in K PROVE k + 1 \in K
    <2>1. PICK f \in [L(k) -> V] : Q(f, k)
      BY <1>4
    <2> DEFINE g == [s \in L(k + 1) |-> IF s \in L(k) THEN f[s] ELSE step[<<pick[s], f[s \ {pick[s]}]>>]]
    <2>2. L(k) \subseteq L(k + 1)
      BY <1>1
    <2>3. ASSUME NEW s \in L(k + 1), s # {}
          PROVE  /\ s \ {pick[s]} \in L(k) /\ f[s \ {pick[s]}] \in V
                 /\ step[<<pick[s], f[s \ {pick[s]}]>>] \in V
      <3>1. Cardinality(s) <= k + 1 /\ Cardinality(s) \in Nat /\ Cardinality(s \ {pick[s]}) = Cardinality(s) - 1
        BY <1>1, <1>2, <2>3
      <3>2. s \ {pick[s]} \in L(k)
        BY <2>3, <3>1
      <3>3. pick[s] \in D /\ f[s \ {pick[s]}] \in V
        BY <2>1, <2>3, <3>2
      <3> QED
        BY <3>2, <3>3
    <2>4. \A s \in L(k + 1) : s \notin L(k) => s # {}
      BY <1>1
    <2>5. g \in [L(k + 1) -> V]
      <3> HIDE DEF L
      <3> QED
        BY <2>1, <2>3, <2>4
    <2>6. ASSUME NEW s \in L(k + 1) PROVE g[s] = IF s = {} THEN b ELSE step[<<pick[s], g[s \ {pick[s]}]>>]
      <3>1. s # {} => g[s \ {pick[s]}] = f[s \ {pick[s]}]
        <4> HIDE DEF L
        <4> QED
          BY <2>2, <2>3
      <3>2. s \in L(k) => f[s] = IF s = {} THEN b ELSE step[<<pick[s], f[s \ {pick[s]}]>>]
        BY <2>1
      <3> HIDE DEF L
      <3> QED
        BY <2>4, <3>1, <3>2
    <2>7. Q(g, k + 1)
      BY <2>6
    <2> HIDE DEF g, L, Q
    <2> QED
      BY <2>5, <2>7
  <1>5. Cardinality(D) \in K
    <2>1. Cardinality(D) \in Nat
      BY FS_CardinalityType
    <2> HIDE DEF K
    <2> QED
      BY <1>3, <1>4, <2>1, NatInSet
  <1>6. L(Cardinality(D)) = SUBSET D
    BY FS_Subset
  <1>7. PICK it \in [L(Cardinality(D)) -> V] : Q(it, Cardinality(D))
    BY <1>5
  <1> QED
    BY <1>6, <1>7 DEF Iterates
-----------------------------------------------------------------------------
(* it[s] is the positive durations of s, whichever call is taken last *)
Sums(it, f, D) ==
    /\ it[{}] = 0
    /\ \A s \in SUBSET D : it[s] \in Nat /\ \A x \in s : it[s] = Positive(f[x]) + it[s \ {x}]

(* Waited does not depend on the order of the calls: any of them can be the last *)
LEMMA WaitedSums ==
    ASSUME NEW D, IsFiniteSet(D), NEW f \in [D -> Int]
    PROVE  \E it : Waited(f) = it[D] /\ Sums(it, f, D)
  <1> DEFINE P(it) == it = [s \in SUBSET D |-> IF s = {} THEN 0
                              ELSE Positive(f[CHOOSE x \in s : TRUE]) + it[s \ {CHOOSE x \in s : TRUE}]]
             pick == [s \in SUBSET D |-> CHOOSE x \in s : TRUE]
             step == [xv \in D \X Nat |-> Positive(f[xv[1]]) + xv[2]]
  <1>1. \A s \in SUBSET D : s # {} => pick[s] \in s
    OBVIOUS
  <1>2. step \in [D \X Nat -> Nat]
    BY DEF Positive
  <1>3. \E it : P(it)
    <2>1. PICK it \in [SUBSET D -> Nat] : Iterates(it, D, 0, pick, step)
      <3> HIDE DEF pick, step
      <3> QED
        BY <1>1, <1>2, IterationExists
    <2>2. ASSUME NEW s \in SUBSET D, s # {}
          PROVE  it[s] = Positive(f[CHOOSE x \in s : TRUE]) + it[s \ {CHOOSE x \in s : TRUE}]
      <3>1. pick[s] \in D /\ it[s \ {pick[s]}] \in Nat /\ it[s] = step[<<pick[s], it[s \ {pick[s]}]>>]
        BY <1>1, <2>1, <2>2 DEF Iterates
      <3>2. step[<<pick[s], it[s \ {pick[s]}]>>] = Positive(f[pick[s]]) + it[s \ {pick[s]}]
        <4> HIDE DEF pick
        <4> QED
          BY <3>1
      <3> QED
        BY <3>1, <3>2
    <2>3. it[{}] = 0
      BY <2>1 DEF Iterates
    <2>4. it = [s \in SUBSET D |-> it[s]]
      BY <2>1
    <2>5. P(it)
      BY <2>2, <2>3, <2>4
    <2> QED
      BY <2>5
  <1> DEFINE it == CHOOSE i : P(i)
  <1>4. P(it)
    <2> HIDE DEF P
    <2> QED
      BY <1>3, Zenon
  <1>5. Waited(f) = it[D]
    <2>1. DOMAIN f = D
      OBVIOUS
    <2> QED
      BY <2>1 DEF Waited, MapThenSumSet, MapThenFoldSet, Positive
  <1> HIDE DEF it
  <1>6. it[{}] = 0
    BY <1>4
  <1> DEFINE G == {s \in SUBSET D : it[s] \in Nat /\ \A x \in s : it[s] = Positive(f[x]) + it[s \ {x}]}
  <1>7. ASSUME NEW s \in SUBSET D, \A t \in SUBSET s : t # s => t \in G PROVE s \in G
    <2>1. CASE s = {}
      BY <1>6, <2>1
    <2>2. CASE s # {}
      <3>1. PICK p \in s : it[s] = Positive(f[p]) + it[s \ {p}]
        BY <1>4, <2>2
      <3>2. it[s \ {p}] \in Nat /\ Positive(f[p]) \in Nat
        BY <1>7 DEF Positive
      <3>3. ASSUME NEW x \in s PROVE it[s] = Positive(f[x]) + it[s \ {x}]
        <4>1. CASE x = p
          BY <3>1, <4>1
        <4>2. CASE x # p
          <5>1. it[s \ {p}] = Positive(f[x]) + it[(s \ {p}) \ {x}]
            BY <1>7, <4>2
          <5>2. it[s \ {x}] = Positive(f[p]) + it[(s \ {x}) \ {p}]
            BY <1>7, <4>2
          <5>3. (s \ {x}) \ {p} = (s \ {p}) \ {x}
            OBVIOUS
          <5>4. (s \ {p}) \ {x} \in G
            BY <1>7
          <5>5. Positive(f[x]) \in Nat /\ Positive(f[p]) \in Nat /\ it[(s \ {p}) \ {x}] \in Nat
            BY <5>4 DEF Positive
          <5> DEFINE rest == it[(s \ {p}) \ {x}]
          <5>6. it[s] = Positive(f[p]) + (Positive(f[x]) + rest)
            BY <3>1, <5>1
          <5>7. it[s \ {x}] = Positive(f[p]) + rest
            BY <5>2, <5>3, Zenon
          <5>8. rest \in Nat
            BY <5>5
          <5> HIDE DEF rest, G, P
          <5> QED
            BY <5>5, <5>6, <5>7, <5>8
        <4> QED
          BY <4>1, <4>2
      <3> QED
        BY <3>1, <3>2, <3>3
    <2> QED
      BY <2>1, <2>2
  <1>8. SUBSET D \subseteq G
    <2> HIDE DEF G
    <2> QED
      BY <1>7, SubsetsInSet
  <1>9. Sums(it, f, D)
    BY <1>6, <1>8 DEF Sums
  <1> QED
    BY <1>5, <1>9

(* A call that ends adds its duration, if positive, to the time waited *)
LEMMA WaitedGrows ==
    ASSUME NEW D, IsFiniteSet(D), NEW f \in [D -> Int], NEW c, c \notin D, NEW d \in Int
    PROVE  LET g == [x \in D \cup {c} |-> IF x = c THEN d ELSE f[x]]
           IN  /\ g \in [D \cup {c} -> Int] /\ IsFiniteSet(D \cup {c})
               /\ Waited(f) \in Nat /\ Waited(g) = Positive(d) + Waited(f)
  <1> DEFINE g == [x \in D \cup {c} |-> IF x = c THEN d ELSE f[x]]
  <1>1. g \in [D \cup {c} -> Int] /\ g[c] = d /\ \A x \in D : g[x] = f[x]
    OBVIOUS
  <1>2. IsFiniteSet(D \cup {c})
    BY FS_AddElement
  <1> HIDE DEF g
  <1>3. PICK i : Waited(f) = i[D] /\ Sums(i, f, D)
    BY WaitedSums
  <1>4. PICK j : Waited(g) = j[D \cup {c}] /\ Sums(j, g, D \cup {c})
    BY <1>1, <1>2, WaitedSums
  <1> DEFINE G == {s \in SUBSET D : i[s] = j[s]}
  <1>5. ASSUME NEW s \in SUBSET D, \A t \in SUBSET s : t # s => t \in G PROVE s \in G
    <2>1. CASE s = {}
      BY <1>3, <1>4, <2>1 DEF Sums
    <2>2. CASE s # {}
      <3>1. PICK x \in s : TRUE
        BY <2>2
      <3>2. i[s \ {x}] = j[s \ {x}]
        BY <1>5
      <3>3. i[s] = Positive(f[x]) + i[s \ {x}]
        BY <1>3 DEF Sums
      <3>4. j[s] = Positive(g[x]) + j[s \ {x}] /\ g[x] = f[x]
        BY <1>1, <1>4 DEF Sums
      <3> QED
        BY <3>2, <3>3, <3>4
    <2> QED
      BY <2>1, <2>2
  <1>6. SUBSET D \subseteq G
    <2> HIDE DEF G
    <2> QED
      BY <1>5, SubsetsInSet
  <1>7. j[D] = i[D] /\ i[D] \in Nat
    BY <1>3, <1>6 DEF Sums
  <1>8. j[D \cup {c}] = Positive(d) + j[D]
    <2>1. (D \cup {c}) \ {c} = D
      OBVIOUS
    <2>2. j[D \cup {c}] = Positive(g[c]) + j[(D \cup {c}) \ {c}]
      BY <1>4 DEF Sums
    <2> QED
      BY <1>1, <2>1, <2>2
  <1>9. Waited(g) = Positive(d) + Waited(f) /\ Waited(f) \in Nat
    BY <1>3, <1>4, <1>7, <1>8
  <1> QED
    BY <1>1, <1>2, <1>9 DEF g

(* No call, no time waited *)
LEMMA WaitedNothing == Waited([c \in {} |-> 0]) = 0
  <1> DEFINE f == [c \in {} |-> 0]
  <1>1. f \in [{} -> Int] /\ IsFiniteSet({})
    BY FS_EmptySet
  <1> HIDE DEF f
  <1>2. Waited(f) = 0
    <2>1. PICK i : Waited(f) = i[{}] /\ Sums(i, f, {})
      BY <1>1, WaitedSums
    <2> QED
      BY <2>1 DEF Sums
  <1> QED
    BY <1>2 DEF f
-----------------------------------------------------------------------------
(* How a handler can end *)
LEMMA Ends ==
    ASSUME NEW e \in AllEnds
    PROVE  e.how \in {"nil", "error", "recovered", "panic", "httpError"} /\ (e.how = "httpError" => e.code \in 100..999)
  <1>1. CASE e \in {[how |-> h, code |-> 0] : h \in {"nil", "error", "recovered", "panic"}}
    BY <1>1
  <1>2. CASE e \in {HTTPError(code) : code \in 100..999}
    <2>1. PICK code \in 100..999 : e = HTTPError(code)
      BY <1>2
    <2> QED
      BY <2>1 DEF HTTPError
  <1> QED
    BY <1>1, <1>2 DEF AllEnds

(* The header written last, by recovery or by echo's error handler *)
LEMMA LastWritten ==
    ASSUME NEW fw \in Frameworks, NEW e \in AllEnds
    PROVE  \/ LastHeader(fw, e) = {} /\ e.how # "recovered" /\ ~(fw = "echo" /\ Failed(e))
           \/ \E o \in AllOps : /\ LastHeader(fw, e) = {o} /\ o.op = "header"
                               /\ \/ e.how = "recovered" /\ o = Header(InternalServerError)
                                  \/ e.how # "recovered" /\ fw = "echo" /\ Failed(e) /\ o = Header(StatusFromError(e))
  <1>1. ASSUME NEW code \in 100..999 PROVE Header(code) \in AllOps /\ Header(code).op = "header"
    <2>1. \A h : h = Header(code) => h \in {Header(c) : c \in 100..999}
      OBVIOUS
    <2>2. Header(code).op = "header"
      BY DEF Header
    <2>3. Header(code) \in AllOps
      <3> DEFINE h == Header(code)
      <3>1. h \in {Header(c) : c \in 100..999}
        BY <2>1
      <3> HIDE DEF h
      <3>2. h \in AllOps
        BY <3>1 DEF AllOps
      <3> QED
        BY <3>2 DEF h
    <2> QED
      BY <2>2, <2>3
  <1>2. CASE e.how = "recovered"
    <2>1. InternalServerError \in 100..999
      BY DEF InternalServerError
    <2> QED
      BY <1>1, <1>2, <2>1 DEF LastHeader
  <1>3. CASE e.how # "recovered" /\ fw = "echo" /\ Failed(e)
    <2>1. StatusFromError(e) \in 100..999
      BY Ends DEF StatusFromError, InternalServerError
    <2> QED
      BY <1>1, <1>3, <2>1 DEF LastHeader
  <1>4. CASE e.how # "recovered" /\ ~(fw = "echo" /\ Failed(e))
    BY <1>4 DEF LastHeader
  <1> QED
    BY <1>2, <1>3, <1>4

(* What a writer that is through holds is what the client receives *)
LEMMA FinalAgrees ==
    ASSUME NEW fw \in Frameworks, NEW w, NEW u \in BOOLEAN, Faithful(fw, w, u)
    PROVE  LET sent == IF fw = "gin" THEN HeaderNow(w) ELSE w.wire
               read == IF fw = "beego" /\ w.status = 0 THEN OK ELSE w.status
           IN  u \/ Informational(read) \/ read = IF sent = 0 THEN OK ELSE sent
  <1>0. w.status \in Nat /\ w.committed \in BOOLEAN /\ w.wire \in Nat /\ OK # 0
    BY DEF Faithful, Responses, OK
  <1>1. CASE fw = "gin"
    <2>1. CASE w.committed
      BY <1>0, <1>1, <2>1 DEF Faithful, HeaderNow
    <2>2. CASE ~w.committed
      <3>1. w.wire = 0 /\ w.status # 0
        BY <1>1, <2>2 DEF Faithful
      <3>2. HeaderNow(w) = IF Informational(w.status) THEN 0 ELSE w.status
        BY <2>2, <3>1 DEF HeaderNow, Sent, Header
      <3> QED
        BY <1>1, <3>1, <3>2
    <2> QED
      BY <1>0, <2>1, <2>2
  <1>2. CASE fw # "gin"
    BY <1>0, <1>2 DEF Faithful
  <1> QED
    BY <1>1, <1>2

(* Every adapter reads the status the client receives, unless the header   *)
(* came behind something its writer did not notice, or is an early hint's  *)
LEMMA ReadsWhatWasSent ==
    ASSUME NEW fw \in Frameworks, NEW w, NEW u \in BOOLEAN, NEW e \in AllEnds, Faithful(fw, w, u)
    PROVE  LET read == Reads(fw, Returned(fw, w, e), e)
           IN  \/ u \/ \E o \in LastHeader(fw, e) : Unnoticed(w, o)
               \/ Informational(read.status) \/ read.status = WireStatus(fw, w, e)
  <1> DEFINE ret == Returned(fw, w, e)
             read == Reads(fw, ret, e)
  <1>1. read.status = IF fw = "beego" /\ ret.status = 0 THEN OK
                      ELSE IF fw = "echo" /\ Failed(e) /\ ~ret.committed THEN StatusFromError(e)
                      ELSE ret.status
    <2> HIDE DEF ret
    <2> QED
      BY DEF Frameworks, Reads, nethttpReads, chiReads, ginReads, echoReads, beegoReads
  <1>2. CASE LastHeader(fw, e) = {} /\ e.how # "recovered" /\ ~(fw = "echo" /\ Failed(e))
    <2>1. ret = w
      BY <1>2 DEF Returned
    <2>2. WireStatus(fw, w, e) = LET sent == IF fw = "gin" THEN HeaderNow(w) ELSE w.wire IN IF sent = 0 THEN OK ELSE sent
      BY <1>2 DEF WireStatus
    <2>3. read.status = IF fw = "beego" /\ w.status = 0 THEN OK ELSE w.status
      <3> HIDE DEF ret, read
      <3> QED
        BY <1>1, <1>2, <2>1
    <2>4. u \/ Informational(read.status) \/ read.status = WireStatus(fw, w, e)
      <3> HIDE DEF read
      <3> QED
        BY <2>2, <2>3, FinalAgrees, Zenon
    <2> QED
      BY <2>4
  <1>3. ASSUME NEW o \in AllOps, LastHeader(fw, e) = {o}, o.op = "header",
               \/ e.how = "recovered" /\ o = Header(InternalServerError)
               \/ e.how # "recovered" /\ fw = "echo" /\ Failed(e) /\ o = Header(StatusFromError(e))
        PROVE  u \/ Unnoticed(w, o) \/ Informational(read.status) \/ read.status = WireStatus(fw, w, e)
    <2> DEFINE v == Written(fw, w, o)
               x == u \/ Unnoticed(w, o)
    <2>1. (CHOOSE p \in LastHeader(fw, e) : TRUE) = o
      BY <1>3
    <2>2. WireStatus(fw, w, e) = LET sent == IF fw = "gin" THEN HeaderNow(v) ELSE v.wire IN IF sent = 0 THEN OK ELSE sent
      BY <1>3, <2>1 DEF WireStatus
    <2>3. Faithful(fw, v, x) /\ x \in BOOLEAN
      BY <1>3, WrittenFaithful
    <2>4. x \/ Informational(IF fw = "beego" /\ v.status = 0 THEN OK ELSE v.status)
            \/ (IF fw = "beego" /\ v.status = 0 THEN OK ELSE v.status) = WireStatus(fw, w, e)
      <3> HIDE DEF v, x
      <3> QED
        BY <2>2, <2>3, FinalAgrees
    <2>5. CASE e.how = "recovered"
      <3>1. ret = v /\ ~Failed(e)
        BY <1>3, <2>5 DEF Returned, Failed
      <3> HIDE DEF ret, read, v
      <3> QED
        BY <1>1, <2>4, <3>1
    <2>6. CASE e.how # "recovered" /\ fw = "echo" /\ Failed(e)
      <3>1. ret = w /\ o.code = StatusFromError(e)
        BY <1>3, <2>6 DEF Returned, Header
      <3>2. w \in Responses /\ w.committed \in BOOLEAN /\ w.status \in Nat /\ w.wire \in Nat /\ o.code \in Nat
        BY <1>3, Operations DEF Faithful, Responses
      <3>3. v = Response(IF w.committed THEN w.status ELSE o.code, TRUE, IF w.committed THEN w.wire ELSE Sent(w.wire, o))
        BY <1>3, <2>6, <3>2 DEF Written, echoWrites
      <3>4. v.status = IF w.committed THEN w.status ELSE o.code
        <4>1. (IF w.committed THEN w.wire ELSE Sent(w.wire, o)) \in Nat
          BY <1>3, <3>2, SentIsNat
        <4>2. (IF w.committed THEN w.status ELSE o.code) \in Nat
          BY <3>2
        <4> DEFINE st == IF w.committed THEN w.status ELSE o.code
                   wi == IF w.committed THEN w.wire ELSE Sent(w.wire, o)
        <4>3. v = Response(st, TRUE, wi) /\ st \in Nat /\ wi \in Nat
          BY <3>3, <4>1, <4>2
        <4> HIDE DEF v, st, wi
        <4>4. v.status = st
          BY <4>3, CommittedOrNot
        <4> QED
          BY <4>4 DEF st
      <3>5. read.status = v.status
        <4> HIDE DEF read, ret, v
        <4> QED
          BY <1>1, <2>6, <3>1, <3>4
      <3> HIDE DEF ret, read, v
      <3> QED
        BY <2>4, <2>6, <3>5
    <2> QED
      BY <1>3, <2>5, <2>6
  <1> HIDE DEF read
  <1> QED
    BY <1>2, <1>3, LastWritten DEF read, ret
-----------------------------------------------------------------------------
ResponseFields == {"pc", "panicked", "status", "label", "wire", "unnoticed"}

(* A request is recorded once its handler has returned, as read off the response *)
Seen(s, o) ==
    \/ s.pc \in {"outside", "leave"} /\ o = Unobserved
    \/ /\ s.pc = "handler" /\ o = Unobserved
       /\ s.fw \in Frameworks /\ s.unnoticed \in BOOLEAN /\ Faithful(s.fw, s.resp, s.unnoticed)
    \/ /\ s.pc = "observe" /\ o = Unobserved
       /\ s = [x \in ResponseFields |-> s[x]] /\ (s.unnoticed \/ Informational(s.status) \/ s.status = s.wire)
    \/ /\ s.pc = "leave"
       /\ IF o.cause = Live
          THEN o.reason = "unspecified" /\ (o.status = s.wire \/ s.unnoticed \/ Informational(o.status))
          ELSE o.status = 0 /\ o.reason = o.cause
       /\ o.downstream = Waited(o.took)

(* The accumulator is the time waited on the calls that ended *)
Accumulated(k) ==
    /\ IsFiniteSet(DOMAIN k.took) /\ k.took \in [DOMAIN k.took -> Int]
    /\ k.open \cap DOMAIN k.took = {} /\ k.elapsed = Waited(k.took)
    /\ k = [x \in {"open", "took", "elapsed"} |-> k[x]]

AdaptersInv ==
    /\ serving = [r \in Requests |-> serving[r]] /\ observed = [r \in Requests |-> observed[r]]
    /\ calls = [r \in Requests |-> calls[r]]
    /\ \A r \in Requests : Seen(serving[r], observed[r]) /\ Accumulated(calls[r])

(* A goroutine outside any request has observed nothing *)
LEMMA NothingSeen == Seen(Outside, Unobserved)
  BY DEF Seen, Outside

(* A response nothing was written to is faithful *)
LEMMA WrappedFaithful == \A fw \in Frameworks : Faithful(fw, Wrapped(fw), FALSE)
  <1> SUFFICES ASSUME NEW fw \in Frameworks PROVE Faithful(fw, Wrapped(fw), FALSE)
    OBVIOUS
  <1> DEFINE w == Wrapped(fw)
  <1>1. w \in Responses /\ w.status = (IF fw = "beego" THEN 0 ELSE OK) /\ ~w.committed /\ w.wire = 0 /\ OK # 0
    <2> DEFINE st == IF fw = "beego" THEN 0 ELSE OK
    <2>1. st \in Nat /\ 0 \in Nat /\ OK # 0
      BY DEF OK
    <2>2. w = Response(st, FALSE, 0)
      BY DEF Wrapped
    <2> HIDE DEF w, st
    <2>3. w \in Responses /\ w.status = st /\ ~w.committed /\ w.wire = 0 /\ OK # 0
      BY <2>1, <2>2, CommittedOrNot, Zenon
    <2> QED
      BY <2>3 DEF st
  <1> HIDE DEF w
  <1>2. Faithful(fw, w, FALSE)
    BY <1>1, FaithfulWhen, Zenon
  <1> QED
    BY <1>2 DEF w

(* A request that has not called out has waited for nothing *)
LEMMA NothingAccumulated == Accumulated(NoCalls)
  <1> DEFINE t == [c \in {} |-> 0]
  <1>1. /\ NoCalls.open = {} /\ NoCalls.took = t /\ NoCalls.elapsed = 0
        /\ NoCalls = [x \in {"open", "took", "elapsed"} |-> NoCalls[x]]
    BY DEF NoCalls
  <1>2. DOMAIN t = {} /\ t \in [{} -> Int] /\ IsFiniteSet({}) /\ Waited(t) = 0
    BY FS_EmptySet, WaitedNothing
  <1> HIDE DEF t
  <1> QED
    BY <1>1, <1>2 DEF Accumulated

(* Nobody is served at first *)
LEMMA AdaptersInvInit == AdaptersInit => AdaptersInv
  <1> SUFFICES ASSUME AdaptersInit PROVE AdaptersInv
    OBVIOUS
  <1>1. ASSUME NEW r \in Requests PROVE Seen(serving[r], observed[r]) /\ Accumulated(calls[r])
    <2>1. serving[r] = Outside /\ observed[r] = Unobserved /\ calls[r] = NoCalls
      BY DEF AdaptersInit
    <2>2. Outside.pc = "outside"
      BY DEF Outside
    <2> QED
      BY <2>1, <2>2, NothingAccumulated DEF Seen
  <1> QED
    BY <1>1 DEF AdaptersInit, AdaptersInv

(* Observe turns what was read and waited for into the record *)
LEMMA ObserveRecords ==
    ASSUME AdaptersInv, NEW r \in Requests, Observe(r) PROVE Seen(serving'[r], observed'[r])
  <1> DEFINE s == serving[r]
  <1>1. /\ s.pc = "observe" /\ s = [x \in ResponseFields |-> s[x]]
        /\ s.unnoticed \/ Informational(s.status) \/ s.status = s.wire
    BY DEF Observe, AdaptersInv, Seen
  <1>2. serving'[r] = [s EXCEPT !.pc = "leave"]
    BY DEF Observe, AdaptersInv
  <1>3. serving'[r].pc = "leave" /\ serving'[r].wire = s.wire /\ serving'[r].unnoticed = s.unnoticed
    <2> HIDE DEF s
    <2> QED
      BY <1>1, <1>2 DEF ResponseFields
  <1> DEFINE sent == ReclassifyNoStatus(ctx[r], s.status)
             o == [status |-> sent.status, reason |-> sent.reason, label |-> s.label,
                   downstream |-> calls[r].elapsed, cause |-> ctx[r], took |-> calls[r].took]
  <1>4. observed'[r] = o
    BY DEF Observe, AdaptersInv
  <1>5. o.status = sent.status /\ o.reason = sent.reason /\ o.cause = ctx[r] /\ o.downstream = calls[r].elapsed
        /\ o.took = calls[r].took
    OBVIOUS
  <1>6. o.downstream = Waited(o.took)
    BY <1>5 DEF AdaptersInv, Accumulated
  <1>7. IF o.cause = Live THEN o.status = s.status /\ o.reason = "unspecified"
        ELSE o.status = 0 /\ o.reason = o.cause
    BY <1>5 DEF ReclassifyNoStatus
  <1> HIDE DEF o, s
  <1> QED
    BY <1>1, <1>3, <1>4, <1>6, <1>7 DEF Seen

(* An outbound call that ends adds its duration to the accumulator once *)
LEMMA CallEndAccumulates ==
    ASSUME AdaptersInv, NEW r \in Requests, NEW c, NEW d \in Elapsed, CallEnd(r, c, d)
    PROVE  Accumulated(calls'[r])
  <1> DEFINE k == calls[r]
             D == DOMAIN k.took
             f == k.took
             t == [x \in D \cup {c} |-> IF x = c THEN d ELSE f[x]]
  <1>1. /\ IsFiniteSet(D) /\ k.took \in [D -> Int] /\ c \in k.open /\ k.open \cap D = {} /\ k.elapsed = Waited(k.took)
        /\ d \in Int
    BY AdapterAssumption DEF AdaptersInv, Accumulated, CallEnd
  <1>2. c \notin D
    BY <1>1
  <1>3. calls'[r] = [open |-> k.open \ {c}, took |-> t, elapsed |-> AddDownstream(k.elapsed, d)]
    BY DEF CallEnd, AdaptersInv
  <1>4. /\ calls'[r].open = k.open \ {c} /\ calls'[r].took = t /\ calls'[r].elapsed = AddDownstream(k.elapsed, d)
        /\ calls'[r] = [x \in {"open", "took", "elapsed"} |-> calls'[r][x]]
    <2> HIDE DEF t, k, D
    <2> QED
      BY <1>3, AccumulatorFields
  <1>5. t \in [D \cup {c} -> Int] /\ DOMAIN t = D \cup {c} /\ IsFiniteSet(D \cup {c})
        /\ Waited(k.took) \in Nat /\ Waited(t) = Positive(d) + Waited(k.took)
    <2>1. f \in [D -> Int] /\ IsFiniteSet(D) /\ d \in Int
      BY <1>1
    <2>2. DOMAIN t = D \cup {c}
      OBVIOUS
    <2>3. /\ t \in [D \cup {c} -> Int] /\ IsFiniteSet(D \cup {c})
          /\ Waited(f) \in Nat /\ Waited(t) = Positive(d) + Waited(f)
      <3> HIDE DEF D, f
      <3> QED
        BY <1>2, <2>1, WaitedGrows
    <2> QED
      BY <2>2, <2>3
  <1>6. AddDownstream(k.elapsed, d) = Waited(t)
    <2> HIDE DEF k, t
    <2> QED
      BY <1>1, <1>5, AddsPositive
  <1>7. (k.open \ {c}) \cap (D \cup {c}) = {}
    BY <1>1
  <1> HIDE DEF k, t, D
  <1> QED
    BY <1>4, <1>5, <1>6, <1>7 DEF Accumulated

(* A handler's write keeps its response faithful *)
LEMMA RespondSeen ==
    ASSUME AdaptersInv, NEW r \in Requests, NEW o \in AllOps, Respond(r, o)
    PROVE  Seen(serving'[r], observed'[r])
  <1> DEFINE q == serving[r]
             resp == Written(q.fw, q.resp, o)
             un == q.unnoticed \/ Unnoticed(q.resp, o)
             s == [pc |-> "handler", fw |-> q.fw, routed |-> q.routed, resp |-> resp, unnoticed |-> un]
  <1>1. q.fw \in Frameworks /\ q.unnoticed \in BOOLEAN /\ Faithful(q.fw, q.resp, q.unnoticed) /\ observed'[r] = Unobserved
    BY DEF AdaptersInv, Seen, Respond
  <1>2. Faithful(q.fw, resp, un) /\ un \in BOOLEAN
    BY <1>1, WrittenFaithful
  <1>3. serving'[r] = s
    BY DEF Respond, AdaptersInv
  <1>4. s.pc = "handler" /\ s.fw = q.fw /\ s.resp = resp /\ s.unnoticed = un
    <2> HIDE DEF resp, un, q
    <2> QED
      OBVIOUS
  <1> HIDE DEF s, resp, un, q
  <1> QED
    BY <1>1, <1>2, <1>3, <1>4 DEF Seen

(* A handler's end fixes what the adapter reads off the response *)
LEMMA HandlerEndsSeen ==
    ASSUME AdaptersInv, NEW r \in Requests, NEW e \in AllEnds, HandlerEnds(r, e)
    PROVE  Seen(serving'[r], observed'[r])
  <1> DEFINE q == serving[r]
             fw == q.fw
             w == q.resp
             read == Reads(fw, Returned(fw, w, e), e)
             un == q.unnoticed \/ \E o \in LastHeader(fw, e) : Unnoticed(w, o)
             s == [pc |-> "observe", panicked |-> FALSE, status |-> read.status, label |-> read.label,
                   wire |-> WireStatus(fw, w, e), unnoticed |-> un]
  <1>1. fw \in Frameworks /\ q.unnoticed \in BOOLEAN /\ Faithful(fw, w, q.unnoticed) /\ observed'[r] = Unobserved
    BY DEF AdaptersInv, Seen, HandlerEnds
  <1>2. un \/ Informational(read.status) \/ read.status = WireStatus(fw, w, e)
    BY <1>1, ReadsWhatWasSent
  <1>3. serving'[r] = IF ~q.routed \/ e.how = "panic" THEN [pc |-> "leave", panicked |-> e.how = "panic"] ELSE s
    BY DEF HandlerEnds, AdaptersInv
  <1>4. CASE serving'[r] = s
    <2>1. s.pc = "observe" /\ (s.unnoticed <=> un) /\ s.status = read.status /\ s.wire = WireStatus(fw, w, e)
      <3> HIDE DEF read, un, fw, w
      <3> QED
        OBVIOUS
    <2>2. s = [x \in ResponseFields |-> s[x]]
      <3> HIDE DEF read, un, fw, w
      <3> QED
        BY DEF ResponseFields
    <2> HIDE DEF s, read, un, fw, w
    <2> QED
      BY <1>1, <1>2, <1>4, <2>1, <2>2 DEF Seen
  <1>5. CASE serving'[r] = [pc |-> "leave", panicked |-> e.how = "panic"]
    <2> HIDE DEF s, read, un, fw, w
    <2>1. serving'[r].pc = "leave"
      BY <1>5
    <2> QED
      BY <1>1, <2>1 DEF Seen
  <1> HIDE DEF s, q
  <1> QED
    BY <1>3, <1>4, <1>5

(* Every step of an adapter keeps its records and accumulators right *)
LEMMA AdaptersInvNext == AdaptersInv /\ [AdaptersNext]_allVars => AdaptersInv'
  <1> SUFFICES ASSUME AdaptersInv, [AdaptersNext]_allVars PROVE AdaptersInv'
    OBVIOUS
  <1> DEFINE Shape == /\ serving = [q \in Requests |-> serving[q]] /\ observed = [q \in Requests |-> observed[q]]
                      /\ calls = [q \in Requests |-> calls[q]]
  <1>0. Shape /\ \A q \in Requests : Seen(serving[q], observed[q]) /\ Accumulated(calls[q])
    BY DEF AdaptersInv
  <1>1. ASSUME UNCHANGED adapterVars PROVE AdaptersInv'
    BY <1>0, <1>1 DEF adapterVars, AdaptersInv, Seen, Accumulated
  <1>2. ASSUME NEW r \in Requests, Shape', Seen(serving'[r], observed'[r]), Accumulated(calls'[r]),
               \A q \in Requests : q # r => serving'[q] = serving[q] /\ observed'[q] = observed[q] /\ calls'[q] = calls[q]
        PROVE  AdaptersInv'
    <2>1. ASSUME NEW q \in Requests, q # r PROVE Seen(serving'[q], observed'[q]) /\ Accumulated(calls'[q])
      BY <1>0, <1>2, <2>1, Zenon
    <2> QED
      BY <1>2, <2>1 DEF AdaptersInv
  <1>3. ASSUME NEW r \in Requests, NEW fw \in Host[r].frameworks, NEW routed \in BOOLEAN, Enter(r, fw, routed)
        PROVE  AdaptersInv'
    <2> DEFINE w == Wrapped(fw)
    <2>1. /\ serving'[r] = [pc |-> "handler", fw |-> fw, routed |-> routed, resp |-> w, unnoticed |-> FALSE]
          /\ calls'[r] = NoCalls
          /\ observed'[r] = Unobserved /\ Shape'
          /\ \A q \in Requests : q # r => serving'[q] = serving[q] /\ observed'[q] = observed[q] /\ calls'[q] = calls[q]
      BY <1>0, <1>3 DEF Enter
    <2>5. fw \in Frameworks /\ Faithful(fw, w, FALSE)
      BY AdapterAssumption, WrappedFaithful
    <2> HIDE DEF w
    <2>2. serving'[r].pc = "handler" /\ serving'[r].fw = fw /\ serving'[r].resp = w /\ serving'[r].unnoticed = FALSE
      BY <2>1
    <2>3. Accumulated(calls'[r])
      BY <2>1, NothingAccumulated
    <2>4. Seen(serving'[r], observed'[r])
      BY <2>1, <2>2, <2>5 DEF Seen
    <2> HIDE DEF Shape
    <2> QED
      BY <1>2, <2>1, <2>3, <2>4
  <1>4. ASSUME NEW r \in Requests, NEW cause \in Host[r].causes, ContextEnds(r, cause) PROVE AdaptersInv'
    BY <1>0, <1>4 DEF ContextEnds, AdaptersInv
  <1>5. ASSUME NEW r \in Requests, NEW c, CallStart(r, c) PROVE AdaptersInv'
    <2>1. calls' = [calls EXCEPT ![r].open = @ \cup {c}] /\ UNCHANGED <<serving, observed>>
          /\ c \notin DOMAIN calls[r].took
      BY <1>5 DEF CallStart
    <2>2. \A q \in Requests : q # r => calls'[q] = calls[q]
      BY <1>0, <2>1
    <2>3. calls'[r] = [calls[r] EXCEPT !.open = @ \cup {c}]
      BY <1>0, <2>1
    <2>4. Accumulated(calls'[r])
      <3>1. Accumulated(calls[r]) /\ calls[r] = [x \in {"open", "took", "elapsed"} |-> calls[r][x]]
        BY <1>0 DEF Accumulated
      <3>2. calls'[r].took = calls[r].took /\ calls'[r].elapsed = calls[r].elapsed /\ calls'[r].open = calls[r].open \cup {c}
        BY <2>3, <3>1
      <3> QED
        BY <2>1, <3>1, <3>2 DEF Accumulated
    <2>5. Shape'
      BY <1>0, <2>1
    <2> HIDE DEF Shape
    <2> QED
      BY <1>0, <1>2, <2>1, <2>2, <2>4, <2>5
  <1>6. ASSUME NEW r \in Requests, NEW c, NEW d \in Elapsed, CallEnd(r, c, d) PROVE AdaptersInv'
    <2>1. Accumulated(calls'[r])
      BY <1>6, CallEndAccumulates
    <2>2. /\ Shape' /\ UNCHANGED <<serving, observed>>
          /\ \A q \in Requests : q # r => calls'[q] = calls[q]
      BY <1>0, <1>6 DEF CallEnd
    <2> HIDE DEF Shape
    <2> QED
      BY <1>0, <1>2, <2>1, <2>2
  <1>7. ASSUME NEW r \in Requests, NEW e \in Host[r].ends, HandlerEnds(r, e) PROVE AdaptersInv'
    <2>1. Seen(serving'[r], observed'[r])
      BY <1>7, AdapterAssumption, HandlerEndsSeen
    <2>2. /\ Shape' /\ UNCHANGED <<calls, observed>>
          /\ \A q \in Requests : q # r => serving'[q] = serving[q]
      BY <1>0, <1>7 DEF HandlerEnds
    <2> HIDE DEF Shape
    <2> QED
      BY <1>0, <1>2, <2>1, <2>2
  <1>11. ASSUME NEW r \in Requests, NEW o \in Host[r].ops, Respond(r, o) PROVE AdaptersInv'
    <2>1. Seen(serving'[r], observed'[r])
      BY <1>11, AdapterAssumption, RespondSeen
    <2>2. /\ Shape' /\ UNCHANGED <<calls, observed>>
          /\ \A q \in Requests : q # r => serving'[q] = serving[q]
      BY <1>0, <1>11 DEF Respond
    <2> HIDE DEF Shape
    <2> QED
      BY <1>0, <1>2, <2>1, <2>2
  <1>8. ASSUME NEW r \in Requests, Observe(r) PROVE AdaptersInv'
    <2>1. Seen(serving'[r], observed'[r])
      BY <1>8, ObserveRecords
    <2>2. /\ Shape' /\ UNCHANGED calls
          /\ \A q \in Requests : q # r => serving'[q] = serving[q] /\ observed'[q] = observed[q]
      BY <1>0, <1>8 DEF Observe
    <2> HIDE DEF Shape
    <2> QED
      BY <1>0, <1>2, <2>1, <2>2
  <1>9. ASSUME NEW r \in Requests, Leave(r) PROVE AdaptersInv'
    <2>1. /\ serving'[r] = Outside /\ calls'[r] = NoCalls /\ observed'[r] = Unobserved /\ Shape'
          /\ \A q \in Requests : q # r => serving'[q] = serving[q] /\ observed'[q] = observed[q] /\ calls'[q] = calls[q]
      BY <1>0, <1>9 DEF Leave
    <2>2. Seen(serving'[r], observed'[r])
      BY <2>1, NothingSeen
    <2>3. Accumulated(calls'[r])
      BY <2>1, NothingAccumulated
    <2> HIDE DEF Shape
    <2> QED
      BY <1>2, <2>1, <2>2, <2>3
  <1>10. CASE UNCHANGED allVars
    BY <1>1, <1>10 DEF allVars
  <1> QED
    BY <1>1, <1>3, <1>4, <1>5, <1>6, <1>7, <1>8, <1>9, <1>10, <1>11 DEF AdaptersNext

(* A completed request is recorded under the status the client received,   *)
(* or under none exactly when its context had ended, and with the time its *)
(* handler waited for the calls that ended before: for any handlers,       *)
(* frameworks and outbound calls, a header behind what the writer did not  *)
(* notice and an early hint excepted.                                      *)
THEOREM AdaptersObserveAsServed == AdaptersSpec => []ObservedAsServed
  <1>1. AdaptersInv => ObservedAsServed
    <2> SUFFICES ASSUME AdaptersInv, NEW r \in Requests, observed[r] # Unobserved
                 PROVE  /\ IF observed[r].cause = Live
                           THEN /\ observed[r].reason = "unspecified"
                                /\ \/ observed[r].status = serving[r].wire
                                   \/ serving[r].unnoticed \/ Informational(observed[r].status)
                           ELSE observed[r].status = 0 /\ observed[r].reason = observed[r].cause
                        /\ observed[r].downstream = Waited(observed[r].took)
      BY DEF ObservedAsServed, RecordsWhatWasSent, DownstreamCounted
    <2> QED
      BY DEF AdaptersInv, Seen
  <1> QED
    BY <1>1, AdaptersInvInit, AdaptersInvNext, PTL DEF AdaptersSpec
==============================================================================
