---------------------------- MODULE IngestProofs ----------------------------
(***************************************************************************)
(* Proofs about Ingest, and the cardinality guard inside it, for every     *)
(* set of tenants, series, recorders, uploads and handlers.  Guard says    *)
(* that the guard's map and the history agree on what is recent; the other *)
(* strengthenings follow one upload through its attempts.                  *)
(***************************************************************************)
EXTENDS Ingest, FiniteSetTheorems, TLAPS

(* The guard tracks exactly the series let through within the TTL, with    *)
(* the time of the last call.                                              *)
Guard ==
    /\ TypeOK
    /\ DOMAIN allowedAt = TenantIDs
    /\ \A t \in TenantIDs :
          /\ IsFiniteSet(Series(t))
          /\ \A k \in DOMAIN allowedAt[t] : allowedAt[t][k] \in 0..now
          /\ \A k \in WorkingSet(t) : k \in Series(t) /\ tracked[t][k] = allowedAt[t][k]
          /\ \A k \in Survivors(t) : k \in DOMAIN allowedAt[t] /\ tracked[t][k] = allowedAt[t][k]
-----------------------------------------------------------------------------
(* Under Guard, what survives the sweep is what was let through recently.  *)
LEMMA SurvivorsAreRecent ==
    ASSUME Guard, NEW t \in TenantIDs
    PROVE  Survivors(t) = WorkingSet(t) /\ IsFiniteSet(Survivors(t))
  <1>1. Survivors(t) = WorkingSet(t)
    BY DEF Guard, Survivors, WorkingSet
  <1>2. Survivors(t) \subseteq Series(t)
    BY DEF Survivors
  <1> QED BY <1>1, <1>2, FS_Subset DEF Guard

(* The maps are empty at first. *)
LEMMA GuardHolds0 == Init => Guard
  <1> SUFFICES ASSUME Init PROVE Guard
    OBVIOUS
  <1>1. \A t \in TenantIDs : Series(t) = {}
    BY DEF Init, GuardInit, Series
  <1>2. DOMAIN tracked = {} /\ \A t \in TenantIDs : DOMAIN allowedAt[t] = {}
    BY DEF Init, GuardInit
  <1>3. TypeOK
    BY <1>2, NodeAssumption DEF Init, GuardInit, TypeOK
  <1> QED BY <1>1, <1>2, <1>3, FS_EmptySet DEF Guard, Survivors, WorkingSet, Init

(* Time only makes series older. *)
LEMMA TickKeepsGuard == Guard /\ Tick => Guard'
  <1> SUFFICES ASSUME Guard, Tick PROVE Guard'
    OBVIOUS
  <1>1. now \in 0..MaxTime /\ now' = now + 1 /\ now' \in 0..MaxTime
    BY NodeAssumption DEF Guard, TypeOK, Tick
  <1>2. tracked' = tracked /\ frozenAt' = frozenAt /\ allowedAt' = allowedAt
    BY DEF Tick
  <1>3. \A t \in TenantIDs : Series(t)' = Series(t)
    BY <1>2 DEF Series
  <1>4. TypeOK'
    <2>1. ASSUME NEW t \in DOMAIN tracked
          PROVE  tracked[t] \in [Series(t)' -> 0..now'] /\ Series(t)' \subseteq SeriesKeys
      <3>1. tracked[t] \in [Series(t) -> 0..now] /\ Series(t) \subseteq SeriesKeys
        BY <2>1 DEF Guard, TypeOK
      <3>2. Series(t)' = Series(t)
        BY <1>2 DEF Series
      <3> QED BY <3>1, <3>2, <1>1
    <2> QED BY <2>1, <1>1, <1>2 DEF Guard, TypeOK
  <1>5. ASSUME NEW t \in TenantIDs, NEW k \in Series(t)
        PROVE  tracked[t][k] \in 0..now
    BY <1>5 DEF Guard, TypeOK, Series
  <1>6. \A t \in TenantIDs : WorkingSet(t)' \subseteq WorkingSet(t) /\ Survivors(t)' \subseteq Survivors(t)
    <2> TAKE t \in TenantIDs
    <2>1. \A k \in DOMAIN allowedAt[t] : allowedAt[t][k] \in 0..now
      BY DEF Guard
    <2>2. WorkingSet(t)' \subseteq WorkingSet(t)
      BY <1>1, <1>2, <2>1, CardinalityAssumption DEF WorkingSet
    <2>3. Survivors(t)' \subseteq Survivors(t)
      BY <1>1, <1>2, <1>3, <1>5, CardinalityAssumption DEF Survivors
    <2> QED BY <2>2, <2>3
  <1> QED BY <1>1, <1>2, <1>3, <1>4, <1>6 DEF Guard

(* One Allow call, whatever its cap. *)
LEMMA CallKeepsGuard ==
    ASSUME Guard, NEW t \in TenantIDs, NEW k \in SeriesKeys, NEW capacity \in Nat, Call(t, k, capacity)
    PROVE  Guard'
  <1> DEFINE ok == Allowed(t, k, capacity)
  <1> USE CardinalityAssumption
  <1>1. now' = now /\ now \in 0..MaxTime
    BY DEF Call, Guard, TypeOK
  <1>2. /\ DOMAIN tracked' = DOMAIN tracked \cup {t}
        /\ \A u \in DOMAIN tracked' : u # t => tracked'[u] = tracked[u]
        /\ ok => tracked'[t] = Refresh(t, k)
        /\ ~ok => tracked'[t] = [x \in Survivors(t) |-> tracked[t][x]]
    BY DEF Call, Allow
  <1>3. /\ DOMAIN allowedAt' = TenantIDs
        /\ \A u \in TenantIDs : u # t => allowedAt'[u] = allowedAt[u]
        /\ ok => allowedAt'[t] = [x \in DOMAIN allowedAt[t] \cup {k} |-> IF x = k THEN now ELSE allowedAt[t][x]]
        /\ ~ok => allowedAt'[t] = allowedAt[t]
    BY DEF Call, Guard
  <1>4. ASSUME NEW u \in TenantIDs, NEW x \in Series(u)
        PROVE  tracked[u][x] \in 0..now /\ x \in SeriesKeys
    BY <1>4 DEF Guard, TypeOK, Series
  <1>5. Series(t)' = IF ok THEN Survivors(t) \cup {k} ELSE Survivors(t)
    BY <1>2 DEF Series, Refresh
  <1>6. \A u \in TenantIDs : u # t => Series(u)' = Series(u)
    BY <1>2 DEF Series
  <1>7. Survivors(t) \subseteq Series(t)
    BY DEF Survivors
  <1>8. \A x \in Series(t)' : tracked'[t][x] = IF ok /\ x = k THEN now ELSE tracked[t][x]
    BY <1>2, <1>5 DEF Refresh
  <1>9. TypeOK'
    <2>1. ASSUME NEW u \in DOMAIN tracked'
          PROVE  tracked'[u] \in [Series(u)' -> 0..now'] /\ Series(u)' \subseteq SeriesKeys
      <3>1. CASE u = t
        <4>1. \A x \in Series(t)' : tracked'[t][x] \in 0..now /\ x \in SeriesKeys
          BY <1>1, <1>4, <1>5, <1>7, <1>8, NodeAssumption
        <4>2. tracked'[t] = [x \in Series(t)' |-> tracked'[t][x]]
          BY <1>2, <1>5 DEF Refresh
        <4> QED BY <3>1, <4>1, <4>2, <1>1
      <3>2. CASE u # t
        <4>1. u \in DOMAIN tracked /\ tracked'[u] = tracked[u] /\ u \in TenantIDs
          BY <1>2, <3>2, <2>1 DEF Guard, TypeOK
        <4>2. tracked[u] \in [Series(u) -> 0..now] /\ Series(u) \subseteq SeriesKeys
          BY <4>1 DEF Guard, TypeOK
        <4> QED BY <4>1, <4>2, <1>1, <1>6, <3>2
      <3> QED BY <3>1, <3>2
    <2>2. DOMAIN tracked' \subseteq TenantIDs /\ frozenAt' \subseteq TenantIDs
      BY <1>2 DEF Guard, TypeOK, Call, Allow
    <2> QED BY <2>1, <2>2, <1>1 DEF TypeOK
  <1>10. ASSUME NEW u \in TenantIDs
         PROVE  /\ IsFiniteSet(Series(u)')
                /\ \A x \in DOMAIN allowedAt'[u] : allowedAt'[u][x] \in 0..now'
                /\ \A x \in WorkingSet(u)' : x \in Series(u)' /\ tracked'[u][x] = allowedAt'[u][x]
                /\ \A x \in Survivors(u)' : x \in DOMAIN allowedAt'[u] /\ tracked'[u][x] = allowedAt'[u][x]
    <2>1. CASE u = t
      <3>1. IsFiniteSet(Series(t)')
        BY <1>5, SurvivorsAreRecent, FS_AddElement
      <3>2. \A x \in DOMAIN allowedAt[t] : allowedAt[t][x] \in 0..now
        BY DEF Guard
      <3>3. Survivors(t) = WorkingSet(t)
        BY SurvivorsAreRecent
      <3>4. \A x \in Survivors(t) : x \in DOMAIN allowedAt[t] /\ tracked[t][x] = allowedAt[t][x]
        BY DEF Guard
      <3>5. CASE ok
        <4>1. \A x \in DOMAIN allowedAt'[t] :
                 /\ x \in DOMAIN allowedAt[t] \cup {k}
                 /\ allowedAt'[t][x] = IF x = k THEN now ELSE allowedAt[t][x]
          BY <1>3, <3>5
        <4>2. DOMAIN allowedAt'[t] = DOMAIN allowedAt[t] \cup {k}
          BY <1>3, <3>5
        <4>3. WorkingSet(t)' = WorkingSet(t) \cup {k}
          BY <4>1, <4>2, <1>1 DEF WorkingSet
        <4> QED BY <2>1, <3>1, <3>2, <3>3, <3>4, <3>5, <4>1, <4>2, <4>3, <1>1, <1>5, <1>8, NodeAssumption DEF Survivors
      <3>6. CASE ~ok
        <4>1. WorkingSet(t)' = WorkingSet(t)
          BY <3>6, <1>1, <1>3 DEF WorkingSet
        <4>2. Survivors(t)' = Survivors(t)
          BY <3>6, <1>1, <1>5, <1>8 DEF Survivors
        <4> QED BY <2>1, <3>1, <3>2, <3>3, <3>4, <3>6, <4>1, <4>2, <1>1, <1>3, <1>5, <1>8
      <3> QED BY <3>5, <3>6
    <2>2. CASE u # t
      <3>1. allowedAt'[u] = allowedAt[u] /\ Series(u)' = Series(u) /\ WorkingSet(u)' = WorkingSet(u)
        BY <2>2, <1>1, <1>3, <1>6 DEF WorkingSet
      <3>2. \A x \in Series(u) : tracked'[u][x] = tracked[u][x]
        BY <2>2, <1>2 DEF Series
      <3>3. Survivors(u)' = Survivors(u)
        BY <3>1, <3>2, <1>1 DEF Survivors
      <3>4. /\ IsFiniteSet(Series(u))
            /\ \A x \in DOMAIN allowedAt[u] : allowedAt[u][x] \in 0..now
            /\ \A x \in WorkingSet(u) : x \in Series(u) /\ tracked[u][x] = allowedAt[u][x]
            /\ \A x \in Survivors(u) : x \in DOMAIN allowedAt[u] /\ tracked[u][x] = allowedAt[u][x]
        BY DEF Guard
      <3>5. Survivors(u) \subseteq Series(u)
        BY DEF Survivors
      <3> QED BY <3>1, <3>2, <3>3, <3>4, <3>5, <1>1
    <2> QED BY <2>1, <2>2
  <1> QED BY <1>3, <1>9, <1>10 DEF Guard
-----------------------------------------------------------------------------
Clients0 == [head : Nat \ {0}, waiting : Nat, built : Int, gaveUp : Nat]

(* A handler that has not reached the limits, and one that stores.         *)
Arrived == [pc : {"auth", "cap"}, u : Nat \ {0}, end : Int]
Storing == [pc : {"store"}, u : Nat \ {0}, accepted : BOOLEAN, cap : Nat, i : Nat \ {0}, rejected : Nat]

Summaries(c, u) == Uploads[c][u].summaries
Busy(c, s) == handler[c][s].pc # "none"

(* Where the calls of a client are, and that it waits for one about its    *)
(* oldest upload.                                                          *)
Calls(c) ==
    /\ handler[c] \in [Slots[c] -> {NoHandler} \cup Arrived \cup Storing]
    /\ Len(acked[c]) = client[c].head - 1
    /\ client[c].head <= Len(Uploads[c]) + 1
    /\ client[c].waiting # 0 =>
          /\ client[c].waiting \in Slots[c] /\ Busy(c, client[c].waiting)
          /\ handler[c][client[c].waiting].u = client[c].head
    /\ \A s \in Slots[c] : Busy(c, s) =>
          handler[c][s].u \in 1..Len(Uploads[c]) /\ handler[c][s].u <= client[c].head
    /\ \A s \in Slots[c] : At(c, s, "store") =>
          handler[c][s].i <= Len(Summaries(c, handler[c][s].u)) + 1

Flow ==
    /\ client \in [Clients -> Clients0]
    /\ DOMAIN handler = Clients
    /\ limits \in Limits
    /\ DOMAIN rows = Clients /\ \A c \in Clients : rows[c] \in [Items(c) -> Nat]
    /\ acked \in [Clients -> Seq([rejected : Nat, gaveUp : Nat])]
    /\ \A c \in Clients : Calls(c)

(* What is in a sequence after an append. *)
LEMMA AppendAt ==
    ASSUME NEW S, NEW q \in Seq(S), NEW e
    PROVE  /\ Len(Append(q, e)) = Len(q) + 1
           /\ Append(q, e)[Len(q) + 1] = e
           /\ \A u \in 1..Len(q) : Append(q, e)[u] = q[u]
           /\ \A u \in 1..Len(Append(q, e)) :
                 \/ u \in 1..Len(q) /\ Append(q, e)[u] = q[u]
                 \/ u = Len(q) + 1 /\ Append(q, e)[u] = e
  <1>1. Len(q) \in Nat
    OBVIOUS
  <1>2. Len(Append(q, e)) = Len(q) + 1
    OBVIOUS
  <1>3. Append(q, e)[Len(q) + 1] = e
    OBVIOUS
  <1>4. \A u \in 1..Len(q) : Append(q, e)[u] = q[u]
    OBVIOUS
  <1>5. \A u \in 1..(Len(q) + 1) : u \in 1..Len(q) \/ u = Len(q) + 1
    BY <1>1
  <1> QED BY <1>2, <1>3, <1>4, <1>5

(* Uploads are sequences of summaries. *)
LEMMA UploadTypes ==
    ASSUME NEW c \in Clients
    PROVE  /\ Len(Uploads[c]) \in Nat
           /\ \A u \in 1..Len(Uploads[c]) :
                 /\ Summaries(c, u) \in Seq(SeriesKeys) /\ Len(Summaries(c, u)) \in Nat
                 /\ Uploads[c][u].size \in Nat /\ Uploads[c][u].skew \in Int
  <1> DEFINE R == [summaries : Seq(SeriesKeys), size : Nat, skew : Int]
  <1>1. Uploads[c] \in Seq(R)
    BY IngestAssumption
  <1> HIDE DEF R
  <1>2. Len(Uploads[c]) \in Nat /\ \A u \in 1..Len(Uploads[c]) : Uploads[c][u] \in R
    BY <1>1
  <1>3. \A x \in R : x.summaries \in Seq(SeriesKeys) /\ x.size \in Nat /\ x.skew \in Int
    BY DEF R
  <1>4. \A x \in Seq(SeriesKeys) : Len(x) \in Nat
    OBVIOUS
  <1> QED BY <1>2, <1>3, <1>4 DEF Summaries

Moved(c, s, h) ==
    /\ DOMAIN handler' = Clients
    /\ \A d \in Clients : d # c => handler'[d] = handler[d]
    /\ handler'[c] = [handler[c] EXCEPT ![s] = h]
    /\ \A r \in Slots[c] : handler'[c][r] = IF r = s THEN h ELSE handler[c][r]

(* A step of one call leaves the others where they are. *)
LEMMA GotoOne ==
    ASSUME Flow, NEW c \in Clients, NEW s \in Slots[c], NEW h, Goto(c, s, h)
    PROVE  Moved(c, s, h)
  <1>1. DOMAIN handler = Clients /\ handler[c] \in [Slots[c] -> {NoHandler} \cup Arrived \cup Storing]
    BY DEF Flow, Calls
  <1> QED BY <1>1 DEF Goto, Moved

(* Nothing has been sent. *)
LEMMA FlowHolds0 == IngestInit => Flow
  <1> SUFFICES ASSUME IngestInit PROVE Flow
    OBVIOUS
  <1>1. \A c \in Clients : Len(Uploads[c]) \in Nat
    BY IngestAssumption
  <1>2. \A c \in Clients : \A s \in Slots[c] : handler[c][s] = NoHandler
    BY DEF IngestInit
  <1>3. \A c \in Clients : Calls(c)
    <2> TAKE c \in Clients
    <2>1. handler[c] = [s \in Slots[c] |-> NoHandler] /\ acked[c] = <<>>
      BY DEF IngestInit
    <2>2. client[c].head = 1 /\ client[c].waiting = 0
      BY DEF IngestInit
    <2> QED BY <1>1, <1>2, <2>1, <2>2 DEF Calls, Busy, At, NoHandler
  <1>4. client \in [Clients -> Clients0]
    BY DEF IngestInit, Clients0
  <1>5. DOMAIN rows = Clients /\ \A c \in Clients : rows[c] \in [Items(c) -> Nat]
    BY DEF IngestInit
  <1>6. acked \in [Clients -> Seq([rejected : Nat, gaveUp : Nat])]
    BY DEF IngestInit
  <1> QED BY <1>3, <1>4, <1>5, <1>6, IngestAssumption DEF IngestInit, Flow

(* What a handler that Flow describes has in it. *)
LEMMA HandlerKinds ==
    ASSUME Flow, NEW c \in Clients, NEW s \in Slots[c]
    PROVE  /\ At(c, s, "auth") \/ At(c, s, "cap") => handler[c][s] \in Arrived
           /\ At(c, s, "store") => handler[c][s] \in Storing
           /\ Busy(c, s) => handler[c][s] \in Arrived \cup Storing
  <1>1. handler[c][s] \in {NoHandler} \cup Arrived \cup Storing
    BY DEF Flow, Calls
  <1> QED BY <1>1 DEF At, Busy, NoHandler, Arrived, Storing

(* One handler of c moves on to h, staying with its upload or ending, and  *)
(* its client waits for a busy one still.                                  *)
Moves(c, s, h) ==
    /\ Goto(c, s, h)
    /\ h \in {NoHandler} \cup Arrived \cup Storing
    /\ client' \in [Clients -> Clients0]
    /\ \A d \in Clients : d # c => client'[d] = client[d] /\ acked'[d] = acked[d]
    /\ client[c].head <= client'[c].head /\ client'[c].head <= Len(Uploads[c]) + 1
    /\ acked' \in [Clients -> Seq([rejected : Nat, gaveUp : Nat])]
    /\ Len(acked'[c]) = client'[c].head - 1
    /\ client'[c].waiting # 0 =>
          \/ client'[c].waiting = s /\ h.pc # "none" /\ h.u = client'[c].head
          \/ /\ client'[c].waiting = client[c].waiting /\ client'[c].head = client[c].head
             /\ client[c].waiting # s
    /\ h.pc # "none" => h.u \in 1..Len(Uploads[c]) /\ h.u <= client'[c].head
    /\ h.pc = "store" => h.i <= Len(Summaries(c, h.u)) + 1
    /\ DOMAIN rows' = Clients /\ \A d \in Clients : rows'[d] \in [Items(d) -> Nat]
    /\ limits' \in Limits

(* Such a move keeps Flow. *)
LEMMA FlowStep ==
    ASSUME Flow, NEW c \in Clients, NEW s \in Slots[c], NEW h, Moves(c, s, h)
    PROVE  Flow'
  <1> USE DEF Moves
  <1>1. /\ DOMAIN handler' = Clients
        /\ \A d \in Clients : d # c => handler'[d] = handler[d]
        /\ handler'[c] = [handler[c] EXCEPT ![s] = h]
        /\ \A r \in Slots[c] : handler'[c][r] = IF r = s THEN h ELSE handler[c][r]
    BY GotoOne DEF Moved
  <1>2. ASSUME NEW d \in Clients, d # c
        PROVE  Calls(d)'
    <2>1. handler'[d] = handler[d] /\ client'[d] = client[d] /\ acked'[d] = acked[d]
      BY <1>1, <1>2
    <2>2. Calls(d)
      BY DEF Flow
    <2> QED BY <2>1, <2>2 DEF Calls, Busy, At
  <1>3. Calls(c)'
    <2>1. Calls(c)
      BY DEF Flow
    <2>2. handler'[c] \in [Slots[c] -> {NoHandler} \cup Arrived \cup Storing]
      BY <1>1, <2>1 DEF Calls
    <2>3. client'[c].waiting # 0 =>
             /\ client'[c].waiting \in Slots[c] /\ handler'[c][client'[c].waiting].pc # "none"
             /\ handler'[c][client'[c].waiting].u = client'[c].head
      <3> DEFINE w == client'[c].waiting
      <3>1. CASE w = s /\ h.pc # "none" /\ h.u = client'[c].head
        BY <1>1, <3>1
      <3>2. CASE w # 0 /\ w = client[c].waiting /\ client'[c].head = client[c].head /\ w # s
        <4>1. w \in Slots[c] /\ handler[c][w].pc # "none" /\ handler[c][w].u = client[c].head
          BY <2>1, <3>2 DEF Calls, Busy
        <4> QED BY <1>1, <3>2, <4>1
      <3> QED BY <3>1, <3>2, Zenon
    <2>3a. client[c].head \in Nat /\ client'[c].head \in Nat
      BY DEF Flow, Clients0
    <2>4. ASSUME NEW r \in Slots[c], handler'[c][r].pc # "none"
          PROVE  handler'[c][r].u \in 1..Len(Uploads[c]) /\ handler'[c][r].u <= client'[c].head
      <3>1. CASE r = s
        BY <1>1, <2>4, <3>1
      <3>2. CASE r # s
        <4>1. handler'[c][r] = handler[c][r]
          BY <1>1, <3>2
        <4>2. handler[c][r].u \in 1..Len(Uploads[c]) /\ handler[c][r].u <= client[c].head
          BY <2>1, <2>4, <4>1 DEF Calls, Busy
        <4>3. Len(Uploads[c]) \in Nat /\ client[c].head \in Nat /\ client'[c].head \in Nat
          BY UploadTypes, <2>3a
        <4> QED BY <4>1, <4>2, <4>3
      <3> QED BY <3>1, <3>2
    <2>5. \A r \in Slots[c] : handler'[c][r].pc = "store" =>
             handler'[c][r].i <= Len(Summaries(c, handler'[c][r].u)) + 1
      BY <1>1, <2>1 DEF Calls, At
    <2> QED BY <2>2, <2>3, <2>4, <2>5 DEF Calls, Busy, At
  <1>4. \A d \in Clients : Calls(d)'
    BY <1>2, <1>3
  <1> QED BY <1>1, <1>4, Zenon DEF Flow

(* The items of an upload are its summaries and, as item 0, its windows.   *)
LEMMA ItemsOf ==
    ASSUME NEW c \in Clients
    PROVE  /\ \A u \in 1..Len(Uploads[c]) : \A i \in 0..Len(Summaries(c, u)) : <<u, i>> \in Items(c)
           /\ \A x \in Items(c) : /\ x = <<x[1], x[2]>> /\ x[1] \in 1..Len(Uploads[c])
                                  /\ x[2] \in 0..Len(Summaries(c, x[1]))
  <1>1. ASSUME NEW x \in Items(c)
        PROVE  \E u \in 1..Len(Uploads[c]) : x \in {u} \X (0..Len(Summaries(c, u)))
    BY Zenon DEF Items, Summaries
  <1>2. ASSUME NEW u \in 1..Len(Uploads[c]), NEW x \in {u} \X (0..Len(Summaries(c, u)))
        PROVE  x \in Items(c)
    BY Zenon DEF Items, Summaries
  <1>3. \A u \in 1..Len(Uploads[c]) : \A i \in 0..Len(Summaries(c, u)) :
           <<u, i>> \in {u} \X (0..Len(Summaries(c, u)))
    OBVIOUS
  <1>4. \A u \in 1..Len(Uploads[c]) : \A x \in {u} \X (0..Len(Summaries(c, u))) :
           x = <<x[1], x[2]>> /\ x[1] = u /\ x[2] \in 0..Len(Summaries(c, u))
    OBVIOUS
  <1> QED BY <1>1, <1>2, <1>3, <1>4

(* Storing an item once more. *)
LEMMA RowsStep ==
    ASSUME Flow, NEW c \in Clients, NEW x \in Items(c), rows' = [rows EXCEPT ![c][x] = @ + 1]
    PROVE  /\ DOMAIN rows' = Clients /\ \A d \in Clients : rows'[d] \in [Items(d) -> Nat]
           /\ \A d \in Clients : d # c => rows'[d] = rows[d]
           /\ \A y \in Items(c) : rows'[c][y] = IF y = x THEN rows[c][x] + 1 ELSE rows[c][y]
  <1>1. DOMAIN rows = Clients /\ \A d \in Clients : rows[d] \in [Items(d) -> Nat]
    BY DEF Flow
  <1>2. /\ DOMAIN rows' = Clients /\ \A d \in Clients : d # c => rows'[d] = rows[d]
        /\ rows'[c] = [rows[c] EXCEPT ![x] = @ + 1]
    BY <1>1
  <1>3. rows'[c] \in [Items(c) -> Nat] /\ \A y \in Items(c) : rows'[c][y] = IF y = x THEN rows[c][x] + 1 ELSE rows[c][y]
    BY <1>1, <1>2
  <1> QED BY <1>1, <1>2, <1>3

(* sendStamped keeps Flow. *)
LEMMA SendKeepsFlow ==
    ASSUME Guard, Flow, NEW c \in Clients, NEW s \in Slots[c], Send(c, s)
    PROVE  Flow'
  <1> DEFINE built == IF client[c].built = -1 THEN now ELSE client[c].built
             h == [pc |-> "auth", u |-> client[c].head, end |-> built + Upload(c).skew]
  <1>1. /\ client' = [client EXCEPT ![c].waiting = s, ![c].built = built] /\ Goto(c, s, h)
        /\ Pending(c)
        /\ limits' = limits /\ rows' = rows /\ acked' = acked
    BY DEF Send
  <1>2. client \in [Clients -> Clients0] /\ client[c] \in Clients0
    BY DEF Flow
  <1>3. client[c].head \in 1..Len(Uploads[c])
    BY <1>1, <1>2, UploadTypes DEF Pending, Clients0
  <1>4. built \in Int /\ Upload(c).skew \in Int
    <2>1. now \in Int
      BY DEF Guard, TypeOK
    <2>2. client[c].built \in Int
      BY <1>2 DEF Clients0
    <2>3. Upload(c).skew \in Int
      BY <1>3, UploadTypes DEF Upload
    <2> QED BY <2>1, <2>2, <2>3
  <1>5. s \in Nat /\ s # 0
    BY IngestAssumption
  <1> HIDE DEF built
  <1>6. client'[c] = [client[c] EXCEPT !.waiting = s, !.built = built]
    BY <1>1, <1>2
  <1>7. client'[c] \in Clients0 /\ client'[c].head = client[c].head /\ client'[c].waiting = s
    BY <1>2, <1>4, <1>5, <1>6 DEF Clients0
  <1>8. h \in Arrived /\ h.pc = "auth" /\ h.u = client[c].head
    BY <1>2, <1>4 DEF Arrived, Clients0
  <1>9. /\ \A d \in Clients : d # c => client'[d] = client[d]
        /\ client' \in [Clients -> Clients0]
    BY <1>1, <1>2, <1>7
  <1>10. Len(acked[c]) = client[c].head - 1 /\ client[c].head <= Len(Uploads[c]) + 1 /\ client[c].head \in Nat
    BY <1>2 DEF Flow, Calls, Clients0
  <1>11. /\ DOMAIN rows' = Clients /\ \A d \in Clients : rows'[d] \in [Items(d) -> Nat]
         /\ limits' \in Limits
         /\ acked' \in [Clients -> Seq([rejected : Nat, gaveUp : Nat])]
    BY <1>1, Zenon DEF Flow
  <1> HIDE DEF h
  <1>12. Moves(c, s, h)
    BY <1>1, <1>3, <1>7, <1>8, <1>9, <1>10, <1>11 DEF Moves
  <1> QED BY <1>12, FlowStep

(* A refusal ends the call, and the wait of a client that still waits.     *)
LEMMA RefusedMoves ==
    ASSUME Flow, NEW c \in Clients, NEW s \in Slots[c], Refused(c, s),
           rows' = rows, acked' = acked, limits' = limits
    PROVE  /\ Moves(c, s, NoHandler)
           /\ client'[c] = [client[c] EXCEPT !.waiting = IF client[c].waiting = s THEN 0 ELSE client[c].waiting]
  <1>1. client \in [Clients -> Clients0] /\ client[c] \in Clients0 /\ Calls(c)
    BY DEF Flow
  <1>2. client'[c] = [client[c] EXCEPT !.waiting = IF client[c].waiting = s THEN 0 ELSE client[c].waiting]
    BY <1>1 DEF Refused
  <1>3. /\ client'[c] \in Clients0 /\ client'[c].head = client[c].head /\ client[c].head \in Nat
        /\ client'[c].waiting = IF client[c].waiting = s THEN 0 ELSE client[c].waiting
    BY <1>1, <1>2 DEF Clients0
  <1>4. /\ \A d \in Clients : d # c => client'[d] = client[d]
        /\ client' \in [Clients -> Clients0]
    BY <1>1, <1>3 DEF Refused
  <1>5. Len(acked[c]) = client[c].head - 1 /\ client[c].head <= Len(Uploads[c]) + 1
    BY <1>1 DEF Calls
  <1>6. /\ DOMAIN rows' = Clients /\ \A d \in Clients : rows'[d] \in [Items(d) -> Nat]
        /\ limits' \in Limits /\ acked' \in [Clients -> Seq([rejected : Nat, gaveUp : Nat])]
    BY Zenon DEF Flow
  <1>7. NoHandler.pc = "none" /\ Goto(c, s, NoHandler)
    BY DEF NoHandler, Refused, Ends
  <1>8. Moves(c, s, NoHandler)
    BY <1>3, <1>4, <1>5, <1>6, <1>7 DEF Moves
  <1> QED BY <1>2, <1>8

(* A call goes on with the same upload. *)
LEMMA StaysMoves ==
    ASSUME Flow, NEW c \in Clients, NEW s \in Slots[c], Busy(c, s), NEW h, Goto(c, s, h),
           h \in Arrived \cup Storing, h.u = handler[c][s].u,
           h.pc = "store" => h.i <= Len(Summaries(c, h.u)) + 1,
           DOMAIN rows' = Clients, \A d \in Clients : rows'[d] \in [Items(d) -> Nat],
           client' = client, acked' = acked, limits' = limits
    PROVE  Moves(c, s, h)
  <1>1. client \in [Clients -> Clients0] /\ client[c] \in Clients0 /\ Calls(c)
    BY DEF Flow
  <1>2. Len(acked[c]) = client[c].head - 1 /\ client[c].head <= Len(Uploads[c]) + 1 /\ client[c].head \in Nat
    BY <1>1 DEF Calls, Clients0
  <1>3. h.u \in 1..Len(Uploads[c]) /\ h.u <= client[c].head
    BY <1>1 DEF Calls
  <1>4. limits' \in Limits /\ acked' \in [Clients -> Seq([rejected : Nat, gaveUp : Nat])]
    BY Zenon DEF Flow
  <1>5. h.pc # "none"
    BY DEF Arrived, Storing
  <1>6. client[c].waiting = s => handler[c][s].u = client[c].head
    BY <1>1, IngestAssumption DEF Calls
  <1>7. client[c].head <= client[c].head
    BY <1>2
  <1> QED BY <1>1, <1>2, <1>3, <1>4, <1>5, <1>6, <1>7, ZenonT(30) DEF Moves

(* An answer pops the upload of a client that still waits. *)
LEMMA AnswerMoves ==
    ASSUME Flow, NEW c \in Clients, NEW s \in Slots[c], Answer(c, s)
    PROVE  /\ Moves(c, s, NoHandler)
           /\ handler[c][s] \in Storing /\ handler[c][s].u \in 1..Len(Uploads[c])
           /\ client[c].waiting # s => client' = client /\ acked' = acked
           /\ client[c].waiting = s =>
                 /\ handler[c][s].u = client[c].head
                 /\ client'[c] = [head |-> client[c].head + 1, waiting |-> 0, built |-> -1, gaveUp |-> 0]
                 /\ acked'[c] = Append(acked[c], [rejected |-> handler[c][s].rejected, gaveUp |-> client[c].gaveUp])
  <1>1. client \in [Clients -> Clients0] /\ client[c] \in Clients0 /\ Calls(c)
    BY DEF Flow
  <1>2. At(c, s, "store") /\ handler[c][s] \in Storing
    BY HandlerKinds DEF Answer
  <1>3. handler[c][s].u \in 1..Len(Uploads[c]) /\ Busy(c, s)
    BY <1>1, <1>2 DEF Calls, At, Busy
  <1>4. DOMAIN rows' = Clients /\ \A d \in Clients : rows'[d] \in [Items(d) -> Nat]
    <2>1. CASE rows' = rows
      BY <2>1 DEF Flow
    <2>2. CASE rows' = [rows EXCEPT ![c][<<handler[c][s].u, 0>>] = @ + 1]
      <3>1. <<handler[c][s].u, 0>> \in Items(c)
        BY <1>3, ItemsOf, UploadTypes
      <3> QED BY <2>2, <3>1, RowsStep
    <2> QED BY <2>1, <2>2 DEF Answer
  <1>5. Goto(c, s, NoHandler) /\ limits' = limits
    BY DEF Answer, Ends
  <1>6. limits' \in Limits /\ acked \in [Clients -> Seq([rejected : Nat, gaveUp : Nat])]
    BY <1>5, Zenon DEF Flow
  <1>7. NoHandler.pc = "none"
    BY DEF NoHandler
  <1>8. Len(acked[c]) = client[c].head - 1 /\ client[c].head <= Len(Uploads[c]) + 1 /\ client[c].head \in Nat
    BY <1>1 DEF Calls, Clients0
  <1>9. CASE client[c].waiting # s
    <2>1. client' = client /\ acked' = acked
      BY <1>9 DEF Answer
    <2>2. Moves(c, s, NoHandler)
      BY <1>1, <1>4, <1>5, <1>6, <1>7, <1>8, <1>9, <2>1 DEF Moves
    <2> QED BY <1>2, <1>3, <1>9, <2>1, <2>2
  <1>10. CASE client[c].waiting = s
    <2> DEFINE a == [rejected |-> handler[c][s].rejected, gaveUp |-> client[c].gaveUp]
               k == [head |-> client[c].head + 1, waiting |-> 0, built |-> -1, gaveUp |-> 0]
    <2>1. client' = [client EXCEPT ![c] = k] /\ acked' = [acked EXCEPT ![c] = Append(acked[c], a)]
      BY <1>1, <1>6, <1>10 DEF Answer, PopOldest
    <2>2. a \in [rejected : Nat, gaveUp : Nat] /\ k \in Clients0
      <3>1. handler[c][s].rejected \in Nat /\ client[c].gaveUp \in Nat /\ client[c].head \in Nat \ {0}
        BY <1>1, <1>2 DEF Storing, Clients0
      <3>2. a \in [rejected : Nat, gaveUp : Nat]
        BY <3>1
      <3>3. client[c].head + 1 \in Nat \ {0}
        BY <3>1
      <3>4. k \in Clients0
        BY <3>3 DEF Clients0
      <3> QED BY <3>2, <3>4
    <2>3. handler[c][s].u = client[c].head
      BY <1>1, <1>10, IngestAssumption DEF Calls
    <2>4. k.head = client[c].head + 1 /\ k.waiting = 0
      OBVIOUS
    <2> HIDE DEF a, k
    <2>5. /\ client'[c] = k /\ acked'[c] = Append(acked[c], a)
          /\ \A d \in Clients : d # c => client'[d] = client[d] /\ acked'[d] = acked[d]
          /\ client' \in [Clients -> Clients0]
      BY <1>1, <1>6, <2>1, <2>2
    <2>6. Append(acked[c], a) \in Seq([rejected : Nat, gaveUp : Nat]) /\ Len(Append(acked[c], a)) = Len(acked[c]) + 1
      BY <1>6, <2>2
    <2>7. acked' \in [Clients -> Seq([rejected : Nat, gaveUp : Nat])]
      BY <1>6, <2>1, <2>6
    <2>8. Moves(c, s, NoHandler)
      <3>1. client[c].head <= client'[c].head /\ client'[c].head <= Len(Uploads[c]) + 1 /\ client'[c].waiting = 0
        <4>1. \A n, m \in Nat : n \in 1..m => n <= n + 1 /\ n + 1 <= m + 1
          OBVIOUS
        <4>2. client[c].head \in 1..Len(Uploads[c]) /\ Len(Uploads[c]) \in Nat
          BY <1>3, <2>3, UploadTypes, Zenon
        <4> QED BY <1>8, <2>4, <2>5, <4>1, <4>2, Zenon
      <3>2. Len(acked'[c]) = client'[c].head - 1
        BY <1>8, <2>4, <2>5, <2>6
      <3> QED BY <1>4, <1>5, <1>6, <1>7, <2>5, <2>7, <3>1, <3>2 DEF Moves
    <2> QED BY <1>2, <1>3, <1>10, <2>3, <2>5, <2>8 DEF a, k
  <1> QED BY <1>9, <1>10

(* storeSummary goes on to the next summary. *)
LEMMA StoreSummaryMoves ==
    ASSUME Flow, NEW c \in Clients, NEW s \in Slots[c], StoreSummary(c, s)
    PROVE  LET h == handler[c][s]
               k == Summaries(c, h.u)[h.i]
               stored == h.accepted /\ Allowed(TenantOf[c], k, h.cap) /\ sinkOpen
               g == IF stored THEN [h EXCEPT !.i = @ + 1] ELSE NextRejected(h)
           IN  /\ h \in Storing /\ h.u \in 1..Len(Uploads[c]) /\ h.i \in 1..Len(Summaries(c, h.u))
               /\ k \in SeriesKeys /\ <<h.u, h.i>> \in Items(c)
               /\ stored => rows' = [rows EXCEPT ![c][<<h.u, h.i>>] = @ + 1]
               /\ ~stored => rows' = rows
               /\ g \in Storing /\ g.pc = "store" /\ g.u = h.u /\ g.i = h.i + 1 /\ g.cap = h.cap
               /\ g.rejected = h.rejected + IF stored THEN 0 ELSE 1
               /\ Moves(c, s, g)
  <1> DEFINE h == handler[c][s]
             k == Summaries(c, h.u)[h.i]
             stored == h.accepted /\ Allowed(TenantOf[c], k, h.cap) /\ sinkOpen
             g == IF stored THEN [h EXCEPT !.i = @ + 1] ELSE NextRejected(h)
  <1>1. h \in Storing /\ At(c, s, "store") /\ Busy(c, s)
    BY HandlerKinds DEF StoreSummary, At, Busy
  <1>2. /\ h.i <= Len(Summaries(c, h.u)) /\ Goto(c, s, g)
        /\ client' = client /\ acked' = acked /\ limits' = limits
        /\ stored => rows' = [rows EXCEPT ![c][<<h.u, h.i>>] = @ + 1]
        /\ ~stored => rows' = rows
    BY DEF StoreSummary, Summaries
  <1>3. h.u \in 1..Len(Uploads[c])
    BY <1>1 DEF Flow, Calls
  <1>4. Summaries(c, h.u) \in Seq(SeriesKeys) /\ Len(Summaries(c, h.u)) \in Nat
    BY <1>3, UploadTypes
  <1>5. h.i \in 1..Len(Summaries(c, h.u))
    BY <1>1, <1>2, <1>4 DEF Storing
  <1>6. k \in SeriesKeys /\ <<h.u, h.i>> \in Items(c)
    BY <1>3, <1>4, <1>5, ItemsOf
  <1>7. /\ g \in Storing /\ g.pc = "store" /\ g.u = h.u /\ g.i = h.i + 1 /\ g.cap = h.cap
        /\ g.rejected = h.rejected + IF stored THEN 0 ELSE 1
    <2> HIDE DEF stored, h
    <2>1. CASE stored
      <3>1. g = [h EXCEPT !.i = h.i + 1]
        BY <2>1
      <3> QED BY <1>1, <2>1, <3>1 DEF Storing
    <2>2. CASE ~stored
      <3>1. g = [h EXCEPT !.i = h.i + 1, !.rejected = h.rejected + 1]
        BY <1>1, <2>2 DEF NextRejected, Storing
      <3> HIDE DEF g
      <3> DEFINE f == [h EXCEPT !.i = h.i + 1]
      <3>2. g \in Storing /\ g.pc = "store"
        <4>1. f \in Storing /\ f.rejected = h.rejected /\ g = [f EXCEPT !.rejected = h.rejected + 1]
          BY <1>1, <3>1 DEF Storing
        <4> HIDE DEF f
        <4> QED BY <4>1 DEF Storing
      <3>3. g.u = h.u /\ g.i = h.i + 1 /\ g.cap = h.cap /\ g.rejected = h.rejected + 1
        BY <1>1, <3>1 DEF Storing
      <3> QED BY <2>2, <3>2, <3>3
    <2> QED BY <2>1, <2>2
  <1>8. DOMAIN rows' = Clients /\ \A d \in Clients : rows'[d] \in [Items(d) -> Nat]
    <2>1. CASE stored
      BY <1>2, <1>6, <2>1, RowsStep
    <2>2. CASE ~stored
      BY <1>2, <2>2 DEF Flow
    <2> QED BY <2>1, <2>2
  <1> HIDE DEF g
  <1>10. g \in Arrived \cup Storing /\ (g.pc = "store" => g.i <= Len(Summaries(c, g.u)) + 1)
    BY <1>4, <1>5, <1>7
  <1>11. Moves(c, s, g)
    BY <1>1, <1>2, <1>7, <1>8, <1>10, StaysMoves
  <1> HIDE DEF stored
  <1>12. /\ h \in Storing /\ h.u \in 1..Len(Uploads[c]) /\ h.i \in 1..Len(Summaries(c, h.u))
         /\ k \in SeriesKeys /\ <<h.u, h.i>> \in Items(c)
         /\ stored => rows' = [rows EXCEPT ![c][<<h.u, h.i>>] = @ + 1]
         /\ ~stored => rows' = rows
         /\ g \in Storing /\ g.pc = "store" /\ g.u = h.u /\ g.i = h.i + 1 /\ g.cap = h.cap
         /\ g.rejected = h.rejected + IF stored THEN 0 ELSE 1
         /\ Moves(c, s, g)
    BY <1>1, <1>2, <1>3, <1>5, <1>6, <1>7, <1>11
  <1> QED BY <1>12, Zenon DEF g, stored, h, k

(* A lookup answers the plan, or nothing. *)
LEMMA LookupAnswers ==
    ASSUME Flow, NEW c, NEW l, Lookup(c, l)
    PROVE  /\ l.cap \in Nat /\ l.payload \in Nat
           /\ l # NoLimits => l = limits /\ l.payload > 0
  <1>1. Limits \subseteq [cap : Nat \ {0}, payload : Nat \ {0}] /\ limits \in Limits
    BY IngestAssumption DEF Flow
  <1>2. CASE l = limits
    BY <1>1, <1>2
  <1>3. CASE l = NoLimits
    BY <1>3 DEF NoLimits
  <1> QED BY <1>2, <1>3 DEF Lookup

(* The payload check passes a call on or refuses it. *)
LEMMA AdmitMoves ==
    ASSUME Flow, NEW c \in Clients, NEW s \in Slots[c], NEW l, Admit(c, s, l)
    PROVE  LET g == [handler[c][s] EXCEPT !.pc = "cap"]
           IN  /\ handler[c][s] \in Arrived /\ handler[c][s].u \in 1..Len(Uploads[c])
               /\ \/ Moves(c, s, NoHandler) /\ Refused(c, s)
                  \/ /\ Moves(c, s, g) /\ client' = client
                     /\ PayloadWithinLimit(Uploads[c][handler[c][s].u], l)
                     /\ g \in Arrived /\ g.pc = "cap" /\ g.u = handler[c][s].u
  <1> DEFINE g == [handler[c][s] EXCEPT !.pc = "cap"]
  <1>1. handler[c][s] \in Arrived /\ Busy(c, s)
    BY HandlerKinds DEF Admit, At, Busy
  <1>2. handler[c][s].u \in 1..Len(Uploads[c])
    BY <1>1 DEF Flow, Calls
  <1>4. limits' = limits /\ rows' = rows /\ acked' = acked
    BY DEF Admit
  <1>5. CASE PayloadWithinLimit(Uploads[c][handler[c][s].u], l)
    <2>1. Goto(c, s, g) /\ client' = client
      BY <1>5 DEF Admit
    <2>2. g \in Arrived /\ g.pc = "cap" /\ g.u = handler[c][s].u
      BY <1>1 DEF Arrived
    <2>3. DOMAIN rows' = Clients /\ \A d \in Clients : rows'[d] \in [Items(d) -> Nat]
      BY <1>4 DEF Flow
    <2> HIDE DEF g
    <2>4. Moves(c, s, g)
      BY <1>1, <1>4, <2>1, <2>2, <2>3, StaysMoves
    <2> QED BY <1>1, <1>2, <1>5, <2>1, <2>2, <2>4 DEF g
  <1>6. CASE ~PayloadWithinLimit(Uploads[c][handler[c][s].u], l)
    <2>1. Refused(c, s)
      BY <1>6 DEF Admit
    <2>2. Moves(c, s, NoHandler)
      BY <1>4, <2>1, RefusedMoves
    <2> QED BY <1>1, <1>2, <2>1, <2>2
  <1> QED BY <1>5, <1>6

(* Once the cap is read the call stores from the first summary on. *)
LEMMA ReadCapMoves ==
    ASSUME Flow, NEW c \in Clients, NEW s \in Slots[c], NEW l, ReadCap(c, s, l)
    PROVE  LET g == [pc |-> "store", u |-> handler[c][s].u, accepted |-> InSkew(handler[c][s].end),
                     cap |-> l.cap, i |-> 1, rejected |-> 0]
           IN  /\ handler[c][s] \in Arrived /\ handler[c][s].u \in 1..Len(Uploads[c])
               /\ Moves(c, s, g) /\ g \in Storing /\ client' = client
  <1> DEFINE g == [pc |-> "store", u |-> handler[c][s].u, accepted |-> InSkew(handler[c][s].end),
                   cap |-> l.cap, i |-> 1, rejected |-> 0]
  <1>1. handler[c][s] \in Arrived /\ Busy(c, s)
    BY HandlerKinds DEF ReadCap, At, Busy
  <1>2. handler[c][s].u \in 1..Len(Uploads[c])
    BY <1>1 DEF Flow, Calls
  <1>3. l.cap \in Nat
    BY LookupAnswers DEF ReadCap
  <1>4. limits' = limits /\ rows' = rows /\ acked' = acked /\ client' = client /\ Goto(c, s, g)
    BY DEF ReadCap
  <1>5. InSkew(handler[c][s].end) \in BOOLEAN
    BY DEF InSkew
  <1>6. handler[c][s].u \in Nat \ {0}
    <2> HIDE DEF g
    <2> QED BY <1>2
  <1>7. g \in Storing
    BY <1>3, <1>5, <1>6 DEF Storing
  <1>8. DOMAIN rows' = Clients /\ \A d \in Clients : rows'[d] \in [Items(d) -> Nat]
    BY <1>4 DEF Flow
  <1>9. g.u = handler[c][s].u /\ g.i <= Len(Summaries(c, g.u)) + 1
    <2>1. g.u = handler[c][s].u /\ g.i = 1
      OBVIOUS
    <2> HIDE DEF g
    <2>2. Len(Summaries(c, handler[c][s].u)) \in Nat
      BY <1>2, UploadTypes
    <2> QED BY <2>1, <2>2
  <1> HIDE DEF g
  <1>10. Moves(c, s, g)
    BY <1>1, <1>3, <1>4, <1>7, <1>8, <1>9, StaysMoves
  <1> QED BY <1>1, <1>2, <1>4, <1>7, <1>10 DEF g

(* A client that gives up waits for nothing. *)
LEMMA GiveUpFlow ==
    ASSUME Flow, NEW c \in Clients, GiveUp(c)
    PROVE  /\ Flow'
           /\ client'[c] = [client[c] EXCEPT !.waiting = 0, !.gaveUp = client[c].gaveUp + 1]
           /\ \A d \in Clients : d # c => client'[d] = client[d]
  <1>1. client \in [Clients -> Clients0] /\ client[c] \in Clients0
    BY DEF Flow
  <1>2. /\ client'[c] = [client[c] EXCEPT !.waiting = 0, !.gaveUp = client[c].gaveUp + 1]
        /\ \A d \in Clients : d # c => client'[d] = client[d]
    BY <1>1 DEF GiveUp
  <1>3. client'[c] \in Clients0 /\ client'[c].head = client[c].head /\ client'[c].waiting = 0
    <2> DEFINE k == [client[c] EXCEPT !.waiting = 0]
    <2>1. k \in Clients0 /\ k.head = client[c].head /\ k.waiting = 0 /\ client[c].gaveUp + 1 \in Nat
      BY <1>1 DEF Clients0
    <2>2. client'[c] = [k EXCEPT !.gaveUp = client[c].gaveUp + 1]
      BY <1>1, <1>2 DEF Clients0
    <2> HIDE DEF k
    <2> QED BY <2>1, <2>2 DEF Clients0
  <1>4. client' \in [Clients -> Clients0]
    BY <1>1, <1>3 DEF GiveUp
  <1>5. handler' = handler /\ limits' = limits /\ rows' = rows /\ acked' = acked
    BY DEF GiveUp
  <1>6. ASSUME NEW d \in Clients PROVE Calls(d)'
    <2>1. Calls(d)
      BY DEF Flow
    <2>2. client'[d].head = client[d].head /\ client'[d].waiting \in {0, client[d].waiting}
      BY <1>2, <1>3
    <2> QED BY <1>5, <2>1, <2>2 DEF Calls, Busy, At
  <1>7. Flow'
    BY <1>4, <1>5, <1>6, Zenon DEF Flow
  <1> QED BY <1>2, <1>7

(* Flow looks at none of the guard's variables. *)
LEMMA FlowAside ==
    ASSUME Flow, client' = client, handler' = handler, rows' = rows, acked' = acked,
           limits' \in Limits
    PROVE  Flow'
  <1>1. ASSUME NEW c \in Clients PROVE Calls(c)'
    <2>1. Calls(c)
      BY DEF Flow
    <2> QED BY <2>1 DEF Calls, Busy, At
  <1> QED BY <1>1, Zenon DEF Flow

(* Guard is about the guard's variables only. *)
LEMMA GuardAside == Guard /\ UNCHANGED vars => Guard'
  <1> SUFFICES ASSUME Guard, UNCHANGED vars PROVE Guard'
    OBVIOUS
  <1>1. now' = now /\ tracked' = tracked /\ frozenAt' = frozenAt /\ allowedAt' = allowedAt
    BY DEF vars
  <1>2. \A t : Series(t)' = Series(t) /\ WorkingSet(t)' = WorkingSet(t)
    BY <1>1 DEF Series, WorkingSet
  <1>3. \A t : Survivors(t)' = Survivors(t)
    BY <1>1, <1>2 DEF Survivors
  <1>4. TypeOK'
    BY <1>1, <1>2 DEF Guard, TypeOK
  <1> QED BY <1>1, <1>2, <1>3, <1>4 DEF Guard

(* storeSummary is a call of the guard, or leaves it alone. *)
LEMMA StoreSummaryGuard ==
    ASSUME Guard, Flow, NEW c \in Clients, NEW s \in Slots[c], StoreSummary(c, s)
    PROVE  Guard'
  <1> DEFINE h == handler[c][s]
  <1>1. h \in Storing /\ Summaries(c, h.u)[h.i] \in SeriesKeys
    BY StoreSummaryMoves
  <1>2. TenantOf[c] \in TenantIDs /\ h.cap \in Nat
    BY <1>1, IngestAssumption DEF Storing
  <1>3. Call(TenantOf[c], Summaries(c, h.u)[h.i], h.cap) \/ UNCHANGED vars
    BY DEF StoreSummary, Summaries
  <1> QED BY <1>1, <1>2, <1>3, CallKeepsGuard, GuardAside

(* Every step keeps the guard's books and the place of every call. *)
LEMMA BaseKept == Guard /\ Flow /\ [IngestNext]_allVars => Guard' /\ Flow'
  <1> SUFFICES ASSUME Guard, Flow, [IngestNext]_allVars PROVE Guard' /\ Flow'
    OBVIOUS
  <1>0. limits \in Limits
    BY DEF Flow
  <1>1. ASSUME NEW c \in Clients, GiveUp(c) PROVE Guard' /\ Flow'
    BY <1>1, GiveUpFlow, GuardAside DEF GiveUp
  <1>2. ASSUME NEW c \in Clients, NEW s \in Slots[c], Send(c, s) PROVE Guard' /\ Flow'
    BY <1>2, SendKeepsFlow, GuardAside DEF Send
  <1>3. ASSUME NEW c \in Clients, NEW s \in Slots[c], Deny(c, s) PROVE Guard' /\ Flow'
    <2>1. /\ Refused(c, s) /\ rows' = rows /\ acked' = acked /\ limits' = limits
          /\ UNCHANGED vars
      BY <1>3 DEF Deny
    <2>2. Moves(c, s, NoHandler)
      BY <1>0, <2>1, RefusedMoves
    <2> QED BY <2>1, <2>2, FlowStep, GuardAside
  <1>4. ASSUME NEW c \in Clients, NEW s \in Slots[c], NEW l, Admit(c, s, l) PROVE Guard' /\ Flow'
    <2>1. UNCHANGED vars
      BY <1>4 DEF Admit
    <2>2. \E g : Moves(c, s, g)
      BY <1>4, AdmitMoves
    <2> QED BY <2>1, <2>2, FlowStep, GuardAside
  <1>5. ASSUME NEW c \in Clients, NEW s \in Slots[c], NEW l, ReadCap(c, s, l) PROVE Guard' /\ Flow'
    <2>1. UNCHANGED vars
      BY <1>5 DEF ReadCap
    <2>2. \E g : Moves(c, s, g)
      BY <1>5, ReadCapMoves
    <2> QED BY <2>1, <2>2, FlowStep, GuardAside
  <1>6. ASSUME NEW c \in Clients, NEW s \in Slots[c], StoreSummary(c, s) PROVE Guard' /\ Flow'
    <2>1. \E g : Moves(c, s, g)
      BY <1>6, StoreSummaryMoves
    <2> QED BY <1>6, <2>1, FlowStep, StoreSummaryGuard
  <1>7. ASSUME NEW c \in Clients, NEW s \in Slots[c], Answer(c, s) PROVE Guard' /\ Flow'
    <2>1. Moves(c, s, NoHandler) /\ UNCHANGED vars
      BY <1>7, AnswerMoves DEF Answer
    <2> QED BY <2>1, FlowStep, GuardAside
  <1>8. ASSUME NEW l \in Limits, ChangeLimits(l) PROVE Guard' /\ Flow'
    BY <1>8, FlowAside, GuardAside DEF ChangeLimits
  <1>9. ASSUME SinkCloses PROVE Guard' /\ Flow'
    BY <1>0, <1>9, FlowAside, GuardAside DEF SinkCloses
  <1>10. ASSUME Tick /\ UNCHANGED ingestVars PROVE Guard' /\ Flow'
    BY <1>0, <1>10, FlowAside, TickKeepsGuard DEF ingestVars
  <1>11. ASSUME UNCHANGED allVars PROVE Guard' /\ Flow'
    BY <1>0, <1>11, FlowAside, GuardAside DEF allVars, ingestVars
  <1> QED BY <1>1, <1>2, <1>3, <1>4, <1>5, <1>6, <1>7, <1>8, <1>9, <1>10, <1>11 DEF IngestNext, Step

(* A series in the guard's books is let through whatever the cap. *)
LEMMA RecentIsAllowed == Guard => ExistingKeepFlowing
  <1> SUFFICES ASSUME Guard, NEW t \in TenantIDs, NEW k \in SeriesKeys, NEW n \in Caps, IdleFor(t, k) < SeriesTTL
               PROVE  Allowed(t, k, n)
    BY DEF ExistingKeepFlowing
  <1>1. k \in DOMAIN allowedAt[t] /\ now - allowedAt[t][k] < SeriesTTL
    BY CardinalityAssumption, NodeAssumption DEF IdleFor, Never
  <1>2. k \in Survivors(t)
    BY <1>1, SurvivorsAreRecent DEF WorkingSet
  <1> QED BY <1>2 DEF Allowed

(* The guard's books are right in every state of the ingest path.          *)
LEMMA IngestBase == IngestSpec => [](Guard /\ Flow)
  <1>1. IngestInit => Guard /\ Flow
    BY GuardHolds0, FlowHolds0 DEF IngestInit
  <1> QED BY <1>1, BaseKept, PTL DEF IngestSpec

(* Type correctness of the guard under concurrent uploads. *)
THEOREM IngestTypes == IngestSpec => []TypeOK
  <1>1. Guard => TypeOK
    BY DEF Guard
  <1> QED BY <1>1, IngestBase, PTL

(* "freeze new series, keep existing": however uploads, caps and lookups   *)
(* interleave, a series let through during the last TTL is let through.    *)
THEOREM ExistingSeriesFlow == IngestSpec => []ExistingKeepFlowing
  BY RecentIsAllowed, IngestBase, PTL
-----------------------------------------------------------------------------
Seeing == [plans : SUBSET Limits, failed : SUBSET {"payload", "cap"}]

Fits(c, u, x) == "payload" \in x.failed \/ \E l \in x.plans : Uploads[c][u].size <= l.payload
Capped(n, x) == "cap" \in x.failed \/ \E l \in x.plans : n = l.cap

(* A call h of a recorder c that saw x, the plan being the last it saw:    *)
(* past the payload check it fits, and it stores under a cap it saw.       *)
Checked(c, h, x, plan) ==
    /\ x \in Seeing
    /\ h.pc # "none" => plan \in x.plans
    /\ h.pc \in {"cap", "store"} => Fits(c, h.u, x)
    /\ h.pc = "store" => Capped(h.cap, x)

Limited ==
    /\ DOMAIN seen = Clients /\ \A c \in Clients : DOMAIN seen[c] = Slots[c]
    /\ \A c \in Clients : \A s \in Slots[c] : Checked(c, handler[c][s], seen[c][s], limits)

\* One call has seen x, the others what they had.
Sees(c, s, x) ==
    /\ DOMAIN seen' = Clients /\ \A d \in Clients : DOMAIN seen'[d] = Slots[d]
    /\ \A d \in Clients : \A r \in Slots[d] : seen'[d][r] = IF d = c /\ r = s THEN x ELSE seen[d][r]

(* See touches one call. *)
LEMMA SeeOne ==
    ASSUME Limited, NEW c \in Clients, NEW s \in Slots[c], NEW x, See(c, s, x)
    PROVE  Sees(c, s, x)
  BY DEF Limited, See, Sees

(* A step of one call to a checked place. *)
LEMMA LimitedMove ==
    ASSUME Flow, Limited, NEW c \in Clients, NEW s \in Slots[c], NEW h, NEW x,
           Goto(c, s, h), Sees(c, s, x), limits' = limits, Checked(c, h, x, limits)
    PROVE  Limited'
  <1>1. Moved(c, s, h)
    BY GotoOne
  <1>2. ASSUME NEW d \in Clients, NEW r \in Slots[d] PROVE Checked(d, handler'[d][r], seen'[d][r], limits)
    <2>1. CASE d = c /\ r = s
      <3>1. handler'[d][r] = h /\ seen'[d][r] = x
        BY <1>1, <2>1 DEF Moved, Sees
      <3> QED BY <2>1, <3>1
    <2>2. CASE ~(d = c /\ r = s)
      <3>1. handler'[d][r] = handler[d][r] /\ seen'[d][r] = seen[d][r]
        BY <1>1, <2>2 DEF Moved, Sees
      <3>2. Checked(d, handler[d][r], seen[d][r], limits)
        BY DEF Limited
      <3> QED BY <3>1, <3>2
    <2> QED BY <2>1, <2>2
  <1> QED BY <1>2 DEF Limited, Sees

(* The end of a call. *)
LEMMA LimitedEnds ==
    ASSUME Flow, Limited, NEW c \in Clients, NEW s \in Slots[c], Ends(c, s), limits' = limits
    PROVE  Limited'
  <1>1. Goto(c, s, NoHandler) /\ Sees(c, s, NothingSeen)
    BY SeeOne DEF Ends
  <1>2. Checked(c, NoHandler, NothingSeen, limits)
    BY DEF Checked, NoHandler, NothingSeen, Seeing
  <1> QED BY <1>1, <1>2, LimitedMove

\* x is what a call has seen after a lookup of one of its limits.
SawAll(c, s, limit, l, x) ==
    /\ Sees(c, s, x) /\ limits \in x.plans
    /\ seen[c][s].failed \subseteq x.failed /\ x.plans = seen[c][s].plans
    /\ limit \in x.failed \/ (l = limits /\ l.payload > 0)

(* What a lookup adds to what its call has seen. *)
LEMMA SawChecked ==
    ASSUME Flow, Limited, NEW c \in Clients, NEW s \in Slots[c], NEW limit \in {"payload", "cap"},
           NEW l, Lookup(c, l), Saw(c, s, limit, l), handler[c][s].pc # "none"
    PROVE  \E x \in Seeing : SawAll(c, s, limit, l, x)
  <1> DEFINE y == seen[c][s]
  <1>1. y \in Seeing /\ limits \in y.plans
    BY DEF Limited, Checked
  <1> HIDE DEF y
  <1>2. CASE l = NoLimits
    <2> DEFINE x == [y EXCEPT !.failed = y.failed \cup {limit}]
    <2>1. See(c, s, x)
      BY <1>2 DEF Saw, y
    <2>2. x \in Seeing /\ x.plans = y.plans /\ y.failed \subseteq x.failed /\ limit \in x.failed
      BY <1>1 DEF Seeing
    <2>3. Sees(c, s, x)
      BY <2>1, SeeOne
    <2> HIDE DEF x
    <2> QED BY <1>1, <2>2, <2>3 DEF y, SawAll
  <1>3. CASE l # NoLimits
    <2>1. See(c, s, y)
      BY <1>3 DEF Saw, y
    <2>2. Sees(c, s, y)
      BY <2>1, SeeOne
    <2>3. l = limits /\ l.payload > 0
      BY <1>3, LookupAnswers
    <2> QED BY <1>1, <2>2, <2>3 DEF y, SawAll
  <1> QED BY <1>2, <1>3

(* Fits and Capped when more has been seen. *)
LEMMA SeenMore ==
    ASSUME NEW c, NEW u, NEW n, NEW x, NEW y, x.failed \subseteq y.failed, x.plans \subseteq y.plans
    PROVE  (Fits(c, u, x) => Fits(c, u, y)) /\ (Capped(n, x) => Capped(n, y))
  BY Zenon DEF Fits, Capped

(* The payload check passes a call that fits what it saw. *)
LEMMA AdmitLimited ==
    ASSUME Flow, Limited, NEW c \in Clients, NEW s \in Slots[c], NEW l, Admit(c, s, l)
    PROVE  Limited'
  <1> DEFINE h == handler[c][s]
             g == [h EXCEPT !.pc = "cap"]
  <1>1. limits' = limits /\ h.pc = "auth" /\ Lookup(c, l)
    BY DEF Admit, At
  <1>2. CASE Refused(c, s)
    BY <1>1, <1>2, LimitedEnds DEF Refused
  <1>3. CASE PayloadWithinLimit(Uploads[c][h.u], l)
    <2>1. Goto(c, s, g) /\ Saw(c, s, "payload", l) /\ h \in Arrived /\ h.u \in 1..Len(Uploads[c])
      BY <1>3, AdmitMoves DEF Admit
    <2>2. g.pc = "cap" /\ g.u = h.u
      BY <2>1 DEF Arrived
    <2>0. PICK x \in Seeing : SawAll(c, s, "payload", l, x)
      BY <1>1, <2>1, SawChecked
    <2>3. /\ Sees(c, s, x) /\ limits \in x.plans
          /\ "payload" \in x.failed \/ (l = limits /\ l.payload > 0)
      BY <2>0 DEF SawAll
    <2>4. l.payload \in Nat
      BY <1>1, LookupAnswers
    <2>5. l.payload > 0 => Uploads[c][h.u].size <= l.payload
      BY <1>3, <2>4 DEF PayloadWithinLimit
    <2>6. Fits(c, h.u, x)
      BY <2>3, <2>5, Zenon DEF Fits
    <2> HIDE DEF g, h
    <2>7. Checked(c, g, x, limits)
      BY <2>2, <2>3, <2>6 DEF Checked
    <2> QED BY <1>1, <2>1, <2>3, <2>7, LimitedMove
  <1> QED BY <1>2, <1>3 DEF Admit

(* The cap a call stores under is one it saw. *)
LEMMA ReadCapLimited ==
    ASSUME Flow, Limited, NEW c \in Clients, NEW s \in Slots[c], NEW l, ReadCap(c, s, l)
    PROVE  Limited'
  <1> DEFINE h == handler[c][s]
             g == [pc |-> "store", u |-> h.u, accepted |-> InSkew(h.end), cap |-> l.cap, i |-> 1, rejected |-> 0]
  <1>1. limits' = limits /\ h.pc = "cap" /\ Lookup(c, l) /\ Saw(c, s, "cap", l) /\ Goto(c, s, g)
    BY DEF ReadCap, At
  <1>2. g.pc = "store" /\ g.u = h.u /\ g.cap = l.cap
    OBVIOUS
  <1> HIDE DEF g
  <1>0. PICK x \in Seeing : SawAll(c, s, "cap", l, x)
    <2>1. h.pc # "none"
      BY <1>1
    <2> QED BY <1>1, <2>1, SawChecked
  <1>3. /\ Sees(c, s, x) /\ limits \in x.plans
        /\ seen[c][s].failed \subseteq x.failed /\ x.plans = seen[c][s].plans
        /\ "cap" \in x.failed \/ l = limits
    BY <1>0 DEF SawAll
  <1>4. Fits(c, h.u, seen[c][s])
    BY <1>1 DEF Limited, Checked
  <1>5. Fits(c, h.u, x)
    BY <1>3, <1>4, SeenMore
  <1>6. Capped(l.cap, x)
    BY <1>3, Zenon DEF Capped
  <1> HIDE DEF g, h
  <1>7. Checked(c, g, x, limits)
    BY <1>2, <1>3, <1>5, <1>6 DEF Checked
  <1> QED BY <1>1, <1>3, <1>7, LimitedMove

(* A new plan is seen by every call under way. *)
LEMMA ChangeLimitsLimited ==
    ASSUME Flow, Limited, NEW l \in Limits, ChangeLimits(l)
    PROVE  Limited'
  <1>1. handler' = handler /\ limits' = l
    BY DEF ChangeLimits
  <1>2. DOMAIN seen' = Clients /\ \A c \in Clients : DOMAIN seen'[c] = Slots[c]
    BY DEF ChangeLimits
  <1>3. ASSUME NEW c \in Clients, NEW s \in Slots[c] PROVE Checked(c, handler[c][s], seen'[c][s], l)
    <2> DEFINE y == seen[c][s]
               x == [y EXCEPT !.plans = y.plans \cup {l}]
    <2>1. Checked(c, handler[c][s], y, limits)
      BY DEF Limited
    <2>2. CASE handler[c][s].pc = "none"
      <3>1. seen'[c][s] = y
        BY <2>2 DEF ChangeLimits, At
      <3> QED BY <2>1, <2>2, <3>1 DEF Checked
    <2>3. CASE handler[c][s].pc # "none"
      <3>1. seen'[c][s] = x
        BY <2>3 DEF ChangeLimits, At
      <3>2. y \in Seeing
        BY <2>1 DEF Checked
      <3> HIDE DEF y
      <3>3. x \in Seeing /\ x.failed = y.failed /\ y.plans \subseteq x.plans /\ l \in x.plans
        BY <3>2 DEF Seeing
      <3> HIDE DEF x
      <3>4. \A u, n : (Fits(c, u, y) => Fits(c, u, x)) /\ (Capped(n, y) => Capped(n, x))
        BY <3>3, SeenMore
      <3>5. Checked(c, handler[c][s], x, l)
        BY <2>1, <3>3, <3>4 DEF Checked
      <3> QED BY <3>1, <3>5
    <2> QED BY <2>2, <2>3
  <1> QED BY <1>1, <1>2, <1>3 DEF Limited

(* storeSummary moves within what its call saw. *)
LEMMA StoreSummaryLimited ==
    ASSUME Flow, Limited, NEW c \in Clients, NEW s \in Slots[c], StoreSummary(c, s)
    PROVE  Limited'
  <1> DEFINE h == handler[c][s]
             k == Summaries(c, h.u)[h.i]
             stored == h.accepted /\ Allowed(TenantOf[c], k, h.cap) /\ sinkOpen
             f == IF stored THEN [h EXCEPT !.i = @ + 1] ELSE NextRejected(h)
  <1>0. h \in Storing /\ f.pc = "store" /\ f.u = h.u /\ f.cap = h.cap /\ Moves(c, s, f)
    BY StoreSummaryMoves, Zenon
  <1> HIDE DEF f
  <1>1. PICK g : Goto(c, s, g) /\ h.pc = "store" /\ g.pc = "store" /\ g.u = h.u /\ g.cap = h.cap
    BY <1>0 DEF Moves, Storing
  <1>2. seen' = seen /\ limits' = limits
    BY DEF StoreSummary
  <1>3. Sees(c, s, seen[c][s])
    BY <1>2 DEF Limited, Sees
  <1>4. Checked(c, h, seen[c][s], limits)
    BY DEF Limited
  <1>5. Checked(c, g, seen[c][s], limits)
    BY <1>1, <1>4 DEF Checked
  <1> QED BY <1>1, <1>2, <1>3, <1>5, LimitedMove

(* Every step keeps what the calls under way rely on. *)
LEMMA LimitedKept == Flow /\ Limited /\ [IngestNext]_allVars => Limited'
  <1> SUFFICES ASSUME Flow, Limited, [IngestNext]_allVars PROVE Limited'
    OBVIOUS
  <1>1. ASSUME NEW c \in Clients, NEW s \in Slots[c], Send(c, s) PROVE Limited'
    <2> DEFINE x == [plans |-> {limits}, failed |-> {}]
    <2>1. PICK g : Goto(c, s, g) /\ g.pc = "auth"
      BY <1>1 DEF Send
    <2>2. See(c, s, x) /\ limits' = limits
      BY <1>1 DEF Send
    <2>3. Sees(c, s, x)
      BY <2>2, SeeOne
    <2>4. x \in Seeing /\ limits \in x.plans
      BY DEF Flow, Seeing
    <2> HIDE DEF x
    <2>5. Checked(c, g, x, limits)
      BY <2>1, <2>4 DEF Checked
    <2> QED BY <2>1, <2>2, <2>3, <2>5, LimitedMove
  <1>2. ASSUME NEW c \in Clients, NEW s \in Slots[c], Deny(c, s) \/ Answer(c, s) PROVE Limited'
    <2>1. Ends(c, s) /\ limits' = limits
      BY <1>2 DEF Deny, Refused, Answer
    <2> QED BY <2>1, LimitedEnds
  <1>3. ASSUME handler' = handler, seen' = seen, limits' = limits PROVE Limited'
    BY <1>3 DEF Limited
  <1>4. ASSUME NEW c \in Clients, NEW s \in Slots[c], NEW l, Admit(c, s, l) PROVE Limited'
    BY <1>4, AdmitLimited
  <1>5. ASSUME NEW c \in Clients, NEW s \in Slots[c], NEW l, ReadCap(c, s, l) PROVE Limited'
    BY <1>5, ReadCapLimited
  <1>6. ASSUME NEW c \in Clients, NEW s \in Slots[c], StoreSummary(c, s) PROVE Limited'
    BY <1>6, StoreSummaryLimited
  <1>7. ASSUME NEW l \in Limits, ChangeLimits(l) PROVE Limited'
    BY <1>7, ChangeLimitsLimited
  <1>8. ASSUME NEW c \in Clients, GiveUp(c) PROVE Limited'
    BY <1>3, <1>8 DEF GiveUp
  <1>9. ASSUME SinkCloses \/ UNCHANGED ingestVars PROVE Limited'
    BY <1>3, <1>9 DEF SinkCloses, ingestVars
  <1> QED BY <1>1, <1>2, <1>4, <1>5, <1>6, <1>7, <1>8, <1>9 DEF IngestNext, Step, allVars

(* No call is under way at first. *)
LEMMA LimitedHolds0 == IngestInit => Limited
  <1> SUFFICES ASSUME IngestInit PROVE Limited
    OBVIOUS
  <1>1. \A c \in Clients : \A s \in Slots[c] : handler[c][s] = NoHandler /\ seen[c][s] = NothingSeen
    BY DEF IngestInit
  <1>2. \A c : Checked(c, NoHandler, NothingSeen, limits)
    BY DEF Checked, NoHandler, NothingSeen, Seeing
  <1>3. DOMAIN seen = Clients /\ \A c \in Clients : DOMAIN seen[c] = Slots[c]
    BY DEF IngestInit
  <1> QED BY <1>1, <1>2, <1>3 DEF Limited
-----------------------------------------------------------------------------
(* One Allow call adds at most its own series, and only below its cap.     *)
LEMMA CallWorkingSet ==
    ASSUME Guard, NEW t \in TenantIDs, NEW k \in SeriesKeys, NEW capacity \in Nat, Call(t, k, capacity)
    PROVE  /\ \A u \in TenantIDs : u # t => WorkingSet(u)' = WorkingSet(u)
           /\ \/ WorkingSet(t)' \subseteq WorkingSet(t)
              \/ capacity = 0
              \/ Cardinality(WorkingSet(t)') <= capacity
  <1>1. \A u \in TenantIDs : u # t => WorkingSet(u)' = WorkingSet(u)
    BY DEF Call, Guard, WorkingSet
  <1>2. Survivors(t) = WorkingSet(t) /\ IsFiniteSet(WorkingSet(t))
    BY SurvivorsAreRecent
  <1>3. CASE ~Allowed(t, k, capacity)
    <2>1. WorkingSet(t)' = WorkingSet(t)
      BY <1>3 DEF Call, WorkingSet
    <2> QED BY <1>1, <2>1
  <1>4. CASE Allowed(t, k, capacity)
    <2>1. WorkingSet(t)' = WorkingSet(t) \cup {k}
      <3>1. /\ now' = now /\ now \in Nat
            /\ allowedAt'[t] = [x \in DOMAIN allowedAt[t] \cup {k} |-> IF x = k THEN now ELSE allowedAt[t][x]]
        BY <1>4, NodeAssumption DEF Call, Guard, TypeOK
      <3> QED BY <3>1, CardinalityAssumption DEF WorkingSet
    <2>2. CASE k \in WorkingSet(t)
      BY <1>1, <2>1, <2>2
    <2>3. CASE capacity = 0
      BY <1>1, <2>3
    <2>4. CASE k \notin WorkingSet(t) /\ capacity > 0
      <3>1. Cardinality(WorkingSet(t)) < capacity
        BY <1>2, <1>4, <2>4 DEF Allowed
      <3>2. Cardinality(WorkingSet(t) \cup {k}) = Cardinality(WorkingSet(t)) + 1 /\ Cardinality(WorkingSet(t)) \in Nat
        BY <1>2, <2>4, FS_AddElement, FS_CardinalityType
      <3>3. Cardinality(WorkingSet(t)') <= capacity
        BY <2>1, <3>1, <3>2
      <3> QED BY <1>1, <3>3
    <2> QED BY <2>2, <2>3, <2>4
  <1> QED BY <1>3, <1>4

(* storeSummary stays within what its call saw. *)
LEMMA StoreSummaryWithin ==
    ASSUME Guard, Flow, Limited, NEW c \in Clients, NEW s \in Slots[c], StoreSummary(c, s)
    PROVE  WithinLimits
  <1> DEFINE h == handler[c][s]
             k == Summaries(c, h.u)[h.i]
             x == seen[c][s]
             stored == h.accepted /\ Allowed(TenantOf[c], k, h.cap) /\ sinkOpen
             f == IF stored THEN [h EXCEPT !.i = @ + 1] ELSE NextRejected(h)
  <1>0. /\ Moves(c, s, f) /\ f.i = h.i + 1 /\ h \in Storing /\ k \in SeriesKeys /\ <<h.u, h.i>> \in Items(c)
        /\ stored => rows' = [rows EXCEPT ![c][<<h.u, h.i>>] = @ + 1]
        /\ ~stored => rows' = rows
    BY StoreSummaryMoves, Zenon
  <1> HIDE DEF f, stored
  <1>1. PICK g : /\ Goto(c, s, g) /\ g.i = h.i + 1 /\ h \in Storing /\ k \in SeriesKeys /\ <<h.u, h.i>> \in Items(c)
                 /\ rows' = rows \/ rows' = [rows EXCEPT ![c][<<h.u, h.i>>] = @ + 1]
    BY <1>0 DEF Moves
  <1>2. Call(TenantOf[c], k, h.cap) \/ UNCHANGED vars
    BY DEF StoreSummary, Summaries
  <1>3. h.cap \in Nat /\ h.i \in Nat /\ h.pc = "store"
    BY <1>1 DEF Storing
  <1>4. handler'[c][s] # h
    <2>0. Moved(c, s, g)
      BY <1>1, GotoOne
    <2>1. handler'[c][s] = g
      BY <2>0 DEF Moved
    <2>2. g.i # h.i
      BY <1>1, <1>3
    <2> QED BY <2>1, <2>2
  <1>5. Checked(c, h, x, limits)
    BY DEF Limited
  <1>6. Fits(c, h.u, x) /\ Capped(h.cap, x) /\ x.plans \subseteq Limits
    BY <1>3, <1>5 DEF Checked, Seeing
  <1>7. TenantOf[c] \in TenantIDs /\ \A l \in Limits : l.cap # 0
    BY IngestAssumption
  <1> HIDE DEF x
  <1>8. ASSUME NEW t \in TenantIDs, ~(WorkingSet(t)' \subseteq WorkingSet(t))
        PROVE  TenantOf[c] = t /\ ("cap" \in x.failed \/ \E l \in x.plans : Cardinality(WorkingSet(t)') <= l.cap)
    <2>1. Call(TenantOf[c], k, h.cap)
      BY <1>2, <1>8 DEF vars, WorkingSet
    <2>2. t = TenantOf[c] /\ (h.cap = 0 \/ Cardinality(WorkingSet(t)') <= h.cap)
      BY <1>1, <1>3, <1>7, <1>8, <2>1, CallWorkingSet
    <2> HIDE DEF h, k
    <2>3. h.cap = 0 => "cap" \in x.failed
      <3>1. \A l \in x.plans : l.cap # 0
        BY <1>6, <1>7, Zenon
      <3> QED BY <1>6, <3>1, Zenon DEF Capped
    <2> QED BY <1>6, <2>2, <2>3, Zenon DEF Capped
  <1>9. ASSUME NEW d \in Clients, rows'[d] # rows[d] PROVE d = c
    BY <1>1, <1>9, RowsStep
  <1>10. "payload" \in x.failed \/ \E l \in x.plans : Uploads[c][h.u].size <= l.payload
    BY <1>6, Zenon DEF Fits
  <1> QED BY <1>4, <1>8, <1>9, <1>10, Zenon DEF WithinLimits, x, h

(* So does the answer, with its instance windows. *)
LEMMA AnswerWithin ==
    ASSUME Flow, Limited, NEW c \in Clients, NEW s \in Slots[c], Answer(c, s)
    PROVE  WithinLimits
  <1> DEFINE h == handler[c][s]
             x == seen[c][s]
  <1>1. Goto(c, s, NoHandler) /\ h \in Storing /\ h.u \in 1..Len(Uploads[c])
    BY AnswerMoves DEF Moves
  <1>2. UNCHANGED vars /\ (rows' = rows \/ rows' = [rows EXCEPT ![c][<<h.u, 0>>] = @ + 1])
    BY DEF Answer
  <1>3. \A t \in TenantIDs : WorkingSet(t)' = WorkingSet(t)
    BY <1>2 DEF vars, WorkingSet
  <1>4. h.pc = "store" /\ <<h.u, 0>> \in Items(c)
    BY <1>1, ItemsOf, UploadTypes DEF Storing
  <1>5. handler'[c][s] # h
    <2>0. Moved(c, s, NoHandler)
      BY <1>1, GotoOne
    <2>1. handler'[c][s] = NoHandler
      BY <2>0 DEF Moved
    <2>2. NoHandler.pc # h.pc
      BY <1>4 DEF NoHandler
    <2> QED BY <2>1, <2>2
  <1>6. Fits(c, h.u, x)
    BY <1>4 DEF Limited, Checked
  <1>7. ASSUME NEW d \in Clients, rows'[d] # rows[d] PROVE d = c
    BY <1>2, <1>4, <1>7, RowsStep
  <1>8. "payload" \in x.failed \/ \E l \in x.plans : Uploads[c][h.u].size <= l.payload
    BY <1>6, Zenon DEF Fits
  <1> HIDE DEF x
  <1> QED BY <1>3, <1>5, <1>7, <1>8, Zenon DEF WithinLimits, x, h

(* No other step adds a series or a row. *)
LEMMA StepWithin == Guard /\ Flow /\ Limited /\ [IngestNext]_allVars => WithinLimits
  <1> SUFFICES ASSUME Guard, Flow, Limited, [IngestNext]_allVars PROVE WithinLimits
    OBVIOUS
  <1>1. ASSUME UNCHANGED vars, rows' = rows PROVE WithinLimits
    <2>1. \A t \in TenantIDs : WorkingSet(t)' = WorkingSet(t)
      BY <1>1 DEF vars, WorkingSet
    <2> QED BY <1>1, <2>1, Zenon DEF WithinLimits
  <1>2. ASSUME Tick, UNCHANGED ingestVars PROVE WithinLimits
    <2>1. ASSUME NEW t \in TenantIDs PROVE WorkingSet(t)' \subseteq WorkingSet(t)
      <3>1. \A k \in DOMAIN allowedAt[t] : allowedAt[t][k] \in 0..now
        BY DEF Guard
      <3>2. now \in Nat /\ now' = now + 1 /\ allowedAt' = allowedAt
        BY <1>2, NodeAssumption DEF Guard, TypeOK, Tick
      <3> QED BY <3>1, <3>2, CardinalityAssumption DEF WorkingSet
    <2>2. rows' = rows
      BY <1>2 DEF ingestVars
    <2> QED BY <2>1, <2>2, Zenon DEF WithinLimits
  <1>3. ASSUME NEW c \in Clients, NEW s \in Slots[c], Send(c, s) \/ Deny(c, s) PROVE WithinLimits
    BY <1>1, <1>3 DEF Send, Deny
  <1>4. ASSUME NEW c \in Clients, NEW s \in Slots[c], NEW l, Admit(c, s, l) \/ ReadCap(c, s, l) PROVE WithinLimits
    BY <1>1, <1>4 DEF Admit, ReadCap
  <1>5. ASSUME NEW c \in Clients, NEW s \in Slots[c], StoreSummary(c, s) PROVE WithinLimits
    BY <1>5, StoreSummaryWithin
  <1>6. ASSUME NEW c \in Clients, NEW s \in Slots[c], Answer(c, s) PROVE WithinLimits
    BY <1>6, AnswerWithin
  <1>7. ASSUME NEW l \in Limits, ChangeLimits(l) PROVE WithinLimits
    BY <1>1, <1>7 DEF ChangeLimits
  <1>8. ASSUME NEW c \in Clients, GiveUp(c) PROVE WithinLimits
    BY <1>1, <1>8 DEF GiveUp
  <1>9. ASSUME SinkCloses \/ UNCHANGED allVars PROVE WithinLimits
    BY <1>1, <1>9 DEF SinkCloses, allVars, ingestVars
  <1> QED BY <1>2, <1>3, <1>4, <1>5, <1>6, <1>7, <1>8, <1>9 DEF IngestNext, Step

(* A series is added to a working set, and a row stored, only within a     *)
(* budget the tenant had during the call that does it, for any number of   *)
(* concurrent uploads that each use the cap they read once and whatever    *)
(* becomes of the plan meanwhile; a lookup that fails lifts its limit for  *)
(* its own call alone.                                                     *)
THEOREM PlanLimitsHold == IngestSpec => LimitsHeld
  BY IngestBase, LimitedHolds0, LimitedKept, StepWithin, PTL DEF IngestSpec, LimitsHeld
=============================================================================
