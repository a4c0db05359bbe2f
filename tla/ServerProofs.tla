---------------------------- MODULE ServerProofs ----------------------------
(***************************************************************************)
(* Proofs about the collector: its key resolver, its storage writer and    *)
(* its start and shutdown.                                                 *)
(*                                                                         *)
(* control.Resolver: how stale a resolution can be, for every TTL, latency *)
(* and number of keys and calls.  An entry is dated by what its lookup     *)
(* saw, although the code stamps it with the time of the store.            *)
(*                                                                         *)
(* StorageWriter and Server, for every set of rows, threshold, number of   *)
(* final attempts and of migration statements.  Counted is the             *)
(* strengthening that makes the copies of a row inductive; Closed is the   *)
(* one behind CloseSettles; MigratedInOrder, PoolByStage and Draining are  *)
(* what the collector knows at each stage of a start and of a shutdown.    *)
(***************************************************************************)
EXTENDS Server, KeyResolver, FiniteSetTheorems, TLAPS

-----------------------------------------------------------------------------
(* control.Resolver.                                                       *)

(* Types, with what a call past getFresh holds *)
ResolverBase ==
    /\ ResolverTypeOK
    /\ \A c \in Resolves : asking[c].pc # "idle" => asking[c].digest \in Digests
    /\ \A d \in Digests, a \in Answers : until[d][a] <= clock

(* A lookup under way is at most Latency old, and so is its answer *)
Answering ==
    \A c \in Resolves, d \in Digests, a \in Answers :
        asking[c].pc = "store" /\ asking[c].digest = d /\ asking[c].tenant = a =>
            /\ asking[c].readAt <= clock /\ clock - asking[c].readAt <= Latency
            /\ LastTrue(d, a) >= asking[c].readAt

(* An entry expires at most a TTL and a lookup after its answer was true *)
Dated ==
    \A d \in Digests, a \in Answers : d \in DOMAIN resolutions /\ resolutions[d].tenant = a =>
        resolutions[d].expiry <= LastTrue(d, a) + TTLOf(a) + Latency
-----------------------------------------------------------------------------
(* The answers and times to live the code handles *)
LEMMA AnswerFacts ==
    /\ \A d \in Digests : TenantOf[d] \in Answers /\ TenantOf[d] # None
    /\ None \in Answers
    /\ \A a \in Answers : TTLOf(a) \in Nat
  BY ResolverAssumption DEF Answers, TTLOf

(* The initial state *)
LEMMA ResolverStarts == ResolverInit => ResolverBase /\ Answering /\ Dated
  BY ResolverAssumption, AnswerFacts
     DEF ResolverInit, ResolverBase, ResolverTypeOK, Answering, Dated, Unasked, Entries

(* What a query answers *)
LEMMA QueryFacts == ResolverBase => \A d \in Digests : Query(d) \in Answers /\ LastTrue(d, Query(d)) = clock
  BY AnswerFacts DEF Query, LastTrue, ResolverBase, ResolverTypeOK

(* Every action keeps the types *)
LEMMA ResolverBaseNext == ResolverBase /\ [ResolverNext]_resolverVars => ResolverBase'
  <1> SUFFICES ASSUME ResolverBase, [ResolverNext]_resolverVars PROVE ResolverBase'
    OBVIOUS
  <1> USE ResolverAssumption, AnswerFacts DEF ResolverBase, ResolverTypeOK
  <1>1. ASSUME NEW c \in Resolves, NEW t \in Tokens, ResolveCheck(c, t) PROVE ResolverBase'
    BY <1>1 DEF ResolveCheck, Unasked
  <1>2. ASSUME NEW c \in Resolves, Lookup(c) PROVE ResolverBase'
    <2>1. Query(asking[c].digest) \in Answers /\ asking[c].digest \in Digests /\ clock \in Nat
      BY <1>2, QueryFacts DEF Lookup
    <2>2. asking'[c] \in [pc : {"idle", "lookup", "store"}, digest : Digests \cup {None},
                        tenant : Answers, readAt : Nat]
      <3>1. asking'[c] = [asking[c] EXCEPT !.pc = "store", !.tenant = Query(asking[c].digest), !.readAt = clock]
        BY <1>2 DEF Lookup
      <3> HIDE DEF ResolverBase
      <3>2. asking[c] \in [pc : {"idle", "lookup", "store"}, digest : Digests \cup {None},
                         tenant : Answers, readAt : Nat]
        BY DEF ResolverBase
      <3> QED
        BY <2>1, <3>1, <3>2
    <2>3. \A k \in Resolves : k # c => asking'[k] = asking[k]
      BY <1>2 DEF Lookup
    <2>4. asking' \in [Resolves -> [pc : {"idle", "lookup", "store"}, digest : Digests \cup {None},
                              tenant : Answers, readAt : Nat]]
      <3>1. asking' = [k \in Resolves |-> asking'[k]]
        BY <1>2 DEF Lookup
      <3> QED
        BY <2>2, <2>3, <3>1
    <2>5. asking'[c].digest = asking[c].digest
      BY <1>2 DEF Lookup
    <2> QED
      BY <1>2, <2>1, <2>3, <2>4, <2>5 DEF Lookup
  <1>3. ASSUME NEW c \in Resolves, LookupError(c) PROVE ResolverBase'
    BY <1>3 DEF LookupError, Unasked
  <1>4. ASSUME NEW c \in Resolves, StoreAnswer(c) PROVE ResolverBase'
    <2>1. asking[c].digest \in Digests /\ asking[c].tenant \in Answers /\ clock \in Nat
      BY <1>4 DEF StoreAnswer
    <2>2. [tenant |-> asking[c].tenant, expiry |-> clock + TTLOf(asking[c].tenant)] \in Entries
      BY <2>1 DEF Entries
    <2>3. Swept \subseteq DOMAIN resolutions
      BY DEF Swept
    <2>4. DOMAIN resolutions' \subseteq Digests /\ \A d \in DOMAIN resolutions' : resolutions'[d] \in Entries
      BY <1>4, <2>1, <2>2, <2>3 DEF StoreAnswer
    <2>5. UNCHANGED <<clock, life, until>> /\ asking' = [asking EXCEPT ![c] = Unasked]
      BY <1>4 DEF StoreAnswer
    <2> QED
      BY <2>4, <2>5 DEF Unasked
  <1>5. ASSUME NEW d \in Digests, IssueKey(d) PROVE ResolverBase'
    BY <1>5 DEF IssueKey
  <1>6. ASSUME NEW d \in Digests, RevokeKey(d) PROVE ResolverBase'
    BY <1>6 DEF RevokeKey
  <1>7. CASE TimePasses
    BY <1>7 DEF TimePasses
  <1>8. CASE UNCHANGED resolverVars
    BY <1>8 DEF resolverVars
  <1> QED
    BY <1>1, <1>2, <1>3, <1>4, <1>5, <1>6, <1>7, <1>8 DEF ResolverNext

(* The last instant an answer was true never moves back *)
LEMMA LastTrueGrows ==
    ResolverBase /\ [ResolverNext]_resolverVars => \A d \in Digests, a \in Answers :
        /\ LastTrue(d, a) \in Nat /\ LastTrue(d, a)' \in Nat
        /\ LastTrue(d, a) <= LastTrue(d, a)' /\ LastTrue(d, a) <= clock
  <1> SUFFICES ASSUME ResolverBase, [ResolverNext]_resolverVars, NEW d \in Digests, NEW a \in Answers
               PROVE  /\ LastTrue(d, a) \in Nat /\ LastTrue(d, a)' \in Nat
                      /\ LastTrue(d, a) <= LastTrue(d, a)' /\ LastTrue(d, a) <= clock
    OBVIOUS
  <1>1. clock \in Nat /\ clock' \in Nat /\ until[d][a] \in Nat /\ until'[d][a] \in Nat /\ until[d][a] <= clock
    BY ResolverBaseNext DEF ResolverBase, ResolverTypeOK
  <1>2. ASSUME life' = life, until' = until, clock <= clock'
        PROVE  LastTrue(d, a) <= LastTrue(d, a)'
    BY <1>1, <1>2 DEF LastTrue
  <1>3. ASSUME NEW e \in Digests, IssueKey(e) PROVE LastTrue(d, a) <= LastTrue(d, a)'
    BY <1>1, <1>3, AnswerFacts DEF LastTrue, IssueKey, ResolverBase, ResolverTypeOK
  <1>4. ASSUME NEW e \in Digests, RevokeKey(e) PROVE LastTrue(d, a) <= LastTrue(d, a)'
    BY <1>1, <1>4, AnswerFacts DEF LastTrue, RevokeKey, ResolverBase, ResolverTypeOK
  <1>5. ASSUME NEW c \in Resolves, (\E t \in Tokens : ResolveCheck(c, t)) \/ Lookup(c) \/ LookupError(c) \/ StoreAnswer(c)
        PROVE  LastTrue(d, a) <= LastTrue(d, a)'
    <2>1. life' = life /\ until' = until /\ clock = clock'
      BY <1>5 DEF ResolveCheck, Lookup, LookupError, StoreAnswer
    <2> QED
      BY <1>1, <1>2, <2>1
  <1>6. ASSUME TimePasses PROVE LastTrue(d, a) <= LastTrue(d, a)'
    <2>1. life' = life /\ until' = until /\ clock <= clock'
      BY <1>1, <1>6 DEF TimePasses
    <2> QED
      BY <1>2, <2>1
  <1>8. ASSUME UNCHANGED resolverVars PROVE LastTrue(d, a) <= LastTrue(d, a)'
    <2>1. life' = life /\ until' = until /\ clock <= clock'
      BY <1>1, <1>8 DEF resolverVars
    <2> QED
      BY <1>2, <2>1
  <1>7. LastTrue(d, a) <= LastTrue(d, a)'
    BY <1>3, <1>4, <1>5, <1>6, <1>8 DEF ResolverNext
  <1> QED
    BY <1>1, <1>7 DEF LastTrue

(* A lookup and what it saw stay together *)
LEMMA AnsweringNext == ResolverBase /\ Answering /\ [ResolverNext]_resolverVars => Answering'
  <1> DEFINE Good(k, d, a) == /\ asking'[k].readAt <= clock' /\ clock' - asking'[k].readAt <= Latency
                              /\ LastTrue(d, a)' >= asking'[k].readAt
  <1> SUFFICES ASSUME ResolverBase, Answering, [ResolverNext]_resolverVars, NEW k \in Resolves, NEW d \in Digests, NEW a \in Answers,
                      asking'[k].pc = "store", asking'[k].digest = d, asking'[k].tenant = a
               PROVE  Good(k, d, a)
    BY DEF Answering
  <1>0. clock \in Nat /\ clock' \in Nat /\ Latency \in Nat /\ asking[k].readAt \in Nat
    BY ResolverAssumption, ResolverBaseNext DEF ResolverBase, ResolverTypeOK
  <1>1. ASSUME asking'[k] = asking[k], clock' = clock \/ (clock' = clock + 1 /\ clock - asking[k].readAt < Latency)
        PROVE  Good(k, d, a)
    <2>1. LastTrue(d, a) \in Nat /\ LastTrue(d, a)' \in Nat /\ LastTrue(d, a) <= LastTrue(d, a)'
      BY LastTrueGrows
    <2>2. LastTrue(d, a) >= asking[k].readAt /\ asking[k].readAt <= clock /\ clock - asking[k].readAt <= Latency
      BY <1>1 DEF Answering
    <2> QED
      BY <1>0, <1>1, <2>1, <2>2
  <1>2. ASSUME Lookup(k) PROVE Good(k, d, a)
    <2>1. asking'[k].readAt = clock /\ a = Query(d) /\ d = asking[k].digest
      BY <1>2 DEF Lookup, ResolverBase, ResolverTypeOK
    <2>2. UNCHANGED <<clock, life, until>>
      BY <1>2 DEF Lookup
    <2>3. LastTrue(d, a) = clock
      BY <2>1, QueryFacts
    <2>4. LastTrue(d, a)' = clock
      BY <2>2, <2>3 DEF LastTrue
    <2> QED
      BY <1>0, <2>1, <2>2, <2>4
  <1>3. ASSUME NEW c \in Resolves, Lookup(c), c # k PROVE asking'[k] = asking[k] /\ clock' = clock
    BY <1>3 DEF Lookup, ResolverBase, ResolverTypeOK
  <1>4. ASSUME NEW c \in Resolves, NEW t \in Tokens, ResolveCheck(c, t) PROVE asking'[k] = asking[k] /\ clock' = clock
    BY <1>4 DEF ResolveCheck, Unasked, ResolverBase, ResolverTypeOK
  <1>5. ASSUME NEW c \in Resolves, LookupError(c) \/ StoreAnswer(c) PROVE asking'[k] = asking[k] /\ clock' = clock
    BY <1>5 DEF LookupError, StoreAnswer, Unasked, ResolverBase, ResolverTypeOK
  <1>6. ASSUME NEW e \in Digests, IssueKey(e) \/ RevokeKey(e) PROVE asking'[k] = asking[k] /\ clock' = clock
    BY <1>6 DEF IssueKey, RevokeKey
  <1>7. CASE TimePasses
    <2>1. asking' = asking /\ clock' = clock + 1 /\ clock - asking[k].readAt < Latency
      BY <1>7 DEF TimePasses
    <2> QED
      BY <1>1, <2>1
  <1>8. CASE UNCHANGED resolverVars
    BY <1>1, <1>8 DEF resolverVars
  <1> HIDE DEF Good
  <1> QED
    BY <1>1, <1>2, <1>3, <1>4, <1>5, <1>6, <1>7, <1>8 DEF ResolverNext

(* A stored entry is dated by its lookup; other steps leave it alone *)
LEMMA DatedNext == ResolverBase /\ Answering /\ Dated /\ [ResolverNext]_resolverVars => Dated'
  <1> SUFFICES ASSUME ResolverBase, Answering, Dated, [ResolverNext]_resolverVars, NEW d \in Digests, NEW a \in Answers,
                      d \in DOMAIN resolutions', resolutions'[d].tenant = a
               PROVE  resolutions'[d].expiry <= LastTrue(d, a)' + TTLOf(a) + Latency
    BY DEF Dated, TTLOf
  <1>0. /\ Latency \in Nat /\ clock \in Nat /\ TTLOf(a) \in Nat
        /\ LastTrue(d, a) \in Nat /\ LastTrue(d, a)' \in Nat /\ LastTrue(d, a) <= LastTrue(d, a)'
    BY ResolverAssumption, AnswerFacts, LastTrueGrows DEF ResolverBase, ResolverTypeOK
  <1>1. ASSUME d \in DOMAIN resolutions, resolutions'[d] = resolutions[d]
        PROVE  resolutions'[d].expiry <= LastTrue(d, a)' + TTLOf(a) + Latency
    <2>1. resolutions[d].expiry <= LastTrue(d, a) + TTLOf(a) + Latency /\ resolutions[d].expiry \in Nat
      BY <1>1 DEF Dated, ResolverBase, ResolverTypeOK, Entries
    <2>2. \A x, l, m, t, y \in Nat : x <= l + t + y /\ l <= m => x <= m + t + y
      OBVIOUS
    <2> QED
      BY <1>0, <1>1, <2>1, <2>2, Zenon
  <1>2. CASE resolutions' = resolutions
    BY <1>1, <1>2
  <1>3. ASSUME NEW c \in Resolves, StoreAnswer(c)
        PROVE  resolutions'[d].expiry <= LastTrue(d, a)' + TTLOf(a) + Latency
    <2>1. CASE d # asking[c].digest
      BY <1>1, <1>3, <2>1 DEF StoreAnswer, Swept
    <2>2. CASE d = asking[c].digest
      <3>1. resolutions'[d] = [tenant |-> asking[c].tenant, expiry |-> clock + TTLOf(asking[c].tenant)]
        BY <1>3, <2>2 DEF StoreAnswer
      <3>2. asking[c].tenant = a /\ resolutions'[d].expiry = clock + TTLOf(a)
        BY <3>1
      <3>3. LastTrue(d, a) >= asking[c].readAt /\ clock - asking[c].readAt <= Latency /\ asking[c].readAt \in Nat
        BY <1>3, <2>2, <3>2 DEF Answering, StoreAnswer, ResolverBase, ResolverTypeOK
      <3> QED
        BY <1>0, <3>2, <3>3
    <2> QED
      BY <2>1, <2>2
  <1> QED
    BY <1>2, <1>3 DEF ResolverNext, ResolveCheck, Lookup, LookupError, IssueKey, RevokeKey, TimePasses, resolverVars
-----------------------------------------------------------------------------
(* Type correctness of the resolver. *)
THEOREM ResolverTypes == ResolverSpec => []ResolverTypeOK
  <1>1. ResolverBase => ResolverTypeOK
    BY DEF ResolverBase
  <1> QED
    BY <1>1, ResolverStarts, ResolverBaseNext, PTL DEF ResolverSpec

(* Resolve never serves from its cache an answer that stopped being true a *)
(* TTL and a lookup ago, for every TTL, latency and interleaving.          *)
THEOREM ResolverStalenessBounded == ResolverSpec => []StalenessBounded
  <1>1. ResolverBase /\ Dated => StalenessBounded
    <2> SUFFICES ASSUME ResolverBase, Dated, NEW d \in Digests, getFresh(d)
                 PROVE  clock - LastTrue(d, resolutions[d].tenant) < TTLOf(resolutions[d].tenant) + Latency
      BY DEF StalenessBounded
    <2>1. d \in DOMAIN resolutions /\ resolutions[d].expiry > clock /\ resolutions[d].expiry \in Nat /\ resolutions[d].tenant \in Answers
      BY DEF getFresh, ResolverBase, ResolverTypeOK, Entries
    <2>2. clock \in Nat /\ Latency \in Nat /\ TTLOf(resolutions[d].tenant) \in Nat /\ LastTrue(d, resolutions[d].tenant) \in Nat
      BY <2>1, ResolverAssumption, AnswerFacts DEF ResolverBase, ResolverTypeOK, LastTrue
    <2>3. resolutions[d].expiry <= LastTrue(d, resolutions[d].tenant) + TTLOf(resolutions[d].tenant) + Latency
      BY <2>1 DEF Dated
    <2> QED
      BY <2>1, <2>2, <2>3
  <1> QED
    BY <1>1, ResolverStarts, ResolverBaseNext, AnsweringNext, DatedNext, PTL DEF ResolverSpec

(* store never evicts an entry that getFresh would still serve. *)
THEOREM ResolverKeepsFresh == ResolverSpec => FreshNeverEvicted
  <1>1. [ResolverNext]_resolverVars => [\A d \in Digests : getFresh(d) => d \in DOMAIN resolutions']_resolverVars
    <2> SUFFICES ASSUME [ResolverNext]_resolverVars, NEW d \in Digests, getFresh(d) PROVE d \in DOMAIN resolutions'
      OBVIOUS
    <2>1. CASE resolutions' = resolutions
      BY <2>1 DEF getFresh
    <2>2. ASSUME NEW c \in Resolves, StoreAnswer(c) PROVE d \in DOMAIN resolutions'
      BY <2>2 DEF StoreAnswer, Swept, getFresh
    <2> QED
      BY <2>1, <2>2 DEF ResolverNext, ResolveCheck, Lookup, LookupError, IssueKey, RevokeKey, TimePasses, resolverVars
  <1> QED
    BY <1>1, PTL DEF ResolverSpec, FreshNeverEvicted
-----------------------------------------------------------------------------
(* The storage writer and the collector. *)

JobLists == {<<>>, <<Summaries>>, <<InstanceWindows>>, <<Summaries, InstanceWindows>>}

(* Types without the bound on copies, and what each batcher state is flushing *)
Base ==
    /\ loc \in [Rows -> Locations]
    /\ copies \in [Rows -> Nat]
    /\ bpc \in {"select", "drain", "final", "exited", "killed"}
    /\ jobs \in JobLists
    /\ attempt \in 1..FinalAttempts
    /\ closed \in BOOLEAN
    /\ closer \in {"idle", "waiting", "nil", "expired"}
    /\ bpc \in {"select", "drain"} => attempt = 1
    /\ bpc = "final" => jobs \in {<<InstanceWindows>>, <<Summaries, InstanceWindows>>}
    /\ bpc = "exited" => jobs = <<>>

(* A batched row has been applied at most once per failed attempt of its flush *)
Counted ==
    /\ \A r \in Rows : loc[r] \in {"idle", "checked", "refused", "queued"} => copies[r] = 0
    /\ \A r \in Rows : loc[r] = "batch" =>
          \/ copies[r] = 0
          \/ jobs # <<>> /\ StreamOf[r] = Head(jobs) /\ copies[r] < attempt
    /\ \A r \in Rows : copies[r] <= FinalAttempts
    /\ OnceWhileRunning

(* A batch at the threshold is the one being flushed *)
Bounded ==
    /\ BatchBounded
    /\ \A s \in Streams :
          \/ Cardinality(Batch(s)) < FlushRows
          \/ jobs # <<>> /\ Head(jobs) = s
          \/ bpc \notin {"select", "drain"}

(* What is known to be empty at each stage of a Close, but for late rows *)
Closed ==
    /\ closer = "idle" => late = {}
    /\ closer # "idle" => closed
    /\ bpc \in {"drain", "final", "exited"} => closed
    /\ closed => \A r \in Rows \ late : loc[r] # "checked"
    /\ bpc \in {"final", "exited"} => \A r \in Rows \ late : loc[r] # "queued"
    /\ bpc = "final" /\ jobs = <<InstanceWindows>> =>
          \A r \in Rows \ late : loc[r] = "batch" => StreamOf[r] = InstanceWindows
    /\ bpc = "exited" => \A r \in Rows \ late : loc[r] # "batch"
    /\ closer = "nil" => bpc = "exited"
-----------------------------------------------------------------------------
(* The lists of streams the batcher can be flushing, and what Head and Tail do to them *)
LEMMA JobFacts ==
    /\ \A j \in JobLists : j # <<>> => Tail(j) \in JobLists /\ Head(j) \in Streams
    /\ \A j \in JobLists : j \in Seq(Streams) /\ Len(j) <= 2
    /\ <<>> # <<Summaries>> /\ <<>> # <<InstanceWindows>> /\ <<>> # <<Summaries, InstanceWindows>>
    /\ <<Summaries>> # <<InstanceWindows>>
    /\ <<InstanceWindows>> # <<Summaries, InstanceWindows>>
    /\ Tail(<<Summaries>>) = <<>> /\ Tail(<<InstanceWindows>>) = <<>>
    /\ Tail(<<Summaries, InstanceWindows>>) = <<InstanceWindows>>
    /\ Head(<<Summaries>>) = Summaries /\ Head(<<InstanceWindows>>) = InstanceWindows
    /\ Head(<<Summaries, InstanceWindows>>) = Summaries
  BY DEF JobLists, Streams, Summaries, InstanceWindows

(* A new Writer satisfies the types *)
LEMMA BaseInit == Init => Base
  <1> SUFFICES ASSUME Init PROVE Base
    OBVIOUS
  <1>1. loc \in [Rows -> Locations] /\ copies \in [Rows -> Nat] /\ attempt \in 1..FinalAttempts
    BY WriterAssumption DEF Init, Locations
  <1>2. jobs \in JobLists /\ closed \in BOOLEAN
    BY Zenon DEF Init, JobLists
  <1> QED
    BY <1>1, <1>2 DEF Init, Base

(* Every action of handlers, batcher and Close keeps the types *)
LEMMA BaseNext == Base /\ [Next]_vars => Base'
  <1> SUFFICES ASSUME Base, [Next]_vars PROVE Base'
    OBVIOUS
  <1> USE WriterAssumption, JobFacts DEF Base
  <1>1. ASSUME NEW r \in Rows, EnqueueCheck(r) \/ EnqueueSend(r) \/ EnqueueRefused(r) PROVE Base'
    BY <1>1 DEF EnqueueCheck, EnqueueSend, EnqueueRefused, Locations
  <1>2. ASSUME NEW r \in Rows, Receive(r) PROVE Base'
    <2>1. jobs' \in JobLists
      BY <1>2 DEF Receive, JobLists, Streams
    <2> QED
      BY <1>2, <2>1 DEF Receive, Locations
  <1>3. CASE Tick
    BY <1>3 DEF Tick, TickJobs, JobLists
  <1>4. CASE StartDrain
    BY <1>4 DEF StartDrain
  <1>5. CASE StartFinalFlush
    BY <1>5 DEF StartFinalFlush, JobLists
  <1>6. ASSUME FlushDone, jobs # <<>>, bpc \notin {"exited", "killed"}
        PROVE  /\ jobs' \in JobLists /\ attempt' \in 1..FinalAttempts /\ attempt' = 1
               /\ bpc' \in {"select", "drain", "final", "exited", "killed"}
               /\ bpc' = "final" => jobs' \in {<<InstanceWindows>>, <<Summaries, InstanceWindows>>}
               /\ bpc' = "exited" => jobs' = <<>>
    <2>1. jobs' = Tail(jobs) /\ attempt' = 1 /\ jobs' \in JobLists
      BY <1>6 DEF FlushDone
    <2>2. bpc = "final" => jobs' = <<>> \/ jobs' = <<InstanceWindows>>
      BY <2>1
    <2>3. bpc' = IF bpc = "final" /\ jobs' = <<>> THEN "exited" ELSE bpc
      BY <1>6, <2>1 DEF FlushDone
    <2> QED
      BY <1>6, <2>1, <2>2, <2>3
  <1>7. CASE FlushNothing
    BY <1>6, <1>7 DEF FlushNothing
  <1>8. CASE InsertOk
    BY <1>6, <1>8 DEF InsertOk, Move, Locations
  <1>9. ASSUME NEW applied \in BOOLEAN, InsertFail(applied) PROVE Base'
    <2>0. copies' \in [Rows -> Nat]
      BY <1>9 DEF InsertFail
    <2>1. CASE Retries
      BY <1>9, <2>0, <2>1 DEF InsertFail, Retries
    <2>2. CASE ~Retries
      BY <1>6, <1>9, <2>0, <2>2 DEF InsertFail, Move, Locations
    <2> QED
      BY <2>1, <2>2
  <1>10. CASE CloseCall \/ CloseReturn \/ CloseExpire \/ ProcessExit
    BY <1>10 DEF CloseCall, CloseReturn, CloseExpire, ProcessExit, Killed
  <1>11. CASE UNCHANGED vars
    BY <1>11 DEF vars
  <1> QED
    BY <1>1, <1>2, <1>3, <1>4, <1>5, <1>7, <1>8, <1>9, <1>10, <1>11 DEF Next
-----------------------------------------------------------------------------
(* Nothing has been inserted at first *)
LEMMA CountedInit == Init => Counted
  BY WriterAssumption DEF Init, Counted, OnceWhileRunning

(* Only a failed attempt of the final flush can leave a batched row applied *)
LEMMA CountedNext == Base /\ Counted /\ [Next]_vars => Counted'
  <1> SUFFICES ASSUME Base, Counted, [Next]_vars PROVE Counted'
    OBVIOUS
  <1> USE WriterAssumption, JobFacts DEF Base, Counted, OnceWhileRunning
  <1>1. ASSUME NEW r \in Rows, EnqueueCheck(r) \/ EnqueueSend(r) \/ EnqueueRefused(r) PROVE Counted'
    BY <1>1 DEF EnqueueCheck, EnqueueSend, EnqueueRefused
  <1>2. ASSUME NEW r \in Rows, Receive(r) PROVE Counted'
    BY <1>2 DEF Receive
  <1>3. CASE Tick
    BY <1>3 DEF Tick
  <1>4. CASE StartDrain
    BY <1>4 DEF StartDrain
  <1>5. CASE StartFinalFlush
    BY <1>5 DEF StartFinalFlush
  <1>7. CASE FlushNothing
    <2>1. \A r \in Rows : loc[r] = "batch" => StreamOf[r] # Head(jobs)
      BY <1>7 DEF FlushNothing, Batch
    <2> QED
      BY <1>7, <2>1 DEF FlushNothing, FlushDone
  <1>8. CASE InsertOk
    <2>1. \A r \in Rows : copies[r] <= FinalAttempts /\ copies[r] \in Nat
      OBVIOUS
    <2>2. \A r \in Rows : r \in Batch(Head(jobs)) =>
            loc'[r] = "stored" /\ copies'[r] = copies[r] + 1 /\ copies[r] < attempt
      BY <1>8 DEF InsertOk, Move, Batch
    <2>3. \A r \in Rows : r \notin Batch(Head(jobs)) =>
            loc'[r] = loc[r] /\ copies'[r] = copies[r] /\ (loc[r] = "batch" => copies[r] = 0)
      BY <1>8 DEF InsertOk, Move, Batch
    <2>4. bpc' \in {"select", "drain"} => bpc \in {"select", "drain"}
      BY <1>8 DEF InsertOk, FlushDone
    <2>5. \A r \in Rows : copies'[r] <= FinalAttempts
      <3>1. attempt \in Nat /\ attempt <= FinalAttempts /\ FinalAttempts \in Nat
        OBVIOUS
      <3> TAKE r \in Rows
      <3>2. copies[r] \in Nat /\ copies[r] <= FinalAttempts
        BY <2>1
      <3> HIDE DEF Base, Counted
      <3>3. CASE r \in Batch(Head(jobs))
        BY <2>2, <3>1, <3>2, <3>3
      <3>4. CASE r \notin Batch(Head(jobs))
        BY <2>3, <3>2, <3>4
      <3> QED
        BY <3>3, <3>4
    <2>6. bpc' \in {"select", "drain"} => \A r \in Rows : copies'[r] <= 1
      <3> SUFFICES ASSUME bpc' \in {"select", "drain"}, NEW r \in Rows PROVE copies'[r] <= 1
        OBVIOUS
      <3>1. attempt = 1 /\ copies[r] \in Nat /\ copies[r] <= 1
        BY <2>1, <2>4 DEF OnceWhileRunning
      <3> HIDE DEF Base, Counted
      <3>2. CASE r \in Batch(Head(jobs))
        BY <2>2, <3>1, <3>2
      <3>3. CASE r \notin Batch(Head(jobs))
        BY <2>3, <3>1, <3>3
      <3> QED
        BY <3>2, <3>3
    <2>7. \A r \in Rows : loc'[r] = "batch" => copies'[r] = 0
      BY <2>2, <2>3
    <2>8. \A r \in Rows : loc'[r] \in {"idle", "checked", "refused", "queued"} => copies'[r] = 0
      BY <2>2, <2>3
    <2> QED
      BY <2>5, <2>6, <2>7, <2>8
  <1>9. ASSUME NEW applied \in BOOLEAN, InsertFail(applied) PROVE Counted'
    <2>1. \A r \in Rows : r \in Batch(Head(jobs)) =>
            copies'[r] <= copies[r] + 1 /\ copies'[r] \in Nat /\ copies[r] < attempt /\ loc[r] = "batch"
      BY <1>9 DEF InsertFail, Batch
    <2>2. \A r \in Rows : r \notin Batch(Head(jobs)) =>
            copies'[r] = copies[r] /\ (loc[r] = "batch" => copies[r] = 0)
      BY <1>9 DEF InsertFail, Batch
    <2>3. CASE Retries
      <3>1. loc' = loc /\ bpc' = "final" /\ jobs' = jobs /\ attempt' = attempt + 1 /\ jobs # <<>>
        BY <1>9, <2>3 DEF InsertFail, Retries
      <3>2. \A r \in Rows : r \in Batch(Head(jobs)) => StreamOf[r] = Head(jobs)
        BY DEF Batch
      <3>3. attempt \in Nat /\ attempt < FinalAttempts /\ FinalAttempts \in Nat
        BY <2>3 DEF Retries
      <3>4. \A r \in Rows : copies[r] \in Nat /\ copies[r] <= FinalAttempts
        OBVIOUS
      <3>6. ASSUME NEW r \in Rows, r \in Batch(Head(jobs)) PROVE copies'[r] < attempt' /\ copies'[r] <= FinalAttempts
        <4>1. copies'[r] \in Nat /\ copies'[r] <= copies[r] + 1 /\ copies[r] < attempt
          BY <2>1, <3>6
        <4>2. copies[r] \in Nat /\ attempt' = attempt + 1
          BY <3>1, <3>4
        <4> HIDE DEF Base, Counted
        <4> QED
          BY <3>3, <4>1, <4>2
      <3>5. \A r \in Rows : copies'[r] <= FinalAttempts
        BY <2>2, <3>4, <3>6
      <3>7. \A r \in Rows : loc'[r] \in {"idle", "checked", "refused", "queued"} => copies'[r] = 0
        BY <2>1, <2>2, <3>1
      <3>8. \A r \in Rows : loc'[r] = "batch" =>
              \/ copies'[r] = 0
              \/ jobs' # <<>> /\ StreamOf[r] = Head(jobs') /\ copies'[r] < attempt'
        BY <2>2, <3>1, <3>2, <3>6
      <3> QED
        BY <3>1, <3>5, <3>7, <3>8
    <2>4. CASE ~Retries
      <3>1. \A r \in Rows : loc'[r] = IF r \in Batch(Head(jobs)) THEN "dropped" ELSE loc[r]
        BY <1>9, <2>4 DEF InsertFail, Move
      <3>2. bpc' \in {"select", "drain"} => bpc \in {"select", "drain"}
        BY <1>9, <2>4 DEF InsertFail, FlushDone
      <3>3. \A r \in Rows : copies'[r] <= FinalAttempts
        <4>1. attempt \in Nat /\ attempt <= FinalAttempts /\ FinalAttempts \in Nat
          OBVIOUS
        <4>2. \A r \in Rows : copies[r] \in Nat /\ copies[r] <= FinalAttempts
          OBVIOUS
        <4>3. ASSUME NEW r \in Rows PROVE copies'[r] <= FinalAttempts
          <5> HIDE DEF Base, Counted
          <5>1. CASE r \in Batch(Head(jobs))
            <6>1. copies'[r] \in Nat /\ copies'[r] <= copies[r] + 1 /\ copies[r] < attempt /\ copies[r] \in Nat
              BY <2>1, <4>2, <5>1
            <6> QED
              BY <4>1, <6>1
          <5>2. CASE r \notin Batch(Head(jobs))
            BY <2>2, <4>2, <5>2
          <5> QED
            BY <5>1, <5>2
        <4> QED
          BY <4>3
      <3>4. ASSUME bpc' \in {"select", "drain"}, NEW r \in Rows PROVE copies'[r] <= 1
        <4>1. attempt = 1 /\ copies[r] <= 1 /\ copies[r] \in Nat
          BY <3>2, <3>4
        <4> HIDE DEF Base, Counted
        <4>2. CASE r \in Batch(Head(jobs))
          <5>1. copies'[r] \in Nat /\ copies'[r] <= copies[r] + 1 /\ copies[r] < attempt
            BY <2>1, <4>2
          <5> QED
            BY <4>1, <5>1
        <4>3. CASE r \notin Batch(Head(jobs))
          BY <2>2, <4>1, <4>3
        <4> QED
          BY <4>2, <4>3
      <3>5. \A r \in Rows : loc'[r] = "batch" => copies'[r] = 0
        BY <2>2, <3>1
      <3>6. \A r \in Rows : loc'[r] \in {"idle", "checked", "refused", "queued"} => copies'[r] = 0
        BY <2>2, <3>1
      <3> QED
        BY <3>3, <3>4, <3>5, <3>6
    <2> QED
      BY <2>3, <2>4
  <1>10. CASE CloseCall \/ CloseReturn \/ CloseExpire \/ ProcessExit
    BY <1>10 DEF CloseCall, CloseReturn, CloseExpire, ProcessExit, Killed
  <1>11. CASE UNCHANGED vars
    BY <1>11 DEF vars
  <1> QED
    BY <1>1, <1>2, <1>3, <1>4, <1>5, <1>7, <1>8, <1>9, <1>10, <1>11 DEF Next
-----------------------------------------------------------------------------
(* Channels and batches are finite sets of rows *)
LEMMA RowSets ==
    \A s : /\ Queued(s) \subseteq Rows /\ IsFiniteSet(Queued(s)) /\ Cardinality(Queued(s)) \in Nat
          /\ Batch(s) \subseteq Rows /\ IsFiniteSet(Batch(s)) /\ Cardinality(Batch(s)) \in Nat
  <1> TAKE s
  <1>1. Queued(s) \subseteq Rows /\ Batch(s) \subseteq Rows
    BY DEF Queued, Batch
  <1> QED
    BY <1>1, WriterAssumption, FS_Subset, FS_CardinalityType

(* A set of rows that loses rows does not grow *)
LEMMA Shrinks ==
    ASSUME NEW S, NEW T, S \subseteq Rows, T \subseteq S
    PROVE  Cardinality(T) <= Cardinality(S) /\ Cardinality(T) \in Nat /\ Cardinality(S) \in Nat
  BY WriterAssumption, FS_Subset, FS_CardinalityType

(* Adding one row adds one *)
LEMMA Grows ==
    ASSUME NEW S, NEW r, S \subseteq Rows, r \notin S, NEW T, T = S \cup {r}
    PROVE  Cardinality(T) = Cardinality(S) + 1 /\ Cardinality(S) \in Nat
  <1>1. IsFiniteSet(S) /\ Cardinality(S) \in Nat
    BY WriterAssumption, FS_Subset, FS_CardinalityType
  <1>2. Cardinality(S \cup {r}) = Cardinality(S) + 1
    BY <1>1, FS_AddElement
  <1> QED
    BY <1>1, <1>2

(* Channels and batches start empty *)
LEMMA BoundedInit == Init => Bounded
  <1> SUFFICES ASSUME Init PROVE Bounded
    OBVIOUS
  <1>1. \A s \in Streams : Queued(s) = {} /\ Batch(s) = {}
    BY DEF Init, Queued, Batch
  <1>2. \A s \in Streams : Cardinality(Queued(s)) = 0 /\ Cardinality(Batch(s)) = 0
    BY <1>1, FS_EmptySet, Zenon
  <1> QED
    BY <1>2, WriterAssumption DEF Bounded, BatchBounded

(* A send needs room, and a batch at the threshold is flushed before the next receive *)
LEMMA BoundedNext == Base /\ Bounded /\ [Next]_vars => Bounded'
  <1> SUFFICES ASSUME Base, Bounded, [Next]_vars PROVE Bounded'
    OBVIOUS
  <1> USE WriterAssumption, JobFacts DEF Base
  <1>0. ASSUME UNCHANGED <<loc, jobs>>, bpc' \in {"select", "drain"} => bpc \in {"select", "drain"}
        PROVE  Bounded'
    BY <1>0 DEF Bounded, BatchBounded, Queued, Batch
  <1>1. ASSUME NEW r \in Rows, EnqueueCheck(r) \/ EnqueueRefused(r) PROVE Bounded'
    <2>1. \A s : Queued(s)' = Queued(s) /\ Batch(s)' = Batch(s)
      BY <1>1 DEF EnqueueCheck, EnqueueRefused, Queued, Batch
    <2>2. jobs' = jobs /\ bpc' = bpc
      BY <1>1 DEF EnqueueCheck, EnqueueRefused
    <2> QED
      BY <2>1, <2>2 DEF Bounded, BatchBounded
  <1>2. ASSUME NEW r \in Rows, EnqueueSend(r) PROVE Bounded'
    <2>1. \A s : Batch(s)' = Batch(s)
      BY <1>2 DEF EnqueueSend, Batch
    <2>2. Queued(StreamOf[r])' = Queued(StreamOf[r]) \cup {r} /\ r \notin Queued(StreamOf[r])
      BY <1>2 DEF EnqueueSend, Queued
    <2>3. \A s \in Streams : s # StreamOf[r] => Queued(s)' = Queued(s)
      BY <1>2 DEF EnqueueSend, Queued
    <2>4. Cardinality(Queued(StreamOf[r])') <= FlushRows
      <3>1. Cardinality(Queued(StreamOf[r])') = Cardinality(Queued(StreamOf[r])) + 1
        BY <2>2, RowSets, Grows
      <3> QED
        BY <1>2, <3>1, RowSets DEF EnqueueSend
    <2>5. jobs' = jobs /\ bpc' = bpc
      BY <1>2 DEF EnqueueSend
    <2> QED
      BY <2>1, <2>3, <2>4, <2>5 DEF Bounded, BatchBounded
  <1>3. ASSUME NEW r \in Rows, Receive(r) PROVE Bounded'
    <2> DEFINE q == StreamOf[r]
    <2>1. /\ \A s \in Streams : s # q => Batch(s)' = Batch(s)
          /\ Batch(q)' = Batch(q) \cup {r} /\ r \notin Batch(q)
          /\ \A s \in Streams : Queued(s)' \subseteq Queued(s)
      BY <1>3 DEF Receive, Batch, Queued
    <2>2. \A s \in Streams : Cardinality(Batch(s)) < FlushRows /\ Cardinality(Queued(s)) <= FlushRows
      BY <1>3 DEF Receive, Bounded, BatchBounded
    <2>3. Cardinality(Batch(q)') = Cardinality(Batch(q)) + 1
      BY <2>1, RowSets, Grows
    <2>4. \A s \in Streams : Cardinality(Queued(s)') <= FlushRows
      <3> TAKE s \in Streams
      <3>1. Cardinality(Queued(s)') <= Cardinality(Queued(s)) /\ Cardinality(Queued(s)') \in Nat
        BY <2>1, RowSets, Shrinks
      <3> QED
        BY <3>1, <2>2, RowSets
    <2>5. q \in Streams /\ jobs' = IF Cardinality(Batch(q)) + 1 >= FlushRows THEN <<q>> ELSE <<>>
      BY <1>3 DEF Receive, AtThreshold
    <2>8. \A s \in Streams : s # q => Cardinality(Batch(s)') = Cardinality(Batch(s))
      BY <2>1, Zenon
    <2>9. \A s \in Streams : Cardinality(Batch(s)) \in Nat
      BY RowSets
    <2> HIDE DEF q
    <2>6. \A s \in Streams : Cardinality(Batch(s)') <= FlushRows
      <3> TAKE s \in Streams
      <3>1. CASE s = q
        BY <2>2, <2>3, <2>9, <3>1
      <3>2. CASE s # q
        BY <2>2, <2>8, <2>9, <3>2
      <3> QED
        BY <3>1, <3>2
    <2>7. \A s \in Streams : Cardinality(Batch(s)') < FlushRows \/ (jobs' # <<>> /\ Head(jobs') = s)
      <3>1. <<q>> # <<>> /\ Head(<<q>>) = q
        OBVIOUS
      <3> QED
        BY <2>2, <2>3, <2>5, <2>8, <2>9, <3>1
    <2> QED
      BY <2>4, <2>6, <2>7 DEF Bounded, BatchBounded
  <1>4. CASE Tick \/ StartFinalFlush
    <2>1. \A s : Queued(s)' = Queued(s) /\ Batch(s)' = Batch(s)
      BY <1>4 DEF Tick, StartFinalFlush, Queued, Batch
    <2>2. \A s \in Streams : Cardinality(Batch(s)) < FlushRows
      BY <1>4 DEF Tick, StartFinalFlush, Bounded
    <2> QED
      BY <2>1, <2>2 DEF Bounded, BatchBounded
  <1>5. ASSUME NEW h \in Streams, h = Head(jobs), FlushDone, jobs # <<>>,
               \A s \in Streams : Queued(s)' = Queued(s) /\ Batch(s)' \subseteq Batch(s),
               Batch(h)' = {}
        PROVE  Bounded'
    <2>1. \A s \in Streams : Cardinality(Batch(s)') <= Cardinality(Batch(s)) /\ Cardinality(Batch(s)') \in Nat
      <3> TAKE s \in Streams
      <3> QED
        BY <1>5, RowSets, Shrinks
    <2>2. Cardinality(Batch(h)') = 0
      BY <1>5, FS_EmptySet, Zenon
    <2>3. bpc' \in {"select", "drain"} => bpc \in {"select", "drain"}
      BY <1>5 DEF FlushDone
    <2>4. \A s \in Streams : Cardinality(Queued(s)') = Cardinality(Queued(s))
      BY <1>5, Zenon
    <2>5. \A s \in Streams : Cardinality(Batch(s)) \in Nat /\ Cardinality(Batch(s)) <= FlushRows
                             /\ Cardinality(Queued(s)) <= FlushRows
      BY RowSets DEF Bounded, BatchBounded
    <2>6. \A s \in Streams : s # h => Cardinality(Batch(s)) < FlushRows \/ bpc \notin {"select", "drain"}
      BY <1>5 DEF Bounded
    <2>7. \A s \in Streams : Cardinality(Batch(s)') < FlushRows \/ bpc' \notin {"select", "drain"}
      BY <2>1, <2>2, <2>3, <2>5, <2>6
    <2>8. \A s \in Streams : Cardinality(Batch(s)') <= FlushRows /\ Cardinality(Queued(s)') <= FlushRows
      BY <2>1, <2>4, <2>5
    <2> QED
      BY <2>7, <2>8 DEF Bounded, BatchBounded
  <1>6. CASE FlushNothing
    <2>1. PICK h \in Streams : h = Head(jobs)
      BY <1>6 DEF FlushNothing
    <2>2. Batch(h)' = {} /\ \A s \in Streams : Queued(s)' = Queued(s) /\ Batch(s)' \subseteq Batch(s)
      BY <1>6, <2>1 DEF FlushNothing, Queued, Batch
    <2> QED
      BY <1>5, <1>6, <2>1, <2>2 DEF FlushNothing
  <1>7. ASSUME NEW l \in {"stored", "dropped"}, FlushDone, jobs # <<>>, Move(Batch(Head(jobs)), l)
        PROVE  Bounded'
    <2>1. PICK h \in Streams : h = Head(jobs)
      BY <1>7
    <2>2. loc' = [r \in Rows |-> IF r \in Batch(h) THEN l ELSE loc[r]]
      BY <1>7, <2>1 DEF Move
    <2>3. \A s \in Streams : Queued(s)' = Queued(s) /\ Batch(s)' \subseteq Batch(s)
      BY <2>2 DEF Queued, Batch
    <2>4. Batch(h)' = {}
      BY <2>2 DEF Batch
    <2> QED
      BY <1>5, <1>7, <2>1, <2>3, <2>4
  <1>8. CASE InsertOk
    BY <1>7, <1>8 DEF InsertOk
  <1>9. ASSUME NEW applied \in BOOLEAN, InsertFail(applied) PROVE Bounded'
    BY <1>0, <1>7, <1>9 DEF InsertFail
  <1>10. CASE StartDrain \/ CloseCall \/ CloseReturn \/ CloseExpire \/ ProcessExit
    BY <1>0, <1>10 DEF StartDrain, CloseCall, CloseReturn, CloseExpire, ProcessExit, Killed
  <1>11. CASE UNCHANGED vars
    BY <1>0, <1>11 DEF vars
  <1> QED
    BY <1>1, <1>2, <1>3, <1>4, <1>6, <1>8, <1>9, <1>10, <1>11 DEF Next
-----------------------------------------------------------------------------
(* Nothing is known to be empty before Close *)
LEMMA ClosedInit == Init => Closed
  BY DEF Init, Closed

(* drain empties the channels, the two final flushes empty the batches, in that order *)
LEMMA ClosedNext == Base /\ Closed /\ [Next]_vars => Closed'
  <1> SUFFICES ASSUME Base, Closed, [Next]_vars PROVE Closed'
    OBVIOUS
  <1> USE WriterAssumption, JobFacts DEF Base, Closed
  <1>1. ASSUME NEW r \in Rows, EnqueueCheck(r) PROVE Closed'
    BY <1>1 DEF EnqueueCheck
  <1>2. ASSUME NEW r \in Rows, EnqueueSend(r) \/ EnqueueRefused(r) PROVE Closed'
    <2>1. CASE EnqueueSend(r)
      BY <2>1 DEF EnqueueSend
    <2>2. CASE EnqueueRefused(r)
      BY <2>2 DEF EnqueueRefused
    <2> QED
      BY <1>2, <2>1, <2>2, Zenon
  <1>3. ASSUME NEW r \in Rows, Receive(r) PROVE Closed'
    BY <1>3 DEF Receive
  <1>4. CASE Tick
    BY <1>4 DEF Tick
  <1>5. CASE StartDrain
    BY <1>5 DEF StartDrain
  <1>6. CASE StartFinalFlush
    <2>1. \A r \in Rows : loc[r] # "queued"
      BY <1>6 DEF StartFinalFlush, ChannelsEmpty, Queued, Streams
    <2> QED
      BY <1>6, <2>1 DEF StartFinalFlush
  <1>7. ASSUME FlushDone, jobs # <<>>, bpc \notin {"exited", "killed"}, UNCHANGED <<closed, closer, late>>,
               \A r \in Rows : loc'[r] = loc[r] \/ loc'[r] \in {"stored", "dropped"},
               \A r \in Rows : loc'[r] = "batch" => StreamOf[r] # Head(jobs)
        PROVE  Closed'
    <2>1. CASE bpc # "final"
      BY <1>7, <2>1 DEF FlushDone
    <2>2. CASE bpc = "final" /\ jobs = <<InstanceWindows>>
      <3>1. bpc' = "exited"
        BY <1>7, <2>2 DEF FlushDone
      <3>2. \A r \in Rows \ late : loc'[r] # "batch"
        BY <1>7, <2>2
      <3> QED
        BY <1>7, <2>2, <3>1, <3>2
    <2>3. CASE bpc = "final" /\ jobs = <<Summaries, InstanceWindows>>
      <3>1. bpc' = "final" /\ jobs' = <<InstanceWindows>>
        BY <1>7, <2>3 DEF FlushDone
      <3>2. \A r \in Rows : loc'[r] = "batch" => StreamOf[r] = InstanceWindows
        BY <1>7, <2>3 DEF Streams
      <3> QED
        BY <1>7, <2>3, <3>1, <3>2
    <2> QED
      BY <2>1, <2>2, <2>3
  <1>8. CASE FlushNothing
    <2>1. \A r \in Rows : loc'[r] = loc[r] /\ (loc[r] = "batch" => StreamOf[r] # Head(jobs))
      BY <1>8 DEF FlushNothing, Batch
    <2> QED
      BY <1>7, <1>8, <2>1 DEF FlushNothing
  <1>9. CASE InsertOk
    <2>1. \A r \in Rows : /\ loc'[r] = loc[r] \/ loc'[r] = "stored"
                          /\ loc'[r] = "batch" => StreamOf[r] # Head(jobs)
      BY <1>9 DEF InsertOk, Move, Batch
    <2> QED
      BY <1>7, <1>9, <2>1 DEF InsertOk
  <1>10. ASSUME NEW applied \in BOOLEAN, InsertFail(applied) PROVE Closed'
    <2>1. CASE Retries
      BY <1>10, <2>1 DEF InsertFail
    <2>2. CASE ~Retries
      <3>1. \A r \in Rows : /\ loc'[r] = loc[r] \/ loc'[r] = "dropped"
                            /\ loc'[r] = "batch" => StreamOf[r] # Head(jobs)
        BY <1>10, <2>2 DEF InsertFail, Move, Batch
      <3> QED
        BY <1>7, <1>10, <2>2, <3>1 DEF InsertFail
    <2> QED
      BY <2>1, <2>2
  <1>11. CASE CloseCall \/ CloseReturn \/ CloseExpire \/ ProcessExit
    <2>1. CASE CloseCall
      BY <2>1 DEF CloseCall
    <2>2. CASE CloseReturn
      BY <2>2 DEF CloseReturn
    <2>3. CASE CloseExpire
      BY <2>3 DEF CloseExpire
    <2>4. CASE ProcessExit
      BY <2>4 DEF ProcessExit, Killed
    <2> QED
      BY <1>11, <2>1, <2>2, <2>3, <2>4, Zenon
  <1>12. CASE UNCHANGED vars
    BY <1>12 DEF vars
  <1> QED
    BY <1>1, <1>2, <1>3, <1>4, <1>5, <1>6, <1>8, <1>9, <1>10, <1>11, <1>12 DEF Next
-----------------------------------------------------------------------------
(* The rows inside Enqueue when Close was called are rows *)
LEMMA LateRows == late \subseteq Rows /\ [Next]_vars => (late \subseteq Rows)'
  BY DEF Next, vars, EnqueueCheck, EnqueueSend, EnqueueRefused, Receive, Tick, StartDrain,
         StartFinalFlush, FlushNothing, InsertOk, InsertFail, CloseCall, CloseReturn, CloseExpire,
         ProcessExit, Killed

(* Type correctness of the writer: no row is ever applied more often than  *)
(* finalFlushBatch has attempts.                                           *)
THEOREM WriterTypes == Spec => []TypeOK
  <1>1. Base /\ Counted /\ late \subseteq Rows => TypeOK
    BY JobFacts DEF Base, Counted, TypeOK
  <1>2. Init => late \subseteq Rows
    BY DEF Init
  <1> QED
    BY <1>1, <1>2, BaseInit, BaseNext, CountedInit, CountedNext, LateRows, PTL DEF Spec

(* While run or drain loops, ClickHouse holds no row twice, whatever the   *)
(* inserts answered: flushBatch never sends a batch again.                 *)
THEOREM WriterInsertsOnce == Spec => []OnceWhileRunning
  <1>1. Counted => OnceWhileRunning
    BY DEF Counted
  <1> QED
    BY <1>1, BaseInit, BaseNext, CountedInit, CountedNext, PTL DEF Spec

(* The channels and the batches of run, drain and the final flush never    *)
(* hold more than FlushRows rows of a stream.                              *)
THEOREM WriterBounded == Spec => []BatchBounded
  <1>1. Bounded => BatchBounded
    BY DEF Bounded
  <1> QED
    BY <1>1, BaseInit, BaseNext, BoundedInit, BoundedNext, PTL DEF Spec

(* A Close that returns nil leaves no row behind but those whose Enqueue   *)
(* was under way when Close was called.                                    *)
THEOREM WriterCloseSettles == Spec => []CloseSettles
  <1>1. Closed => CloseSettles
    BY DEF Closed, CloseSettles
  <1>2. Base /\ Closed /\ [Next]_vars => Closed'
    BY ClosedNext
  <1> QED
    BY <1>1, <1>2, BaseInit, BaseNext, ClosedInit, PTL DEF Spec
-----------------------------------------------------------------------------
(* A step of the process is a step of the writer, of one of its handlers   *)
(* or of its closer, or leaves the writer alone                            *)
LEMMA ServerStepsWriter == ServerNext => [Next]_vars
  <1> SUFFICES ASSUME ServerNext PROVE Next \/ UNCHANGED vars
    OBVIOUS
  <1>1. CASE Boot \/ Restart \/ Signal \/ Expire \/ \E r \in Rows : Accept(r)
    BY <1>1, Zenon DEF Boot, OpenWriter, Migrate, Migrated, OpenStore, Assemble, Restart, Signal, Expire, Accept
  <1>2. CASE ListenError \/ ShutdownReturn \/ CloseStore \/ Return
    BY <1>2, Zenon DEF ListenError, ShutdownReturn, CloseStore, Return, Next
  <1>4. CASE \E b \in Asking \cup Jobs : Borrow(b) \/ GiveBack(b)
    BY <1>4, Zenon DEF Borrow, GiveBack
  <1>3. CASE Alive /\ (Batcher \/ \E r \in Rows : Handler(r)) /\ UNCHANGED serverVars
    BY <1>3, Zenon DEF Batcher, Handler, Insert, Next
  <1> QED
    BY <1>1, <1>2, <1>3, <1>4 DEF ServerNext

(* The collector runs the writer: whatever the process does, its writer    *)
(* behaves as StorageWriter says.                                          *)
THEOREM ServerRunsWriter == ServerSpec => Spec
  <1>1. ServerInit => Init
    BY DEF ServerInit
  <1>2. [ServerNext]_allVars => [Next]_vars
    BY ServerStepsWriter DEF allVars
  <1> QED
    BY <1>1, <1>2, PTL DEF ServerSpec, Spec

(* What the writer promises holds of the collector: no row is applied      *)
(* twice by run or drain, and a nil Close leaves nothing behind.           *)
THEOREM ServerWriterHolds == ServerSpec => [](OnceWhileRunning /\ CloseSettles)
  BY ServerRunsWriter, WriterInsertsOnce, WriterCloseSettles, PTL
-----------------------------------------------------------------------------
Booting == {"open", "migrate", "store", "assemble", "failed"}

(* The types of what the process adds to the writer *)
ServerBase ==
    /\ stage \in Booting \cup {"serving", "shutdown", "close", "release", "exited"}
    /\ schema \in Seq(Nat) /\ next \in 1..(Statements + 1)
    /\ pool \in {"none", "open", "closing", "closed"}
    /\ ready \in BOOLEAN /\ spent \in BOOLEAN /\ handling \subseteq Rows

(* A start goes through the statements in order, never ahead of ClickHouse *)
MigratedInOrder ==
    /\ schema = [i \in 1..Len(schema) |-> i] /\ Len(schema) <= Statements
    /\ stage = "open" => next = 1
    /\ stage = "migrate" => next <= Len(schema) + 1
    /\ stage \notin {"open", "migrate", "failed"} => Len(schema) = Statements

(* The pool of each stage; only a failed listener leaves it open at the end *)
PoolByStage ==
    /\ stage \in {"open", "migrate", "store"} => pool = "none"
    /\ stage \in {"assemble", "serving", "shutdown", "close"} => pool = "open"
    /\ stage = "failed" => pool \notin {"open", "closing"}
    /\ stage = "release" => pool = "closing"
    /\ stage = "exited" => pool = IF closed THEN "closed" ELSE "open"
    /\ stage \in Booting \/ pool = "closed" => lent = {}

(* The writer closes behind the listener and, unless the budget is spent,  *)
(* behind the last handler                                                 *)
Draining ==
    /\ stage \in Booting => handling = {}
    /\ closed <=> closer # "idle"
    /\ closer = "idle" => late = {}
    /\ closed => stage \in {"close", "release", "exited"} /\ ~ready
    /\ stage \in {"close", "release"} => closed
    /\ stage = "shutdown" => ~ready
    /\ spent => stage \in {"shutdown", "close", "release", "exited"}
    /\ \A r \in Rows : loc[r] # "idle" => r \in handling
    /\ closed /\ ~spent => Busy = {} /\ late = {}
    /\ \A r \in Rows \ Untenanted : loc[r] = "refused" => closed /\ spent

ServerInv == Base /\ ServerBase /\ MigratedInOrder /\ PoolByStage /\ Draining

(* Applying the next statement extends the schema by its number *)
LEMMA SchemaGrows ==
    ASSUME NEW s \in Seq(Nat), s = [i \in 1..Len(s) |-> i]
    PROVE  LET t == Append(s, Len(s) + 1)
           IN  t \in Seq(Nat) /\ Len(t) = Len(s) + 1 /\ t = [i \in 1..Len(t) |-> i]
  <1> DEFINE t == Append(s, Len(s) + 1)
  <1>1. t \in Seq(Nat) /\ Len(t) = Len(s) + 1
    OBVIOUS
  <1>2. t = [i \in 1..(Len(s) + 1) |-> IF i = Len(s) + 1 THEN Len(s) + 1 ELSE s[i]]
    OBVIOUS
  <1>3. \A i \in 1..(Len(s) + 1) : t[i] = i
    BY <1>2
  <1>4. t = [i \in 1..Len(t) |-> i]
    BY <1>1, <1>2, <1>3
  <1> QED
    BY <1>1, <1>4

(* The process starts with an empty schema and no pool *)
LEMMA ServerInvInit == ServerInit => ServerInv
  <1> SUFFICES ASSUME ServerInit PROVE ServerInv
    OBVIOUS
  <1>1. Base
    BY BaseInit DEF ServerInit
  <1>2. ServerBase
    <2>1. schema \in Seq(Nat) /\ next \in 1..(Statements + 1) /\ handling \subseteq Rows
      BY ServerAssumption DEF ServerInit
    <2>2. ready \in BOOLEAN /\ spent \in BOOLEAN
      BY Zenon DEF ServerInit
    <2> QED
      BY <2>1, <2>2 DEF ServerInit, ServerBase, Booting
  <1>3. MigratedInOrder
    BY ServerAssumption DEF ServerInit, MigratedInOrder
  <1>4. PoolByStage
    BY DEF ServerInit, PoolByStage
  <1>5. Draining
    BY DEF ServerInit, Init, Draining, Booting, Busy
  <1> QED
    BY <1>1, <1>2, <1>3, <1>4, <1>5 DEF ServerInv

(* A step of a start keeps what is known of the schema and the pool *)
LEMMA BootKeeps == ServerInv /\ (Boot \/ Restart) => (ServerBase /\ MigratedInOrder /\ PoolByStage)'
  <1> SUFFICES ASSUME ServerInv, Boot \/ Restart PROVE (ServerBase /\ MigratedInOrder /\ PoolByStage)'
    OBVIOUS
  <1>0. next \in 1..(Statements + 1) /\ Statements \in Nat
    BY ServerAssumption DEF ServerInv, ServerBase
  <1> USE ServerAssumption DEF ServerInv, ServerBase, MigratedInOrder, PoolByStage, Booting
  <1>1. ASSUME NEW ok \in BOOLEAN, OpenWriter(ok) PROVE (ServerBase /\ MigratedInOrder /\ PoolByStage)'
    BY <1>1 DEF OpenWriter
  <1>2. ASSUME NEW ok \in BOOLEAN, Migrate(ok) PROVE (ServerBase /\ MigratedInOrder /\ PoolByStage)'
    <2>1. stage = "migrate" /\ next <= Statements /\ pool = "none" /\ pool' = pool /\ ready' = ready
          /\ spent' = spent /\ handling' = handling /\ lent' = lent
      BY <1>2 DEF Migrate
    <2>2. schema' \in Seq(Nat) /\ schema' = [i \in 1..Len(schema') |-> i] /\ Len(schema') <= Statements
          /\ Len(schema') >= Len(schema) /\ (ok => next <= Len(schema'))
      <3>1. CASE schema' = schema /\ ~(ok /\ next > Len(schema))
        BY <2>1, <3>1
      <3>2. CASE schema' = Append(schema, next) /\ next > Len(schema)
        <4>1. next = Len(schema) + 1
          BY <2>1, <3>2
        <4> QED
          BY <2>1, <3>2, <4>1, SchemaGrows
      <3> QED
        BY <1>2, <2>1, <3>1, <3>2 DEF Migrate, Applied
    <2>3. CASE ok
      <3>1. next' = next + 1 /\ stage' = "migrate"
        BY <1>2, <2>1, <2>3 DEF Migrate, Applied
      <3>2. ServerBase'
        BY <2>1, <2>2, <3>1
      <3>3. MigratedInOrder'
        BY <2>1, <2>2, <2>3, <3>1
      <3>4. PoolByStage'
        BY <2>1, <3>1
      <3> QED
        BY <3>2, <3>3, <3>4
    <2>4. CASE ~ok
      <3>1. next' = next /\ stage' = "failed"
        BY <1>2, <2>1, <2>4 DEF Migrate, Applied
      <3> QED
        BY <2>1, <2>2, <2>4, <3>1
    <2> QED
      BY <2>3, <2>4
  <1>3. CASE Migrated
    <2>1. Len(schema) = Statements
      <3>1. next > Statements /\ next <= Len(schema) + 1 /\ Len(schema) <= Statements /\ Len(schema) \in Nat
        BY <1>3 DEF Migrated
      <3> HIDE DEF ServerInv, ServerBase, MigratedInOrder, PoolByStage
      <3> QED
        BY <1>0, <3>1
    <2>2. schema' = schema /\ next' = next /\ pool' = "none" /\ ready' = ready /\ spent' = spent
          /\ handling' = handling /\ lent' = lent /\ stage' = "store"
      BY <1>3 DEF Migrated
    <2>3. stage = "migrate"
      BY <1>3 DEF Migrated
    <2>4. ServerBase'
      BY <2>2
    <2>5. MigratedInOrder'
      BY <2>1, <2>2
    <2>6. PoolByStage'
      BY <2>2, <2>3
    <2> QED
      BY <2>4, <2>5, <2>6
  <1>4. ASSUME NEW ok \in BOOLEAN, OpenStore(ok) PROVE (ServerBase /\ MigratedInOrder /\ PoolByStage)'
    BY <1>4 DEF OpenStore
  <1>5. ASSUME NEW ok \in BOOLEAN, Assemble(ok) PROVE (ServerBase /\ MigratedInOrder /\ PoolByStage)'
    BY <1>5 DEF Assemble, Released
  <1>6. CASE Restart
    <2>1. stage = "failed" /\ stage' = "open" /\ next' = 1 /\ schema' = schema /\ pool' = "none" /\ ready' = ready
          /\ spent' = spent /\ handling' = handling /\ lent' = lent
      BY <1>6 DEF Restart
    <2>2. ServerBase'
      BY <2>1
    <2>3. MigratedInOrder'
      BY <2>1
    <2>4. PoolByStage'
      BY <2>1
    <2> QED
      BY <2>2, <2>3, <2>4
  <1> QED
    BY <1>1, <1>2, <1>3, <1>4, <1>5, <1>6 DEF Boot

(* Serving and shutting down leave the schema alone and release the pool last *)
LEMMA ServeKeeps ==
    ServerInv /\ ServerNext /\ ~(Boot \/ Restart) => (ServerBase /\ MigratedInOrder /\ PoolByStage)'
  <1> SUFFICES ASSUME ServerInv, ServerNext, ~(Boot \/ Restart)
               PROVE  (ServerBase /\ MigratedInOrder /\ PoolByStage)'
    OBVIOUS
  <1> USE DEF ServerInv, ServerBase, MigratedInOrder, PoolByStage, Booting
  <1>1. CASE Signal \/ Expire
    <2>1. spent' \in BOOLEAN /\ ready' \in BOOLEAN
      BY <1>1, Zenon DEF Signal, Expire
    <2> QED
      BY <1>1, <2>1 DEF Signal, Expire, vars
  <1>2. CASE ListenError
    BY <1>2 DEF ListenError, ProcessExit, Draining
  <1>3. CASE ShutdownReturn
    BY <1>3 DEF ShutdownReturn
  <1>4. CASE CloseStore \/ Return
    BY <1>4 DEF CloseStore, Return, Draining, CloseReturn, CloseExpire, ProcessExit
  <1>7. ASSUME NEW b \in Asking \cup Jobs, Borrow(b) \/ GiveBack(b) PROVE (ServerBase /\ MigratedInOrder /\ PoolByStage)'
    BY <1>7 DEF Borrow, GiveBack, Alive, vars
  <1>5. ASSUME NEW r \in Rows, Accept(r) PROVE (ServerBase /\ MigratedInOrder /\ PoolByStage)'
    BY <1>5 DEF Accept
  <1>6. CASE Alive /\ UNCHANGED serverVars
    BY <1>6 DEF Alive, serverVars
  <1> QED
    BY <1>1, <1>2, <1>3, <1>4, <1>5, <1>6, <1>7 DEF ServerNext

(* A row of an accepted request that is not idle any more stays one; no    *)
(* step of the batcher touches a row inside Enqueue or refuses one         *)
LEMMA BatcherLeavesHandlers ==
    Base /\ Batcher => /\ UNCHANGED <<closed, closer, late>>
                       /\ \A r \in Rows : loc'[r] = loc[r] \/ (loc[r] \in {"queued", "batch"} /\ loc'[r] \notin {"idle", "checked", "refused"})
  <1> SUFFICES ASSUME Base, Batcher
               PROVE  /\ UNCHANGED <<closed, closer, late>>
                      /\ \A r \in Rows : loc'[r] = loc[r] \/ (loc[r] \in {"queued", "batch"} /\ loc'[r] \notin {"idle", "checked", "refused"})
    OBVIOUS
  <1>0. loc \in [Rows -> Locations]
    BY DEF Base
  <1>1. CASE Tick \/ StartDrain \/ StartFinalFlush \/ FlushNothing
    BY <1>0, <1>1 DEF Tick, StartDrain, StartFinalFlush, FlushNothing
  <1>2. CASE InsertOk
    BY <1>0, <1>2 DEF InsertOk, Move, Batch
  <1>3. ASSUME NEW applied \in BOOLEAN, InsertFail(applied)
        PROVE  /\ UNCHANGED <<closed, closer, late>>
               /\ \A r \in Rows : loc'[r] = loc[r] \/ (loc[r] \in {"queued", "batch"} /\ loc'[r] \notin {"idle", "checked", "refused"})
    BY <1>0, <1>3 DEF InsertFail, Move, Batch
  <1>4. ASSUME NEW q \in Rows, Receive(q)
        PROVE  /\ UNCHANGED <<closed, closer, late>>
               /\ \A r \in Rows : loc'[r] = loc[r] \/ (loc[r] \in {"queued", "batch"} /\ loc'[r] \notin {"idle", "checked", "refused"})
    BY <1>0, <1>4 DEF Receive
  <1> QED
    BY <1>1, <1>2, <1>3, <1>4 DEF Batcher, Insert

(* Every step of the process keeps the order of a shutdown: readiness,     *)
(* then the handlers, then the writer                                      *)
LEMMA DrainingNext == ServerInv /\ ServerNext => Draining'
  <1> SUFFICES ASSUME ServerInv, ServerNext PROVE Draining'
    OBVIOUS
  <1>0. /\ Draining /\ loc \in [Rows -> Locations] /\ handling \subseteq Rows
        /\ closed \in BOOLEAN /\ spent \in BOOLEAN
        /\ stage \in Booting \cup {"serving", "shutdown", "close", "release", "exited"}
    BY DEF ServerInv, Base, ServerBase
  <1>1. CASE Boot \/ Restart
    <2>1. UNCHANGED <<vars, spent, handling>> /\ stage \in Booting
      BY <1>1, Zenon DEF Boot, OpenWriter, Migrate, Migrated, OpenStore, Assemble, Restart, Booting
    <2>2. stage' \in Booting \cup {"serving"}
      <3>1. ASSUME NEW ok \in BOOLEAN, Migrate(ok) PROVE stage' \in Booting \cup {"serving"}
        BY <3>1 DEF Migrate, Applied, Booting
      <3> QED
        BY <1>1, <3>1 DEF Boot, OpenWriter, Migrated, OpenStore, Assemble, Restart, Booting
    <2>3. ~closed /\ ~spent /\ handling = {} /\ late = {}
      BY <1>0, <2>1 DEF Draining, Booting
    <2> QED
      BY <1>0, <2>1, <2>2, <2>3 DEF Draining, Booting, vars
  <1>2. CASE Signal \/ Expire
    <2>1. UNCHANGED <<vars, handling>>
      BY <1>2 DEF Signal, Expire
    <2>2. Busy' = Busy
      BY <2>1 DEF Busy, vars
    <2> QED
      <3>0. UNCHANGED <<loc, closed, closer, late, handling>>
        BY <2>1 DEF vars
      <3>1. CASE Signal
        <4>1. stage' = "shutdown" /\ stage = "serving" /\ spent' = spent /\ ~ready'
          BY <3>1 DEF Signal
        <4> QED
          BY <1>0, <2>2, <3>0, <4>1 DEF Draining, Booting
      <3>2. CASE Expire
        <4>1. stage' = stage /\ stage \in {"shutdown", "close"} /\ spent' = TRUE /\ ready' = ready
          BY <3>2 DEF Expire
        <4> QED
          BY <1>0, <2>2, <3>0, <4>1 DEF Draining, Booting
      <3> QED
        BY <1>2, <3>1, <3>2
  <1>3. CASE ListenError
    <2>1. UNCHANGED <<loc, closed, closer, late, handling, spent>> /\ ~closed /\ stage' = "exited"
      BY <1>0, <1>3 DEF ListenError, ProcessExit, Draining
    <2> QED
      BY <1>0, <2>1 DEF Draining, Booting
  <1>4. CASE ShutdownReturn
    <2>1. UNCHANGED <<loc, handling, spent, ready>> /\ closed' /\ closer' = "waiting" /\ stage' = "close" /\ ~ready
      BY <1>0, <1>4 DEF ShutdownReturn, CloseCall, Draining
    <2>2. late' = {r \in Rows : loc[r] = "checked"} /\ (Busy = {} \/ spent) /\ Busy' = Busy
      BY <1>4, <2>1 DEF ShutdownReturn, CloseCall, ShutsDown, Busy
    <2>3. ~spent => late' = {}
      BY <1>0, <2>2 DEF Draining, Busy
    <2>4. \A r \in Rows \ Untenanted : loc[r] # "refused"
      BY <1>0, <1>4 DEF Draining, ShutdownReturn
    <2> QED
      BY <1>0, <2>1, <2>2, <2>3, <2>4 DEF Draining, Booting
  <1>5. CASE CloseStore \/ Return
    <2>1. UNCHANGED <<loc, handling, spent, ready, closed, late>> /\ closer' # "idle"
          /\ stage' \in {"release", "exited"} /\ closed
      BY <1>0, <1>5 DEF CloseStore, Return, CloseReturn, CloseExpire, ProcessExit, Draining
    <2>2. Busy' = Busy
      BY <2>1 DEF Busy
    <2> QED
      BY <1>0, <2>1, <2>2 DEF Draining, Booting
  <1>6. ASSUME NEW q \in Rows, Accept(q) PROVE Draining'
    <2>1. ~closed /\ stage = "serving" /\ stage' = stage /\ UNCHANGED <<vars, ready, spent>> /\ handling \subseteq handling'
      BY <1>0, <1>6 DEF Accept, Draining
    <2> QED
      BY <1>0, <2>1 DEF Draining, vars, Booting
  <1>9. ASSUME NEW b \in Asking \cup Jobs, Borrow(b) \/ GiveBack(b) PROVE Draining'
    <2>1. UNCHANGED <<vars, stage, ready, spent, handling>>
      BY <1>9, Zenon DEF Borrow, GiveBack
    <2> QED
      BY <1>0, <2>1 DEF Draining, Busy, vars
  <1>7. CASE Alive /\ Batcher /\ UNCHANGED serverVars
    <2>1. UNCHANGED <<stage, ready, spent, handling, closed, closer, late>>
      BY <1>7, BatcherLeavesHandlers DEF serverVars, ServerInv
    <2>2. \A r \in Rows : loc'[r] = loc[r] \/ (loc[r] \in {"queued", "batch"} /\ loc'[r] \notin {"idle", "checked", "refused"})
      BY <1>7, BatcherLeavesHandlers DEF ServerInv
    <2>3. Busy' = Busy
      BY <1>0, <2>1, <2>2 DEF Busy
    <2> QED
      BY <1>0, <2>1, <2>2, <2>3 DEF Draining
  <1>8. ASSUME NEW q \in Rows, Alive, Handler(q), UNCHANGED serverVars PROVE Draining'
    <2>1. UNCHANGED <<stage, ready, spent, handling, closed, closer, late>> /\ q \in Busy
      BY <1>8 DEF serverVars, Handler, EnqueueCheck, EnqueueSend, EnqueueRefused, Busy
    <2>2. \A r \in Rows : r # q => loc'[r] = loc[r]
      BY <1>0, <1>8 DEF Handler, EnqueueCheck, EnqueueSend, EnqueueRefused
    <2>3. loc'[q] = "refused" => q \in Untenanted \/ closed
      BY <1>0, <1>8 DEF Handler, EnqueueCheck, EnqueueSend, EnqueueRefused
    <2>4. q \in handling /\ (closed => spent)
      BY <1>0, <2>1 DEF Draining, Busy
    <2> QED
      BY <1>0, <2>1, <2>2, <2>3, <2>4 DEF Draining
  <1> QED
    BY <1>1, <1>2, <1>3, <1>4, <1>5, <1>6, <1>7, <1>8, <1>9 DEF ServerNext

(* The collector's invariant is inductive *)
LEMMA ServerInvNext == ServerInv /\ [ServerNext]_allVars => ServerInv'
  <1> SUFFICES ASSUME ServerInv, [ServerNext]_allVars PROVE ServerInv'
    OBVIOUS
  <1>1. CASE ServerNext
    <2>1. Base'
      BY <1>1, ServerStepsWriter, BaseNext DEF ServerInv
    <2>2. (ServerBase /\ MigratedInOrder /\ PoolByStage)'
      BY <1>1, BootKeeps, ServeKeeps
    <2> QED
      BY <1>1, <2>1, <2>2, DrainingNext DEF ServerInv
  <1>2. CASE UNCHANGED allVars
    <2>1. UNCHANGED vars /\ UNCHANGED serverVars
      BY <1>2 DEF allVars
    <2>2. Base'
      BY <2>1 DEF ServerInv, Base, vars
    <2>3. ServerBase'
      BY <2>1 DEF ServerInv, ServerBase, vars, serverVars
    <2>4. MigratedInOrder'
      BY <2>1 DEF ServerInv, MigratedInOrder, vars, serverVars
    <2>5. PoolByStage'
      BY <2>1 DEF ServerInv, PoolByStage, vars, serverVars
    <2>6. Draining'
      BY <2>1 DEF ServerInv, Draining, Busy, vars, serverVars
    <2> QED
      BY <2>2, <2>3, <2>4, <2>5, <2>6 DEF ServerInv
  <1> QED
    BY <1>1, <1>2

(* However often a start fails, at whichever statement or step, the        *)
(* collector serves only on a complete schema and leaves no pool behind.   *)
THEOREM ServerStartsCleanly == ServerSpec => []StartsCleanly
  <1>1. ServerInv => StartsCleanly
    <2> SUFFICES ASSUME ServerInv PROVE StartsCleanly
      OBVIOUS
    <2>1. ServesCompleteSchema
      BY DEF ServerInv, MigratedInOrder, ServesCompleteSchema, Alive
    <2>2. pool \in {"closing", "closed"} /\ ~spent => Busy = {}
      BY DEF ServerInv, ServerBase, PoolByStage, Draining, Busy, Booting
    <2> QED
      BY <2>1, <2>2 DEF ServerInv, PoolByStage, StartsCleanly, PoolReleased
  <1> QED
    BY <1>1, ServerInvInit, ServerInvNext, PTL DEF ServerSpec

(* Handlers refuse rows only once the probe answers 503, and none of an    *)
(* accepted request is refused or late while the shutdown budget lasts.    *)
THEOREM ServerDrainsInOrder == ServerSpec => []DrainedInOrder
  <1>1. ServerInv => DrainedInOrder
    BY DEF ServerInv, Base, Draining, DrainedInOrder
  <1> QED
    BY <1>1, ServerInvInit, ServerInvNext, PTL DEF ServerSpec
=============================================================================
