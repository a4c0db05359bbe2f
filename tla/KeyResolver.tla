---------------------------- MODULE KeyResolver ----------------------------
(***************************************************************************)
(* control.Resolver: ingest keys resolve to tenants through a TTL cache in *)
(* front of Postgres.  Handlers resolve concurrently; a lookup reads the   *)
(* ingest_keys row at one instant and its answer is cached some time       *)
(* later, stamped with the time of the store.                              *)
(***************************************************************************)
EXTENDS Integers, FiniteSets

CONSTANTS
    Tokens,         \* what callers present
    Digests,        \* hashes of the secret half
    DigestOf,       \* token.Decode and hashKey; None for what does not decode
    Tenants, None,
    TenantOf,       \* the org of each key
    Resolves,       \* concurrent Resolve calls
    positiveTTL, negativeTTL,
    Latency,        \* longest time from the database's read to the store
    SweepThreshold, \* cacheSweepThreshold
    LastInstant     \* bound on the clock

ASSUME ResolverAssumption ==
    /\ None \notin Tenants /\ None \notin Digests
    /\ DigestOf \in [Tokens -> Digests \cup {None}]
    /\ TenantOf \in [Digests -> Tenants]
    /\ positiveTTL \in Nat /\ negativeTTL \in Nat /\ Latency \in Nat
    /\ SweepThreshold \in Nat
    /\ LastInstant \in Nat

Answers == Tenants \cup {None}

VARIABLES
    clock,          \* r.now()
    life,           \* ingest_keys: each key is "new", "active" or "revoked"
    resolutions,    \* r.cache: digest -> [tenant, expiry], on the cached digests
    asking,         \* per call: [pc, digest, tenant, readAt]
    until           \* when each answer about a digest last stopped being true (history)

resolverVars == <<clock, life, resolutions, asking, until>>

Unasked == [pc |-> "idle", digest |-> None, tenant |-> None, readAt |-> 0]

ResolverInit ==
    /\ clock = 0
    /\ life = [d \in Digests |-> "new"]
    /\ resolutions = [d \in {} |-> [tenant |-> None, expiry |-> 0]]
    /\ asking = [c \in Resolves |-> Unasked]
    /\ until = [d \in Digests |-> [a \in Answers |-> 0]]

\* Mutant: the query forgets "revoked_at IS NULL".
QueryIgnoresRevoked(d) == IF life[d] # "new" THEN TenantOf[d] ELSE None

\* poolLookup's query
Query(d) == IF life[d] = "active" THEN TenantOf[d] ELSE None

\* getFresh: entry.expiry.After(r.now())
getFresh(d) == d \in DOMAIN resolutions /\ resolutions[d].expiry > clock

\* The last instant ingest_keys held this answer for the digest.
LastTrue(d, a) ==
    IF a = (IF life[d] = "active" THEN TenantOf[d] ELSE None) THEN clock ELSE until[d][a]
-----------------------------------------------------------------------------
(* Resolve, up to getFresh.  A hit, or a token that does not decode, is    *)
(* answered at once.                                                       *)
ResolveCheck(c, t) ==
    /\ asking[c].pc = "idle"
    /\ DigestOf[t] # None /\ ~getFresh(DigestOf[t])
    /\ asking' = [asking EXCEPT ![c] = [Unasked EXCEPT !.pc = "lookup", !.digest = DigestOf[t]]]
    /\ UNCHANGED <<clock, life, resolutions, until>>

\* poolLookup: the row as the query sees it.
Lookup(c) ==
    /\ asking[c].pc = "lookup"
    /\ asking' = [asking EXCEPT ![c].pc = "store", ![c].tenant = Query(asking[c].digest), ![c].readAt = clock]
    /\ UNCHANGED <<clock, life, resolutions, until>>

\* The query fails: rejected, nothing cached.
LookupError(c) ==
    /\ asking[c].pc = "lookup"
    /\ asking' = [asking EXCEPT ![c] = Unasked]
    /\ UNCHANGED <<clock, life, resolutions, until>>

\* Mutant: the time to live is subtracted for a negative answer.
TTLOfBackwards(a) == IF a = None THEN -negativeTTL - 1 ELSE positiveTTL

\* Resolve: the entry's time to live.
TTLOf(a) == IF a = None THEN negativeTTL ELSE positiveTTL

\* Mutant: the sweep empties the map.
SweptAll == {}

\* store: at the threshold, entries past their expiry go.
Swept == IF Cardinality(DOMAIN resolutions) >= SweepThreshold
         THEN {d \in DOMAIN resolutions : getFresh(d)} ELSE DOMAIN resolutions

(* Resolve: store, and return the answer. *)
StoreAnswer(c) ==
    /\ asking[c].pc = "store"
    /\ LET entry == [tenant |-> asking[c].tenant, expiry |-> clock + TTLOf(asking[c].tenant)]
       IN  resolutions' = [d \in Swept \cup {asking[c].digest} |->
                            IF d = asking[c].digest THEN entry ELSE resolutions[d]]
    /\ asking' = [asking EXCEPT ![c] = Unasked]
    /\ UNCHANGED <<clock, life, until>>
-----------------------------------------------------------------------------
(* IssueKey inserts a row, RevokeKey sets its revoked_at for good. *)
IssueKey(d) ==
    /\ life[d] = "new"
    /\ life' = [life EXCEPT ![d] = "active"]
    /\ until' = [until EXCEPT ![d][None] = clock]
    /\ UNCHANGED <<clock, resolutions, asking>>

RevokeKey(d) ==
    /\ life[d] = "active"
    /\ life' = [life EXCEPT ![d] = "revoked"]
    /\ until' = [until EXCEPT ![d][TenantOf[d]] = clock]
    /\ UNCHANGED <<clock, resolutions, asking>>

\* Time passes; no answer is under way for longer than Latency.
TimePasses ==
    /\ clock < LastInstant
    /\ \A c \in Resolves : asking[c].pc = "store" => clock - asking[c].readAt < Latency
    /\ clock' = clock + 1
    /\ UNCHANGED <<life, resolutions, asking, until>>

ResolverNext ==
    \/ \E c \in Resolves : \/ \E t \in Tokens : ResolveCheck(c, t)
                           \/ Lookup(c) \/ LookupError(c) \/ StoreAnswer(c)
    \/ \E d \in Digests : IssueKey(d) \/ RevokeKey(d)
    \/ TimePasses

ResolverSpec == ResolverInit /\ [][ResolverNext]_resolverVars
-----------------------------------------------------------------------------
Entries == [tenant : Answers, expiry : Nat]

ResolverTypeOK ==
    /\ clock \in 0..LastInstant
    /\ life \in [Digests -> {"new", "active", "revoked"}]
    /\ DOMAIN resolutions \subseteq Digests
    /\ \A d \in DOMAIN resolutions : resolutions[d] \in Entries
    /\ asking \in [Resolves -> [pc : {"idle", "lookup", "store"}, digest : Digests \cup {None},
                                tenant : Answers, readAt : Nat]]
    /\ until \in [Digests -> [Answers -> Nat]]

(* An answer served from the cache was the database's answer less than its *)
(* TTL plus one lookup ago: a revoked key stops resolving, and a new key   *)
(* starts to, within that time, however the calls interleave.              *)
StalenessBounded ==
    \A d \in Digests : getFresh(d) =>
        clock - LastTrue(d, resolutions[d].tenant) < TTLOf(resolutions[d].tenant) + Latency

(* "no live (fresh) resolution is ever evicted": an entry that is fresh    *)
(* after a step that does not replace it was there before and is still.    *)
FreshNeverEvicted ==
    [][\A d \in Digests : getFresh(d) => d \in DOMAIN resolutions']_resolverVars

(* The documented window: a revoked key stops resolving within positiveTTL *)
RevokedWithinTTL ==
    \A d \in Digests : getFresh(d) /\ resolutions[d].tenant # None =>
        clock - LastTrue(d, resolutions[d].tenant) <= positiveTTL
=============================================================================
