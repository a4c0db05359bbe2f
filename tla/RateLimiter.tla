---------------------------- MODULE RateLimiter ----------------------------
(***************************************************************************)
(* guardrail.RateLimiter over guardrail.CachedLimitProvider, for one       *)
(* tenant: concurrent Allow calls resolve the tenant's plan through a TTL  *)
(* cache, re-tune the shared token bucket under the limiter's mutex, and   *)
(* take a token after releasing it.  The bucket is golang.org/x/time/rate; *)
(* one unit of time is the one in which it gains Rps tokens.               *)
(***************************************************************************)
EXTENDS Integers

CONSTANTS
    Calls,          \* concurrent Allow calls
    Plans,          \* budgets a tenant can have
    Rps, Burst,     \* MaxRPS and Burst of each budget
    Default,        \* DefaultLimits()
    Unresolved,     \* the answer ok=false
    PositiveTTL, NegativeTTL,
    Span,           \* longest time one Allow call takes
    MaxTime,        \* bound on the clock
    MaxChanges      \* bound on plan changes and database errors

ASSUME LimiterAssumption ==
    /\ Default \in Plans /\ Unresolved \notin Plans
    /\ Rps \in [Plans -> Nat] /\ Burst \in [Plans -> Nat]
    /\ \A p \in Plans : Burst[p] = 0 => Rps[p] = 0
    /\ PositiveTTL \in Nat \ {0} /\ NegativeTTL \in 0..PositiveTTL /\ Span \in Nat
    /\ MaxTime \in Nat /\ MaxChanges \in Nat

Minimum(a, b) == IF a < b THEN a ELSE b

VARIABLES
    now,
    plan,       \* the tenant's plan_limits row
    cache,      \* CachedLimitProvider's entry for the tenant: [ok, limits, expiry]
    limiter,    \* the tenant's bucket: [made, rate, limits, tokens], Rps[rate] and Burst[limits]
    call,       \* per Allow call: [pc, limits, started, allowed, age]
    entitled,   \* last instant a budget above zero was lost, or an error answered (history)
    granted,    \* requests allowed so far (history)
    changes

limiterVars == <<now, plan, cache, limiter, call, entitled, granted, changes>>

Idle == [pc |-> "idle", limits |-> Unresolved, started |-> 0, allowed |-> FALSE, age |-> 0]

LimiterInit ==
    /\ now = 0 /\ entitled = 0 /\ granted = 0 /\ changes = 0
    /\ plan = Default
    /\ cache = [limits |-> Unresolved, expiry |-> 0]
    /\ limiter = [made |-> FALSE, rate |-> Default, limits |-> Default, tokens |-> 0]
    /\ call = [c \in Calls |-> Idle]

\* RateLimiter.Allow: an unresolved budget becomes the default one.
Effective(l) == IF l = Unresolved THEN Default ELSE l
-----------------------------------------------------------------------------
\* Mutant: a cached answer is served whatever its age.
FreshForever == cache.expiry > 0

\* CachedLimitProvider.getFresh; an absent entry has expiry 0.
Fresh == cache.expiry > now

(* Allow, CachedLimitProvider.Limits: a fresh entry, or on to the base provider. *)
AllowStart(c) ==
    /\ call[c].pc = "idle"
    /\ call' = [call EXCEPT ![c] =
          IF Fresh THEN [Idle EXCEPT !.pc = "tune", !.started = now, !.limits = cache.limits]
          ELSE [Idle EXCEPT !.pc = "base", !.started = now]]
    /\ UNCHANGED <<now, plan, cache, limiter, entitled, granted, changes>>

\* limitProvider.Limits: the store answers.
BaseOk(c) ==
    /\ call[c].pc = "base"
    /\ call' = [call EXCEPT ![c].pc = "store", ![c].limits = plan]
    /\ UNCHANGED <<now, plan, cache, limiter, entitled, granted, changes>>

\* limitProvider.Limits: a store error becomes ok=false.
BaseError(c) ==
    /\ call[c].pc = "base" /\ changes < MaxChanges
    /\ call' = [call EXCEPT ![c].pc = "store", ![c].limits = Unresolved]
    /\ entitled' = now /\ changes' = changes + 1
    /\ UNCHANGED <<now, plan, cache, limiter, granted>>

\* CachedLimitProvider.store
Store(c) ==
    /\ call[c].pc = "store"
    /\ cache' = [limits |-> call[c].limits,
                 expiry |-> now + IF call[c].limits = Unresolved THEN NegativeTTL ELSE PositiveTTL]
    /\ call' = [call EXCEPT ![c].pc = "tune"]
    /\ UNCHANGED <<now, plan, limiter, entitled, granted, changes>>

\* rate.Limiter, at every call: tokens beyond the burst are lost.
Available == Minimum(limiter.tokens, Burst[limiter.limits])

(* RateLimiter.Allow takes r.mu: NewLimiter starts full; SetLimit keeps    *)
(* the tokens, and the mutex until the burst is set too.                   *)
Tuned(l) ==
    IF limiter.made THEN [limiter EXCEPT !.rate = l, !.tokens = Available]
    ELSE [made |-> TRUE, rate |-> l, limits |-> l, tokens |-> Burst[l]]

Tune(c) ==
    /\ call[c].pc = "tune" /\ \A d \in Calls : call[d].pc # "burst"
    /\ limiter' = Tuned(Effective(call[c].limits))
    /\ call' = [call EXCEPT ![c].pc = IF limiter.made THEN "burst" ELSE "take"]
    /\ UNCHANGED <<now, plan, cache, entitled, granted, changes>>

\* Mutant: a new burst fills the bucket.
ReburstFull(l) == [limiter EXCEPT !.limits = l, !.tokens = Burst[l]]

\* SetBurst keeps the tokens.
Reburst(l) == [limiter EXCEPT !.limits = l, !.tokens = Available]

\* SetBurst, and r.mu is released; other calls may take a token between the two.
SetBurst(c) ==
    /\ call[c].pc = "burst"
    /\ limiter' = Reburst(Effective(call[c].limits))
    /\ call' = [call EXCEPT ![c].pc = "take"]
    /\ UNCHANGED <<now, plan, cache, entitled, granted, changes>>

\* Time since the tenant last was entitled to a budget above zero.
Age == IF Burst[plan] > 0 THEN 0 ELSE now - entitled

\* rate.Limiter.Allow: one token is taken.
Take(c) ==
    /\ call[c].pc = "take"
    /\ call' = [call EXCEPT ![c].pc = "done", ![c].allowed = Available >= 1, ![c].age = Age]
    /\ limiter' = IF Available >= 1 THEN [limiter EXCEPT !.tokens = Available - 1] ELSE limiter
    /\ granted' = IF Available >= 1 THEN granted + 1 ELSE granted
    /\ UNCHANGED <<now, plan, cache, entitled, changes>>

Return(c) ==
    /\ call[c].pc = "done"
    /\ call' = [call EXCEPT ![c] = Idle]
    /\ UNCHANGED <<now, plan, cache, limiter, entitled, granted, changes>>
-----------------------------------------------------------------------------
(* The control plane changes the tenant's plan, or suspends the tenant. *)
ChangePlan(p) ==
    /\ changes < MaxChanges /\ p # plan
    /\ plan' = p /\ changes' = changes + 1
    /\ entitled' = IF Burst[plan] > 0 THEN now ELSE entitled
    /\ UNCHANGED <<now, cache, limiter, call, granted>>

\* rate.Limiter: the bucket gains Rps tokens, up to its burst.
Tick ==
    /\ now < MaxTime
    /\ \A c \in Calls : call[c].pc \notin {"idle", "done"} => now - call[c].started < Span
    /\ now' = now + 1
    /\ limiter' = [limiter EXCEPT !.tokens =
          Minimum(limiter.tokens + Rps[limiter.rate], Burst[limiter.limits])]
    /\ UNCHANGED <<plan, cache, call, entitled, granted, changes>>

LimiterNext ==
    \/ \E c \in Calls : AllowStart(c) \/ BaseOk(c) \/ BaseError(c) \/ Store(c)
                        \/ Tune(c) \/ SetBurst(c) \/ Take(c) \/ Return(c)
    \/ \E p \in Plans : ChangePlan(p)
    \/ Tick

LimiterSpec == LimiterInit /\ [][LimiterNext]_limiterVars
-----------------------------------------------------------------------------
LimiterTypeOK ==
    /\ now \in 0..MaxTime /\ plan \in Plans /\ changes \in 0..MaxChanges
    /\ cache \in [limits : Plans \cup {Unresolved}, expiry : Nat]
    /\ limiter \in [made : BOOLEAN, rate : Plans, limits : Plans, tokens : Nat]
    /\ call \in [Calls -> [pc : {"idle", "base", "store", "tune", "burst", "take", "done"}, started : Nat,
                           limits : Plans \cup {Unresolved}, allowed : BOOLEAN, age : Nat]]
    /\ entitled \in Nat /\ granted \in Nat

(* A request is let through only if the tenant was entitled to a budget,   *)
(* or the store failed, less than the TTL and three calls ago: one that    *)
(* cached the plan, one that re-tuned the bucket with it, one that took.   *)
SuspensionTakesEffect ==
    \A c \in Calls : call[c].allowed => call[c].age < PositiveTTL + 3 * Span

(* However calls interleave and plans change, re-tuning mints no token:    *)
(* the tenant gets at most the largest burst and the largest rate.         *)
NoTokenMinted ==
    \E b \in Plans, r \in Plans : granted + limiter.tokens <= Burst[b] + Rps[r] * now

(* "MaxRPS:0/Burst:0, which SetLimit/SetBurst turn into a hard deny": a    *)
(* call that itself resolved a zero budget is denied.                      *)
SuspendedDenied ==
    \A c \in Calls : call[c].allowed => Burst[Effective(call[c].limits)] > 0
=============================================================================
