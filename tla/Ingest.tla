------------------------------- MODULE Ingest -------------------------------
(***************************************************************************)
(* ingest.Handler.Upload end to end: clients that send their oldest upload *)
(* until an answer reaches them, handlers that authenticate, look up the   *)
(* tenant's limits, guard and enqueue one summary after the other, and the *)
(* storage writer as the sink.  A client that gives up leaves its handler  *)
(* running: context cancellation is not consulted while summaries are      *)
(* stored.  Window ends are stamped when an upload is built, so a retry    *)
(* presents an old one.                                                    *)
(***************************************************************************)
EXTENDS CardinalityNode, Sequences

CONSTANTS
    Clients, TenantOf,  \* recorders, and the tenant their key resolves to
    Uploads,            \* per client, its uploads: [summaries : Seq(series), size, skew]
    Slots,              \* per client, the handlers it can occupy at a time
    Unreliable,         \* clients whose calls can be denied, lost, time out or find a lookup failing
    Limits, Subscribed, \* budgets a plan can have: [cap, payload], and the first one
    SkewTolerance,      \* skewTolerance
    MaxFaults           \* bound on give-ups, plan changes and the close of the sink

ASSUME IngestAssumption ==
    /\ SkewTolerance \in Nat /\ MaxFaults \in Nat
    /\ Subscribed \in Limits /\ Limits \subseteq [cap : Nat \ {0}, payload : Nat \ {0}]
    /\ Caps = {l.cap : l \in Limits}
    /\ TenantOf \in [Clients -> TenantIDs]
    /\ Uploads \in [Clients -> Seq([summaries : Seq(SeriesKeys), size : Nat, skew : Int])]
    /\ Slots \in [Clients -> SUBSET (Nat \ {0})] /\ \A c \in Clients : IsFiniteSet(Slots[c])

VARIABLES
    client,     \* [head, waiting, built, gaveUp]: upload being sent, slot it waits for, when it was built
    handler,    \* per client and slot, the Upload call
    limits,     \* the budget the cached provider has for the tenant
    sinkOpen,   \* the writer accepts rows
    rows,       \* how often each summary (0: the instance window) was enqueued
    acked,      \* per client, the answers that reached it
    faults,
    seen        \* history, per call: the budgets there were during it, its lookups that failed

ingestVars == <<client, handler, limits, sinkOpen, rows, acked, faults, seen>>
allVars == <<vars, ingestVars>>

Upload(c) == Uploads[c][client[c].head]
Pending(c) == client[c].head <= Len(Uploads[c])
NoHandler == [pc |-> "none"]
NothingSeen == [plans |-> {}, failed |-> {}]
Items(c) == UNION {{u} \X (0..Len(Uploads[c][u].summaries)) : u \in 1..Len(Uploads[c])}

IngestInit ==
    /\ Init
    /\ client = [c \in Clients |-> [head |-> 1, waiting |-> 0, built |-> -1, gaveUp |-> 0]]
    /\ handler = [c \in Clients |-> [s \in Slots[c] |-> NoHandler]]
    /\ limits = Subscribed /\ sinkOpen = TRUE
    /\ rows = [c \in Clients |-> [x \in Items(c) |-> 0]]
    /\ acked = [c \in Clients |-> <<>>]
    /\ faults = 0 /\ seen = [c \in Clients |-> [s \in Slots[c] |-> NothingSeen]]

Fault == faults < MaxFaults /\ faults' = faults + 1
At(c, s, pc) == handler[c][s].pc = pc
Goto(c, s, h) == handler' = [handler EXCEPT ![c][s] = h]
See(c, s, x) == seen' = [seen EXCEPT ![c][s] = x]
Ends(c, s) == Goto(c, s, NoHandler) /\ See(c, s, NothingSeen)
-----------------------------------------------------------------------------
(* sendStamped, transport.Upload: the oldest pending upload, with the      *)
(* window it was built for.                                                *)
Send(c, s) ==
    /\ Pending(c) /\ client[c].waiting = 0
    /\ At(c, s, "none") /\ \A r \in Slots[c] : r < s => ~At(c, r, "none")
    /\ LET built == IF client[c].built = -1 THEN now ELSE client[c].built
       IN /\ client' = [client EXCEPT ![c].waiting = s, ![c].built = built]
          /\ Goto(c, s, [pc |-> "auth", u |-> client[c].head, end |-> built + Upload(c).skew])
    /\ See(c, s, [plans |-> {limits}, failed |-> {}])
    /\ UNCHANGED <<vars, limits, sinkOpen, rows, acked, faults>>

\* tryDrainOldest: the send fails or times out and the upload stays in the ring.
GiveUp(c) ==
    /\ c \in Unreliable /\ client[c].waiting # 0 /\ Fault
    /\ client' = [client EXCEPT ![c].waiting = 0, ![c].gaveUp = @ + 1]
    /\ UNCHANGED <<vars, handler, limits, sinkOpen, rows, acked, seen>>

\* Mutant: an error answer does not end the wait.
RefusedUnheard(c, s) == Ends(c, s) /\ UNCHANGED client

\* An error answer: to the client that still waits, nothing is popped.
Refused(c, s) ==
    /\ Ends(c, s)
    /\ client' = [client EXCEPT ![c].waiting = IF @ = s THEN 0 ELSE @]

\* authenticate or limiter.allow fails: CodeUnauthenticated or CodeResourceExhausted
Deny(c, s) ==
    /\ c \in Unreliable /\ At(c, s, "auth")
    /\ Refused(c, s)
    /\ UNCHANGED <<vars, limits, sinkOpen, rows, acked, faults>>

(* The cap providers drop the ok of Limits, so a failed lookup is a zero   *)
(* budget, and its check is off.                                           *)
NoLimits == [cap |-> 0, payload |-> 0]

Lookup(c, l) == l = limits \/ (l = NoLimits /\ c \in Unreliable)

Saw(c, s, limit, l) ==
    See(c, s, IF l = NoLimits THEN [seen[c][s] EXCEPT !.failed = @ \cup {limit}] ELSE seen[c][s])

\* payloadWithinLimit
PayloadWithinLimit(u, l) == l.payload <= 0 \/ u.size <= l.payload

\* Upload up to the payload check, once authenticated and let through by the limiter
Admit(c, s, l) ==
    /\ At(c, s, "auth") /\ Lookup(c, l)
    /\ IF PayloadWithinLimit(Uploads[c][handler[c][s].u], l)
       THEN /\ Goto(c, s, [handler[c][s] EXCEPT !.pc = "cap"])
            /\ Saw(c, s, "payload", l) /\ UNCHANGED client
       ELSE Refused(c, s)
    /\ UNCHANGED <<vars, limits, sinkOpen, rows, acked, faults>>

\* applyTimestampPolicy: |window_end - now| <= skewTolerance
InSkew(end) == now - end <= SkewTolerance /\ end - now <= SkewTolerance

\* Upload: now := h.now(), and the cap, once for the whole request
ReadCap(c, s, l) ==
    /\ At(c, s, "cap") /\ Lookup(c, l) /\ Saw(c, s, "cap", l)
    /\ Goto(c, s, [pc |-> "store", u |-> handler[c][s].u, accepted |-> InSkew(handler[c][s].end),
                   cap |-> l.cap, i |-> 1, rejected |-> 0])
    /\ UNCHANGED <<vars, client, limits, sinkOpen, rows, acked, faults>>

\* Mutant: a summary the guard drops is skipped without being counted.
NextUncounted(h) == [h EXCEPT !.i = @ + 1]

\* storeSummaries: rejected++, on to the next summary
NextRejected(h) == [h EXCEPT !.i = @ + 1, !.rejected = @ + 1]

(* storeSummary: the skew policy, then Cardinality.Allow, charged whether  *)
(* or not the row is then enqueued; Enqueue refuses once the sink is       *)
(* closed, and otherwise returns when there is room.                       *)
StoreSummary(c, s) ==
    LET h == handler[c][s]
        k == Uploads[c][h.u].summaries[h.i]
        stored == h.accepted /\ Allowed(TenantOf[c], k, h.cap) /\ sinkOpen
    IN /\ At(c, s, "store") /\ h.i <= Len(Uploads[c][h.u].summaries)
       /\ IF h.accepted THEN Call(TenantOf[c], k, h.cap) ELSE UNCHANGED vars
       /\ Goto(c, s, IF stored THEN [h EXCEPT !.i = @ + 1] ELSE NextRejected(h))
       /\ rows' = IF stored THEN [rows EXCEPT ![c][<<h.u, h.i>>] = @ + 1] ELSE rows
       /\ UNCHANGED <<client, limits, sinkOpen, acked, faults, seen>>

\* Mutant: the upload stays in the ring after its answer.
PopNothing(head) == head

\* ring.PopOldest
PopOldest(head) == head + 1

(* storeInstanceWindows, then UploadResponse, and PopOldest in the client; *)
(* a call given up on is answered into the void.                           *)
Answer(c, s) ==
    LET h == handler[c][s]
    IN /\ At(c, s, "store") /\ h.i > Len(Uploads[c][h.u].summaries)
       /\ rows' = IF sinkOpen /\ h.accepted THEN [rows EXCEPT ![c][<<h.u, 0>>] = @ + 1] ELSE rows
       /\ Ends(c, s)
       /\ IF client[c].waiting = s
          THEN /\ client' = [client EXCEPT ![c] = [head |-> PopOldest(@.head), waiting |-> 0, built |-> -1, gaveUp |-> 0]]
               /\ acked' = [acked EXCEPT ![c] = Append(@, [rejected |-> h.rejected, gaveUp |-> client[c].gaveUp])]
          ELSE UNCHANGED <<client, acked>>
       /\ UNCHANGED <<vars, limits, sinkOpen, faults>>
-----------------------------------------------------------------------------
ChangeLimits(l) ==
    /\ l # limits /\ Fault /\ limits' = l
    /\ seen' = [c \in Clients |-> [s \in Slots[c] |->
                  IF At(c, s, "none") THEN seen[c][s] ELSE [seen[c][s] EXCEPT !.plans = @ \cup {l}]]]
    /\ UNCHANGED <<vars, client, handler, sinkOpen, rows, acked>>

\* storage.Writer.Close
SinkCloses ==
    /\ sinkOpen /\ Fault /\ sinkOpen' = FALSE
    /\ UNCHANGED <<vars, client, handler, limits, rows, acked, seen>>

Step(c, s) ==
    \/ \E l \in Limits \cup {NoLimits} : Admit(c, s, l) \/ ReadCap(c, s, l)
    \/ StoreSummary(c, s) \/ Answer(c, s)

IngestNext ==
    \/ \E c \in Clients : GiveUp(c) \/ \E s \in Slots[c] : Send(c, s) \/ Deny(c, s) \/ Step(c, s)
    \/ \E l \in Limits : ChangeLimits(l)
    \/ SinkCloses
    \/ Tick /\ UNCHANGED ingestVars

IngestSpec == IngestInit /\ [][IngestNext]_allVars

(* A recorder keeps retrying or one of the handlers it started keeps       *)
(* running.                                                                *)
IngestFairSpec ==
    IngestSpec /\ \A c \in Clients : WF_allVars(\E s \in Slots[c] : Send(c, s) \/ Step(c, s))
-----------------------------------------------------------------------------
Lost(c, u) == Cardinality({i \in 1..Len(Uploads[c][u].summaries) : rows[c][<<u, i>>] = 0})

(* An upload is popped by its client only once every summary of it was     *)
(* stored or is counted in the answer, however many attempts it took.      *)
AckedAccounted == \A c \in Clients : \A u \in 1..Len(acked[c]) : Lost(c, u) <= acked[c][u].rejected

(* A summary or gauge is stored twice only if its client gave up on an     *)
(* attempt the server went on with: one more copy per attempt given up.    *)
CopiesExplained ==
    \A c \in Clients : \A x \in Items(c) :
        rows[c][x] <= 1 + (IF x[1] <= Len(acked[c]) THEN acked[c][x[1]].gaveUp
                           ELSE IF x[1] = client[c].head THEN client[c].gaveUp ELSE 0)

\* The step of a call that adds a series or stores a row, and what the call has seen.
WithinLimits ==
    /\ \A t \in TenantIDs : ~(WorkingSet(t)' \subseteq WorkingSet(t)) =>
          \E c \in Clients : \E s \in Slots[c] :
              /\ TenantOf[c] = t /\ handler'[c][s] # handler[c][s]
              /\ \/ "cap" \in seen[c][s].failed
                 \/ \E l \in seen[c][s].plans : Cardinality(WorkingSet(t)') <= l.cap
    /\ \A c \in Clients : rows'[c] # rows[c] =>
          \E s \in Slots[c] :
              /\ handler'[c][s] # handler[c][s]
              /\ \/ "payload" \in seen[c][s].failed
                 \/ \E l \in seen[c][s].plans : Uploads[c][handler[c][s].u].size <= l.payload

(* A series enters a tenant's working set, and a row is stored, only       *)
(* within a budget the tenant had during the call that does it, however    *)
(* long ago that call read the cap it uses for all its summaries and       *)
(* whatever other calls did since.  A lookup that fails lifts its limit    *)
(* for its own call and no other.                                          *)
LimitsHeld == [][WithinLimits]_allVars

(* "Rejections from any of these guards are counted and returned to the    *)
(* client as rejected_summaries": a tenant's refused summaries are in an   *)
(* answer.  The limiter and the payload check refuse the whole call.       *)
RejectionsReturned == [][\A c \in Clients : client[c].waiting # 0 /\ client'[c].waiting = 0
                            => client'[c].head > client[c].head \/ client'[c].gaveUp > client[c].gaveUp]_allVars

\* A call that was denied or given up on, its upload being within the plan.
Turned(c) ==
    /\ client[c].waiting # 0 /\ client'[c].waiting = 0 /\ client'[c].head = client[c].head
    /\ PayloadWithinLimit(Upload(c), limits)

(* Once a client's calls are no longer denied or given up on, every upload *)
(* gets through, however its limits are looked up and whatever became of   *)
(* earlier attempts: all that can still hold back a client's uploads is    *)
(* that the one at the head is larger than the plan allows, again and      *)
(* again.                                                                  *)
Delivery ==
    \A c \in Clients :
        <>[][~Turned(c)]_allVars =>
            \/ <>(~Pending(c))
            \/ []<>(Pending(c) /\ ~PayloadWithinLimit(Upload(c), limits))
=============================================================================
