------------------------------ MODULE Recorder ------------------------------
(***************************************************************************)
(* The client Recorder: request goroutines calling Observe, the background *)
(* uploader goroutine (run) with its flush and retry timers, the drop-     *)
(* oldest ring of pending uploads, and Shutdown.                           *)
(*                                                                         *)
(* Each element of Obs is one Observe call of one request goroutine.  The  *)
(* contents of a Summary are abstracted to the set of observations it      *)
(* aggregates, so a pending upload is a set of observations and the number *)
(* of its summaries is the number of distinct series among them.  The ring *)
(* is the sequence that module Ring is shown to implement.  Time is        *)
(* abstract: an armed timer may elapse at any later moment.                *)
(***************************************************************************)
EXTENDS Integers, Sequences, FiniteSets

CONSTANTS
    Obs,            \* Observe calls, one per request the host serves
    Series,         \* series keys (method, route, status class)
    SeriesOf,       \* the series of each observation
    NumShards,      \* numShards: how many maps the series are spread over
    ShardOf,        \* the shard a series hashes to
    Cap,            \* ringCapacity: pending uploads the ring holds
    BaseBackoff,    \* baseBackoff
    MaxBackoff,     \* maxBackoff
    Loop,           \* the uploader goroutine
    Callers,        \* goroutines that call Shutdown
    HostQuiesces,   \* the host calls Shutdown once no request is in Observe
    SerialShutdowns,\* the host never runs two Shutdown calls at a time
    LoopMayPanic    \* an internal bug may panic in the uploader goroutine

ASSUME RecorderAssumption ==
    /\ IsFiniteSet(Series)
    /\ SeriesOf \in [Obs -> Series]
    /\ NumShards \in Nat \ {0}
    /\ ShardOf \in [Series -> 1..NumShards]
    /\ Cap \in Nat /\ Cap >= 2
    /\ BaseBackoff \in Nat \ {0}
    /\ MaxBackoff \in Nat /\ MaxBackoff >= BaseBackoff
    /\ Loop \notin Callers
    /\ HostQuiesces \in BOOLEAN
    /\ SerialShutdowns \in BOOLEAN
    /\ LoopMayPanic \in BOOLEAN

VARIABLES
    opc,            \* where each Observe call is
    shards,         \* observations in the shard maps, not swapped out yet
    ring,           \* pending uploads, oldest first
    dropped,        \* droppedSummaries
    flushTimer,     \* "armed", "due" (tick in the channel) or "idle"
    retry,          \* delay the retry timer was armed with, Stopped if none
    backoff,        \* backoff: delay the next failure arms
    closed,         \* the closed flag
    stop,           \* the stop channel is closed
    ctxDone,        \* the context of each Shutdown call has expired
    pc,             \* where the uploader and each Shutdown caller are
    next,           \* next shard each of them swaps
    window,         \* what each of them has swapped out so far
    req,            \* the upload each of them has in flight
    stamped,        \* dropped_summaries stamped on that upload
    collectorUp,    \* the collector answers
    acked,          \* observations whose upload returned without error
    evicted,        \* observations of uploads the ring evicted
    evictedSums,    \* summaries evicted, ever
    reportedSums,   \* dropped_summaries of acknowledged uploads, summed
    failedLast      \* the uploader's previous attempt failed

ringVars   == <<ring, dropped, evicted, evictedSums>>
timerVars  == <<flushTimer, retry, backoff, failedLast>>
ghostVars  == <<acked, reportedSums>>
lifeVars   == <<closed, stop, ctxDone>>
localVars  == <<pc, next, window, req, stamped>>
vars == <<opc, shards, collectorUp, ringVars, timerVars, ghostVars, lifeVars,
          localVars>>

Agents  == {Loop} \cup Callers
Stopped == -1

\* len(UploadRequest.Summaries): buildRequest emits one summary per series.
NumSummaries(w) == Cardinality({SeriesOf[o] : o \in w})

\* Mutant: nextBackoff without its ceiling.
NextBackoffUncapped(cur) == cur * 2

\* nextBackoff
NextBackoff(cur) == IF cur * 2 > MaxBackoff THEN MaxBackoff ELSE cur * 2

Goto(a, l) == pc' = [pc EXCEPT ![a] = l]
-----------------------------------------------------------------------------
(* newRecorderWithTransport: empty shards and ring, goroutine started *)
Init ==
    /\ opc = [o \in Obs |-> "idle"]
    /\ shards = {}
    /\ ring = <<>> /\ dropped = 0 /\ evicted = {} /\ evictedSums = 0
    /\ flushTimer = "idle" /\ retry = Stopped /\ backoff = BaseBackoff
    /\ failedLast = FALSE
    /\ acked = {} /\ reportedSums = 0
    /\ closed = FALSE /\ stop = FALSE
    /\ ctxDone = [c \in Callers |-> FALSE]
    /\ pc = [a \in Agents |-> IF a = Loop THEN "register" ELSE "idle"]
    /\ next = [a \in Agents |-> 1]
    /\ window = [a \in Agents |-> {}]
    /\ req = [a \in Agents |-> {}]
    /\ stamped = [a \in Agents |-> 0]
    /\ collectorUp \in BOOLEAN

(* Observe reads the closed flag before it takes its shard's lock, so the  *)
(* two halves interleave with a flush and with Shutdown.                   *)
ObserveEnter(o) ==
    /\ opc[o] = "idle"
    /\ HostQuiesces => \A c \in Callers : pc[c] = "idle"
    /\ opc' = [opc EXCEPT ![o] = IF closed THEN "refused" ELSE "entered"]
    /\ UNCHANGED <<shards, collectorUp, ringVars, timerVars, ghostVars,
                   lifeVars, localVars>>

ObserveRecord(o) ==
    /\ opc[o] = "entered"
    /\ opc' = [opc EXCEPT ![o] = "recorded"]
    /\ shards' = shards \cup {o}
    /\ UNCHANGED <<collectorUp, ringVars, timerVars, ghostVars, lifeVars,
                   localVars>>
-----------------------------------------------------------------------------
(* The flush timer elapses: its tick waits in the channel. *)
FlushTick ==
    /\ flushTimer = "armed"
    /\ flushTimer' = "due"
    /\ UNCHANGED <<opc, shards, collectorUp, ringVars, retry, backoff,
                   failedLast, ghostVars, lifeVars, localVars>>

(* run: Register, best effort, then both timers are created *)
Register ==
    /\ pc[Loop] = "register"
    /\ Goto(Loop, "select")
    /\ flushTimer' = "armed"
    /\ UNCHANGED <<opc, shards, collectorUp, ringVars, retry, backoff,
                   failedLast, ghostVars, lifeVars, next, window, req, stamped>>

\* Mutant: Shutdown drains without the final flush.
BeginFlushLoopOnly(a) ==
    /\ Goto(a, "swap")
    /\ next' = [next EXCEPT ![a] = IF a = Loop THEN 1 ELSE NumShards + 1]
    /\ window' = [window EXCEPT ![a] = {}]
    /\ UNCHANGED <<req, stamped>>

\* swapShards starts with an empty merged map and the first shard.
BeginFlush(a) ==
    /\ Goto(a, "swap")
    /\ next' = [next EXCEPT ![a] = 1]
    /\ window' = [window EXCEPT ![a] = {}]
    /\ UNCHANGED <<req, stamped>>

\* select: case <-flushTimer.C
SelectFlush ==
    /\ pc[Loop] = "select" /\ flushTimer = "due"
    /\ flushTimer' = "idle"
    /\ BeginFlush(Loop)
    /\ UNCHANGED <<opc, shards, collectorUp, ringVars, retry, backoff,
                   failedLast, ghostVars, lifeVars>>

\* run returns: flushTimer.Stop() and close(done); the retry timer is left.
LoopExit ==
    /\ Goto(Loop, "exited")
    /\ flushTimer' = "idle"
    /\ UNCHANGED <<opc, shards, collectorUp, ringVars, retry, backoff,
                   failedLast, ghostVars, lifeVars, next, window, req, stamped>>

\* select: case <-r.stop
SelectStop ==
    /\ pc[Loop] = "select" /\ stop
    /\ LoopExit

(* A panic in Register, flush or Upload is recovered at the top of run:    *)
(* the goroutine ends, and a window it had swapped out goes with it.       *)
LoopPanic ==
    /\ LoopMayPanic
    /\ pc[Loop] \in {"register", "swap", "upload"}
    /\ LoopExit

\* Mutant: shards counted from zero, so the last one is never swapped.
ShardMapOffByOne(i) == {o \in shards : ShardOf[SeriesOf[o]] = i - 1}

\* r.shards[i].m, the map an observation's series hashes to
ShardMap(i) == {o \in shards : ShardOf[SeriesOf[o]] = i}

\* Mutant: the map that was read stays in the shard.
ReplacedNot(i) == shards

\* r.shards[i].m = make(...)
Replaced(i) == shards \ ShardMap(i)

\* swapShards: one shard's map is replaced under that shard's lock.
SwapShard(a) ==
    /\ pc[a] = "swap" /\ next[a] <= NumShards
    /\ shards' = Replaced(next[a])
    /\ window' = [window EXCEPT ![a] = @ \cup ShardMap(next[a])]
    /\ next' = [next EXCEPT ![a] = @ + 1]
    /\ UNCHANGED <<opc, collectorUp, ringVars, timerVars, ghostVars, lifeVars,
                   pc, req, stamped>>

\* Mutant: an eviction is not counted.
CountDroppedNot(w) == dropped

\* flush: droppedSummaries += len(evicted.Summaries)
CountDropped(w) == dropped + NumSummaries(w)

\* Push, with flush's accounting of an evicted upload.
Push(w) ==
    IF Len(ring) = Cap
    THEN /\ ring' = Append(Tail(ring), w)
         /\ evicted' = evicted \cup Head(ring)
         /\ evictedSums' = evictedSums + NumSummaries(Head(ring))
         /\ dropped' = CountDropped(Head(ring))
    ELSE /\ ring' = Append(ring, w)
         /\ UNCHANGED <<dropped, evicted, evictedSums>>

\* Mutant: every flush kicks the drain.
KickAlways(pushed) == IF pushed THEN 0 ELSE retry

\* run: the first pending upload since the ring drained kicks the drain.
Kick(pushed) == IF pushed /\ Len(ring') = 1 THEN 0 ELSE retry

(* flush, once every shard is swapped: an empty window is not pushed; the  *)
(* uploader kicks the drain when the window is the only pending one, and   *)
(* re-arms the flush timer; Shutdown goes on to its drain loop.            *)
EndFlush(a) ==
    /\ pc[a] = "swap" /\ next[a] > NumShards
    /\ IF window[a] = {} THEN UNCHANGED ringVars ELSE Push(window[a])
    /\ window' = [window EXCEPT ![a] = {}]
    /\ IF a = Loop
       THEN /\ retry' = Kick(window[a] # {})
            /\ flushTimer' = "armed"
            /\ Goto(a, "select")
       ELSE /\ Goto(a, "drain")
            /\ UNCHANGED <<retry, flushTimer>>
    /\ UNCHANGED <<opc, shards, collectorUp, backoff, failedLast, ghostVars,
                   lifeVars, next, req, stamped>>
-----------------------------------------------------------------------------
\* tryDrainOldest up to Upload: peek the oldest, stamp the dropped counter.
BeginUpload(a) ==
    /\ ring # <<>>
    /\ req' = [req EXCEPT ![a] = Head(ring)]
    /\ stamped' = [stamped EXCEPT ![a] = dropped]
    /\ Goto(a, "upload")
    /\ UNCHANGED <<next, window>>

(* select: case <-retryTimer.C.  The tick is consumed; on an empty ring    *)
(* (drainEmpty) nothing else happens.                                      *)
SelectRetry ==
    /\ pc[Loop] = "select" /\ retry # Stopped
    /\ retry' = Stopped
    /\ IF ring = <<>> THEN UNCHANGED localVars ELSE BeginUpload(Loop)
    /\ UNCHANGED <<opc, shards, collectorUp, ringVars, flushTimer, backoff,
                   failedLast, ghostVars, lifeVars>>

\* Mutant: the newest upload is popped, not the one that was sent.
PopNewest == IF ring = <<>> THEN ring ELSE SubSeq(ring, 1, Len(ring) - 1)

\* PopOldest, which returns nil on an empty ring.
PopOldest == IF ring = <<>> THEN ring ELSE Tail(ring)

\* Mutant: after a send the drain waits for the next flush.
NoRearm == retry

\* run, drainSent: more pending, drain again immediately.
Rearm == IF ring' # <<>> THEN 0 ELSE retry

(* Upload returned nil: the stamped amount is settled, the oldest entry is *)
(* popped; the uploader resets its backoff and drains on if more is        *)
(* pending.                                                                *)
UploadOk(a) ==
    /\ pc[a] = "upload" /\ collectorUp
    /\ acked' = acked \cup req[a]
    /\ reportedSums' = reportedSums + stamped[a]
    /\ dropped' = dropped - stamped[a]
    /\ ring' = PopOldest
    /\ req' = [req EXCEPT ![a] = {}]
    /\ IF a = Loop
       THEN /\ backoff' = BaseBackoff
            /\ retry' = Rearm
            /\ failedLast' = FALSE
            /\ Goto(a, "select")
       ELSE /\ Goto(a, "drain")
            /\ UNCHANGED <<backoff, retry, failedLast>>
    /\ UNCHANGED <<opc, shards, collectorUp, evicted, evictedSums, flushTimer,
                   lifeVars, next, window, stamped>>

(* Upload returned an error (unreachable, refused, timed out, or the       *)
(* context of a Shutdown expired): the entry stays; the uploader arms the  *)
(* retry timer with the backoff and doubles it, Shutdown pauses.           *)
UploadFail(a) ==
    /\ pc[a] = "upload"
    /\ ~collectorUp \/ (a # Loop /\ ctxDone[a])
    /\ req' = [req EXCEPT ![a] = {}]
    /\ IF a = Loop
       THEN /\ retry' = backoff
            /\ backoff' = NextBackoff(backoff)
            /\ failedLast' = TRUE
            /\ Goto(a, "select")
       ELSE /\ Goto(a, "pause")
            /\ UNCHANGED <<retry, backoff, failedLast>>
    /\ UNCHANGED <<opc, shards, collectorUp, ringVars, flushTimer, ghostVars,
                   lifeVars, next, window, stamped>>
-----------------------------------------------------------------------------
InShutdown(c) == pc[c] \in {"wait", "swap", "drain", "upload", "pause"}

(* Shutdown: close(stop) once; a later call on a stopped recorder repeats  *)
(* the rest of the body.                                                   *)
ShutdownCall(c) ==
    /\ pc[c] = "idle"
    /\ HostQuiesces => \A o \in Obs : opc[o] # "entered"
    /\ SerialShutdowns => \A d \in Callers : ~InShutdown(d)
    /\ stop' = TRUE
    /\ Goto(c, "wait")
    /\ UNCHANGED <<opc, shards, collectorUp, ringVars, timerVars, ghostVars,
                   closed, ctxDone, next, window, req, stamped>>

\* <-r.done, then closed.Store(true) and flush.
ShutdownClose(c) ==
    /\ pc[c] = "wait" /\ pc[Loop] = "exited"
    /\ closed' = TRUE
    /\ BeginFlush(c)
    /\ UNCHANGED <<opc, shards, collectorUp, ringVars, timerVars, ghostVars,
                   stop, ctxDone>>

\* Mutant: the drain loop looks at the ring only.
DrainOverWhenEmpty(c) == ring = <<>>

\* The drain loop's condition, negated.
DrainOver(c) == ring = <<>> \/ ctxDone[c]

\* The drain loop: send the oldest, or return ctx.Err().
ShutdownDrain(c) ==
    /\ pc[c] = "drain" /\ ~DrainOver(c)
    /\ BeginUpload(c)
    /\ UNCHANGED <<opc, shards, collectorUp, ringVars, timerVars, ghostVars,
                   lifeVars>>

ShutdownReturn(c) ==
    /\ pc[c] = "drain" /\ DrainOver(c)
    /\ Goto(c, IF ctxDone[c] THEN "expired" ELSE "shipped")
    /\ UNCHANGED <<opc, shards, collectorUp, ringVars, timerVars, ghostVars,
                   lifeVars, next, window, req, stamped>>

\* After drainFailed: ctx.Done() or drainRetryDelay, whichever comes first.
ShutdownResume(c) ==
    /\ pc[c] = "pause"
    /\ Goto(c, "drain")
    /\ UNCHANGED <<opc, shards, collectorUp, ringVars, timerVars, ghostVars,
                   lifeVars, next, window, req, stamped>>

CtxExpire(c) ==
    /\ InShutdown(c) /\ ~ctxDone[c]
    /\ ctxDone' = [ctxDone EXCEPT ![c] = TRUE]
    /\ UNCHANGED <<opc, shards, collectorUp, ringVars, timerVars, ghostVars,
                   closed, stop, localVars>>

CollectorFlips ==
    /\ collectorUp' = ~collectorUp
    /\ UNCHANGED <<opc, shards, ringVars, timerVars, ghostVars, lifeVars,
                   localVars>>
-----------------------------------------------------------------------------
Next ==
    \/ \E o \in Obs : ObserveEnter(o) \/ ObserveRecord(o)
    \/ FlushTick \/ Register \/ SelectFlush \/ SelectStop \/ SelectRetry
    \/ LoopPanic
    \/ \E a \in Agents : SwapShard(a) \/ EndFlush(a) \/ UploadOk(a) \/ UploadFail(a)
    \/ \E c \in Callers :
         \/ ShutdownCall(c) \/ ShutdownClose(c) \/ ShutdownDrain(c)
         \/ ShutdownReturn(c) \/ ShutdownResume(c) \/ CtxExpire(c)
    \/ CollectorFlips

Spec == Init /\ [][Next]_vars

(* Goroutines run when they can and timers elapse; Go's select picks among *)
(* the ready cases at random, so a case that is ready again and again is   *)
(* taken; an Upload returns (the HTTP client has a timeout); a Shutdown    *)
(* context carries a deadline.  Nothing is assumed of the collector.       *)
Fairness ==
    /\ \A o \in Obs : WF_vars(ObserveRecord(o))
    /\ WF_vars(Register) /\ WF_vars(FlushTick)
    /\ SF_vars(SelectFlush) /\ SF_vars(SelectStop) /\ SF_vars(SelectRetry)
    /\ \A a \in Agents : /\ WF_vars(SwapShard(a)) /\ WF_vars(EndFlush(a))
                         /\ WF_vars(UploadOk(a) \/ UploadFail(a))
    /\ \A c \in Callers : /\ WF_vars(ShutdownClose(c)) /\ WF_vars(ShutdownDrain(c))
                          /\ WF_vars(ShutdownReturn(c)) /\ WF_vars(ShutdownResume(c))
                          /\ WF_vars(CtxExpire(c))

FairSpec == Spec /\ Fairness
-----------------------------------------------------------------------------
Recorded   == {o \in Obs : opc[o] = "recorded"}
RingObs    == UNION {ring[i] : i \in 1..Len(ring)}
WindowObs  == UNION {window[a] : a \in Agents}
PcLabels   == {"register", "select", "swap", "upload", "exited", "idle",
               "wait", "drain", "pause", "shipped", "expired"}

TypeOK ==
    /\ opc \in [Obs -> {"idle", "entered", "recorded", "refused"}]
    /\ shards \subseteq Obs
    /\ ring \in Seq(SUBSET Obs) /\ Len(ring) <= Cap
    /\ dropped \in Nat /\ evictedSums \in Nat /\ reportedSums \in Nat
    /\ evicted \subseteq Obs /\ acked \subseteq Obs
    /\ flushTimer \in {"armed", "due", "idle"}
    /\ retry \in {Stopped} \cup 0..MaxBackoff
    /\ backoff \in BaseBackoff..MaxBackoff
    /\ failedLast \in BOOLEAN /\ closed \in BOOLEAN /\ stop \in BOOLEAN
    /\ collectorUp \in BOOLEAN
    /\ ctxDone \in [Callers -> BOOLEAN]
    /\ pc \in [Agents -> PcLabels]
    /\ next \in [Agents -> 1..(NumShards + 1)]
    /\ window \in [Agents -> SUBSET Obs]
    /\ req \in [Agents -> SUBSET Obs]
    /\ stamped \in [Agents -> Nat]

(* Every recorded observation is in exactly one place: a shard, a window   *)
(* being merged, a pending upload, or an upload that was acknowledged or   *)
(* evicted.  Swapping shard by shard under concurrent Observe calls, drop- *)
(* oldest, retries and the hand-over to Shutdown neither lose nor double   *)
(* one.                                                                    *)
Conservation ==
    /\ Recorded = shards \cup WindowObs \cup RingObs \cup acked \cup evicted
    /\ shards \cap (WindowObs \cup RingObs \cup acked \cup evicted) = {}
    /\ WindowObs \cap (RingObs \cup acked \cup evicted) = {}
    /\ RingObs \cap (acked \cup evicted) = {}
    /\ acked \cap evicted = {}
    /\ \A a, b \in Agents : a # b => window[a] \cap window[b] = {}
    /\ \A i, j \in 1..Len(ring) : i # j => ring[i] \cap ring[j] = {}

(* The uploader never sleeps on pending work and never wakes for nothing:  *)
(* while it selects or flushes, the retry timer is armed exactly when the  *)
(* ring holds an upload (so run's drainEmpty case is dead).                *)
RetryArmedIffPending ==
    pc[Loop] \in {"register", "select", "swap"} => (ring # <<>> <=> retry # Stopped)

(* The immediate kick after a flush never cuts a failure backoff short,    *)
(* and the delay in force is the one the backoff was doubled from.         *)
BackoffRespected ==
    failedLast /\ retry # Stopped => retry # 0 /\ backoff = NextBackoff(retry)

(* The retry timer is right from both sides: armed whenever an upload is   *)
(* pending, and after a failure never before the backoff.                  *)
RetriesOnTime == RetryArmedIffPending /\ BackoffRespected

(* dropped_summaries: what was evicted is what acknowledged envelopes have *)
(* reported plus what the counter still holds, and the unsigned            *)
(* subtraction of a stamp never borrows.                                   *)
DropsAccounted ==
    /\ evictedSums = dropped + reportedSums
    /\ \A a \in Agents : pc[a] = "upload" => stamped[a] <= dropped

(* Shutdown returning nil means every observation recorded by then was     *)
(* acknowledged or reported evicted (or died in a window a panic took).    *)
NilShutdownShipped ==
    HostQuiesces =>
        \A c \in Callers :
            pc[c] = "shipped" => Recorded \subseteq acked \cup evicted \cup window[Loop]

(* An upload leaves the ring only when it was acknowledged or evicted.     *)
(* tryDrainOldest peeks, sends and only then pops, and must pop what it    *)
(* sent.                                                                   *)
PopsWhatItSent == [][RingObs \subseteq RingObs' \cup acked' \cup evicted']_vars

(* "Bar further observations so late Records don't race the final drain":  *)
(* once Shutdown has returned nil no record is left in the shards.         *)
NoStrandedRecord == \A c \in Callers : pc[c] = "shipped" => shards = {}

(* "Once ctx expires it stops retrying and returns": no upload starts      *)
(* after the deadline of a Shutdown in progress.                           *)
NoUploadPastDeadline ==
    [][(\E c \in Callers : InShutdown(c) /\ ctxDone[c])
          => \A a \in Agents : pc[a] # "upload" => pc'[a] # "upload"]_vars

(* "a slow or down collector never blocks flushing new windows": a flush   *)
(* that is due never finds the uploader waiting for the collector.         *)
FlushNeverBlocked == ~(flushTimer = "due" /\ pc[Loop] = "upload")

(* Once the collector stays up, every recorded observation is acknowledged *)
(* or evicted, for as long as the uploader goroutine lives.                *)
EventuallySettled ==
    <>[]collectorUp /\ [](pc[Loop] # "exited") =>
        \A o \in Obs : opc[o] = "recorded" ~> o \in acked \cup evicted

(* Shutdown returns, whatever the collector does.                          *)
ShutdownReturns == \A c \in Callers : pc[c] = "wait" ~> pc[c] \in {"shipped", "expired"}
=============================================================================
