---------------------------- MODULE InFlightPeak ----------------------------
(***************************************************************************)
(* Recorder.BeginRequest and takeInFlightPeak: two atomic counters, the    *)
(* live in-flight count and the window's peak, without a lock.  Each       *)
(* atomic operation is a step.                                             *)
(***************************************************************************)
EXTENDS Integers, FiniteSets

CONSTANT Requests   \* goroutines serving requests, one after the other

ASSUME PeakAssumption == IsFiniteSet(Requests)

VARIABLES
    inFlight,   \* r.inFlight
    peak,       \* r.inFlightPeak
    req,        \* per goroutine: [pc, n, p]
    sampler,    \* takeInFlightPeak: [pc, live]
    fresh       \* requests in flight whose BeginRequest returned since the last Swap (history)

vars == <<inFlight, peak, req, sampler, fresh>>

Init ==
    /\ inFlight = 0 /\ peak = 0 /\ fresh = {}
    /\ req = [r \in Requests |-> [pc |-> "out", n |-> 0, p |-> 0]]
    /\ sampler = [pc |-> "idle", live |-> 0]

(* BeginRequest: n := r.inFlight.Add(1) *)
BeginAdd(r) ==
    /\ req[r].pc = "out"
    /\ inFlight' = inFlight + 1
    /\ req' = [req EXCEPT ![r] = [pc |-> "load", n |-> inFlight + 1, p |-> 0]]
    /\ UNCHANGED <<peak, sampler, fresh>>

\* p := r.inFlightPeak.Load(); done when n <= p
BeginLoad(r) ==
    /\ req[r].pc = "load"
    /\ IF req[r].n <= peak
       THEN req' = [req EXCEPT ![r].pc = "in"] /\ fresh' = fresh \cup {r}
       ELSE req' = [req EXCEPT ![r].pc = "cas", ![r].p = peak] /\ UNCHANGED fresh
    /\ UNCHANGED <<inFlight, peak, sampler>>

\* Mutant: a plain store instead of the compare-and-swap.
SwapsAlways(r) == TRUE

\* CompareAndSwap(p, n) finds the peak it loaded.
Swaps(r) == peak = req[r].p

BeginCAS(r) ==
    /\ req[r].pc = "cas"
    /\ IF Swaps(r)
       THEN /\ peak' = req[r].n
            /\ req' = [req EXCEPT ![r].pc = "in", ![r].p = 0]
            /\ fresh' = fresh \cup {r}
       ELSE /\ req' = [req EXCEPT ![r].pc = "load", ![r].p = 0]
            /\ UNCHANGED <<peak, fresh>>
    /\ UNCHANGED <<inFlight, sampler>>

\* Mutant: the returned function runs twice.
EndedTwice == inFlight - 2

\* The returned function lowers the count and leaves the peak alone.
Ended == inFlight - 1

(* The function BeginRequest returned: r.inFlight.Add(-1) *)
EndRequest(r) ==
    /\ req[r].pc = "in"
    /\ inFlight' = Ended
    /\ req' = [req EXCEPT ![r] = [pc |-> "out", n |-> 0, p |-> 0]]
    /\ fresh' = fresh \ {r}
    /\ UNCHANGED <<peak, sampler>>

(* takeInFlightPeak: r.inFlight.Load(), then r.inFlightPeak.Swap(...) *)
TakeLoad ==
    /\ sampler.pc = "idle"
    /\ sampler' = [pc |-> "swap", live |-> inFlight]
    /\ UNCHANGED <<inFlight, peak, req, fresh>>

TakeSwap ==
    /\ sampler.pc = "swap"
    /\ peak' = sampler.live
    /\ sampler' = [pc |-> "idle", live |-> 0]
    /\ fresh' = {}
    /\ UNCHANGED <<inFlight, req>>

Next ==
    \/ \E r \in Requests : BeginAdd(r) \/ BeginLoad(r) \/ BeginCAS(r) \/ EndRequest(r)
    \/ TakeLoad \/ TakeSwap

Spec == Init /\ [][Next]_vars
-----------------------------------------------------------------------------
N == Cardinality(Requests)

TypeOK ==
    /\ inFlight \in 0..N /\ peak \in 0..N
    /\ req \in [Requests -> [pc : {"out", "load", "cas", "in"}, n : 0..N, p : 0..N]]
    /\ sampler \in [pc : {"idle", "swap"}, live : 0..N]
    /\ fresh \subseteq Requests

(* No concurrent BeginRequest or sample loses a maximum: what a call saw   *)
(* as its concurrency is in the peak of the window it returned in.         *)
BegunAreCounted == \A r \in fresh : req[r].n <= peak

(* "so the next window starts from the live value rather than zero         *)
(* (avoiding a false dip while work is ongoing)": outside BeginRequest and *)
(* takeInFlightPeak the peak covers the requests in flight.                *)
NoFalseDip ==
    (sampler.pc = "idle" /\ \A r \in Requests : req[r].pc \in {"in", "out"}) => peak >= inFlight
=============================================================================
