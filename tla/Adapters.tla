------------------------------ MODULE Adapters ------------------------------
(***************************************************************************)
(* The framework adapters (net/http, gin, echo, chi, beego): one request   *)
(* through BeginRequest, the host's handler, the reclassification and      *)
(* Observe, composed with the in-flight gauge and with the host's outbound *)
(* calls.  The handler writes to its framework's response in any order; it *)
(* returns, returns an error or panics, and its context may end at any     *)
(* moment.                                                                 *)
(***************************************************************************)
EXTENDS InFlightPeak, FiniteSetsExt

CONSTANTS
    Host,       \* per goroutine: its frameworks ("nethttp", "chi", "gin", "echo", "beego"), what its
                \* handlers write (Header(code), Write, Flush), their ends, outbound calls and causes
    Elapsed     \* measured durations of an outbound call

VARIABLES
    serving,    \* per goroutine: the request between Enter and its observation
    ctx,        \* per goroutine: context.Cause of the request's context
    calls,      \* per goroutine: outbound calls in progress and ended, and the accumulator
    observed    \* per goroutine: the record handed to Observe, or Unobserved

adapterVars == <<serving, ctx, calls, observed>>
allVars == <<vars, adapterVars>>

OK == 200
InternalServerError == 500
Live == "live"
AllCauses == {"canceled", "deadline", "other"}

Header(code) == [op |-> "header", code |-> code]
Write == [op |-> "write", code |-> 0]
Flush == [op |-> "flush", code |-> 0]
AllOps == {Header(code) : code \in 100..999} \cup {Write, Flush}
Frameworks == {"nethttp", "chi", "gin", "echo", "beego"}
Informational(code) == code \in 100..199 /\ code # 101

(* How a handler ends: it returns nil, an error with a status of its own   *)
(* (echo.HTTPError), another error, or panics; recovery middleware inside  *)
(* the adapter turns the panic into a 500, outside it the panic passes.    *)
HTTPError(code) == [how |-> "httpError", code |-> code]
AllEnds == {[how |-> h, code |-> 0] : h \in {"nil", "error", "recovered", "panic"}} \cup {HTTPError(code) : code \in 100..999}
Failed(e) == e.how \in {"httpError", "error"}

\* net/http panics on a status outside 100..999.
ASSUME AdapterAssumption ==
    /\ Elapsed \subseteq Int
    /\ \A r \in Requests :
          Host[r].frameworks \subseteq Frameworks /\ Host[r].ops \subseteq AllOps /\ Host[r].ends \subseteq AllEnds

(* net/http's own writer: the first final header is sent, Write and Flush  *)
(* send an implicit 200.                                                   *)
Sent(wire, o) ==
    IF wire # 0 \/ (o.op = "header" /\ Informational(o.code)) THEN wire
    ELSE IF o.op = "header" THEN o.code ELSE OK

(* A response: the status its writer holds, whether that writer takes the  *)
(* header for written, and what net/http has sent, 0 for nothing yet.      *)
Response(status, committed, wire) == [status |-> status, committed |-> committed, wire |-> wire]

\* Mutant: every WriteHeader overwrites the captured status.
CaptureLast(w, o) ==
    Response(IF o.op = "header" THEN o.code ELSE w.status, w.committed \/ o.op # "flush", Sent(w.wire, o))

(* adapterutil.ResponseWriter, of net/http and chi: WriteHeader, Write and *)
(* ReadFrom, Flush; each forwards to net/http.                             *)
Capture(w, o) ==
    Response(IF o.op = "header" /\ ~w.committed THEN o.code ELSE w.status,
             w.committed \/ o.op # "flush", Sent(w.wire, o))

(* gin holds a status back until Write, Flush or its engine sends it.      *)
HeaderNow(w) == IF w.committed THEN w.wire ELSE Sent(w.wire, Header(w.status))

ginWrites(w, o) ==
    IF o.op = "header" THEN Response(IF w.committed THEN w.status ELSE o.code, w.committed, w.wire)
    ELSE Response(w.status, TRUE, Sent(HeaderNow(w), o))

(* echo's response: WriteHeader and Write commit, Flush does not; a header *)
(* after that is swallowed.                                                *)
echoWrites(w, o) ==
    Response(IF o.op = "header" /\ ~w.committed THEN o.code ELSE w.status, w.committed \/ o.op # "flush",
             IF o.op = "header" /\ w.committed THEN w.wire ELSE Sent(w.wire, o))

\* beego's response: only an explicit header sets Status, the first one.
beegoWrites(w, o) ==
    Response(IF o.op = "header" /\ ~w.committed THEN o.code ELSE w.status, w.committed \/ o.op = "header",
             IF o.op = "header" /\ w.committed THEN w.wire ELSE Sent(w.wire, o))

Written(fw, w, o) ==
    CASE fw \in {"nethttp", "chi"} -> Capture(w, o)
      [] fw = "gin"   -> ginWrites(w, o)
      [] fw = "echo"  -> echoWrites(w, o)
      [] fw = "beego" -> beegoWrites(w, o)

\* WrapResponseWriter, and the frameworks' own
Wrapped(fw) == Response(IF fw = "beego" THEN 0 ELSE OK, FALSE, 0)

(* The header comes after something that went out and that the writer does *)
(* not notice: a flush, for beego a body too.                              *)
Unnoticed(w, o) == o.op = "header" /\ ~w.committed /\ w.wire # 0

\* statusFromError
StatusFromError(e) == IF e.how = "httpError" THEN e.code ELSE InternalServerError

\* The header recovery, or echo's error handler, writes once the handler is over.
LastHeader(fw, e) ==
    IF e.how = "recovered" THEN {Header(InternalServerError)}
    ELSE IF fw = "echo" /\ Failed(e) THEN {Header(StatusFromError(e))} ELSE {}

(* What the client receives in the end, gin's engine and net/http sending  *)
(* what is left to send.                                                   *)
WireStatus(fw, w, e) ==
    LET last == IF LastHeader(fw, e) = {} THEN w ELSE Written(fw, w, CHOOSE o \in LastHeader(fw, e) : TRUE)
        sent == IF fw = "gin" THEN HeaderNow(last) ELSE last.wire
    IN IF sent = 0 THEN OK ELSE sent

\* The response when the middleware reads it: recovery is done, echo's error handler is not.
Returned(fw, w, e) == IF e.how = "recovered" THEN Written(fw, w, Header(InternalServerError)) ELSE w

(* What each adapter reads once the handler has returned: a status, and    *)
(* whether there is an error label.  net/http and chi read the wrapper.    *)
nethttpReads(w, e) == [status |-> w.status, label |-> FALSE]

chiReads(w, e) == [status |-> w.status, label |-> FALSE]

\* gin reads its own writer, and lastErrorLabel.
ginReads(w, e) == [status |-> w.status, label |-> Failed(e)]

\* echo reads its response, or what its error handler will write for an
\* uncommitted error, and errorLabel.
echoReads(w, e) ==
    [status |-> IF Failed(e) /\ ~w.committed THEN StatusFromError(e) ELSE w.status, label |-> Failed(e)]

\* beego's Status, 0 for an implicit 200
beegoReads(w, e) == [status |-> IF w.status = 0 THEN OK ELSE w.status, label |-> FALSE]

Reads(fw, w, e) ==
    CASE fw = "nethttp" -> nethttpReads(w, e)
      [] fw = "chi"     -> chiReads(w, e)
      [] fw = "gin"     -> ginReads(w, e)
      [] fw = "echo"    -> echoReads(w, e)
      [] fw = "beego"   -> beegoReads(w, e)

\* adapterutil.ReclassifyNoStatus
ReclassifyNoStatus(cause, status) ==
    IF cause = Live THEN [status |-> status, reason |-> "unspecified"]
    ELSE [status |-> 0, reason |-> cause]
-----------------------------------------------------------------------------
Outside == [pc |-> "outside"]
Unobserved == [status |-> -1]
NoCalls == [open |-> {}, took |-> [c \in {} |-> 0], elapsed |-> 0]

AdaptersInit ==
    /\ Init
    /\ serving = [r \in Requests |-> Outside] /\ ctx = [r \in Requests |-> Live]
    /\ calls = [r \in Requests |-> NoCalls] /\ observed = [r \in Requests |-> Unobserved]

(* The middleware up to next: defer rec.BeginRequest()() (whose three      *)
(* atomic steps are InFlightPeak's), then WithDownstreamTracking.          *)
Enter(r, fw, routed) ==
    /\ req[r].pc = "in" /\ serving[r] = Outside
    /\ serving' = [serving EXCEPT ![r] = [pc |-> "handler", fw |-> fw, routed |-> routed,
                                              resp |-> Wrapped(fw), unnoticed |-> FALSE]]
    /\ ctx' = [ctx EXCEPT ![r] = Live]
    /\ calls' = [calls EXCEPT ![r] = NoCalls]
    /\ observed' = [observed EXCEPT ![r] = Unobserved]
    /\ UNCHANGED vars

\* The client goes away or the deadline fires, while the handler runs or after it.
ContextEnds(r, cause) ==
    /\ serving[r].pc \in {"handler", "observe"} /\ ctx[r] = Live
    /\ ctx' = [ctx EXCEPT ![r] = cause]
    /\ UNCHANGED <<vars, serving, calls, observed>>

\* RoundTrip starts in the handler or a goroutine it started ...
CallStart(r, c) ==
    /\ serving[r].pc = "handler"
    /\ c \notin calls[r].open \cup DOMAIN calls[r].took
    /\ calls' = [calls EXCEPT ![r].open = @ \cup {c}]
    /\ UNCHANGED <<vars, serving, ctx, observed>>

\* Mutant: the duration replaces the accumulator.
AddDownstreamLast(elapsed, d) == d

\* addDownstream: a duration that is not positive is ignored
AddDownstream(elapsed, d) == IF d <= 0 THEN elapsed ELSE elapsed + d

\* ... and adds what it measured to the accumulator, whatever it returned.
CallEnd(r, c, d) ==
    /\ c \in calls[r].open /\ serving[r].pc \in {"handler", "observe"}
    /\ calls' = [calls EXCEPT ![r] = [open |-> @.open \ {c},
                                      took |-> [x \in DOMAIN @.took \cup {c} |-> IF x = c THEN d ELSE @.took[x]],
                                      elapsed |-> AddDownstream(@.elapsed, d)]]
    /\ UNCHANGED <<vars, serving, ctx, observed>>

\* The handler writes to its response.
Respond(r, o) ==
    /\ serving[r].pc = "handler"
    /\ serving' = [serving EXCEPT ![r] =
          [pc |-> "handler", fw |-> @.fw, routed |-> @.routed,
           resp |-> Written(@.fw, @.resp, o), unnoticed |-> @.unnoticed \/ Unnoticed(@.resp, o)]]
    /\ UNCHANGED <<vars, ctx, calls, observed>>

(* next returns or panics; an unmatched route and a panic skip the rest.   *)
(* The response is final, so what the adapter reads off it is fixed here.  *)
HandlerEnds(r, e) ==
    /\ serving[r].pc = "handler"
    /\ LET fw == serving[r].fw
           w == serving[r].resp
           read == Reads(fw, Returned(fw, w, e), e)
       IN serving' = [serving EXCEPT ![r] =
            IF ~serving[r].routed \/ e.how = "panic" THEN [pc |-> "leave", panicked |-> e.how = "panic"]
            ELSE [pc |-> "observe", panicked |-> FALSE, status |-> read.status, label |-> read.label,
                  wire |-> WireStatus(fw, w, e),
                  unnoticed |-> @.unnoticed \/ \E o \in LastHeader(fw, e) : Unnoticed(w, o)]]
    /\ UNCHANGED <<vars, ctx, calls, observed>>

(* ReclassifyNoStatus, ParseTraceparent, ClampNonNegative and rec.Observe  *)
Observe(r) ==
    /\ serving[r].pc = "observe"
    /\ LET sent == ReclassifyNoStatus(ctx[r], serving[r].status)
       IN observed' = [observed EXCEPT ![r] =
            [status |-> sent.status, reason |-> sent.reason, label |-> serving[r].label,
             downstream |-> calls[r].elapsed, cause |-> ctx[r], took |-> calls[r].took]]
    /\ serving' = [serving EXCEPT ![r].pc = "leave"]
    /\ UNCHANGED <<vars, ctx, calls>>

\* Mutant: the gauge is lowered at the end of the body, not deferred.
LeavesIfReturned(r) == ~serving[r].panicked

\* The deferred function runs on every way out.
Leaves(r) == TRUE

Leave(r) ==
    /\ serving[r].pc = "leave"
    /\ IF Leaves(r) THEN EndRequest(r)
       ELSE /\ req' = [req EXCEPT ![r] = [pc |-> "out", n |-> 0, p |-> 0]]
            /\ fresh' = fresh \ {r}
            /\ UNCHANGED <<inFlight, peak, sampler>>
    /\ serving' = [serving EXCEPT ![r] = Outside]
    /\ calls' = [calls EXCEPT ![r] = NoCalls]
    /\ ctx' = [ctx EXCEPT ![r] = Live]
    /\ observed' = [observed EXCEPT ![r] = Unobserved]

AdaptersNext ==
    \/ \E r \in Requests : (BeginAdd(r) \/ BeginLoad(r) \/ BeginCAS(r)) /\ UNCHANGED adapterVars
    \/ (TakeLoad \/ TakeSwap) /\ UNCHANGED adapterVars
    \/ \E r \in Requests :
          \/ \E fw \in Host[r].frameworks, routed \in BOOLEAN : Enter(r, fw, routed)
          \/ \E cause \in Host[r].causes : ContextEnds(r, cause)
          \/ \E c \in Host[r].calls : CallStart(r, c) \/ \E d \in Elapsed : CallEnd(r, c, d)
          \/ \E o \in Host[r].ops : Respond(r, o)
          \/ \E e \in Host[r].ends : HandlerEnds(r, e)
    \/ \E r \in Requests : Observe(r) \/ Leave(r)

AdaptersSpec == AdaptersInit /\ [][AdaptersNext]_allVars
-----------------------------------------------------------------------------
(* Whatever the framework, a completed request is recorded under the       *)
(* status the client received, or under none exactly when its context had  *)
(* ended, with that cause as the reason.  Two cases are left out: a header *)
(* (a recovered panic's and an echo error's included) behind something     *)
(* already sent that the writer does not notice, and an early hint taken   *)
(* for the status.                                                         *)
RecordsWhatWasSent ==
    \A r \in Requests :
        LET o == observed[r]
            s == serving[r]
        IN o # Unobserved =>
              IF o.cause = Live
              THEN /\ o.reason = "unspecified"
                   /\ o.status = s.wire \/ s.unnoticed \/ Informational(o.status)
              ELSE o.status = 0 /\ o.reason = o.cause

(* "Later calls forward but do not overwrite the captured status, matching *)
(* net/http's superfluous WriteHeader behavior": the same when a response  *)
(* is streamed or an early hint sent before the header.                    *)
CapturesLikeNetHTTP ==
    \A r \in Requests :
        (observed[r] # Unobserved /\ observed[r].cause = Live) => observed[r].status = serving[r].wire

(* The gauge counts exactly the requests inside an adapter, panicking,     *)
(* aborted and unmatched ones included: nothing leaks a slot.              *)
InFlightExact == inFlight = Cardinality({r \in Requests : req[r].pc # "out"})

\* The positive durations of a set of ended calls, summed.
Waited(took) == MapThenSumSet(LAMBDA c : IF took[c] > 0 THEN took[c] ELSE 0, DOMAIN took)

(* The time waited on dependencies is the sum over the calls that ended    *)
(* before the observation, in whatever order they overlapped.              *)
DownstreamCounted ==
    \A r \in Requests : observed[r] # Unobserved =>
        observed[r].downstream = Waited(observed[r].took)

(* What is recorded of a request is what the client got and what the       *)
(* handler waited for, whichever adapter served it.                        *)
ObservedAsServed == RecordsWhatWasSent /\ DownstreamCounted
=============================================================================
