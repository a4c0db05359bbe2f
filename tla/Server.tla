------------------------------- MODULE Server -------------------------------
(***************************************************************************)
(* The collector process: build opens the writer, applies the schema and   *)
(* opens the control-plane store, any of which may fail and be tried again *)
(* by a restart; Serve runs handlers and extension jobs until a signal,    *)
(* then drains the handlers and the writer within one budget shared by     *)
(* srv.Shutdown and writer.Close, and closes the pool, which waits for     *)
(* every connection lent.  The writer is StorageWriter.                    *)
(***************************************************************************)
EXTENDS StorageWriter

CONSTANTS
    Statements,     \* number of migration statements
    MaxRestarts,    \* bound on failed starts
    Asking,         \* rows whose handler asks the control plane before it enqueues
    Jobs            \* the extensions' background jobs that use the pool

ASSUME ServerAssumption ==
    Statements \in Nat /\ MaxRestarts \in Nat /\ Asking \subseteq Rows /\ Jobs \cap Rows = {}

VARIABLES
    stage,      \* a start: "open", "migrate", "store", "assemble", "failed"; then "serving", "shutdown", "close", "release", "exited"
    schema,     \* statements ClickHouse has applied, in order; it outlives the process
    next,       \* the next statement of this start
    pool,       \* the control-plane pool: "none", "open", "closing" or "closed"
    lent,       \* the handlers and jobs that hold one of its connections
    ready,      \* /healthz answers 200
    spent,      \* shutdownCtx has expired
    handling,   \* rows whose request was accepted
    cancelled,  \* cancelBg was called: the extensions' background jobs end
    restarts

serverVars == <<stage, schema, next, pool, lent, ready, spent, handling, cancelled, restarts>>
allVars == <<vars, serverVars>>

ServerInit ==
    /\ Init
    /\ stage = "open" /\ schema = <<>> /\ next = 1 /\ pool = "none" /\ lent = {} /\ ready = FALSE /\ spent = FALSE
    /\ handling = {} /\ cancelled = FALSE /\ restarts = 0

\* Before it serves, the process has no row to handle.
Alive == stage \in {"serving", "shutdown", "close", "release"}
-----------------------------------------------------------------------------
\* build: storage.NewWriter
OpenWriter(ok) ==
    /\ stage = "open" /\ stage' = IF ok THEN "migrate" ELSE "failed"
    /\ UNCHANGED <<vars, schema, next, pool, lent, ready, spent, handling, cancelled, restarts>>

\* Mutant: a statement that failed is skipped.
AppliedSkipping(ok) == next' = next + 1 /\ stage' = "migrate" /\ schema' = IF ok THEN Append(schema, next) ELSE schema

(* ApplyMigrations: the next statement, a no-op when a former start        *)
(* applied it; the first error ends the start, and the statement may have  *)
(* been applied all the same.                                              *)
Applied(ok) ==
    /\ schema' \in {IF next <= Len(schema) THEN schema ELSE Append(schema, next)}
                   \cup (IF ok THEN {} ELSE {schema})
    /\ IF ok THEN next' = next + 1 /\ UNCHANGED stage
             ELSE stage' = "failed" /\ UNCHANGED next

Migrate(ok) ==
    /\ stage = "migrate" /\ next <= Statements
    /\ Applied(ok)
    /\ UNCHANGED <<vars, pool, lent, ready, spent, handling, cancelled, restarts>>

Migrated ==
    /\ stage = "migrate" /\ next > Statements /\ stage' = "store"
    /\ UNCHANGED <<vars, schema, next, pool, lent, ready, spent, handling, cancelled, restarts>>

(* buildIngestWiring with a DSN: control.New and the development seeding   *)
(* close the pool themselves when they fail.                               *)
OpenStore(ok) ==
    /\ stage = "store"
    /\ stage' = IF ok THEN "assemble" ELSE "failed"
    /\ pool' = IF ok THEN "open" ELSE "closed"
    /\ UNCHANGED <<vars, schema, next, lent, ready, spent, handling, cancelled, restarts>>

\* Mutant: the early return does not release the pool.
ReleasedNot(ok) == pool

\* build: closeStore on every early return
Released(ok) == IF ok THEN pool ELSE "closed"

(* resolveControlPlane and assembleMux; startBackgroundJobs comes last.    *)
Assemble(ok) ==
    /\ stage = "assemble"
    /\ stage' = IF ok THEN "serving" ELSE "failed"
    /\ pool' = Released(ok) /\ ready' = ok
    /\ restarts' = IF ok THEN 0 ELSE restarts
    /\ UNCHANGED <<vars, schema, next, lent, spent, handling, cancelled>>

\* main: os.Exit(1), and the supervisor starts the server again
Restart ==
    /\ stage = "failed" /\ restarts < MaxRestarts
    /\ stage' = "open" /\ next' = 1 /\ pool' = "none" /\ restarts' = restarts + 1
    /\ UNCHANGED <<vars, schema, lent, ready, spent, handling, cancelled>>
-----------------------------------------------------------------------------
\* ListenAndServe accepts a request that will enqueue r.
Accept(r) ==
    /\ stage = "serving" /\ r \notin handling
    /\ handling' = handling \cup {r}
    /\ UNCHANGED <<vars, stage, schema, next, pool, lent, ready, spent, cancelled, restarts>>

\* Serve: the listener fails; nothing is drained
ListenError ==
    /\ stage = "serving" /\ stage' = "exited" /\ cancelled' = TRUE
    /\ ProcessExit
    /\ UNCHANGED <<schema, next, pool, lent, ready, spent, handling, restarts>>

\* Serve: ready.Store(false), and srv.Shutdown closes the listener
Signal ==
    /\ stage = "serving" /\ stage' = "shutdown" /\ ready' = FALSE
    /\ UNCHANGED <<vars, schema, next, pool, lent, spent, handling, cancelled, restarts>>

\* shutdownTimeout elapses
Expire ==
    /\ stage \in {"shutdown", "close"} /\ ~spent /\ spent' = TRUE
    /\ UNCHANGED <<vars, stage, schema, next, pool, lent, ready, handling, cancelled, restarts>>

Busy == {r \in handling : loc[r] \in {"idle", "checked"}}

\* Mutant: Shutdown stops listening and does not wait.
ShutsDownAtOnce == TRUE

\* Mutant: Shutdown is given a context without a deadline.
ShutsDownIdleOnly == Busy = {}

\* srv.Shutdown returns once every handler has, or with the context's error.
ShutsDown == Busy = {} \/ spent

(* srv.Shutdown returns, and writer.Close is called with the same context. *)
ShutdownReturn ==
    /\ stage = "shutdown" /\ ShutsDown
    /\ CloseCall
    /\ stage' = "close"
    /\ UNCHANGED <<schema, next, pool, lent, ready, spent, handling, cancelled, restarts>>

(* writer.Close returns, and closeStore closes the pool to new requests    *)
(* for a connection.                                                       *)
CloseStore ==
    /\ stage = "close" /\ (CloseReturn \/ (spent /\ CloseExpire))
    /\ stage' = "release" /\ pool' = "closing"
    /\ UNCHANGED <<schema, next, lent, ready, spent, handling, cancelled, restarts>>

(* pgxpool.Close returns once every connection is back, whatever the       *)
(* budget; then the deferred cancelBg, and main returns: what is left of   *)
(* the batcher and the handlers ends there.                                *)
Return ==
    /\ stage = "release" /\ lent = {}
    /\ ProcessExit
    /\ stage' = "exited" /\ pool' = "closed" /\ cancelled' = TRUE
    /\ UNCHANGED <<schema, next, lent, ready, spent, handling, restarts>>

(* A handler on its way to Enqueue resolves a key or a plan; a job asks    *)
(* for as long as its context is not cancelled, that is, until Serve       *)
(* returns.                                                                *)
Borrowers == {r \in Busy \cap Asking : loc[r] = "idle"} \cup Jobs

Borrow(b) ==
    /\ Alive /\ pool = "open" /\ b \in Borrowers \ lent
    /\ lent' = lent \cup {b}
    /\ UNCHANGED <<vars, stage, schema, next, pool, ready, spent, handling, cancelled, restarts>>

GiveBack(b) ==
    /\ Alive /\ b \in lent
    /\ lent' = lent \ {b}
    /\ UNCHANGED <<vars, stage, schema, next, pool, ready, spent, handling, cancelled, restarts>>

Batcher == Tick \/ StartDrain \/ StartFinalFlush \/ FlushNothing \/ Insert \/ \E r \in Rows : Receive(r)
Handler(r) == r \in handling \ lent /\ (EnqueueCheck(r) \/ EnqueueSend(r) \/ EnqueueRefused(r))

Boot == Migrated \/ \E ok \in BOOLEAN : OpenWriter(ok) \/ Migrate(ok) \/ OpenStore(ok) \/ Assemble(ok)

ServerNext ==
    \/ Boot \/ Restart
    \/ Signal \/ ListenError \/ Expire \/ ShutdownReturn \/ CloseStore \/ Return
    \/ \E r \in Rows : Accept(r)
    \/ \E b \in Asking \cup Jobs : Borrow(b) \/ GiveBack(b)
    \/ Alive /\ (Batcher \/ \E r \in Rows : Handler(r)) /\ UNCHANGED serverVars

ServerSpec == ServerInit /\ [][ServerNext]_allVars

(* The batcher runs and its inserts end (InsertTimeout); its select picks  *)
(* among its ready cases at random; a handler inside Enqueue runs, but one *)
(* that has not got there may take for ever, and nothing is assumed of who *)
(* holds a connection of the pool; the budget is a timer.                  *)
ServerFairSpec ==
    /\ ServerSpec
    /\ \A r \in Rows : WF_allVars(Alive /\ (EnqueueSend(r) \/ EnqueueRefused(r)) /\ UNCHANGED serverVars)
    /\ SF_allVars(Alive /\ (\E r \in Rows : Receive(r)) /\ UNCHANGED serverVars)
    /\ SF_allVars(Alive /\ StartDrain /\ UNCHANGED serverVars)
    /\ WF_allVars(Alive /\ (Tick \/ StartFinalFlush \/ FlushNothing \/ Insert) /\ UNCHANGED serverVars)
    /\ WF_allVars(Expire) /\ WF_allVars(ShutdownReturn)
    /\ WF_allVars(CloseStore) /\ WF_allVars(Return)
-----------------------------------------------------------------------------
(* The collector serves only on a complete schema, applied in order,       *)
(* however many starts failed half-way through the migrations.             *)
ServesCompleteSchema ==
    /\ schema = [i \in 1..Len(schema) |-> i]
    /\ Alive => Len(schema) = Statements

(* "called on every early-return below and once at shutdown": no way out   *)
(* but a failed listener leaves the pool open; none closes it with a       *)
(* connection lent, or under a handler that the budget gave time to        *)
(* finish.                                                                 *)
PoolReleased ==
    /\ stage = "failed" => pool # "open"
    /\ stage = "exited" /\ closed => pool = "closed"
    /\ pool = "closed" => lent = {}
    /\ pool \in {"closing", "closed"} /\ ~spent => Busy = {}

(* However often a start fails, at whichever step, the collector serves    *)
(* only on a complete schema and never leaves a pool behind.               *)
StartsCleanly == ServesCompleteSchema /\ PoolReleased

(* Handlers refuse rows only once the probe answers 503, and lose none of  *)
(* an accepted request while the budget lasts.                             *)
DrainedInOrder ==
    /\ \A r \in Rows \ Untenanted : loc[r] = "refused" => ~ready
    /\ ~spent => late = {} /\ \A r \in Rows \ Untenanted : loc[r] # "refused"

(* "cancelled on shutdown so every goroutine exits before the pool         *)
(* closes": the jobs' context is cancelled by the time the pool closes.    *)
JobsCancelledFirst == [][Alive /\ pool' = "closed" => cancelled]_allVars

(* "It never blocks indefinitely": an Enqueue past its check returns.      *)
EnqueueReturns ==
    \A r \in Rows : loc[r] = "checked" ~> (loc[r] # "checked" \/ stage = "exited")

(* An accepted row is inserted or dropped for as long as there is a        *)
(* batcher, with no further row arriving to fill its batch.                *)
AcceptedSettles ==
    \A r \in Rows :
        loc[r] = "queued" ~> (loc[r] \in {"stored", "dropped"} \/ bpc = "exited" \/ stage = "exited")

(* No row waits for ever: neither the handler that sends it nor, once      *)
(* accepted, the row itself.                                               *)
RowsSettle == EnqueueReturns /\ AcceptedSettles

(* A signal ends the process, with handlers stuck and ClickHouse failing,  *)
(* provided nobody keeps a connection of the pool for ever: the budget     *)
(* covers srv.Shutdown and writer.Close and not closeStore.                *)
SignalEnds ==
    (\A b \in Asking \cup Jobs : []<>(b \notin lent)) => (stage = "shutdown" ~> stage = "exited")

(* "shutdownTimeout bounds graceful drain on SIGTERM/SIGINT": a signal     *)
(* ends the process, whoever holds a connection.                           *)
SignalAlwaysEnds == stage = "shutdown" ~> stage = "exited"
=============================================================================
