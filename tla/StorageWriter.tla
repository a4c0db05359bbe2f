---------------------------- MODULE StorageWriter ----------------------------
(***************************************************************************)
(* storage.Writer: handlers enqueue rows onto two bounded channels, one    *)
(* batcher goroutine batches and inserts them into ClickHouse, Close       *)
(* drains.  A row is followed by where it is; the order of rows inside a   *)
(* channel or a batch is left out.  An insert that fails may still have    *)
(* been applied by ClickHouse (a lost answer, the insert timeout).         *)
(***************************************************************************)
EXTENDS Integers, Sequences, FiniteSets

CONSTANTS
    Rows,           \* rows, each handed to one Enqueue call
    StreamOf,       \* the stream of each row
    Untenanted,     \* the rows with the zero tenant.ID
    FlushRows,      \* cfg.FlushRows: threshold and channel capacity
    FinalAttempts   \* finalFlushAttempts

Summaries       == "summaries"
InstanceWindows == "instance_windows"
Streams         == {Summaries, InstanceWindows}

ASSUME WriterAssumption ==
    /\ IsFiniteSet(Rows)
    /\ StreamOf \in [Rows -> Streams]
    /\ Untenanted \subseteq Rows
    /\ FlushRows \in Nat \ {0}
    /\ FinalAttempts \in Nat \ {0}

VARIABLES
    loc,        \* where each row is
    copies,     \* how often ClickHouse has applied an insert with the row
    bpc,        \* batcher: "select", "drain", "final", "exited" or "killed"
    jobs,       \* streams the batcher is flushing before it goes on
    attempt,    \* attempt of the final flush
    closed,     \* the closed channel is closed
    closer,     \* the Close call: "idle", "waiting", "nil" or "expired"
    late        \* rows inside Enqueue when Close was called (history)

vars == <<loc, copies, bpc, jobs, attempt, closed, closer, late>>

Queued(s) == {r \in Rows : loc[r] = "queued" /\ StreamOf[r] = s}
Batch(s)  == {r \in Rows : loc[r] = "batch" /\ StreamOf[r] = s}
Move(set, l) == loc' = [r \in Rows |-> IF r \in set THEN l ELSE loc[r]]

(* newWriterWithConn *)
Init ==
    /\ loc = [r \in Rows |-> "idle"]
    /\ copies = [r \in Rows |-> 0]
    /\ bpc = "select" /\ jobs = <<>> /\ attempt = 1
    /\ closed = FALSE /\ closer = "idle" /\ late = {}
-----------------------------------------------------------------------------
(* Enqueue, EnqueueInstanceWindow: the tenant check and the first select. *)
EnqueueCheck(r) ==
    /\ loc[r] = "idle"
    /\ loc' = [loc EXCEPT ![r] = IF r \in Untenanted \/ closed THEN "refused" ELSE "checked"]
    /\ UNCHANGED <<copies, bpc, jobs, attempt, closed, closer, late>>

\* Second select, the send: ready while the channel has room.
EnqueueSend(r) ==
    /\ loc[r] = "checked"
    /\ Cardinality(Queued(StreamOf[r])) < FlushRows
    /\ loc' = [loc EXCEPT ![r] = "queued"]
    /\ UNCHANGED <<copies, bpc, jobs, attempt, closed, closer, late>>

\* Second select, the closed channel.
EnqueueRefused(r) ==
    /\ loc[r] = "checked" /\ closed
    /\ loc' = [loc EXCEPT ![r] = "refused"]
    /\ UNCHANGED <<copies, bpc, jobs, attempt, closed, closer, late>>
-----------------------------------------------------------------------------
\* Mutant: one row too many before the threshold flush.
AtThresholdLate(s) == Cardinality(Batch(s)) >= FlushRows

\* add, iwAdd: the batch reaches the threshold with the row being added.
AtThreshold(s) == Cardinality(Batch(s)) + 1 >= FlushRows

(* run and drain: receive a row and add it. *)
Receive(r) ==
    /\ bpc \in {"select", "drain"} /\ jobs = <<>>
    /\ loc[r] = "queued"
    /\ loc' = [loc EXCEPT ![r] = "batch"]
    /\ jobs' = IF AtThreshold(StreamOf[r]) THEN <<StreamOf[r]>> ELSE <<>>
    /\ UNCHANGED <<copies, bpc, attempt, closed, closer, late>>

\* Mutant: the ticker flushes the summaries only.
TickJobsSummariesOnly == <<Summaries>>

\* run: flush(), then iwFlush()
TickJobs == <<Summaries, InstanceWindows>>

(* run: the ticker's case *)
Tick ==
    /\ bpc = "select" /\ jobs = <<>>
    /\ jobs' = TickJobs
    /\ UNCHANGED <<loc, copies, bpc, attempt, closed, closer, late>>

(* run: the closed channel's case *)
StartDrain ==
    /\ bpc = "select" /\ jobs = <<>> /\ closed
    /\ bpc' = "drain"
    /\ UNCHANGED <<loc, copies, jobs, attempt, closed, closer, late>>

\* Mutant: drain looks at the summaries channel only.
ChannelsEmptySummariesOnly == Queued(Summaries) = {}

\* drain: default is taken when neither channel has a row.
ChannelsEmpty == Queued(Summaries) = {} /\ Queued(InstanceWindows) = {}

(* drain: finalFlush(), then iwFinalFlush() *)
StartFinalFlush ==
    /\ bpc = "drain" /\ jobs = <<>> /\ ChannelsEmpty
    /\ bpc' = "final"
    /\ jobs' = <<Summaries, InstanceWindows>>
    /\ UNCHANGED <<loc, copies, attempt, closed, closer, late>>

\* Mutant: the batcher never leaves its flush.
FlushDoneNever == jobs' = jobs /\ bpc' = bpc /\ attempt' = 1

\* The flush of the first stream in jobs is over; run returns after the last.
FlushDone ==
    /\ jobs' = Tail(jobs)
    /\ bpc' = IF bpc = "final" /\ Tail(jobs) = <<>> THEN "exited" ELSE bpc
    /\ attempt' = 1

\* flushBatch, finalFlushBatch: an empty batch is not inserted.
FlushNothing ==
    /\ jobs # <<>> /\ bpc \notin {"exited", "killed"} /\ Batch(Head(jobs)) = {}
    /\ FlushDone
    /\ UNCHANGED <<loc, copies, closed, closer, late>>

\* timedInsert returned nil.
InsertOk ==
    /\ jobs # <<>> /\ bpc \notin {"exited", "killed"} /\ Batch(Head(jobs)) # {}
    /\ Move(Batch(Head(jobs)), "stored")
    /\ copies' = [r \in Rows |-> IF r \in Batch(Head(jobs)) THEN copies[r] + 1 ELSE copies[r]]
    /\ FlushDone
    /\ UNCHANGED <<closed, closer, late>>

\* Mutant: the steady-state flush retries too.
RetriesAlways == attempt < FinalAttempts

\* Mutant: one attempt too many.
RetriesOnceMore == bpc = "final" /\ attempt <= FinalAttempts

\* Only finalFlushBatch tries again.
Retries == bpc = "final" /\ attempt < FinalAttempts

(* timedInsert returned an error: the steady flush drops the batch, the    *)
(* final one drops it after its last attempt.                              *)
InsertFail(applied) ==
    /\ jobs # <<>> /\ bpc \notin {"exited", "killed"} /\ Batch(Head(jobs)) # {}
    /\ copies' = [r \in Rows |-> IF applied /\ r \in Batch(Head(jobs))
                                 THEN copies[r] + 1 ELSE copies[r]]
    /\ IF Retries
       THEN attempt' = attempt + 1 /\ UNCHANGED <<loc, bpc, jobs>>
       ELSE Move(Batch(Head(jobs)), "dropped") /\ FlushDone
    /\ UNCHANGED <<closed, closer, late>>
-----------------------------------------------------------------------------
(* Close, up to its select *)
CloseCall ==
    /\ closer = "idle"
    /\ late' = {r \in Rows : loc[r] = "checked"}
    /\ closed' = TRUE
    /\ closer' = "waiting"
    /\ UNCHANGED <<loc, copies, bpc, jobs, attempt>>

CloseReturn ==
    /\ closer = "waiting" /\ bpc = "exited"
    /\ closer' = "nil"
    /\ UNCHANGED <<loc, copies, bpc, jobs, attempt, closed, late>>

\* The process ends, and the batcher with it.
Killed == bpc' = IF bpc = "exited" THEN bpc ELSE "killed"

(* Close gives up; the batcher goes on for as long as the process lives.   *)
CloseExpire ==
    /\ closer = "waiting"
    /\ closer' = "expired"
    /\ UNCHANGED <<loc, copies, bpc, jobs, attempt, closed, late>>

\* Serve returns, with Close returned or never called.
ProcessExit ==
    /\ closer # "waiting"
    /\ Killed
    /\ UNCHANGED <<loc, copies, jobs, attempt, closed, closer, late>>
-----------------------------------------------------------------------------
Next ==
    \/ \E r \in Rows : EnqueueCheck(r) \/ EnqueueSend(r) \/ EnqueueRefused(r) \/ Receive(r)
    \/ Tick \/ StartDrain \/ StartFinalFlush \/ FlushNothing \/ InsertOk
    \/ \E applied \in BOOLEAN : InsertFail(applied)
    \/ CloseCall \/ CloseReturn \/ CloseExpire \/ ProcessExit

Spec == Init /\ [][Next]_vars

Insert == InsertOk \/ \E applied \in BOOLEAN : InsertFail(applied)
-----------------------------------------------------------------------------
Locations == {"idle", "checked", "refused", "queued", "batch", "stored", "dropped"}

TypeOK ==
    /\ loc \in [Rows -> Locations]
    /\ copies \in [Rows -> 0..FinalAttempts]
    /\ bpc \in {"select", "drain", "final", "exited", "killed"}
    /\ jobs \in Seq(Streams) /\ Len(jobs) <= 2
    /\ attempt \in 1..FinalAttempts
    /\ closed \in BOOLEAN
    /\ closer \in {"idle", "waiting", "nil", "expired"} /\ late \subseteq Rows

(* Memory stays bounded whatever ClickHouse does: neither a channel nor a  *)
(* batch ever outgrows FlushRows, through drain and final flush included.  *)
BatchBounded ==
    \A s \in Streams : Cardinality(Queued(s)) <= FlushRows /\ Cardinality(Batch(s)) <= FlushRows

(* While the server runs, a row is inserted at most once, even when an     *)
(* insert was applied and its answer lost: only the close path retries.    *)
OnceWhileRunning == bpc \in {"select", "drain"} => \A r \in Rows : copies[r] <= 1

(* Close returning nil means every row whose Enqueue had returned met its  *)
(* insert: it is in ClickHouse or its batch failed and was dropped.  None  *)
(* is left behind.                                                         *)
CloseSettles ==
    closer = "nil" => \A r \in Rows \ late : loc[r] \notin {"checked", "queued", "batch"}

(* "Close drains and flushes remaining rows": once the batcher has exited  *)
(* no accepted row is left in a channel.                                   *)
NothingLeftBehind == bpc = "exited" => \A r \in Rows : loc[r] # "queued"
=============================================================================
