# mAPI-ng: TLA+ models, model checks and proofs

This directory holds specifications of mAPI-ng, the TLC configurations that check
them on small instances, and TLAPS proofs of their main invariants for every
instance. `PROJECT.json` maps every definition to the source lines it models and
lists runs, mutants, hazards and theorems.

## 1. The system

A Go **client library** (`src/client`) runs inside a host's HTTP server. Framework
adapters call `BeginRequest` and `Observe`; `Observe` adds a request to a per-series
sketch in one of several locked shards. One uploader goroutine swaps the shards out
every window, builds an upload, pushes it into a drop-oldest ring and sends the
ring's head to the collector with backoff. `Shutdown` stops the uploader and drains.

The Go **server** (`src/server`) authenticates an upload by its ingest key (a cached
Postgres lookup), applies the tenant's rate, payload and series-cardinality limits
(another cache over Postgres), converts summaries to rows and enqueues them. A batch
writer inserts them into ClickHouse, where materialised views roll them up. The web
part reads them back, from the tier that fits the range, and computes verdicts and
diagnoses. Members sign in through OAuth; organisations, members, keys and plan
limits live in Postgres.

| component | state | hard behaviour |
| --- | --- | --- |
| Recorder, ring | shards, ring, dropped counter, two timers, closed flag | requests, uploader and Shutdown interleave; failing collector; panic; wrap-around |
| In-flight gauge, adapters | two atomics; the response, context and outbound calls of a request | lock-free races; panics; contexts that end at any moment |
| Series, sketch, sampler | per-series maps, buckets, last readings | bounds, numeric edges |
| Key resolver | TTL cache over `ingest_keys` | read now, cached later; revocation |
| Limit cache, rate limiter | TTL cache, token buckets | re-tune and take are not atomic; plan changes |
| Cardinality guard | per-tenant last-seen map, frozen marks | expiry only on the tenant's own calls; moving cap |
| Ingest handler | none of its own | partial rejection; retries; late handlers; failing lookups |
| Storage writer | two channels, two batches, closed channel | ambiguous inserts, closing races, deadline |
| Server lifecycle | stage, schema, pool, budget | partial start-up, order of shutdown |
| Control store, sign-in, Setup | Postgres tables, cookies, forms | concurrent first logins, several tabs, lost commits, replicas |
| Data plane | raw and rollup tables | late rows, merges, expiry, tier boundaries |
| Dashboard | the visitor's URL and page | the clock moves between two reads; thresholds; rule order |

## 2. Modules

| module | models | state |
| --- | --- | --- |
| `Recorder` | `client/uploader.go`, `client/maping.go` | `opc` requests, `shards`, `ring`, `dropped`, `pc` of uploader and Shutdown calls, `flushTimer`, `retryTimer` |
| `Ring`, `DropOldestQueue` | `client/internal/buffer`; the queue it promises | `buf`, `head`, `count`; a sequence |
| `InFlightPeak` | `BeginRequest`, `takeInFlightPeak` | `inFlight`, `peak`, a program counter per goroutine |
| `Adapters` (extends it) | the five adapters, `adapterutil`, `downstream.go` | `serving`, `ctx`, `calls`, `observed` |
| `Aggregation`, `Sketch`, `StoredRows` | `series.go`, `sampler.go`, `buildRequest`; `ddsketch.go` and the server's reading of it; `convert.go`, `row.go` | operators |
| `ClientConfig` | `client/config.go`, `proto/token` | operators |
| `KeyResolver` | `server/internal/control/resolver.go` | `life` of each key, `resolutions`, `asking`, history `until` |
| `RateLimiter` | `guardrail/{limitcache,ratelimit}.go` | `plan`, `cache`, `limiter`, `call` |
| `CardinalityGuard`, `CardinalityNode` | `guardrail/cardinality.go`; with the history of what was let through | `tracked`, `frozenAt`; `allowedAt` |
| `Ingest` (extends it) | `ingest/handler.go` and the clients at its other end | `client`, `handler`, `limits`, `sinkOpen`, `rows`, `acked`, history `seen` of each call |
| `StorageWriter` | `storage/writer.go` | `loc` of each row, `copies` applied, `bpc`, `jobs`, `attempt`, `closed`, `closer` |
| `Server` (extends it) | `app/app.go` build, Serve and shutdown, the ClickHouse migrator | `stage`, `schema`, `pool` and the connections `lent`, `cancelled`, `spent` |
| `ControlStore`, `Portal` | the statements of `internal/control`; auth handlers, dev-login, Setup forms, development seeding | `orgs`, `members`, `keys`; `flows`, `state`, `session`, forms and booting replicas |
| `Rollups`, `Queries` | `migrations/clickhouse`, `storage/tier.go`; every query of `storage` | `ingested`, the tables of each tier, `now` |
| `Insight`, `Views`, `Login`, `Assembly` | verdict, memory, diagnosis; tables and breakdowns; cookies and identities; what a configuration serves to whom | operators |
| `Pages` | `web_range.go`, `web_detail.go`, the range controls | `clock`, `url`, `stage`, `page` |
| `RecorderProofs`, `QueryProofs` (rollups and queries, ring), `ServerProofs` (resolver, writer, server), `AdapterProofs` (rate limiter, gauge, adapters), `IngestProofs`, `AnswerProofs` (extends it), `PortalStepProofs`, `PortalProofs` (extends it) | TLAPS proofs | |
| `MC*` | instances for TLC | |

What is abstracted:

* **Recorder.** An observation is an identity with a series; a summary is a set of
  observations, so "lost" and "counted twice" are visible. Time is two timers that
  come due; a backoff is a number of units. An upload succeeds only while the
  collector is up. Each shard's swap is a step; so are the two halves of
  `Observe` (the check of `closed`, and recording under the lock). A panic in the
  uploader is a step, and takes with it a window already swapped out.
* **InFlightPeak, Adapters.** Every atomic operation is a step; the argument of `Swap`
  is evaluated before it, so `takeInFlightPeak` is two. A handler writes headers,
  bodies and flushes in any order and number, then ends (nil, an error, a panic that
  recovery middleware turns into a 500 or not). Each framework's response is its own
  operator: what its writer holds, whether it takes the header for written, and what
  net/http has sent. Those of gin, echo, beego and net/http are external. The response
  is fixed when the handler ends; the context is read later, when the record is made.
* **KeyResolver.** A token is a model value with the digest it decodes to, or none;
  two tokens may carry the same secret. The database is read at one step and the
  answer stored at a later one, at most `Latency` apart.
* **RateLimiter.** One tenant, because buckets and cache entries of different
  tenants share nothing but a map. Resolve, store, `SetLimit`, `SetBurst` (both under
  the mutex) and take (after it) are separate steps, so a take can meet a bucket with
  the new rate and the old burst. The bucket is `golang.org/x/time/rate`, external.
  A call takes at most `Span`.
* **CardinalityGuard.** `Allow` runs under one mutex and is one step, sweep, eviction
  of an emptied tenant, freeze and refresh included.
* **Ingest.** A client sends its oldest upload and waits; it may give up while the
  handler goes on, because the handler does not consult its context between
  summaries. The two limits lookups of an upload (payload, then cap) are separate
  steps and may answer differently or fail. Each summary is a step. Window ends are
  stamped when the upload is built, so a retry presents an old one. `seen` remembers
  the budgets the tenant had during a call and which of its lookups failed.
* **StorageWriter, Server.** A row is followed by where it is; order inside a channel
  or a batch is left out, since no property is about it. ClickHouse is external: an
  insert succeeds, fails, or fails having been applied. `Enqueue` is two steps, as
  its two selects are. The drain of handlers and writer shares one budget. The pool
  (pgx, external) lends connections to handlers and to the extensions' jobs, and its
  `Close` returns when all are back.
* **ControlStore, Portal.** Postgres statements of a transaction are steps at its
  default isolation level where two transactions can meet (first login, seeding).
  A commit or a response can be lost after it took effect. A MAC is the pair of key
  and payload. The deployment with providers starts seeded; the development one seeds
  as its replicas boot.
* **Rollups, Queries.** A stored row stands for the requests it sums, so that "counted
  twice" and "missing" are visible in every aggregate. A window may have ended up to
  `Skew` before or after the server's clock. Merges happen at any time. A query is a
  set expression over the tier it reads; LIMITs are left out.
* **Pure algorithms.** Latencies are bucket indices; rates are fractions; magnitudes
  are integers in the unit the thresholds need; wording is left out.

## 3. Runs

| run | instance | checks | states |
| --- | --- | --- | --- |
| `recorder` | 3 requests, 2 series in 2 shards, ring of 2, 2 Shutdown calls in turn, requests never stop, panics | `Conservation`, `RetriesOnTime`, `PopsWhatItSent` | 679 k |
| `recorder_live` | 3 requests, host stops first, 1 Shutdown, panics, fairness | `NilShutdownShipped`, `DropsAccounted`, `EventuallySettled`, `ShutdownReturns` | 67 k |
| `server` | 3 rows, threshold 2, 2 final attempts, 2 migration statements, 1 restart, a handler and a job that use the pool, fairness | `OnceWhileRunning`, `CloseSettles`, `StartsCleanly`, `DrainedInOrder`, `RowsSettle`, `SignalEnds` | 142 k |
| `writer_late` | Close racing Enqueue | `NothingLeftBehind`, violated | - |
| `in_flight_dip` | 3 goroutines and the sampler | `NoFalseDip`, violated | - |
| `key_resolver` | 2 calls, 4 tokens on 2 keys, TTLs 2 and 1, sweep always on | `StalenessBounded`, `FreshNeverEvicted` | 1.3 M |
| `rate_limiter` | 2 calls, 2 plans of which one suspended, 2 changes or errors | `SuspensionTakesEffect`, `NoTokenMinted` | 2.7 M |
| `adapters` | 2 goroutines, one through all five adapters with handlers of any length and outbound calls | `BegunAreCounted`, `InFlightExact`, `ObservedAsServed` | 1.4 M |
| `ingest` | 2 clients, any number of denials and failed lookups, 2 other faults (lost answers, plan changes, sink closing), cap 1 or 2, fairness | `ExistingKeepFlowing`, `AckedAccounted`, `CopiesExplained`, `LimitsHeld`, `Delivery` | 344 k |
| `portal` | 2 browsers, 3 flows, 3 subjects of 2 people, 2 replicas, 3 boots, 3 keys (2 in development) | `MembershipHolds`, `OnePersonOneOrg`, `OneDevOrg`, `LastFlowOnly`, `FormsActOnTheirTenant` | 3.4 M |
| `queries` | 2 rows up to 1 instant early or late, 6 instants across every tier's expiry | `AnswersExact`, `PanelsAgree` | 58 k |
| `calculations` | every input of each pure unit up to its bound; the ring; the range controls | `WindowsFaithful`, `MeasurementsAddUp`, `EndpointResolved`, `InsightSound`, `AccessSound`, `ControlsHold`, `PagesAgree`, `ImplementsQueue` | 126 k |

Some properties are conjunctions of named clauses, one statement per component:
`RetriesOnTime`, `StartsCleanly`, `RowsSettle`, `ObservedAsServed`,
`MembershipHolds`, `OneDevOrg`, `AnswersExact` and those of `calculations` except
`ImplementsQueue`. `PROJECT.json` lists one mutant per property, so one clause of
each conjunction; the mutated operators for the other clauses are kept in the
modules, before the definition each one replaces. Each
module's `TypeOK`, `BatchBounded` of the writer and `LiveSlotsOnly` of the ring are
proved and not part of a run.

**Bounds.** A ring of two is the smallest with both an eviction and an entry behind
the head; three requests fill it and overflow it. Two series in two shards make a
swap happen between two records. A threshold of two with three rows fills a channel
behind a batch being inserted. TTLs of 2 and 1 tell positive from negative entries,
and the clock runs past one expiry and the call that follows it. A sweep threshold
of 1 (4096 in the code) makes every store sweep. A cap moving between 1 and 2
freezes, expires and readmits; two faults let an answer be lost and the plan change
before its retry, and lookups fail any number of times. Three flows put two tabs in one browser beside one in the other; three
subjects with two spellings of an address are two providers of one person. Instants
are scaled so that each tier's bucket and retention ends inside the six. A handler's
writes need no bound: what its response can be is finite. `MaxTime`, `LastInstant`, `MaxChanges`,
`MaxFaults`, `MaxFlows`, `MaxKeys` and `MaxBoots` are bounds of the models; the code
has none.

**Deadlock** is checked in the recorder, adapters and in-flight runs. The server
exits, inputs of `calculations` are finished, and the others stop at a bound.

**Fairness.** Only where a run has a liveness property. Goroutines that can run do
(weak fairness of each process's steps); timers elapse. Go's `select` picks among
ready cases at random, so a case ready again and again is taken (strong fairness of
`SelectFlush`, `SelectStop`, `SelectRetry`, of receiving a row and of `StartDrain`).
An `Upload` and an insert return, because the HTTP client and the insert have
timeouts. A Shutdown context carries a deadline; so does the server's. In `ingest`
each client goes on sending or one of its handlers goes on stepping. Nothing is
assumed of the collector, of ClickHouse, of plans, of who holds a connection of the
pool or of the host calling anything: `EventuallySettled` has "the collector stays up
and the uploader lives" as its premise, `SignalEnds` "nobody keeps a connection for
ever", `Delivery` "from some time on the client's calls are no longer denied or given
up on"; its conclusion allows for a head that is, again and again, larger than the
plan.

## 4. Proofs

All theorems hold for every value of the constants that satisfies the named
assumption of the component's module.

* **`QueryProofs`** - of the data plane: `RollupsFaithful`, `QueriesAnswerExactly`, for any
  traffic, retentions and ranges, and any order of inserts, merges and expiries.
  `RollupsInv` says of each tier: a row stands for requests of its own tenant, series and
  bucket; a request whose bucket has not reached the TTL is in some row; no request is in
  two. It is stronger than the answers because a later merge or view needs the row's
  series and bucket, not just its total. `NestedWidths` (each width divides the next,
  `FloorNested`) is why a view over a rollup buckets as one over the raw rows would.
  That gives what a query may sum and what it must: everything its tier still has to
  keep. Over a retained range `AnswerAlike` then says that the rows a query selects and
  the requests it should show are the same requests in the same groups, which gives the
  totals, the breakdowns, the label counts and the downstream split; `DayDates` gives
  the dates of the operator's view.
  Of the ring: `RingNeverPins`, `RingImplementsQueue`. The inductive invariant is
  `TypeOK /\ LiveSlotsOnly`: the slots holding a request are exactly the `count`
  slots from `head` on. Slot arithmetic modulo the length is turned into one
  comparison and one subtraction first (`SlotWrap`), after which each step of the
  array maps to a step of `DropOldestQueue` with the same result.
* **`RecorderProofs`** - six theorems, under `SerialShutdowns`. `Base` says who owns
  the ring (the uploader until it exits, then the one Shutdown in progress) and that
  what is being sent is still the head, with the counter as stamped. On top of it,
  each inductive relative to `Base`: `Timers` (`RetriesOnTime`; needs a ring of at
  least two, which `ringCapacity` gives), `Counted` (`DropsAccounted`, and why the
  unsigned counter never borrows), `Placed` (`Conservation`) and `Emptied`
  (`NilShutdownShipped`, when the host stops first). `PopsWhatItSent` follows from
  `Base`. Ownership is why the strengthening is needed: popping the head after the
  call is right only if nobody else popped meanwhile.
* **`ServerProofs`** - of the key resolver: `ResolverTypes`, `ResolverKeepsFresh`,
  `ResolverStalenessBounded`. The code stamps an entry with the time of the store;
  `Dated` dates it by when its answer was last true, at most `Latency` earlier.
  Of the writer: `WriterTypes`, `WriterInsertsOnce`, `WriterBounded`,
  `WriterCloseSettles`. `Counted` bounds the copies of a batched row by the failed
  attempts of its own flush; `Bounded` says that a batch at the threshold is the one
  being flushed; `Closed` lists what is already empty at each stage of Close. The
  last needs `HandlersDone`: `Serve` closes the writer after `http.Server.Shutdown`.
  Of the process around it: `ServerRunsWriter` (every behaviour of the server is one
  of `StorageWriter`, so its theorems carry over: `ServerWriterHolds`),
  `ServerStartsCleanly` and `ServerDrainsInOrder`. `ServerInv` adds three facts to the
  writer's `Base`. `MigratedInOrder`: the applied migrations are 1, 2, ... up to
  where a boot stopped, also after a restart. `PoolByStage`: which stages hold the pool
  open, and that it is closed with every connection back. `Draining`: unless the shutdown budget was spent, the writer is closed with no
  handler left, and no handler's row is refused.
* **`AdapterProofs`** - of the rate limiter: `LimiterTypes`, `LimiterSuspends`, `LimiterMintsNothing`.
  `Since` is the last instant at which the store could answer with a positive budget;
  it only grows. `Stale` bounds how far past it such a budget lives in each place: a
  call that read it, the cache, a call that found it there, and the bucket a call is
  about to take from. The suspension then takes effect within the cache TTL and three
  calls. `Made` says that the calls that use the bucket find it made; on top of it
  granted plus remaining tokens never exceed one burst and one rate times the elapsed
  time, whatever the re-tunes, half-done ones included, in between. The argument needs the negative TTL to be at most the positive one (5 s and 30 s).
  Of the gauge, for any finite set of goroutines: `GaugeTypes`,
  `GaugeKeepsMaximum`. The count is the number of requests inside, a compare-and-swap
  that may still succeed raises the peak, and a fresh request's count is in the peak.
  Of the middlewares around it: `AdaptersRunGauge` (their steps on the counters are the
  gauge's), `AdaptersCountExactly` and `AdaptersObserveAsServed`. The last rests on
  `Faithful`, kept by whatever a handler writes (`WrittenFaithful`): the status a
  framework's response holds is the one the client was sent, but for an early hint and
  for a header the writer does not know to be late; and until the response is taken for
  written at most an implicit 200 went out, by gin nothing. `ReadsWhatWasSent` carries
  it over the handler's end to what the adapter reads. The waiting time is the sum over
  the calls that ended (`WaitedSums`, `WaitedGrows`): inductions, argued by a least
  counterexample, since the numbers are well founded (`NatInSet`, `SubsetsInSet`).
  `AdaptersInv` says of each request that what was observed, or will be when it ends,
  is what its handler did.
* **`IngestProofs`, `AnswerProofs`** - five theorems, for any clients, uploads, plans and handlers.
  `Guard` ties the working set to what was let through during the last TTL
  (`ExistingSeriesFlow`). `Flow` describes which upload a handler and its client are
  on; relative to it are inductive: `Limited` (a call has checked its upload against a
  budget the tenant had while the call ran, and holds the cap of one, unless its own
  lookup failed: `PlanLimitsHold`, an action property about the step that adds a series
  or stores a row), `Accounted` (a running handler's
  rejections are the missing summaries among those it has passed: `AnswersAccount`)
  and `Explained` (copies of a summary plus the handlers that will still store it are
  at most the attempts made: `CopiesAreExplained`). Handlers that outlive their
  client's wait are why the last must count the open ones.
* **`PortalStepProofs`, `PortalProofs`** - for any browsers, replicas, people and providers:
  `PortalMembershipHolds`, `PortalOnePersonOneOrg`, `PortalOneDevOrg`, and the action
  properties `PortalLastFlowOnly` and `PortalFormsActOnTheirTenant`. `PortalInv` is, next
  to the types: `FlowsTold` (a state belongs to one flow, and a cookie holds the last one
  its browser started, so the flow a callback uses up is that one), `Apart` (dev-login and the providers never meet in a deployment),
  `Membership` (what a callback between two of its statements and a session hold of a
  member is still true), `OnePerson` (two callbacks about to create an organisation for
  one email overlapped and are marked `raced`) and `OneDev` (one development key, of the
  organisation every replica that is up reports; dev-login means it too unless two
  replicas seeded at once). The last two are needed because each
  login and each boot is several statements with other requests in between; the proof
  follows a row from the lookup that missed it to the insert. `PortalAssumption`: a
  provider's subject is never dev-login's, and a browser signs in as known subjects.

Only model-checked: the liveness properties (fairness is out of the prover's reach);
`PanelsAgree` of `Queries`, whose panels are compared through sums over a set of groups,
an induction for each; `Pages`; and the pure algorithms of `calculations`, which are
checked against their reference definitions over bounded inputs.

## 5. Where the code and its comments part

Two runs are kept as counterexamples (the findings of `PROJECT.json`):

* `in_flight_dip`: a request that begins between the `Load` and the `Swap` of
  `takeInFlightPeak` is wiped from the next window's peak while it is served.
* `writer_late`: an `Enqueue` past its first check may send after the batcher has
  drained. It returns nil and the row is lost. `CloseSettles` shows that it takes a
  handler still running when Close is called.

Some statements of comments and documents are written as properties next to those
that hold. They are not part of a run; adding one to the cfg named shows its
counterexample. Those of a pure unit are operators, to be applied to its inputs.

| property | where | what happens |
| --- | --- | --- |
| `PopsWhatItSent` ("Idempotent") | `MCRecorder`, `SerialShutdowns = FALSE` | two overlapping Shutdown calls send the same head, and the second pops an upload nobody sent |
| `NoStrandedRecord` | `MCRecorder` | an Observe past its check records after the final swap |
| `NoUploadPastDeadline` | `MCRecorder` | `run` may choose a ready retry over the closed stop channel while Shutdown waits, past its deadline |
| `FlushNeverBlocked` | `MCRecorder` | a due flush waits for an Upload on the same goroutine |
| `RevokedWithinTTL` | `MCKeyResolver`, `Latency = 2` | a row read before the revocation and stored after it resolves for the TTL plus the rest of the lookup |
| `SuspendedDenied` | `MCRateLimiter` | the bucket is re-tuned with the old budget between a call's own re-tune and its take |
| `FrozenMeansFull` | `MCIngest` | the frozen mark outlives the room it stands for |
| `NoIdleResidue` | `MCIngest` | a tenant that stops sending is never swept |
| `RejectionsReturned` (failure-retry.md) | `MCIngest` | the limiter and the payload check refuse the whole call, with an error and no count |
| `CapturesLikeNetHTTP` | `MCAdapters` | a header behind a flush (for beego behind a body, for echo an error behind a flush) is recorded though 200 was sent; an early hint is recorded as the status |
| `JobsCancelledFirst` | `MCServer` | the background jobs' context is cancelled after the pool is closed |
| `SignalAlwaysEnds` (`app.go:41`) | `MCServer` | closing the pool waits for every connection, outside the budget and with the jobs still running |
| `StateCookieCleared` | `MCPortal` | the cookie is cleared after the response header was written |
| `NeverTwoOrgs` | `MCPortal` | two overlapping first logins of one person each create an organisation |
| `OnboardingSticks` (`dashboard.go:190`) | `MCQueries` | `HasAnySummary` is false again when the raw rows have expired |
| `RetainedIsVisible` (`server/README.md:16`) | `MCQueries` | a narrow range in the past reads the raw tier after its rows expired; an unaligned start misses its rollup bucket |
| `SummariesShipped` (`performance.go:31`) | `MCQueries` | raw rows with equal sort keys merge, and count as one summary |
| `LastIngestExact` (`usage.go:107`) | `MCQueries` | the last ingest is floored to midnight |
| `CPUWithinWindow` | `Aggregation` | a failed reading is 0, and the next window reports all CPU time since the start |
| `BucketsAgree` | `Sketch` | a bucket below the domain counts towards the rank and is skipped by the walk |
| `FlushOffersNoPan` | `Pages` | a preset range ends now and still offers to pan right, the clock having moved |
| `StepFitsTier` | `Pages` | for spans above two hours the chart's step is not a multiple of the tier's width |

Met while modelling, modelled as the code has it, and without a property:

* `query.go:39`, `dashboard.go:215`, `debug.go:238` and `view_detail.go:14` describe the
  error rate as 4xx + 5xx + no status; the SQL counts 5XX and NO_STATUS.
* A failed limits lookup resolves the limit it was for, cap or payload, to 0, which
  switches that check off for the call; `LimitsHeld` says that it lifts no other.
* `verdict.go:147` says of `errorSeverity` that the low-traffic gate screens out windows
  of fewer than 20 requests; 10 to 19 requests that all fail pass the gate and read
  Critical, which `InsightSound` states and a test expects.
* A class with requests may have a bar of 0.0% (`chrome.go:271`, one decimal) next to
  its latency row, and no latency row at all when that query failed (`web_detail.go`).
* An operating system that reports an empty host name gives an empty instance.
* In a fleet of two, no instance can exceed the median by the outlier's factor.
* A failed listener returns from `Serve` without draining, with the writer open.
* Two replicas seeding at once can create two development organisations; the key
  decides which one is used.
* The comment at `member.go:33` places the lookup outside the transaction.

## 6. Not modelled

* HTML, number formatting, chart geometry, the JSON and performance endpoints'
  layout, embedded documents: no state and no decision that a property is about.
* Generated wire code.
* The SQL text itself, which runs in ClickHouse and Postgres: each query is modelled
  by what it selects and groups by. Postgres migrations are data definitions.
* Reading `/proc` and runtime statistics; floating-point bucket boundaries of the
  sketch (a latency is its bucket); the arithmetic of cookie MACs, compression, TLS
  and HTTP framing.
* What a composing build puts behind the extension hooks: not in this repository.
* The example application and the traffic generator.
* Crashes of the host process: the recorder keeps its state in memory and nothing is
  recovered. Crashes of the server are modelled where something persists (schema,
  control store).
