# TLA+ models and proofs for event-tracking-service

The service takes tracking events over HTTP, appends them to a Redis list, and
a scheduled job moves them in batches from the list to a Postgres table, with a
second Redis list for what it cannot store. This directory holds the models of
that path, of one request's way through the HTTP surface and of the data it
carries, of the scheduler's distributed lock, of the process's start and stop
and of its telemetry, the TLC runs that check them, and the TLAPS proofs of what
holds for every value of the constants.

Paths below are relative to the repository; `event_buffer.go` and the like are in
`internal/`, `pkg/` or at the root, as `PROJECT.json` spells out.

## 1. The system

| Component | State | Operations | Talks to |
|---|---|---|---|
| Tracking event handler (`handlers/tracking_event_handler.go`) | none | `Create`, `CreateBatch`: bind and validate, enrich, strip, push, answer 200, 422 or 500 | event buffer |
| Event buffer (`services/event_buffer.go`) | two Redis lists, shared by all instances | `Push`, `PushBatch` (RPUSH), `PopBatch` (LRANGE then LTRIM in one pipeline), `PushDeadLetter`, `QueueSize`, `DeadLetterSize` | Redis |
| Event processor (`services/event_processor.go`) | a batch in memory, an attempt counter | `ProcessQueue` (loop until empty, expired or failing), `insertWithRetry`, `sendToDeadLetter` | buffer, repository |
| Repository and models (`repositories/`, `models/`) | the table, in Postgres | `BulkInsert` in one transaction; `BeforeCreate` gives ids once | Postgres |
| Scheduler (`scheduler/scheduler.go`) | one timer per instance, one Redis key shared by all | register, start, stop; a tick takes the key or is skipped | Redis, processor |
| Startup and shutdown (`main.go`, `httpserver/`) | listener, quit channel, deferred calls | connect, start the scheduler, serve, drain, stop, close, flush; `Fatal` skips the deferred calls | everything |
| Connections (`pkg/database`) | a Postgres and a Redis pool; the HTTP server opens a second, unused pair | open, close | Postgres, Redis |
| Observability (`pkg/observe`) | logger, tracer, Sentry, a list of closers | `Init`, `Shutdown` | collectors |
| SigNoz logger (`pkg/logger`) | exporter, processor and provider, built on first use | `CreateSigNozLogger`, `Close` (called by nothing) | a collector |
| HTTP surface (`httpserver`, `middleware`, monitoring, health, docs, `observe`'s middlewares) | per request: body, context, status | middleware chain, routing, API key, answers, recovery from panics, queue statistics | handlers, buffer, observability |
| Configuration (`config/`, `pkg/common/common.go`) | environment variables | read once | |
| JSON column type (`pkg/common/json_type.go`) | none | map to and from jsonb | |

Processes and what they share: every handler is a goroutine, every run of the job
is one too, and there may be several instances of the service. They share nothing
in memory that matters; they meet in the two lists, in the table and in the
lock's key. A batch that was popped exists only in the memory of its run.

What is hard about it: Redis pipelines are not transactions, so other clients'
commands run between two commands of one pipeline; go-redis sends a pipeline
again when its replies are lost; a commit may go unanswered; the lock's time to
live is shorter than a run may be; a run looks at its context only between
batches; `os.Exit` and the end of `sched.Stop`'s patience cut a run with a batch
in hand; telemetry waits in queues when `main()` returns; a middleware reads the
body before the handler, and a panic unwinds through two registrations of the
same middlewares; numbers pass through `float64`. `PROJECT.json` lists
each of these as a hazard at its line, with the properties that cover it.

What makes each component correct:

* *buffer and processor*: no event whose request was answered 200 is lost; no
  event is stored twice; the events of a request keep their order; what is
  refused leaves nothing behind; what is a dead letter is not a row; every
  acknowledged event is settled in the end;
* *scheduler*: runs exclude each other or, where the lock's settings do not
  allow that, their overlap is bounded; the job never stops for good;
* *startup and shutdown*: nobody uses a pool that is closed, the way down has a
  bound, and a stop that lets runs end loses nothing;
* *HTTP surface*: every request is answered and logged once and, after a panic,
  reported once where Sentry has a client; its own body decides whether it is
  refused;
* *event data*: a row holds what the client sent, except what the code means to
  replace or remove; a dead letter can be replayed;
* *telemetry*: a clean return leaves nothing in a queue; a sink that cannot be
  started is replaced or left out.

## 2. Modules

| Module | What it is |
|---|---|
| `RedisList` | LRANGE and LTRIM as Redis defines them, negative indices included. External: go-redis passes them on unchanged. |
| `EventPipeline` | Handlers, runs, lists, table and lock key, one action per Redis command, insert attempt or loop step. |
| `DeliveryContract` | The abstract specification: per event `absent`, `buffered`, `taken`, `stored` or `dead`, with progress; no batches, retries or locks. |
| `PipelineRefinement` | `EventPipeline` plus the refinement mapping; `KeepsContract` is the contract under it. |
| `Monitoring` | `EventPipeline` plus queue-stats requests that read the two lists beside it, behind the API key. |
| `EventRecord` | What decoding, enriching, stripping, encoding, transforming and storing do to the data of one event, as operators. |
| `RequestPath` | One request through gin's chain and its handler, and the run that stores its events, with the data of `EventRecord`. |
| `MCEventPipeline`, `MCMonitoring`, `MCRequestPath` | Small sets of requests and of JSON bodies, and the symmetry of runs, for TLC. |
| `SchedulerLock` | Timers, lock and runs of several instances in discrete time. |
| `ServerLifecycle` | One process from `main()` to its exit and the next one, in discrete time. |
| `Telemetry` | What `observe.Init` starts, the queues behind it and `Observability.Shutdown`. |
| `EventPipelineProofs` | Theorems about the list commands and the pipeline: types, no loss, exclusion, refusals, what one step can lose. |
| `OnceProofs`, `DeliveryProofs` | More about the pipeline: nothing is stored twice; requests keep their order, and every step is one of `DeliveryContract`. Each builds on the one before it. |
| `RequestPathProofs`, `MonitoringProofs`, `SchedulerLockProofs`, `ServerLifecycleProofs`, `TelemetryProofs` | The theorems about the module they are named after, and their proofs. `MonitoringProofs` uses `OnceProofs`. |

`EventPipeline` EXTENDS `RedisList`; `Monitoring` EXTENDS `EventPipeline` and adds
its own steps to the pipeline's; `PipelineRefinement` instantiates
`DeliveryContract` with `stage` and `acked` computed from the pipeline's
variables. `RequestPath` EXTENDS `EventRecord`; it has one request and concrete
events where `EventPipeline` has many requests and abstract events. `SchedulerLock` and `ServerLifecycle` look at the same runs in time:
the pipeline's fault "ttl" is what `SchedulerLock` shows to be possible, and its
"kill" is what `ServerLifecycle` does in `Exit`.

### EventPipeline and the code

| Model | Code |
|---|---|
| `queue`, `dead`, `rows` | the lists at `queueKey` and `deadKey`, the table |
| `lock` (`NoRun`, a run, or `Orphan`) | redislock's key: absent, holding a live run's value, or a value nobody will unlock |
| `resp`, `sent`, `resent` | a handler's progress; RPUSHes executed; how often go-redis sent the pipeline again |
| `pc`, `raw`, `batch`, `attempt`, `expired` | where a run is in `ProcessQueue`, LRANGE's reply, the decoded events, `insertWithRetry`'s counter, `ctx.Err()` |
| `landed` | rows with the ids that the batch's models got on the first attempt are in the table |
| `trim` | Redis has received a run's LTRIM and not executed it |
| `Bind`, `PushCommand`, `PushReply`, `PushError`, `PushAgain`, `KillHandler` | `Create` and `CreateBatch`; a request of one event stands for `Create` |
| `Tick`, `QueueSize`, `LoopExpired` | `processEventQueue`, LLEN with its two early returns, the loop head |
| `ExecLRange`, `ExecLTrim`, `PopReply`, `PopError`, `PopAgain` | `PopBatch`'s pipeline at the server and at the client |
| `DecodeEntry`, `DecodeDone` | the decoding loop, `len(events) == 0`, `transformEvents` |
| `InsertOk`, `InsertFail`, `InsertLost`, `GiveUp`, `Bury` | `BulkInsert`, `insertWithRetry`, `sendToDeadLetter` |
| `Timeout`, `Kill`, `LockExpire` | ProcessTimeout, the end of the process, the key's expiry |

`Faults` says what the environment may do, so that each run can name exactly the
conditions its claim needs: `split`, `redis`, `resend`, `db`, `commit`,
`deadline`, `ttl`, `kill`.

Details worth knowing. Retries insert the same Go values, `BeforeCreate` gives
an id only to a model that has none, and the primary key therefore rejects what
an unanswered commit has stored: `KeysClash`. go-redis sends any command again
whose reply it does not get: `PushAgain` and `Bury` ("resend") for RPUSH,
`PopAgain` ("redis") for the pop. `lastErr` is nil when the retry
loop's body never ran: `Failed`. Dead letters are pushed with
`context.Background()`, so a timeout does not stop them. A dead context makes
go-redis and GORM fail before they send anything.

### Monitoring, EventRecord and RequestPath

`Monitoring`: `Ask` is `RequiredApiKeyInternal` with its two early returns,
`ReadSize` one LLEN, which may fail and then counts as -1, `ReplyStats` the
answer. `waiting` remembers which entries were in the lists when the handler began.

`EventRecord`: a JSON object is a function from names to values; a value is a
number, a string, an object or `Null`. `Unmarshals` and `Unmarshal` are
`json.Unmarshal` into the DTO (a name that is missing and a null are the same, a
number in a map becomes the nearest float64, one in an `int64` field does not),
`Marshal` is its inverse with `omitempty`, `Required` the validator's tags. `Float64`
rounds half to even as IEEE 754 does, scaled to a small `Exact` for TLC; it is
defined up to twice `Exact`, and `IsText` keeps the numbers inside objects in that
range (ids, which stay integers, may be larger). An object in `properties` has
leaves only. JSON's
fractions, escapes, duplicate names and Go's case-insensitive matching of names
are left out, and so is the field `screen`, which has the tags and the column
type of `event`.

`RequestPath`: `conf` holds both what the configuration asks for (`sentry`,
`tracing`) and what `observe.Init` could start (`client`, `provider`), since a
failed start is only a warning. The middlewares are registered from the former;
sentrygin reports through the latter's client and otelgin's span is valid only
with the latter's provider. `captured` counts what is handed to the client;
Sentry's own sampling is left out. `Chain` is the list of handlers gin calls, in
the order in which `New` and `registerMiddleware` register them for this
configuration and route; `at` and `way` say which one is entered, left or
unwound. `Enter...` is what a middleware does before `c.Next()`, `Leave` what it
does after it, `Unwind` and `Recover` what its deferred functions do in a panic.
`Bind`, `Push` and `Accept` are the two event handlers, `Serve` all others;
`Panic` is a panic before a handler has answered. `Pop` and `Settle` are a run,
without the interleavings that `EventPipeline` has.

### SchedulerLock, ServerLifecycle and Telemetry

`SchedulerLock`: `until` is an instance's timer, `ttl` the key's time to live,
`age` and `busy` a run's age and the rest of its batch. `Fire` is a tick with
`WithTries(1)`, which is skipped when the key is there or Redis fails, and may
set the key without starting a run when the SET's reply is lost; `NextBatch` is
the loop head, `Done` the return and the unlock that deletes only the run's own
value, `Crash` and `Restart` an instance. An instance may have more than one
run, since gocron plans the next tick before it starts a job.

`ServerLifecycle`: `at` is where `main()` is, `timer` the timeout it waits
under, `pools` the pools that main's deferred `Close` closes (Postgres first).
The handlers push through main's buffer and therefore main's Redis pool, not
through the pair `StartHTTPServer` opens for itself. `DrainTimeout` is the
smaller of two nested contexts. `Exit` is every end of the process; `rough` remembers
that an exit or the end of `sched.Stop`'s timeout cut a run.

`Telemetry`: `cfg` ranges over all combinations of channel, protocol, batching,
tracing and Sentry; `open` are the sinks started and not shut down, `closers` is
`Observability.shutdowns`. The double-checked locks in `signoz.go` are left out
because only main's goroutine calls those methods.

## 3. Runs

| Run | Instance | Shows |
|---|---|---|
| `pipeline_faulty` | 3 requests (a batch of two, one event, a batch with an invalid event), an undecodable entry, 2 run slots, batch size 2, 2 attempts; faults `split redis db commit deadline kill`; 2.4 million states | `TypeOK`, `OneActiveRun`, `AtMostOnce`, `InOrder`, `RefusedWhole`, `LossIsOneBatch`, `DeadOnlyIfUnanswered` |
| `pipeline_lossless` | a batch of two and an undecodable entry, overlapping runs; `resend db deadline ttl`, so that pushes and dead letters may be sent twice; 3.0 million states | `NoLoss` |
| `pipeline_split` | `Monitoring`: 2 requests, an undecodable entry, batch size 1, so that batches are full, and queue-stats requests with three keys; `split db deadline`; 4.1 million states | `FullBatchLosesNothing`, `DeadMeansNotStored`, `StatsMissNothing` |
| `request_path` | every route, Sentry and tracing off, started, and enabled but not started, 11 event bodies alone and in pairs, whole and cut off, batches of 0 to 3 with a maximum of 2; float64 exact up to 8 | `TypeOK`, `PanicIsReported`, `LoggedOnce`, `BodyDecides`, `RowsFit`, `DeadLettersReplay` |
| `pipeline_live` | a batch of two, an undecodable entry, so that a batch may decode to nothing, batch size 1, one attempt; `db commit deadline ttl`, with fairness | `AckedIsSettled`, `KeepsContract`, `AtMostOnce` under overlapping runs |
| `scheduler_lock` | 2 instances of 2 slots, interval 3, timeout 3, time to live 2, batches up to 3 | `TypeOK`, `RunsAreBounded`, `RunsSpaced`, `JobKeepsRunning` |
| `server_lifecycle` | 2 events, 2 runs, timeouts 3, 2 and 2, requests and runs up to 4; 2.6 million states | `TypeOK`, `HandlersHaveRedis`, `ExitIsPrompt`, `CleanStopLosesNothing` |
| `telemetry` | 3 records, queues of 2, all 32 configurations | `TypeOK`, `ReturnLeavesNothing` |

The bounds are chosen so that each case occurs: a request longer than a batch
and one shorter, a pop that comes back short and one that does not, a batch size
of one where full batches matter, two runs (a third adds no new kind of overlap,
since runs meet only in pairs in the lists and at the key), two attempts so that
one can clash with the one before it, queues smaller than the records, requests
and runs that last longer than the timeouts that wait for them. `MaxResends` is
1 where go-redis allows 3; a second resend repeats what the first one does.
`pipeline_lossless` leaves unanswered
commits to `pipeline_live`, whose `AckedIsSettled` and `KeepsContract` lose
nothing either, and to `NothingLost`, which covers them; with both resends and
unanswered commits it has 20 million states. Times in the two timed modules are scaled: the defaults are an interval and
timeout of 60 s, a time to live of 8 s, drain 10 and 5 s, stop 10 s; what matters
is their order, and the theorems hold for all values.

Runs that find what the repository says of itself violated:

| Run | What the code does |
|---|---|
| `loss_by_split_pop` | A pop that comes back short, an RPUSH of another client, and then the pop's LTRIM: the new event is gone although it was answered 200. `docs/testing/api-test-plan.md:126` promises no loss. |
| `loss_by_zero_retries` | `EVENT_BUFFER_MAX_RETRIES=0` drops every batch without an error; README.md:106 calls it the number of retries before the dead letter. |
| `overlapping_runs` | The lock lives 8 s, a run up to its 60 s and a batch: a second run starts beside it. |
| `no_console_fallback` | The nil `*Exporter` of a failed `otlploghttp.New` becomes an interface that is not nil; the promised console logger never takes over. |

Noticed and not made a run:

* A commit whose reply is lost leaves the batch in the table and among the dead
  letters: the retries send the same ids and violate the primary key.
  `DeadOnlyIfUnanswered` says that this is the only way to be both.
* `SENTRY_ENABLE=true` alone, with the default `SENTRY_DSN`, which is empty, fails to
  start Sentry with a warning, but sentrygin is registered all the same and reports
  nothing. `TRACING_ENABLE` with a failing exporter is the same: otelgin runs and
  records have no trace id.
* `EVENT_BUFFER_BATCH_SIZE=0` makes a pop remove nothing, and a run stores the same
  events again and again (`PopOfSizeZeroRemovesNothing`);
  `SCHEDULER_PROCESS_TIMEOUT_SECONDS=0` makes every run's context dead at birth.
* `docs/testing/load-test-report.md` speaks of one batch of 1500 events per tick,
  while `ProcessQueue` goes on until the queue is empty, and of 202 Accepted,
  while the handlers answer 200.
* `docs/testing/api-test-plan.md`: nulls are "stored as null" (EC07), but
  `properties: null` is stored as `{}`; a Content-Type that is not JSON is refused
  (EC08), but `ShouldBindJSON` does not look at it; events need a JWT (A01 to A07),
  but `RequiredToken` is mounted on no route.
* `DB_CONN_MAX_LIFETIME` defaults to 30, and `MaxInt` raises it to 60
  (`postgres.go:46`): no value below 60 takes effect.

Properties that hold only under conditions say so. `NoLoss` needs `Lossless`:
pops that are not split, Redis answering, no kill, at least one attempt.
`AtMostOnce` is claimed without `resend` (the copies of a push sent twice are
events of their own to the code) and not for `split` together with `ttl`: two
overlapping runs whose pops interleave do read the same head and store it twice.
`DeadMeansNotStored` is claimed as long as commits are answered. `AtMostOnce`,
`InOrder` and `LossIsOneBatch` need a batch size other than 0.

### Fairness

`EventPipeline`: the scheduler ticks for ever (weak fairness of `Tick`), an
orphaned key expires (`LockExpire`), Redis and Postgres answer (weak fairness of
a run's steps and of a received LTRIM). Strong fairness of `QueueSize` and of
`ExecLRange` says that the timeout of 60 s does not end every single run before
its first two commands. No fairness is asked of handlers: a client need not
send, and what is not acknowledged is promised nothing.

`SchedulerLock`: time passes, due timers fire, batches end. Strong fairness of a
`Fire` that starts a run says that Redis does not fail, or lose the reply of, every
SET that finds the key free. `Crash` and
`Restart` are not fair; `JobKeepsRunning` asks for one instance that stays up.

## 4. Proofs

All theorems are for every value of the constants, under the modules' named
assumptions only (events of different requests are different, the lock's special
values are not runs, sizes and counts are integers, times are positive; names
include the server's two, `Null` is none of the other values, `time.Parse` does
not accept the empty string, and what a client sends are JSON objects of the
shape `IsText` describes). TLC evaluates all of them. A theorem that is about some
environments only names them in an ASSUME: `Lossless`, `Separate` (no push sent
twice, a batch size other than 0, and not both split pops and overlapping runs)
and `Orderly` (Redis answers, nothing is killed, and again not both).

Every invariant and action property of the passing runs is stated by one of
these theorems.

| Theorem | Statement | Argument |
|---|---|---|
| `PopSplitsList`, `PopOfSizeZeroRemovesNothing` | A pop splits any list in two for any batch size but 0, negative ones included; with 0 it reads all and removes nothing. | Index arithmetic by cases. |
| `TypeCorrect` | `Spec => []TypeOK` | Inductive as it stands, because it says that a run that inserts or buries holds a batch. |
| `NothingLost` | `Lossless` implies `Spec => []NoLoss` | `LossInv`: every event whose RPUSH was executed is accounted for, an answer 200 comes after all RPUSHes of the request, and a run holds something only in the states where it may. `NoLoss` alone is not inductive: it says nothing of events not yet acknowledged, nor that a run that returns has empty hands. `PopSplitsList` carries the step of the pop. |
| `RunsExclude` | Without `ttl`, `Spec => []OneActiveRun` | Inductive with `TypeOK`. |
| `StoredOnce`, `DeadLettersAreNew`, `DeadLettersClashed` | With `Separate`, `AtMostOnce` and `DeadOnlyIfUnanswered`, and `DeadMeansNotStored` without `commit`; kills, errors and timeouts included | `OnceInv` places every event once: the queue, every run's hands, the table and the dead letters have no event in common, none has one twice, and what is still to be pushed is nowhere. It names two exceptions: a batch that is in the table while its run does not know, and what a run has read while its LTRIM is on its way, which is to be missing from what that LTRIM will leave. `AtMostOnce` speaks of the table only and is not inductive: an event both in the table and in a queue would be stored again. |
| `StoredInOrder` | With `Separate` and without `ttl`, `InOrder` | `OrderInv`: along table, batch, reply and what the LTRIM will leave of the queue the events of a request come in its order. It needs `OnceInv`, for an event that came back would come too late, and that only one run is active. |
| `ContractStepsAreKept` | With `Separate` and `Lossless`, the pipeline implements `DeliveryContract` without its fairness | Step by step: a push is `Accept`, LRANGE with LTRIM `Take`, a commit `Store`, a dead letter `Bury` or, after an unanswered commit, a stutter, an answer 200 `Acknowledge`; everything else moves no event. `OnceInv` says that an event is at one stage at a time, `LossInv` that none falls out and that an answer comes after the pushes. |
| `OneStepLosesOneBatch` | A positive batch size gives `LossIsOneBatch` under every fault | `Handful`: what a run has not decoded and what it has decoded are together no more than one pop returned, and between pops its hands are empty. A step that goes on with a shorter batch while burying is `Bury`, and what it takes off the batch is one event. |
| `FullBatchIsSafe` | With `Orderly`, `FullBatchLosesNothing` | `FullInv`: an LTRIM on its way belongs to a run that waits for it, and a full batch that run has read is what the queue still begins with. With Redis errors or kills an LTRIM may outlive its run and hit the next one's queue. |
| `RefusalIsWhole` | `Spec => []RefusedWhole` | `RefuseInv`: every list, batch and row holds only events of requests that pass the validator, or other writers' entries; a request past the validator has passed it. |
| `StatsAreComplete` | Without `resend`, `StatsMissNothing`, under all other faults | `StatsInv`: what has entered the pipeline will not be pushed again, so of the entries the answer is to account for no more are in the queue than its LLEN counted, however late the second LLEN comes. |
| `PanicsAreReported`, `EachIsLoggedOnce`, `BodyAloneDecides`, `TypesHold` | `RequestPath`'s `PanicIsReported`, `LoggedOnce`, `BodyDecides`, `TypeOK`, for all configurations, failed starts of Sentry and tracing included, and for all texts and batches | `ChainFacts` says where in the chain each handler stands; `ControlInv` says, for a request on its way in, panicking, coming back and going out, what status, log, span and Sentry count are at every position, and that the body is whole until the handler reads it. The properties look at the end only. |
| `RowsAreWhatWasSent`, `DeadLettersCanBeReplayed` | `RowsFit`, `DeadLettersReplay` | `DataInv`: each entry, held event, model, row and dead letter is what the code makes of the event at its place. It rests on lemmas about the operators: rounding gives a nearest float64 (`FloatIsNearest`), rounding twice changes nothing (`FloatMapSettles`), and `Unmarshal(Marshal(dto)) = dto` for what a handler pushes (`RoundTrip`). |
| `NothingLeftBehind`, `QueuesAreBounded` | `ReturnLeavesNothing`, `Telemetry`'s `TypeOK` | `FlushInv`: a written record is sent, given up or in a queue, and a queue that is not empty has a closer on the list that will empty it, except for Sentry's after its flush, which then holds nothing early. |
| `KeyLivesItsTime`, `RunsEnd`, `LifecycleTypes` | `TypeOK` of `SchedulerLock` and `ServerLifecycle`, `RunsAreBounded` | Parts of `LockInv` and `LifeInv` below. |
| `OverlapIsBounded` | `Spec => [](RunsSpaced /\ RunsAreBounded)` | `LockInv`: `KeyInv` ties the owner's age to what is left of the key's time to live, and says that without a key every run is at least a time to live old. |
| `LongLockExcludes` | A time to live of at least the timeout and one batch gives `OneRunAtATime` | From `OverlapIsBounded`'s invariant: the setting that would mend `overlapping_runs`. |
| `HandlersAreServed`, `ShutdownIsBounded` | `HandlersHaveRedis`, `ExitIsPrompt` | `LifeInv`: at which places of `main()` pools are open, handlers busy and runs possible, and how `waited` and `timer` add up. |
| `CleanStopsAreSafe` | `CleanStopLosesNothing` | `NoStragglers`: once `sched.Stop` has waited, no run goes on or starts, so no batch is in hand when the pools close. |
| `LongStopSparesRuns` | If a run fits into the stop timeout, none goes on when the pools close | `RunsFit`: what a run has left is less than the timer while `main()` stops. |

Only model-checked: everything with fairness, that is `AckedIsSettled`,
`JobKeepsRunning` and the progress half of `KeepsContract`, since TLAPS does not
prove liveness here; and that the four claims of the "violation" runs fail.
Proved for less than they are checked for: nothing; the hypotheses of every
theorem hold in the runs that check its property.

## 5. Assumed of external code

Redis executes single commands atomically and a pipeline's commands in order;
redislock sets a key with SET NX and deletes it only with its own value, and its
time to live is 8 s unless an option says otherwise; gocron's `Shutdown` starts
no job and waits 10 s unless an option says otherwise; Postgres transactions are
atomic; `http.Server.Shutdown` waits for handlers; go-redis retries up to 3
times. `obs.Shutdown` flushes after the time `ExitIsPrompt` bounds.

## 6. Not modelled

* An event that the table cannot take (a name longer than its column) makes its
  whole batch a dead letter. `RequestPath` has such events; in `EventPipeline` they are
  inserts that fail every time, one of the outcomes of "db".
* gin, its CORS and Sentry middlewares and otelgin are external: what they do
  before and after `c.Next()` is modelled from their contract. Response headers
  and wording, the GORM plugin and the DSN strings are left out.
* Configuration parsing: its results are the CONSTANTS, and a setting that does not
  parse is its default.
* The repository's queries and `DeleteOlderThan`, `JSONMap.Scan`, the JWT middleware, `CORSConfig` and
  `SigNoz.Close`: nothing calls them.

## 7. Plan

Done, in this order: `RedisList`, `EventPipeline` with its runs, the delivery
contract and refinement, `SchedulerLock`, `ServerLifecycle`, `Telemetry`, their
proofs, `Monitoring`, `EventRecord` and `RequestPath`.

The proofs now state every safety property the runs check. What is left to
prove lies outside them: what the retries of one run do at a batch size of 0,
where `AtMostOnce` and `InOrder` fail by design of the claim, and the timed
modules' relation to the pipeline's faults "ttl" and "kill", which is argued in
section 2 and not stated as a refinement.
