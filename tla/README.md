# async-patterns in TLA+

A TLA+ development beside the Python package `async_patterns` (`src/src/async_patterns`):
modules translated from its source, TLC runs on small instances, and theorems checked by
TLAPS. Line numbers in the modules refer to the file each module names in its header. The
interpreter assumed is CPython 3.12, which the project requires; its `asyncio.Semaphore`,
`asyncio.Queue`, `asyncio.Lock`, `wait_for` and `gather` are modelled from how the package
uses them.

## 1. The system and its parts

| Component | Source | State it keeps | Operations | Interacts with |
|---|---|---|---|---|
| Circuit breaker | `patterns/circuit_breaker.py` | state, time of the last change, sliding window of outcomes, half-open success count, probe semaphore, counters; a context variable per task | `__aenter__`, `__aexit__`, `record_latency`, `reset`, queries | entered by the retry policy, told latencies by the executor |
| Semaphore limiter | `patterns/semaphore.py` | limit, semaphore, active and peak counts, counters | `__aenter__`, `__aexit__`, `set_max_concurrent` | one per executor, shared by all its workers |
| Retry policy | `patterns/retry.py` | retry budget and the start of its window | `execute`, `execute_with_metrics`, `reset_budget` | calls the request inside the breaker |
| Pipeline | `patterns/pipeline.py` | bounded queue, consumer task, `_running`, `_shutdown`, flush event, metrics | `put`, `start`, `stop`, the consumer loop, `BatchedWriter.flush` | callbacks `on_batch`, `on_error`; used by the streaming runner |
| Buffered writers | `persistence/_buffered.py`, `jsonl.py`, `sqlite.py` | buffer, `_opened`, `_closed`, lock, file or connection | `open`, `write`, `flush`, `close` | shared by the tasks of a runner |
| Async executor | `engine/_async_execution.py`, `async_engine.py` | active tasks, per call: queue of URLs, workers, results | `run`, `stream`, `close`, `fetch_url` | limiter, retry policy, breaker, aiohttp |
| Loop monitor | `observability/loop_monitor.py` | running flag, monitor task, last 100 samples, alert flags | `start`, `stop`, `stop_async`, the monitor loop | the event loop; started by the streaming runner |
| Threaded engine | `engine/threaded_engine.py` | thread-local sessions, their registry and its lock | `run`, `close` | thread pool; `tracemalloc`, which it shares with the other engines |
| Sync engine | `engine/sync_engine.py` | one session per run | `run` | `tracemalloc` |
| Result models | `engine/models.py`, `calculate_stats` of `benchmarks/runner.py` | – | counts, breakdown, percentiles | all engines |
| Streaming runner | `benchmarks/streaming_runner.py` | counters, optional writers | one run | executor's stream, pipeline, writers |
| Benchmark runner, scenarios | `benchmarks/runner.py`, `benchmarks/scenarios/` | – | command line | engines |
| Mock server | `benchmarks/mock_server.py` | – | answers at random | – |

What is hard in it: nearly everything shares one event loop, so the code is sequential between
two suspension points and interleaves at each of them. The difficult places are those where a
task looks at something, suspends, and then acts on what it saw (the breaker's wait for a probe
permit, the writer's test of `_closed`, the executor's `_active_tasks`); where one object is
replaced while tasks still hold the old one (both semaphores); where a task is cancelled at a
suspension point that is not prepared for it (workers, writers, stoppers); and where a queue is
bounded and several tasks wait on it. The threaded engine is the exception: its threads interleave
anywhere, around one lock and one process-wide switch, which the async executor reads and sets too. `PROJECT.json` lists these hazards with their lines and
the properties that watch over each of them.

What makes each component correct, in one line:

- breaker: it opens exactly on recent failures, half-open periods hand out their permits and
  lose none, recovery follows the contract (cool down, probe, close after enough successes);
- limiter: at most `max_concurrent` inside, exact counters, nobody waits without reason;
- retry: attempts and budget are bounded, a retry is a request, an open breaker recovers;
- pipeline: each item is handled once, in order; stopping handles what was accepted, and ends;
- writers: what is written reaches the target once and in order, through failures;
- executor: every URL of a call has one result, concurrency stays bounded, calls and `close` end;
- loop monitor: at most one monitor, at work while it is said to run, none after stopping, one alert
  of a kind per episode;
- threaded and sync engine: no session is out of reach of `close`, every URL has a result, memory
  tracing is on during a run and off after the last;
- models: the counts, the breakdown and the percentiles agree with each other;
- streaming runner: what is missing from a writer shows in the metrics, writers agree, a run cleans up.

## 2. The modules

| Module | Models | Uses |
|---|---|---|
| `AsyncSemaphore` | `asyncio.Semaphore` (external): its value, its FIFO of futures, hand-over on release, and what a waiter does that gives up | – |
| `CircuitBreaker` | the breaker and its callers | `AsyncSemaphore`; refines `BreakerContract` |
| `BreakerContract` | abstract: what any circuit breaker promises | – |
| `SemaphoreLimiter` | the limiter and its tasks | `AsyncSemaphore` |
| `RetryPolicy` | retry loops around one shared breaker, driven as `fetch_url` drives them | extends `CircuitBreaker` |
| `Pipeline` | queue, consumers, several stoppers, putters, a flusher | – |
| `BufferedWriter` | the buffered writer with either of its adapters | – |
| `EngineRun` | `run`, `stream` and `close` (also repeated) with their workers | extends `SemaphoreLimiter` |
| `EngineStats` | the figures of `EngineResult` and `calculate_stats`, as operators | – |
| `BlockingEngines` | the threaded engine with its pools and sessions, the sync engine, and of the async executor its use of `tracemalloc` and the shapes of its results; callers in several threads | extends `EngineStats` |
| `LoopMonitor` | the monitor, its tasks, and those who start and stop it | – |
| `StreamingRun` | one run of the streaming runner: stream, pipeline, writers, clean-up | extends `Pipeline` |
| `AsyncSemaphoreProofs`, `RetryPolicyProofs`, `EngineRunProofs`, `BlockingEnginesProofs`, `LoopMonitorProofs`, `PipelineProofs`, `StreamingRunProofs`, `BufferedWriterProofs` | lemmas and theorems | the module they are named after, and what that extends: `RetryPolicyProofs` and `EngineRunProofs` also hold the theorems about the breaker and the limiter, `StreamingRunProofs` builds on `PipelineProofs` |
| `MC...` | model values, sets and symmetry for TLC | |

### How state and actions correspond to the code

*Atomicity.* An action is what one task does from one suspension point to the next. The locks
of breaker, limiter and pipeline metrics are never held across an `await`; such a lock is never
contended on one loop and acquiring it never suspends, so `__aenter__` up to its semaphore wait,
and the whole of `__aexit__`, are single actions. The writer's lock *is* held over target
operations; there callers queue for it, in FIFO order (`line`). In `RetryPolicy` and `Pipeline`
a stretch without suspension is cut into several small steps to keep them readable; while a
task is in the middle of one (`LoopFree` false) nobody else moves.

*CircuitBreaker.* `EnterClosed`, `EnterOpen`, `EnterAfterCoolDown` and `EnterHalfOpen` are the
branches of `__aenter__`; `ResumeProbe`, `TimeOut` and `CancelWait` the ways its 1 ms wait
ends; `ExitFailure` and `ExitSuccess` are `__aexit__`; `RecordSlow` and `Reset` the other
handlers; `Tick` the clock. Every semaphore ever made is kept in `sems`, because callers still
hold permits of old ones; `cur` is the one the breaker refers to. The context variable of
line 281 is `held`. A 1 ms wait cannot outlast a clock unit unless the event loop is blocked:
`LoopMayBlock` chooses. Outcomes are a time and whether they failed. Counters that nothing
reads back are `metrics`.

*SemaphoreLimiter.* `EnterNow`, `EnterAndWait`, `ResumeWait`, `TimeOut`, `CancelWait`, `Exit`,
`SetMaxConcurrent`. `carried` is a history variable: who was inside or parked at the last resize.

*RetryPolicy.* `Refused` is the `is_open` test before any attempt, `Call` the first attempt,
`Retry` a later one, `BudgetTaken` and `BudgetGone` the budget check that a retry makes inside
the breaker, `ReportLatency` what the executor does with the breaker after the call. The backoff
may have any length. `grants`, `sent` and `refusals` are history.

*Pipeline.* The queue's parked putters are `putters`; a put that finds room overtakes them
(`Put`, `PutDropped`, `PutBlocks`, `PutResumes`, `PutGivesUp`). Waits with a time-out may end at any time. `flush` wakes in
`FlushWakes`, whatever the queue holds, and looks at the queue when it next runs (`FlushTests`); others may run in between.
`opts`, chosen initially, says whether the constructor got `drop_on_full` and an `on_error`. `GetItem` to
`DrainEnds` are the consumer's loop and its drain; a batch ends in `BatchEnds`, in `BatchRaises` (the exception
leaves the loop, or the drain goes on) or in `BatchKept` (`on_error` raises once: the batch stays in the
consumer's hands and goes out again). Any number of tasks may be in `stop` at a time (`Stop`, `StopReturns`,
`StopRaises`, `StopCancelled`), each waiting for the consumer it found (`joins`). `crossed` is a history
variable: a `start` fell between the returns of two stops. The processing-time metrics are left out.
Awaiting a consumer that has already ended is modelled as two steps, like any other await.

*BufferedWriter.* Each method queues for the lock (`Call`, `Turn`), opens the target if it must
(`Opened`, `OpenBreaks`), flushes (`FlushDone`, `FlushFails`, `FlushCancelled`, `BeginRefused`)
and closes (`CloseDone`, `CloseBreaks`). The target is the sequence of records in it. A JSONL
flush that breaks leaves a prefix of the buffer in the file; a SQLite flush that fails rolls
back, and one that is cancelled may leave its transaction open, since `CancelledError` is not an
`Exception`. `write_batch` is a sequence of writes. Record normalisation and SQL text are left out.

*EngineRun.* A call of `run` or `stream` (`StartCall`) makes its own queue of URLs and its own
workers; the workers are the limiter's tasks, so that entering `fetch_url` is one of the limiter's
actions. `TakeUrl` is the head of the worker's loop, `FetchEnds` the end of `fetch_url`, `Deliver`
the rest of the loop's body, `WorkerDies` what a cancelled worker runs through. A cancellation is
delivered when the worker next runs: until then it is `doomed`. A worker may be suspended at every
place, which is so for the naive strategy and over-approximates the optimised one. `close` may be called
again once it has returned. What happens inside a request is `RetryPolicy`'s subject; here it ends.
`AsyncEngine` adds nothing but its arguments: `EngineInit` and `FirstPlace` stand for its constructor,
`run` and `run_streaming`.

*BlockingEngines.* Here every step of a thread is an action: `TakeUrl` makes the thread's session and
`Register` enters it in the registry under the lock, `Fetch` is the request; `CloseCopies`, `CloseClears`
and `CloseNext` are `close`, the lock held across the first two. A session is a number, open or closed; a
`requests.Session` that is used after `close` opens connections again (`reused`). A pool is made for each
run and its threads end with it. `tracing` is `tracemalloc`'s switch. The blocking engines set it without
asking (`BeginRun`, `EndRun`); the async executor asks first (`RunAsync`), sets it a step later (`AsyncStarts`)
and resets it only if it was off when it asked (`starter`, `StopsOwn`). A response is its status code, which a
result keeps beside it as `answer`;
`StatusOf` keeps what `e.response.status_code if e.response else 0` computes, given that a
`requests.Response` with an error status is false. The async executor reports a response with its status
whatever that is, and an exception with its message, which may be empty (`Silent`), and the status of an
earlier attempt (`AsyncResults`). `EngineStats` is parameterised by the list of results;
percentiles are in hundredths so that they stay integers.

*LoopMonitor.* A monitor task suspends in `sleep(0)` ("measuring") and in `sleep(sample_interval)`;
`Proceed` takes it past the head of its loop, `Sample` and `SampleFails` are the rest. `Start`, `Stop`,
`StopAsync` and `StopAsyncReturns` run on the loop, `StartWithoutLoop` and `StopWithoutLoop` beside it.
`LoopPauses` is the end of a `run_until_complete`, `LoopEnds` that of `asyncio.run`, which cancels what is
left. The two thresholds are any numbers, as the constructor does not compare them; `logged` is history: the samples at which
an alert was logged.

*StreamingRun.* The runner is the pipeline's only producer and stopper; it makes two writers, one, or none
and then no pipeline (`writerCount`), and returns at once without URLs (`NoUrls`). `Receive`, `PutEnds`,
`PutTimesOut`, `PutCancelled` and `StreamEnds` are the loop of `run`, `BeginStop`, `StopDone`, `StopBreaks`,
`StopInterrupted`, `CloseWriter`, `CloseFails` and `Finish` its `finally` block; `Consume` is the pipeline's
consumer with `write_batch` as its `on_batch`. A writer is the sequence of results it has taken;
`BufferedWriter` says what becomes of them.

## 3. The runs

Each run's properties are stated with a comment in the module; `PROJECT.json` gives for each one a
mutant of the code that violates it, so none of them holds by construction. The type invariants and the
limiter's counters (`ActiveCountsInside`) are proved for every instance and cost no run.

| Run | Question | Instance |
|---|---|---|
| `breaker_safety` | probe permits, sliding window, opening exactly on recent failures, refinement of `BreakerContract` | 3 callers, 2 failures or a third of 3 outcomes to open, 1 probe permit, window and cool-down of 1 unit, 4 instants, 7 operations, loop may be blocked |
| `limiter` | the bound before and after a change of the limit, no wake-up is lost, every wait ends | 4 tasks, limit 2, then 1 or 3; 6 entries |
| `retry_safety` | attempts are requests, two budgets per span, probes per half-open period, who can move an OPEN breaker | 2 callers, 2 attempts, budget 1, 4 executions |
| `retry_recovery` | are calls refused only while the breaker cools down? (no) | 2 callers |
| `pipeline` | one consumer, order and completeness, no parked put is forgotten, what stop guarantees; stops end, and flushes once the producers have stopped | 2 producers, 2 stoppers, queue of 1, batches of 2; 3 puts, 3 starts and a flush, 4 of these in all |
| `writer` | journal, nothing lost, what flush and close guarantee; every method ends | 3 tasks, both adapters, buffer of 2, 4 calls |
| `writer_immutable` | does a closed writer stay unchanged? (no) | 2 tasks, JSONL |
| `engine_safety` | accounting of URLs, completeness, bounded concurrency | 2 calls of 2 URLs, limit 2, so 4 workers; any number of closes |
| `engine_liveness` | calls, workers and limiter never all wait for each other; streams, runs and `close` end | 2 calls of 2 URLs, limit 1 and so a result queue of 1, which fills |
| `blocking` | sessions within reach of `close`, the tracing switch, a result per URL and figures that add up | 2 callers, pools of 2, 2 URLs, statuses 200, 304 and 503 and an unexpected exception; 2 runs of any engine, 2 closes |
| `monitor` | one monitor, at work while running; history, alerts; it ends when stopped | 2 users, latencies below, at and above both thresholds, history of 2; 3 monitors, 3 samples, the loop left once |
| `streaming` | reliable report, writers that agree, explained losses, clean-up; the run ends | 2 writers, 1 or none, queue of 1, batches of 2, 5 results |

*Why the bounds are enough.* Each hazard needs two or three tasks and one repetition of a cycle:
the breaker two half-open periods (old and new semaphore) and a third caller that waits for the
permit of the second; the limiter two semaphores and more tasks than either limit; the pipeline a
full queue, a parked putter, a third put that overtakes it, two stops, and a start between them and one after
(`MaxCalls` bounds puts, starts and flushes together, so that each of these combinations occurs but not their
sum); the writer one
task in the target, one queued behind it and one that arrives later; the executor two calls whose
workers compete, each with more URLs than a single worker's step; the blocking engines two runs and two
closes that overlap, each pool with as many threads as URLs, and one status of each kind that the figures tell
apart; the monitor a third start after two that
crossed with stops, and more samples than its history keeps; the streaming run more results than queue
and batch hold together, so that the runner blocks behind a full queue. Constructor arguments such as
`x or default` make thresholds and durations positive; `ProbeCount` may be 0 and the assumptions
allow it. The error rate is a fraction `RateNum/RateDen`, its minimum a constant instead of ten; in the run of the breaker a
third failing is enough, so that a single failure among three outcomes opens it by the rate alone.

*Symmetry* is used only in runs without liveness; callers, tasks and calls are interchangeable
because no definition tells one from another.

*Deadlock* checking is off throughout: the bounds on operations, clock and calls end every
behaviour. What must not hang is stated as liveness, and for the limiter, the queue and the executor as an
invariant as well: `NobodyWaitsInVain`, `NoPutForgotten` and `NoCallIsStuck` say who can go on whenever somebody
waits, which needs no fairness and can be proved.

*Fairness.* `limiter`: WF on a woken task's step and on leaving the block, since the event loop runs
what is ready and the guarded blocks (requests with a total time-out) end; nobody has to come,
time out or resize. `pipeline`: SF on the consumers (as one: that some consumer goes on is enough), on each
stopper and on the flusher, since asyncio's ready queue is
FIFO and a task that is ready infinitely often is run, although the between; `on_batch` is assumed to end. The flusher's fairness says that it wakes and that it tests, as two steps, and nothing of
what the queue holds when it does; `FlushEnds` therefore presumes that items stop coming (`ItemsStop`), which in the instance
`MaxPuts` sees to. `writer`: WF on progress in the lock and in target
operations; no cancellation is assumed. `engine_liveness`: WF on every worker's, call's and `close`'s
step; a request has a total time-out, and the consumer of a stream keeps asking. `monitor`: WF on each
monitor task, which the running loop wakes; nobody has to stop it. `streaming`: as `pipeline`, with SF on
the runner's own steps: `put` has a time-out, `write_batch` and `close` end, and the engine's stream ends
because every request in it does.

## 4. Disagreements between code and documentation

Two runs show that something a docstring or a document says is not so (`findings` in `PROJECT.json`
quotes the lines):

1. `retry_recovery`: `execute_with_metrics` tests `is_open` before entering the breaker, but only
   entering moves it from OPEN to HALF_OPEN. Fresh calls are refused for ever; only a retry under
   way, or `reset()`, gets the breaker out. `StuckOpenWithoutRetries` says exactly this, and holds.
2. `writer_immutable`: `_closed` is tested before the lock is taken, so a write queued behind `close()`
   opens the target again, and a JSONL file is truncated.

The models show more, without a run of its own; where a property says what is left of the promise, it
is named:

- the breaker opens when the failure count or the error rate *reaches* its threshold (`>=`, `circuit_breaker.py:174` and `:179`),
  as two unit tests expect (`test_circuit_breaker.py:47`, `:396`); `API.md:150-151` and the docstrings at
  `circuit_breaker.py:51` and `:211` say it has to *exceed* it. `OpensExactlyOnRecentFailures` states what the code and the
  tests say; the documented comparison is its mutant, which the run refutes;
- a failing probe returns its permit before it reopens the breaker; the caller that was waiting for this
  permit then enters the OPEN breaker (`circuit_breaker.py:54` says requests are rejected immediately);
- probes of an earlier half-open period run beside those of the next (`ProbeBound` is per period); failures
  from before a recovery stay in the window; a slow failing request enters the window twice;
- after `set_max_concurrent` old holders release into the new semaphore (`ActiveBound`), so that tasks parked on the old one may
  have to wait until their time-out while the new one has room: `NobodyWaitsInVain` is about the current semaphore only, and
  `WaitEnds` excepts them;
- a retry that finds its budget used up is recorded by the breaker as a failure of the service, though it has sent no request:
  the budget is checked inside the breaker's block (`retry.py:302-304`);
- a put that was blocked on the full queue succeeds after the drain has seen an empty queue, and its item
  stays behind although `pipeline.py:234` says the queue is drained completely (`StopHandlesEarlierItems`);
- after `on_batch` has killed the consumer `stop()` raises and leaves `_running` set, so that `is_running` stays true without a
  consumer: `OneConsumer` excepts a consumer that an exception killed;
- `flush()` tests the queue when it happens to run (`pipeline.py:402-408`): while producers keep putting it may loop for ever
  beside a live consumer, and without a consumer it does in any case (`FlushEnds`); it does not wait for the batch in the
  consumer's hands;
- a `start()` between the returns of two stops clears `_shutdown`, and the second stop clears `_running` under
  the new consumer: another `start()` gives the queue two consumers (`OneConsumer`, `InOrder` and their
  `crossed`), and a stop that still waits for the old consumer may wait for ever (`StopEnds`);
- an `on_error` that raises once leaves the batch in the consumer's hands: `on_batch` sees it again, longer than
  `batch_size` perhaps (`BatchKept`);
- a cancelled SQLite flush leaves its transaction open; `flush_interval` (`jsonl.py:22`, `sqlite.py:21`) is
  documented and not implemented;
- `close()` of the executor cancels the workers of a running `run()`, which then waits at
  `url_queue.join()` for URLs nobody will take (`CallsEnd`), and does not see workers that have not
  run yet;
- `e.response.status_code if e.response else 0` (`threaded_engine.py:216`, `sync_engine.py:112`) is always 0:
  the response of an `HTTPError` is false. `models.py:41` reserves 0 for requests without a response;
- `success_count` and `error_count` document "no error" and "non-2xx"; both are narrower, so that statuses
  below 200 and in 300–399 are neither (`ReportAddsUp`), while the streaming runner counts them as failed;
- an exception without a message, such as `TimeoutError()`, gives the error `""`: `error_count` counts it,
  `error_breakdown` passes over it (`if r.error:`, `models.py:148`; `Silent`); and the error of a last attempt is
  reported with the status of an earlier one (`_async_execution.py:273`);
- overlapping runs share `tracemalloc`: the first blocking run to end switches it off under the others
  (`TracingFollowsRuns`); an async run asks before it does so and harms nobody it runs inside of; sessions of
  finished runs stay registered until `close`;
- `start()` of the loop monitor during another task's `stop_async()` leaves a monitor that nobody can stop
  (`OneMonitor`); `start()` without a loop raises and leaves `is_running` true (`RunningIsMonitored`);
  `stop_async()` swallows the cancellation of its own caller;
- the alerts are rearmed only after a warning (`loop_monitor.py:164`): with a warning threshold above the critical one, which the
  constructor allows, a spell over the critical threshold alone never ends, and later ones log no error
  (`AlertsOncePerEpisode`);
- a failed batch makes `pipeline.stop()` raise in the streaming runner's `finally` block: writers are not
  closed and `tracemalloc` and the monitor stay on (`CleansUp`); a put that times out is not looked at
  (`MissingIsExplained`).

## 5. What is proved

The theorems hold for every number of callers and every value of the constants that satisfies the
named assumptions (`BreakerAssumption`, `LimiterAssumption`, `RetryAssumption`, `EngineAssumption`,
`EnginesAssumption`, `MonitorAssumption`, `PipelineAssumption`, `WriterAssumption`, `RunnerAssumption`); these only say
that sets of tasks are finite, constructor arguments in the range that makes sense of them, that the value which
stands for "no error" is not an exception's name, and that the runner is the one who puts into its pipeline and
stops it. TLC evaluates them in the runs. Where a module holds the theorems of a
component and of the one it is built on, the proofs about the latter cite only the latter's assumption.

| Theorem | States |
|---|---|
| `RetryPolicyProofs!TypeCorrect` | `Spec => []TypeOK` |
| `RetryPolicyProofs!SemaphoreAlwaysThere` | `Spec => []HalfOpenHasSemaphore` |
| `RetryPolicyProofs!ProbesBounded` | `Spec => []ProbeBound` |
| `RetryPolicyProofs!NoPermitLost` | `Spec => []NoProbeLeak` |
| `RetryPolicyProofs!ContractKept` | `Spec => KeepsContract`: the breaker implements `BreakerContract` |
| `RetryPolicyProofs!WindowIsRecent` | `Spec => []WindowIsRecentLog` |
| `RetryPolicyProofs!OpensOnRecentFailures` | `Spec => OpensExactlyOnRecentFailures` |
| `EngineRunProofs!LimiterTypeCorrect` | `Spec => []TypeOK` |
| `EngineRunProofs!ActiveIsExact` | `Spec => []ActiveCountsInside` |
| `EngineRunProofs!ActiveIsBounded` | `Spec => []ActiveBound` |
| `EngineRunProofs!NoWakeUpIsLost` | `Spec => []NobodyWaitsInVain` |
| `RetryPolicyProofs!RetriesUseBreaker` | `RetrySpec => Spec` of the breaker |
| `RetryPolicyProofs!RetriesKeepProbeBound` | `RetrySpec => []ProbeBound` |
| `RetryPolicyProofs!RetryTypeCorrect` | `RetrySpec => []RetryTypeOK` |
| `RetryPolicyProofs!RequestPerAttempt` | `RetrySpec => []AttemptsAreRequests` |
| `RetryPolicyProofs!BudgetBound` | `RetrySpec => []TwoBudgetsPerSpan` |
| `RetryPolicyProofs!StuckUntilReset` | `RetrySpec => StuckOpenWithoutRetries` |
| `EngineRunProofs!ExecutorUsesLimiter` | `EngineSpec => Spec` of the limiter |
| `EngineRunProofs!RequestsNeverExceed` | `EngineSpec => []RequestsBounded` |
| `EngineRunProofs!EngineTypeCorrect` | `EngineSpec => []EngineTypeOK` |
| `EngineRunProofs!JoinCountIsExact` | `EngineSpec => []UnfinishedIsExact` |
| `EngineRunProofs!ReturnedHasAll` | `EngineSpec => []ReturnedIsComplete` |
| `EngineRunProofs!CallsNeverStuck` | `EngineSpec => []NoCallIsStuck` |
| `BlockingEnginesProofs!EnginesTypeCorrect` | `Spec => []TypeOK` |
| `BlockingEnginesProofs!SessionsNeverForgotten` | `Spec => []NoSessionForgotten` |
| `BlockingEnginesProofs!TracingIsRunning` | `Spec => []TracingFollowsRuns` |
| `BlockingEnginesProofs!ReportsAddUp` | `Spec => []ReportAddsUp` |
| `BlockingEnginesProofs!LatenciesAreSorted` | what `sorted()` gives, for results of any number |
| `BlockingEnginesProofs!ReportsOfPartsAddUp` | `calculate_stats` of the parts reports what `EngineResult` does of the whole |
| `LoopMonitorProofs!MonitorTypeCorrect` | `Spec => []TypeOK` |
| `LoopMonitorProofs!MonitorsNeverDouble` | `Spec => []OneMonitor` |
| `LoopMonitorProofs!RunningMeansMonitored` | `Spec => []RunningIsMonitored` |
| `LoopMonitorProofs!HistoryIsTheNewest` | `Spec => []HistoryIsRecent` |
| `LoopMonitorProofs!AlertsAreOnce` | `Spec => []AlertsOncePerEpisode` |
| `PipelineProofs!PipelineTypeCorrect` | `Spec => []TypeOK` |
| `PipelineProofs!ConsumersNeverDouble` | `Spec => []OneConsumer` |
| `PipelineProofs!OrderKept` | `Spec => []InOrder` |
| `PipelineProofs!ItemsNeverDouble` | `Spec => []EachItemOnce` |
| `PipelineProofs!NoPutIsForgotten` | `Spec => []NoPutForgotten` |
| `PipelineProofs!StopKeepsItsPromise` | `Spec => StopHandlesEarlierItems` |
| `StreamingRunProofs!RunUsesPipeline` | `StreamSpec => Spec` of the pipeline |
| `StreamingRunProofs!RunCleansUp` | `StreamSpec => []CleansUp` |
| `StreamingRunProofs!WritersInAgreement` | `StreamSpec => []WritersAgree` |
| `StreamingRunProofs!LossesExplained` | `StreamSpec => []MissingIsExplained` |
| `StreamingRunProofs!ReportReliable` | `StreamSpec => []ReportIsReliable` |
| `BufferedWriterProofs!WriterTypeCorrect` | `Spec => []TypeOK` |
| `BufferedWriterProofs!JournalKept` | `Spec => []Journal` |
| `BufferedWriterProofs!NoRecordIsLost` | `Spec => []NothingLost` |
| `BufferedWriterProofs!ReturnPersists` | `Spec => ReturnMeansPersisted` |

`AsyncSemaphoreProofs` has the lemmas about the semaphore itself: each operation preserves its type,
and by how much it changes `Permits`, the permits free or on their way to a woken waiter. It also has what each
operation does to the queue: who is in it (`Members`), each once (`Apart`), and that somebody in it is woken whenever
a permit is free (`NoneForgotten`, `WellKept`).

*Breaker.* The invariant `PermitInv` adds to the types that a waiting caller is parked on a semaphore
and that a caller outside the block holds nothing; with these `NoProbeLeak` is inductive on any loop.
`ProbeBound` is not: that a period has few probes running says nothing of the permits it could still
hand out. On a responsive loop `PermitInv` therefore counts both (`PermitsAccounted`), and says that the
semaphore somebody waits on is still the current one, unless the breaker reopened or was reset this very
instant (`WaitersCurrent`), so that the permit remembered is the one taken (`HeldIsOwn`). Each action
moves one caller and changes at most one semaphore; the lemmas on how the sets of holders and probes
change under such a step carry the cardinalities.

The contract needs `CreditLeft`: a half-open period never holds as many successes as close it, so the
success that reaches `half_open_max_calls` reaches it exactly; the evidence is a cardinality, which each
recorded outcome raises by one or leaves alone (`EvidenceGrows`).

For the sliding window, `WindowInv` says that the window is the log without its first `d` entries, all
older than the cutoff (`EndsLog`), and that outcomes are logged in the order of time. Pruning drops a
beginning of the window (`DropOlderShape`); after it the first entry is young, so by the order all are, and
the shift by `d` is a bijection from the window's entries, and from its failures, to the young ones of the
log (`CountsAgree`). That is why the decision taken on the window is the one the log calls for. Successes
do not prune, so between two failures the window may hold old entries; nothing is decided on it then.

*Limiter.* `active` equals the number of tasks inside by induction over the actions. `ActiveBound` needs
`Budget`: permits of the current semaphore, tasks inside and tasks parked on a replaced semaphore
together stay within `limit + carried`. The last count as if they were inside already, since the old
semaphore may admit them and they later release into the new one. For `NobodyWaitsInVain` the queue of each
semaphore, replaced or not, is exactly the tasks parked on it (`Parking`), so a waiter is in the queue of the current
one; the permits of that one and the tasks inside make up the limit at least (`SlotsUsed`), so if the limit is not
used up a permit is free or handed out, and then a task of that queue is woken. A free permit beside a woken task is a
state that occurs, and harmless: the woken one takes it or passes it on.

*Retry policy.* Each of its steps is a step of the breaker or leaves it alone (`StepMaps`), so the breaker's
theorems hold of a breaker under retries. The loops' own invariant is `Progress`: where a caller is in
`execute_with_metrics` fixes where it is in the breaker and how its requests compare with its attempts; a
caller only moves while nobody else is running, or is the one running. `TwoBudgetsPerSpan` is not inductive:
`BudgetInv` adds that grants are in the order of time and inside their window, that the counter covers the
grants since the window began, and that the grants less than one window length before it are within one
budget. A span that reaches a new grant lies in these two sets; a span that begins earlier cannot reach it.
When the window rolls over, the old count becomes the second (`WindowRolls`).

*Executor.* Its workers use the limiter as `SemaphoreLimiter` says (`ExecutorStep`), and nobody changes the
limit, so that `carried` stays 0 and `ActiveBound` becomes `RequestsBounded`. For the count `join()` waits
for, `WorkersAgree` ties a worker's place to its call, to the limiter and to the URL it holds, and to those
who cancel it or wait for it. Then a worker's move changes the set of busy workers of one call by one
(`BusyMoves`), and each action of a worker takes a URL off the queue, marks one done, or both (`Counted`).
`ReturnedIsComplete` needs to know where each URL is: queued, in a worker's hands, in the result queue or
among the results (`Somewhere`), as long as no worker of the call was cancelled (`UrlsKept`); and who may
cancel a worker at each place of a call (`CallKept`). When a run returns all its workers are done, so nothing
is queued or in hand; a stream returns when it has as many results as URLs, or finds nothing left anywhere, and
as the results, those under way and the unfinished URLs are never more than there are URLs, nothing is left then
either (`NothingLeft`). `NoCallIsStuck` follows a waiting call to somebody who can move. If all its workers
have ended, what it waits for has come: no worker of a run was cancelled unless by `close()` (`CancelsKept`), so none
left a URL behind. A worker that has not ended can go on, or is delivering into a full result queue, which its stream
empties, or waits in the limiter; there, by `NobodyWaitsInVain`, somebody is woken or the limit is used up by workers
whose requests end (`SomebodyHasPermit`). The exception, a run whose workers `close()` has cancelled, is the one that
hangs.

*Blocking engines.* A session goes from a worker's hand to the registry to a closer's list and nowhere else.
`InHand` keeps the hands empty of those who are not in a run or a close, `Locked` says that from copying to
clearing one caller holds the lock and its copy is still complete: a registration in between would be
cleared without having been copied. `TracingFollowsRuns` needs that a run which stops tracing is under way
(`StartersAreRuns`) and that one which nobody overlapped is the only such run (`AloneIsAlone`).
`ReportAddsUp` has a part about runs, that the results and the URLs still in hand are those that were taken
(`ResultsKept`), and a part about figures, for any list of results. The figures are counts, sums over a set of error
types, and places in a sorted list, and each is said without recursion where the code loops: a latency is the n-th
smallest value, a sum over the types is compared with a count on the least set of types where they would differ.

*Loop monitor.* As long as no start has crossed a stop, the only monitor at work is the one `stop()` would
cancel (`Reachable`), and none is while somebody waits in `stop_async` (`WaitedOut`). `RunningIsMonitored` is
inductive together with the types. For the history, `HistoryTail` says that
it ends as the sequence of all samples does, one place at a time: appending to both and dropping the first of
the shorter keeps that. The alerts are stated on the sequence of
samples alone: a warning is open since a sample over its threshold if none has been below since (`WarningOpen`), the
sample that closes it ends the episode. One more sample changes nothing about the ones before it (`PastStays`), so it is
enough to say what it does to the open warning, to the episode and to what is to be logged (`WarningGoesOn`,
`EpisodeGoesOn`, `FirstOverGrows`); the flags are then what the samples of the episode so far called for (`Alerts`),
whichever threshold is the higher one.

*Pipeline.* `OneConsumer` is inductive once all stoppers are known to wait for the newest consumer
(`OnlyNewest`), which a start between two stops' returns breaks: that is `crossed`; and, for what `is_running` says, once no
stop can wait for the consumer of a pipeline that nobody has told to end, so that only an exception takes it away
(`Attended`). `InOrder` then speaks of one
batch; each step moves an item from one of the three sequences to the end of the one before it, or cuts off the
batch as a whole (`TakeKeepsOrder`, `LeaveKeepsOrder`). For `StopHandlesEarlierItems`, what a stop waits for can
only be missing from `handled` while the queue or the batch holds something: by `InOrder` the lengths add up
(`LengthsAdd`), when the drain finds the queue empty everything accepted is handled or in the last batch, and
later arrivals only raise `Len(accepted)` (`WaitsFor`). This needs that the consumer drains only when a stop has
told it to (`DrainsWhenTold`). `EachItemOnce` holds of any number of consumers: the places of an item in `handled`, in
`queue` and in all batches are counted together (`Accounted`), and each step does one of four things to them
(`ItemsMove`). `NoPutForgotten` is inductive with what the line of parked putters is: blocked producers, each once
(`LineKept`). A place that becomes free wakes one of them, a place that is taken was free, and a woken putter that
leaves without taking its place hands the wake-up on (`PutForgetsNobody`).

*Streaming run.* The runner's steps are steps of the pipeline or leave it alone (`StreamStepMaps`), so `OneConsumer` and
`InOrder` hold under it; `Places` ties where the runner is to what the pipeline thinks of it, and says that nothing
is put once it has begun to stop. Hence a queue that the drain has found empty stays empty, and the runner closes its
writers, short of an exception, only after a consumer that has drained (`Drained`): what was accepted has been handled
(`ReturnedIsDrained`). `Counting` follows the numbers of the results into the pipeline: accepted, dropped and the one
being put add up, and accepted is a part of 1, 2, ... in order, which is all of them if it is long enough
(`Numbered`; said so, it is kept by each step without an induction). `Writing` follows them out: each
batch continues what was handled (`BatchFollows`), every writer gets a beginning of it and no writer more than the
one before it (`WritersGet`), and `processed` keeps up with `handled` only as long as all get all of it. For `CleansUp`,
`Ending` adds what a run that has not begun looks like.

*Buffered writer.* `LineRight` says that the callers in a method are the line for the lock, each once, and that
only its head is past the lock; so one caller moves the data at a time, and every step does so in one of five
ways (`DataMoves`). `Journal` and `NothingLost` are inductive over these. A `flush` that finds nothing to do
returns at once: that this leaves nothing behind is `BufferRight`, records wait only for an open target.
`ReturnMeansPersisted` then follows, since a method that ends well leaves the buffer empty (`EndsEmpty`).

*Only model-checked:* liveness and everything about fairness, which is out of this prover's reach: `WaitEnds`,
`StopEnds`, `FlushEnds`, `MethodsEnd`, `CallsEnd`, `StoppedEnds`, `RunEnds`. Every invariant and every action
property of the passing runs is proved.

## 6. What is not modelled

The retry policy's backoff lengths, HTTP itself, formatting and logging; averages, rates and the other derived
figures of the result models; context variables inherited by tasks created within a breaker's block;
`acquire_timeout = 0` of the limiter; the threaded engine's `__del__`; the monitor's backlog figures; two calls of
`close()` of one executor at the same time. The benchmark command lines and scenarios call the engines one after
the other and format what they return; the mock server is a test double that is random by design.

## 7. Plan

Done, in this order: the semaphore and the breaker with its contract, the limiter, the retry policy
around the breaker, the pipeline, the writers, the executor on top of the limiter; the first theorems; the
blocking engines with the result models, the loop monitor, the streaming run; the theorems about these
and about the retry policy and the executor; several stops of one pipeline and an `on_error` that raises, a
repeated `close()` of the executor, the streaming run with fewer writers, the async executor beside the
blocking engines; the theorems about the pipeline, the writers, the executor's results, the monitor's history
and alerts, and the streaming run; the theorems about the items of several consumers, the figures of the results,
and who can go on when somebody waits in the limiter, the executor or the pipeline's queue.

Left: `BufferedWriter` in the place of the streaming run's abstract writers, as a refinement; the
durations of `execute_with_metrics`.
