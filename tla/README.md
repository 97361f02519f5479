# TLA+ model of serverless-components

This directory models the DataDog serverless agents: the DogStatsD server and the
metrics pipeline behind it, the API key factory, the log agent, the trace agent with
its error sampler and its proxy, the layered configuration, the start-up and the main
loop of the compat agent, its metadata reporter, and the mock intake the integration
tests talk to. Each component is a TLA+ specification written from the Rust source and
checked by TLC on a small instance; for all of them the central safety properties are
proved with TLAPS for every value of the constants.

`PROJECT.json` maps each definition to its source lines, each property to a
mutation of the model that breaks it, and each hazard of the code to the
properties that would notice it.

Contents: [system](#1-the-system) · [modules](#2-the-modules-and-the-code) ·
[runs](#3-the-runs) · [fairness](#4-fairness) · [proofs](#5-the-proofs) ·
[findings](#6-where-code-and-text-disagree) · [limits](#7-what-is-not-modelled) ·
[plan](#8-plan)

## 1. The system

`datadog-serverless-compat` (`main.rs`) is one process on a tokio runtime. It reads
its configuration, starts the pipelines and then loops over three timers.

```
 UDP / pipe ──> DogStatsD reader ─channel─> processor ─mailbox─> metrics aggregator
                                                                     │ flush
 main loop tick ─────────────────────────────> metrics flusher <─────┘──> intake
      │                                           └ API key factory
      └──> log flusher <─batches─ log aggregator <─mailbox─ log HTTP server
 HTTP / pipe ──> mini agent ──> trace processor ─channel─> trace flusher ──> intake
                     │                └──> stats concentrator service ─┐
                     ├──> stats processor ──channel──> stats flusher <─┘──> intake
                     └──> proxy endpoint ─channel─> proxy flusher ────────> intake
 main ──> metadata reporter ──────────────────────────────────────────────> intake
 main loop ──> instance and CPU collectors ──> metrics aggregator
```

| component | state | operations | what is hard | what makes it correct |
|---|---|---|---|---|
| DogStatsD server (`dogstatsd.rs`) | socket, bounded channel, buffer pool, cancellation token | read, drain the socket, try_send, process, drain on cancel | two tasks, full channel, cancellation at any await | no packet lost, duplicated or reordered unless counted; bounded buffers; both tasks stop once the traffic subsides |
| Metrics aggregator (`aggregator/`) | context map, unbounded mailbox | insert, flush, lookup, shutdown | overlapping and abandoned flushes, shutdown with commands queued, kinds mixed in one context | each sample in one payload or accounted for; a flush sees what came before it and is answered |
| Metrics flusher (`flusher.rs`, `shipping.rs`) | OnceCell client, two tasks per call, attempt counters | flush_metrics, send_with_retry | partial failure, lost answers, panicking tasks, dropped calls, racing initialisation | bounded attempts, what failed for the moment is returned, no request without a key |
| API key factory (`api_key.rs`) | key, time of last load, loading flag | get_api_key | check-then-act on the flag, expiry, callers that wait for another's load | one resolver call at a time and per interval, no read before the first load, calls return |
| Log agent (`datadog-logs-agent`) and main loop | queue with byte count, mailbox, jobs, pending retries | handle_request, insert, get_batches, flush with redrive | outages, lost answers, redrive across ticks, service gone | acknowledged entries are in one place; extras get a batch once; all settled after an outage |
| Trace processor and flusher (`trace_processor.rs`, `aggregator.rs`, `trace_flusher.rs`) | semaphore, detached tasks, channel, mutex, queue | process_traces, split, enqueue, add, flush, send | back-pressure through four stages, disconnects, abort | permits come back, pieces in order, everything flushed |
| Mini agent (`mini_agent.rs`, `stats_*.rs`) | accept loops, connections, watches, stats channel, concentrator mailbox | accept, handle, tick, final flush, supervise | shutdown racing requests, task deaths, ordering of the last flush | acknowledged stats that count are flushed once and from one source, a shutdown is clean and ends |
| Metric lines (`metric.rs`, `origin.rs`, `util.rs`) | none, an id per line | parse, tags, id, namespace, origin | fields in any order, repeated tags, boundaries of the bucket | lines meet in one context exactly when they are of one series |
| Error sampler and rescue (`score_sampler.rs`, `signature.rs`, `trace_processor.rs`) | counts per signature and bucket, rates, clock floor | count, rotate, rate, shrink, sample | a clock that goes back or jumps, more signatures than places | an exact window, rates within the target, a manual drop stays dropped |
| Proxy endpoint and flusher (`mini_agent.rs`, `proxy_flusher.rs`) | bounded channel, one sender with retries | route, check length, queue, send, retry | back-off while the channel fills, disconnects, agent stopping | requests go out in order, everyone waiting is settled |
| Configuration (`datadog-agent-config`) | the merged configuration | load YAML, load environment, merge, derive | some sixty fields, two sources, deserializers that fail | environment over file over default; exceptions of the proxy honoured |
| Start-up (`main.rs`, `config.rs`, `env_verifier.rs`) | what was started, ports, pipes | verify the cloud, build the configuration, start listeners | verification races the start of the listeners and may end the process | `/info` says what was set up but in three named cases; nothing listens unverified |
| Main loop and collectors (`main.rs`, `datadog-metrics-collector`) | three tickers, last CPU reading | tick, collect, flush | a log flush that holds the loop up, counters that restart | ticks are made up for, CPU samples cover no time twice |
| Metadata reporter (`metadata`) | identity, ticker, attempts | detect, complete, report, retry | a frozen process, metadata server down, transient errors | at most one periodic report per interval, resent only after a transient failure |
| Mock intake (`datadog-mock-intake`) | connection registry, captures, dumps, summary | accept, handle, capture, fail, dump, drop | client gone while its capture is written, Drop racing accept | an answered request was captured; after `Drop` no connection does more than finish the poll it is in |
| Intake codes and payload types, FIPS, logging | | | | not modelled, see section 7 |

## 2. The modules and the code

| module | models | notes |
|---|---|---|
| `DogStatsD` | `read_loop`, `try_send_packet`, `process_loop`, `process_packet`, `spin` | every await, channel operation and token check is a step; a line is only its verdict (`metric`, `ignored`, `malformed`) |
| `DogStatsDTraffic` | the control of `read_loop` and `process_loop` under traffic without an end | what `DogStatsD` leaves out, since its datagrams are finitely many: a socket that never runs empty; no contents, no buffers |
| `LossyQueue` | what the DogStatsD server promises: delivery once and in order, counted overflow, loss only after cancellation | abstract; `DogStatsD` instances it as `Promise`, with ppkt, queue, rpkt and socket in this order as the pending items |
| `MetricParsing` | `parse`, `SortedTags`, `id`, `timestamp_to_bucket`, `parse_metric_namespace`, `find_origin`, `insert_metrics`, `build_metric` | a line is a record of symbolic parts; ids are exact, without collisions; sorting is by insertion, any sort gives the same |
| `MetricBatches` | the loop of `consume_metrics`, `consume_distributions` | operators; an entry is its size, 0 one that does not serialize |
| `MetricsAggregator` | `AggregatorService::run`, the handles, `Aggregator::insert` | uses `MetricBatches`; a value is the set of samples that contributed |
| `MetricsFlusher` | `flush_metrics`, `get_dd_api`, `should_try_next_batch`, `send_with_retry` | an HTTP answer is one of the classes that `should_try_next_batch` and the retry tell apart; a dropped call may leave the key factory's loading flag set (`orphaned`, see `ApiKeyFactory`) |
| `ApiKeyFactory` | `get_api_key`, `should_load_api_key` | time is a counter that any step may be interleaved with |
| `LogBatches` | `is_full`, `get_batch`, `get_all_batches` | operators on sequences of entry sizes |
| `LogPipeline` | `handle_request`, the log service, `LogFlusher::flush`, `send_with_retry`, the tick of `main` | composes server, service, flusher and main loop; uses `LogBatches` |
| `TraceBatches` | `split_tracer_payload`, the size estimate, `TraceAggregator::get_batch` | operators on chunk sizes |
| `TracePipeline` | `process_traces`, the enqueue task, adder task, flush loop, abort | composes processor, aggregator and flusher; uses `TraceBatches` |
| `TraceSignature` | `signature.rs`: span hash, signature, `sample_by_rate` | hashes of `Width` bits, a field is one number |
| `ErrorSampler` | `score_sampler.rs`, `ChunkProcessor` promotion, `apply_error_rescue` | rates are exact fractions; a payload is one step because the lock covers it |
| `ProxyForwarding` | routing of the trace agent, the length check, proxy endpoint, proxy flusher | handlers that wait in `send` are an ordered queue |
| `MiniAgent` | `serve`, the accept loops, `process_stats`, `send_to_concentrator`, stats flusher, concentrator service | composes supervisor, handlers and stats tasks; the stats of a tracer are answered for and dropped when the agent computes them |
| `AgentConfig` | `ConfigBuilder`, both sources, the field deserializers, `merge` | a raw value is a type and a text out of a few; one step per source and per derived value |
| `CompatStartup` | `main` up to the loop, `Config::new`, the environment verifier, `/info` | main and the mini agent task are two program counters |
| `CompatLoop` | the select of `main`, both collectors | a CPU sample is the pair of readings it spans |
| `MetadataReporter` | `run_metadata_reporter`, `detect`, `send_report` | the clock advances between any two steps |
| `MockIntake` | the accept task, connections, captures, dumps, summary, `Drop` | a capture runs on a blocking task of its own; an aborted task that is being polled goes on to the end of that poll, and may send the answer it has ready |
| `BatchContents` | the sum of sizes and the concatenation of batches | nothing of the code; what the batching properties speak about |
| `MetricBatching`, `LogBatching`, `TraceBatching` | insertion and batching step by step, around the operators above | `MCComponents` extends them |
| `MCComponents` | ten components that share no state, one at a time | it extends them all; `kind` says which one runs, the variables of the others rest |
| `MCKeyAndProxy`, `MCTraceAndLogs`, `MCDogStatsDAggregator` | components that share no state, one at a time, with fairness for each | they extend `MCApiKeyFactory` and `ProxyForwarding`; `MCTracePipeline` and `LogPipeline`; and `MCDogStatsD`, `MetricsAggregator` and `DogStatsDTraffic` |
| `MCAgentConfig` | the inputs of the configuration | `MCComponents` extends it; the run `config_field` uses it by itself |
| `MCMetricLines` | the lines that the two parsing runs use | |
| other `MC*` | the instances for TLC | |
| `ProofLibrary` | lemmas about numbers, recursive definitions, sequences, partitions and sums over finite sets | nothing of the code; used by the proofs |
| `*_proofs` | theorems about `DogStatsD`, `DogStatsDTraffic` and `MetricsAggregator` (`DogStatsD_proofs`), `ApiKeyFactory` and `ProxyForwarding` (`KeyAndProxy_proofs`), `LogBatching`, `LogPipeline`, `TracePipeline` and `TraceBatching` (`TracePipeline_proofs`), `MiniAgent`, and the nine components of `Components_proofs` | see section 5 |

What the state stands for:

- **Awaits are steps.** Code between two awaits that touches only task-local state,
  or shared state under one lock, is one action. Where a task looks at something
  shared and acts on it later (the loading flag, the token, `is_closed`) these are
  two actions.
- **Tasks are program counters**: `rpc`/`ppc` in `DogStatsD`, `pc[p]` in
  `ApiKeyFactory`, `call`/`task` in `MetricsFlusher`, `phase`/`tasks`/`flusher` in
  `TracePipeline`, `loop`/`conn`/`flusher`/`service`/`supervisor` in `MiniAgent`.
- **Dropped futures** (a timeout, a closed connection) end a program counter at an
  await and drop what the future held: `Drop`, `Abandon`, `DropFlush`, `Disconnect`.
- **History variables** (marked in each module) only record what happened; no action
  is guarded by one.
- **External parts** are nondeterministic: intakes answer anything, clients send and
  disconnect when they like, the resolver returns any key, the span concentrator
  releases any part of its buckets on an unforced flush.

A definition called a mutant in its comment is a faulty variant of the one after it.
It is not used by the specification; it shows that a property can fail.

## 3. The runs

`tlc -workers 2 -config X.cfg M` in this directory. All of them finish in a few
minutes. Deadlock is not checked: each run holds a model that ends when its clients
have finished.

| run | what is explored | what it shows |
|---|---|---|
| `dogstatsd_aggregator` | the server: four datagrams (mixed lines, a malformed line, not UTF-8, empty), channel of 2, cancel at any time, socket errors; the aggregator: 6 samples in 3 contexts (2 places in the map) and 3 batches, 2 flushers that may give up, a lookup, a shutdown; the server's control, with a channel of 2 and datagrams without end | `InOrderNoLoss`, `LossOnlyAfterCancel`, `BufferBound`, `ImplementsLossyQueue`, `CancelStops`, `AcceptedIsProcessed`; `AccountedOnce` (with it: only a context of mixed kinds loses samples other than gauges), `FlushSeesEarlierInserts`, `FlushAnswered` |
| `dogstatsd_cancel_loss` | the same datagrams, channel of 1 | **violation** of `NoReadDataLost`, finding 1 |
| `metrics_flusher` | 3 calls, one with two batches of one kind, one with a batch of the other, one empty; 2 attempts; every answer, panics, drops | `ShippingDisciplined` (attempts bounded, batches left out only after the destination failed, nothing without a key), `ReturnsTemporaryFailures` (what is returned is exactly what failed for the moment; the rest was confirmed, refused, malformed, or left untried behind a refusal), `CallEnds` |
| `metrics_flusher_none` | the same | **violation** of `NoneMeansSuccess`, finding 2 |
| `key_and_proxy` | the key: 3 tasks, calls repeated and dropped, interval of 1, clock up to 4; the proxy: 3 requests of every length and target, a channel of 1, 2 retries, a kind without a key, disconnects, a stopping agent | `SingleFlight`, `RateLimited`, `NoReadBeforeLoad`, `ReturnsUnlessOrphaned`; `ProxyOrdered`, `ProxySettles` |
| `api_key_dropped` | 2 tasks, clock up to 3 | **violation** of `CallReturns`, finding 3 |
| `trace_and_logs` | traces: 4 requests (refused, undecodable, small, split into pieces), 2 permits, a channel of 1, disconnects, permit timeouts, shutdown; logs: 4 requests (one refused, one with an entry that is too large), a primary and one additional endpoint, outages, every answer, 2 attempts, shutdown of the service | `PermitsAccounted`, `PiecesInOrder`, `FlushedUnlessAborted`; `AcknowledgedAccounted`, `ExtrasTriedOnce`, `EventuallySettled` |
| `trace_shutdown` | the same traces | **violation** of `BufferedIsFlushed`, finding 4 |
| `mini_agent` | 2 transports, 2 stats and 1 trace request, a stats channel of 1, with and without agent stats, deaths of each task, shutdown at any time | `FlushedExactlyOnce` (all that count, once, and not beside computed ones), `ShutdownIsClean`, `ShutdownEnds` |
| `components` | ten components in turn, see below | thirteen invariants, see below |
| `config_field` | the sources of the kind config, see below | **violation** of `OneFieldCostsNoOther`, finding 6 |
| `metric_tags` | pairs of lines with tags in any order and repeated | **violation** of `SameTagSetSameId`, finding 5 |

The components of `components`, what each instance holds, and its invariants:

| kind | instance | invariants |
|---|---|---|
| metric batches | up to 5 entries of 7 sizes around the limits | `MetricBatchesExact`: limits kept wherever an entry can keep them, nothing lost |
| log batches | up to 5 entries of 5 sizes, insertions and batches in any order | `LogBatchesExact`: exact running size, order, limits; a queue that is not full is one batch |
| trace batches | 2 payloads of up to 4 chunks of 3 sizes | `TraceBatchesExact`: chunks kept in order, pieces and batches fit unless a single chunk does not, batches take the pieces in order |
| parsing | two lines out of some thirty, with namespaces and base tags | `LinesOfASeriesMeet`: same id exactly for the same series; order of optional fields does not matter |
| sampler | 5 signatures for a table that folds at 2, 2 buckets, a clock that jumps both ways, both modes, targets above, at and below zero, 4 payloads | `SamplerKeepsBudget`: exact window, rates within the target, bounded table; `ManualDropStays` |
| mock | 2 connections, bodies over each limit, a failing first stats request, name collisions of dumps, Drop at any time | `AnsweredIsCaptured` (in order, dumped once), `SummaryCountsHits` (every hit of a captured stats payload in one row), `NoOrphans`: after `Drop` a connection has ended or was told to, and is at most in the poll it was in |
| config | every field by itself with well-formed, blank, bad and mistyped values in both sources; the fields that depend on one another together | `ConfigurationSound`: environment over file over default, the metric namespace and the compression levels included, exceptions of the proxy honoured; silent on an environment that fails as a whole (finding 6) |
| startup | 49 environments: ports, pipes, clouds, proxies, sites, file trees, features; metadata server answering, failing, timing out | `StartupConsistent`: `/info` tells what was set up, with three exceptions and no other (below), nothing listens unverified |
| loop | flush every 3, collectors every 2 and 1, 5 time units, log flushes of any length, one counter restart | `LoopKeepsTime`: ticks made up for, CPU samples tile the time |
| reporter | 9 environments, interval of 3, 2 attempts, 7 time units | `ReportsAreRare` |

**Why the bounds are enough to mean something.** In each run every limit is
reached: the DogStatsD channel fills and overflows while both tasks hold a buffer;
the context map is full when a third context arrives; batches are cut by count and
by bytes, with entries at the limit, one over, and alone too large; attempts run out;
the stats and trace channels, of one place, block their senders; more requests than
permits want to decode. Two flushes, two calls and three key users give the pairs
that race, plus a bystander. The bounds that only end a run are named:
`MaxQueued` (mailbox of the metrics aggregator, unbounded in the code), `MaxTime` and
`MaxClock` (clocks), `MaxMetrics`, `MaxInput`, `MaxPayloads` and `MaxChunks` (batching),
`MaxRescues` (sampler), `MaxLines` (parsing), `MaxRequests` and `MaxSuffix` (mock
intake), `MaxResets` (CPU counter). They are constants of the theorems too, which hold
for every value of them.
Attempts are 2 where the code has 3 or a configurable number: the first, the last,
and the step from one to the other all occur.

Three properties have exceptions, which their definitions name.
- `InfoTellsTheTruth`, in `StartupConsistent`: `/info` names a port nobody listens on
  when DogStatsD is switched off, or when the bind failed beside a pipe; and it names 0
  while UDP listens on a port of the kernel's choice when `DD_DOGSTATSD_PORT` is 0
  without a pipe. In every other case the port is the one that is listened on, and 0
  means that none is.
- `Precedence`, in `ConfigurationSound`: an unreadable log level of the environment
  counts as `Warn`; an unusable metric namespace counts as none; nothing is said of a
  component's compression level from the file beside a global one of the environment
  (section 6), nor of an environment that fails as a whole.
- `CallEnds`: a call that was dropped while it loaded the first API key strands those
  that ask for a client after it, which is finding 3 seen from the flusher.

`CancelStops` is conditional: the token stops both tasks once the sockets run empty for
good. Neither the reader's drain of the socket nor the processor's drain of the channel
looks at the token, so traffic that never ends can hold up both. `DogStatsDTraffic` lets
datagrams arrive for ever, and the run has the behaviours in which the tasks go on.

`EventuallySettled` is conditional: if from some time on the intakes work, every
acknowledged entry is confirmed, was dropped on purpose (too large, or turned away
with a permanent error), or was lost with a service that had been shut down.

## 4. Fairness

- Weak fairness on each task's own steps: tokio polls a woken task eventually. Timer
  ticks (trace and stats flush, main loop) are steps of their task.
- Each HTTP request ends: the clients are built with a timeout, so the answer step of
  `MetricsFlusher`, `LogPipeline` and `TracePipeline` is fair. Which answer comes is
  not.
- Strong fairness on `Add` in `TracePipeline`: the flusher takes the mutex again and
  again, and tokio's mutex is FIFO, so the adder gets its turn.
- Strong fairness on `FinalFlush` in `MiniAgent`: the select of the stats flusher
  polls its branches in random order, so a ready shutdown signal is not passed over
  for ever.
- `ProxyForwarding`: weak fairness on the sender (its requests time out, its back-off
  ends) and on a handler once its request is accepted by the channel.
- `CloseIdle` and the handler's steps in `MiniAgent` are fair because connections
  are shut down gracefully; this includes the assumption that a client finishes a
  request it has begun. The code has no timeout for that (a hazard in
  `PROJECT.json`).
- `DogStatsDTraffic`: weak fairness on each of the two loops, none on the arrival of
  datagrams or on their absence.
- `ResolveKey` in `MetricsFlusher` is fair only while the key factory is not left with
  its loading flag set: the resolver answers, but a lost loader does not.
- No fairness on clients, intakes' choices, cancellation, drops, deaths, or the
  clock.

## 5. The proofs

`tlapm M.tla` on each of the eight modules; backends Z3, Zenon and LS4. Each proof
has the same shape: an inductive invariant, one lemma per action (or group of actions
that move the same state) that says it is preserved, a theorem `Invariance`, and the
properties as consequences. The theorems hold for every value of the constants that
satisfies the assumption named; TLC evaluates each assumption in its run.

**`ProofLibrary`** holds what several proofs need. The library's induction theorems
take an operator as a parameter, which the provers here cannot instantiate, so
induction is done by the least counterexample: `LeastNumber` gives it for a set of
numbers, `CountUp` turns that into induction over an interval, and `Recursion` shows
that a definition by recursion over an interval has a solution, which is what lets it
be unfolded. `MoveKeepsPartition` and `NewKeepsPartition` do the set reasoning of the
conservation proofs once: things that move from one place to another, or are new in
one place, leave the places a partition. The sum and the concatenation of
`BatchContents` are recursive functions; lemmas say that they have a solution, what
appending and concatenating do to them, and that they agree with their parts. Sums over
finite sets are `SumFunctionOnSet` of the community modules: `SumsUnfold` shows that its
recursion has a solution on the subsets of a finite set, `SetInduction` is induction over
a finite set by its cardinality, and from the two follow that a sum does not depend on
the order (`SumAdds`), is not changed by elements that count nothing
(`SumWithoutZeroes`) and can be taken group by group (`SumByGroups`).

**`DogStatsD_proofs`**, from `DogStatsDAssumption` (packets have sequences of lines,
the queue size is a positive number: `new` replaces 0).
- `TypeCorrect`. `TypeInv` adds to `TypeOK` what the program counters say about the
  hands: the reader has a packet exactly before a send, the processor exactly while
  it works. Without it `Head(rpkt)` has no type.
- `BuffersBounded`: while the server runs, allocated buffers = pool + queue + one per
  task that holds one, and never more than `QueueSize + 2`. The bound is not
  inductive by itself: the equation, and a term for the buffers that are lost once
  the reader has ended or the channel is closed, are needed.
- `PacketsInOrder` and `NoLossWithoutCancel`: the accepted packets are the processed
  ones, the one in hand, and the queue. Lemmas about appending and taking the head of
  concatenated sequences carry the steps that move a packet.
- `QueueImplemented`: `Spec => ImplementsLossyQueue`, the refinement. A packet that
  moves from socket to hand to channel to hand leaves the concatenation of the four
  as it is; the other steps are matched one by one (an empty datagram is `Skip`, a
  full channel `Overflow` at the place after the channel, a closed one `Forget`, the
  end of `spin` is `Stop`). `Forget` and `Stop` need from the invariant that an
  uncancelled processor leaves only after the reader, with the channel empty.

- `ServerIsTraffic`: every behaviour of `DogStatsD` is one of `DogStatsDTraffic`, under
  the mapping that forgets datagrams and buffers. It ties the model in which traffic
  need not end to the detailed one; the two share no definitions.

The same module proves the metrics aggregator, from `MetricsAggregatorAssumption`, for
any samples, contexts, flushers and limits.
- `SamplesAccountedOnce` (`AccountedOnce`): the samples are partitioned over their
  places (not inserted yet, mailbox, batch in the service's hand, map, responses,
  overflowed, shadowed, lost), the map stays within `max_context`, and only a context
  of mixed kinds shadows samples other than gauges. `AggregatorInv` adds to the
  partition that the map keeps an entry under the context of its samples and with the
  kind of one of them (`EntriesOK`), which tells what a merge may shadow, and that no
  two insertions in the mailbox share a sample and no response is there before its
  flush is done (`SamplesOnce`). That the payloads of a flush hold only
  entries of the map, whatever the sizes, is proved over the loop of `consume_metrics`;
  an entry that does not serialize is counted as lost.
- `FlushIsOrdered` (`FlushSeesEarlierInserts`): once a flush is answered, nothing that
  was inserted before it was requested still waits in mailbox, hand or map. The
  strengthening, `FlushOrdered`, is about the mailbox: no insertion behind a queued
  flush command holds a sample promised to it.

**`KeyAndProxy_proofs`**, from `ApiKeyFactoryAssumption` for the key and
`ProxyForwardingAssumption` for the proxy.
- `LoadIsSingleFlight`, `LoadIsRateLimited`, `FirstLoadIsAwaited`, for any number of
  tasks and any interval, with dropped calls. The invariant says that at most one
  task is between taking and releasing the flag, and then the flag is set; that
  whenever nobody holds the flag, the number of loads fits the time of the last one
  (`Settled`), and how far it may be ahead at each place inside. The step that loads
  needs `OneMoreLoad`, an inequality over products that is proved once.
- `ProxyKeepsOrder` (`ProxyOrdered`): what the channel took is what the flusher let go
  of, then the request in its hand, then the queue (`QueueIsRest`); Datadog saw only
  requests taken off the channel, in that order (`IntakeInOrder`); and the copies of
  the request in hand are fewer than its attempts (`CopiesBounded`), which bounds the
  copies of every request by `MaxRetries`.

**`Components_proofs`** proves nine components that work by themselves, each from the
assumption of its own module (`CompatLoopAssumption`, ...). They say that limits,
periods and sizes are numbers and what shape the inputs have, and nothing else.

Metrics flusher (a number of batches per call and kind, a number of attempts):
- `ShippingIsDisciplined`: attempts are bounded, batches are left out only after the
  destination failed, nothing is sent without a key. `TaskInOrder` is the
  strengthening: everything before the current batch is settled without a complaint,
  everything after it untouched, and the requests spent on the current one are the
  attempts counted. `CellSettled` says that no task is born before the shared client
  is there, which needs that one call at a time initialises it.
- `ReturnsExactlyTemporaryFailures` (`ReturnsTemporaryFailures`): after a clean join a
  call returns exactly the batches whose last answer was a failure for the moment;
  every other was confirmed, malformed, refused for good, or left untried behind the
  one that ended its task, which nobody has seen and which is not returned (finding 2).
  Without a client or after a panic it returns all of them (`FailedIsRetried`,
  `CallOutcome`). This holds for any number of overlapping calls, some of them dropped.

Main loop and collectors:
- `LoopAlwaysKeepsTime` (`LoopKeepsTime`). `TicksOnTime` relates each ticker's next
  deadline to the number of times it fired, so that "fired as often as the period fits
  into the time" follows once it has caught up; `ReadingsInOrder` says that the last
  reading is not after the present one, within a life of the counter, and that every
  sample ends at or before it, which is what keeps the next sample from overlapping.

Metadata reporter:
- `ReportsAlwaysRare` (`ReportsAreRare`). Every periodic report began before the tick to
  come, and between two of them lies an edge of the interval (`ReportsSpaced`, from what
  a skipping ticker does to its deadline); the tries of the report in hand are as many
  as its attempt counter, all of them transient failures, and the next is not before its
  back-off (`TriesCounted`).

Start-up:
- `StartupAlwaysConsistent` (`StartupConsistent`). The invariant knows, for every place
  of main and of the mini agent's task, what was set up before it (`MainKnows`), that the
  task binds only after its check passed (`MiniKnows`), and which port of the environment
  the listener got, or that its bind failed (`PortKnown`). The three exceptions of
  section 3 are part of the statement.

Mock intake:
- `IntakeLeavesNoOrphans` (`NoOrphans`): once the registry is closed it takes no
  connection. `Drop` aborts those it held, and an abort takes effect when the poll that
  is under way ends, so after it a task has ended, or was told to end and is in its last
  poll; the one connection the accept task still holds is aborted by it.
- `IntakeCapturesAnswered` (`AnsweredIsCaptured`). The id of a request is known to its
  connection first, then to one blocking task, then to the captures (`HeadsFresh`,
  `TasksKept`), so that a capture is always new; the payloads of an endpoint are those of
  the requests answered 202 (`EntriesAgree`); an answer is sent after its capture
  (`AnswersCaptured`). The captures stay in order of arrival, in whatever order the tasks
  finish, because `InsertSorted` puts an entry before the first later one
  (`InsertSortedKeepsOrder`).
- `IntakeCountsHits` (`SummaryCountsHits`): a summary is what `stats_hits_by_key` makes
  of the clients of one payload (`SummaryInv`). Two groups with equal bags of tags have
  the same tags in another order (the places of each tag are matched), so the rows are
  one to one with the kinds of groups, whatever order their tags came in, and the sum of
  the rows is the sum of all hits taken kind by kind (`SumByGroups`).

Payloads of the metrics aggregator:
- `MetricPayloadsExact` (`MetricBatchesExact`): closed payloads and the one being filled
  are, in this order, the entries that serialize; the byte count is the sum of the
  payload being filled; each closed payload fits or has a single entry.

Error sampler:
- `ManualDropsStay` (`ManualDropStays`): promotion writes the decision maker of a span on
  its chunk before the rescue looks, and nothing stamps a chunk it passes on.
- `SamplerAlwaysKeepsBudget` (`SamplerKeepsBudget`), from `ErrorSamplerAssumption`:
  positive bucket length, number of buckets, folding size and cap on a rise, a clock
  that shows natural numbers, any target (also zero and below, where nothing is
  counted), payloads that arrive unstamped with any rate on the wire. It has three
  parts.
  - *Bound.* `Folded`: a table without an allow-list has at most `FoldTo` signatures,
    and while there is one, what is stored comes from a set of so many, apart from the
    numbers below `FoldTo` that signatures are folded to.
  - *Window.* `Counts` (the total of each bucket is the sum over the signatures) and
    `Covers` (it is what the history says of the bucket, for the buckets of the window).
    A rotation zeroes exactly the places whose bucket leaves the window (`Rotates`,
    `WindowMoves`); a signature that is forgotten has nothing left in it
    (`RotatedSums`); the clock never goes back behind the newest bucket (`ClockHeld`,
    `ClampHolds`), which is where a clock that is trusted breaks it.
  - *Budget.* Fractions in lowest terms are compared through the ratio they stand for
    (`Ratio`, `AtMost`). Sorting loses no signature (`SortedHasAll`); the share
    `compute_tps_per_sig` comes to is what the target leaves after the `k` quietest,
    divided by the others (`ShareIs`); a rate keeps at most the share and at most what
    was seen, whatever its cap (`NewRateFits`), so the sum over the signatures is at
    most the target (`SharesKeepTarget`, `RotationKeepsTarget`).

  A payload is a chain of traces at one clock reading of which only the first can
  rotate (`Along`, `RescueGoesAlong`); `BudgetInv` is the invariant of payloads.

Configuration:
- `ConfigurationAlwaysSound` (`ConfigurationSound`): at every step of `build` the
  configuration is what the sources read so far make of the defaults (`ConfigInv`),
  field by field, with the three fields a global compression level writes to, the metric
  namespace, which only the environment sets, and the fields that fail the whole
  environment told apart; the proxy is resolved from it
  against both lists and the derived site.

DogStatsD lines:
- `LinesAlwaysMeet` (`LinesOfASeriesMeet`). Insertion by the rank of a tag gives a
  sequence in order with the same tags (`InsertByKeyKeepsOrder`), two such sequences
  with the same members are equal (`SameInOrder`), hence tags in any order have one
  sorted form; without repeated tags `Dedup` leaves a sequence as it is. That the last
  field of a prefix is the only one when prefixes are not repeated gives the
  independence of the order of fields. The invariant is only that every handled line
  came to what `insert_metrics` makes of it.

**`MiniAgent_proofs`**, from `MiniAgentAssumption`. The invariant has four parts.
- `ControlInv`, who can have ended and why: loops end because of the shutdown or a
  death, the flusher leaves only after the forced flush, which is signalled only when
  all loops have drained. `ShutdownEndsWell` (`ShutdownIsClean`) is one of its parts.
- `PlacesInv`: the stats of a request are in at most one of channel, mailbox, buffer,
  hand, buckets and payloads sent, once, and only after their handler has passed them
  on. `StatsFlushedExactlyOnce` takes "not twice" from it.
- `NothingRedundant` holds because the stats of a tracer reach the channel, and chunks
  reach the mailbox, only with agent stats off and on respectively.
- `KeepInv`: why nothing is missed. While the flusher waits there is one flush
  command in the mailbox; after the shutdown signal nothing comes behind it, so when
  it is answered mailbox and buckets are empty, and as long as no task died what was
  passed on is still somewhere. This is where the order of the last flush matters.

**`LogBatching_proofs`**, from `LogBatchingAssumption` (limits that let a single entry
through).
- `AccumulatorExact` (`LogBatchesExact`): the byte count is exact, so the saturating
  subtraction of `get_batch` never saturates; entries come out once and in order; no
  batch is empty or over a limit; a queue that `is_full` does not call full goes out
  in one batch.
- The sums and concatenations are recursive functions; `SumExists` and `ConcatBy`
  show with `ProofLibrary` that they have a solution.
- `AllBatchesCut`, `AllBatchesSplit` and `InsertAllIs` are the lemmas about
  `get_all_batches` and a batch of inserts: the batches split the queue, each entry
  in exactly one of them, none empty.

**`LogPipeline_proofs`**, from `LogPipelineAssumption`, uses those lemmas through an
instance of `LogBatching_proofs`. An entry of the model is an occurrence, so two
bodies have no entry in common: two equal messages are two entries.
- `AcknowledgedIsAccounted` (`AcknowledgedAccounted`): the acknowledged entries are
  partitioned over eight places (mailbox, queue, deliveries under way, failed,
  pending with main, confirmed, dropped, lost). Every action moves a set of entries
  from one place to another, or adds new ones to one place, and
  `MoveKeepsPartition`, `NewKeepsPartition` do the set reasoning once. That two
  batches of a place have no entry in common (`NoneTwice`) is needed to move one of
  them.
- `ExtrasAreTriedOnce` (`ExtrasTriedOnce`, an action property): an additional endpoint
  is offered a batch at most once. It needs that a batch offered before is no longer
  with the service nor on its first way (`MirroredBefore`), which follows from the
  partition when new batches are cut.

**`TracePipeline_proofs`**, from `TracePipelineAssumption`.
- `PermitsConserved`: free permits + requests that hold one = `MaxPermits`. A request
  stands for one permit although its handler and its task both carry it in turn, so
  the invariant adds that a task runs only after its handler has answered; the steps
  use the cardinality lemmas for adding and removing an element.
- `TypeCorrect` follows, because a cardinality is not negative.
- `TracesCutExactly` (`TraceBatchesExact`), from `TraceBatchingAssumption`: the pieces of
  a payload are its chunks in order and a piece exceeds the budget only when it is a
  single chunk; the batches are the pieces in order and a batch exceeds the limit only
  when it is a single piece.
- `PiecesKeepOrder` (`PiecesInOrder`): for every payload that was answered as buffered,
  the pieces out of the pipe, in the flusher's batch, in the queue, in the adder's
  hand, in the channel and with the enqueue task are, in this order, the pieces that
  `split_tracer_payload` made: none is lost, doubled or overtaken, whatever other
  payloads are under way. `PieceInv` is the invariant: the pieces of a task are its own
  (`TodoOwn`), a handler under way has not answered (`Unanswered`), and once the
  receiver is gone nothing is left between the task and the end (`Quiet`),
  without which giving up a piece would let it overtake. The lemmas under it: the
  recursion of `split_tracer_payload` ends for every payload because each half is
  shorter (`SplitSolvable`, by `CountUp` over the length), and gives a sequence;
  `get_batch` takes a prefix of the queue (`TakeBatchOK`); a piece that moves between
  neighbouring stages leaves the concatenation of the stages as it is (the `Pipe`
  lemmas); and selecting the pieces of one payload from a concatenation
  (`OfOwn`, `OfOthers`).

**Only model-checked.**
- All liveness (`CancelStops`, `AcceptedIsProcessed`, `FlushAnswered`, `CallEnds`,
  `ReturnsUnlessOrphaned`, `ProxySettles`, `EventuallySettled`,
  `FlushedUnlessAborted`, `ShutdownEnds`): the prover has no rules for fairness.
- `TraceSignature` uses `Bitwise`, which the prover cannot read; `ErrorSampler` takes
  the signature as a parameter, and its theorems hold for any such function.

## 6. Where code and text disagree

1. `dogstatsd.rs:539` says that cancellation loses no data already read. The
   processor drains until the queue is momentarily empty and leaves, while the
   reader may hold a packet, or be in its inner loop, which does not look at the
   token. Proved on the other side: without cancellation nothing is lost.
2. `flusher.rs:161` returns `None` "to indicate success", also when a 4xx made the
   loop stop with batches that were never sent.
3. `api_key.rs:89` expects a waiting caller to be released by the load of another.
   If that one is dropped while loading, the flag stays set and callers without a
   key wait for ever. With a key already loaded they return the old one.
4. `trace_processor.rs:544` answers "Successfully buffered traces to be flushed."
   The shutdown aborts the trace flusher without a last flush, so these traces may
   never be sent; stats, in contrast, get a final flush.

5. `metric.rs:373` says that duplicate tags are removed before the id is computed.
   `dedup` runs before the sort, so only neighbours are: `a:1,b:2,a:1` and `a:1,b:2`
   are different contexts.
6. `env.rs:820` wants no single field to crash the whole configuration. The environment
   is extracted in one call (`env.rs:602`), and a few deserializers pass a type error on:
   `DD_APM_FEATURES=1` is a number, `String::deserialize` fails (`helpers.rs:190`), and
   every other variable is ignored, the API key included. The test the sentence is from
   leaves these fields out.

Smaller differences met while modelling; the models follow the code:

- `decide_dogstatsd_port` says 0 means UDP is off (`main.rs:592`). Without a pipe the
  listener is still started, the kernel picks a port, and `/info` says 0. The comment on
  `DogStatsD::new` has it right: port 0 turns UDP off beside a pipe. `InfoTellsTheTruth`
  names this case.
- `/info` also names a port with DogStatsD switched off (`DD_USE_DOGSTATSD=false`): it
  is computed from the configuration, not from what was started.
- `env.rs:140` says that the global compression level is effective only if the
  individual component does not specify its own. A global level of the environment also
  replaces the level that the YAML file gives one component: each source copies its
  global level to the components before it reads their own, and the environment is
  merged later. `Precedence` is silent on this case.
- A log level in the environment that cannot be read becomes `Warn` and replaces a
  good one of the file.
- A numeric `version: 1.10` becomes the text `1.1`.
- `mini_agent.rs:99` wants no stats message to be missed at shutdown. With agent stats
  computation a tracer's stats are answered with 202 and dropped by design
  (`stats_processor.rs:50`), so `NothingMissed` counts the computed ones then.
- The DogStatsD listener also runs when the metrics flusher could not be created;
  the aggregator then fills up to its limit.

## 7. What is not modelled

- Text as text: characters, number formats, URLs, span obfuscation and enrichment. A
  value is one of a few symbols, and conversions are modelled by what they do to
  those. `durations` and `flush_strategy` of the configuration serve other products.
- The named-pipe transport of DogStatsD (Windows only): `spin_named_pipe` with its
  supervisor, the pipe server with a task per client that joins partial lines, and
  `udp_read_loop_beside_pipe`, the UDP reader beside it. `DogStatsD`
  is the server with one UDP socket. In `MiniAgent` the pipe is an accept loop like TCP,
  without the re-creation of the pipe instance.
- Response codes and payload types of the intake, FIPS TLS adapter, log formatting:
  data, library set-up and text without state of their own.
- `SendData` and its retries, the span concentrator, hyper, reqwest, tokio: libraries,
  modelled by their use.
- In `MetricsAggregator` the test-only readers of the map; in `MockIntake` the
  rendering of dumps.
- The main loop's metrics flush drops the batches returned for retry (`main.rs:355`):
  `MetricsFlusher` ends with what it returns, `CompatLoop` with the spawned task.
- Hash collisions of context ids, float rounding of sampling rates. The weight of a
  trace, the inverse of the client's rate, is a whole number in `ErrorSampler`; the code
  keeps its fraction (`weight_root`).
- The supervisor's select polls its arms one after the other, `SeesDeath` in one step: a
  shutdown that comes within a poll, after the arm that watches for it, together with an
  accept loop that ends by it before its own arm is polled, is left out.

## 8. Plan

Done: DogStatsD, metrics aggregator, the three batching algorithms, metrics flusher, API
key, log pipeline, trace pipeline, mini agent, proxy, metric lines, error sampler and
signature, configuration, start-up, main loop and collectors, metadata reporter and mock
intake, with proofs of their safety properties.

Next models:
1. Pipe transport of DogStatsD: the two transports under one supervisor, framing across
   reads.
2. An abstract mailbox service with accounted loss, for the metrics aggregator and
   the log service.
3. The server and the aggregator moving together, with samples taken from packets.

Next proofs: whatever the next models add. Every safety property the
passing runs check is stated by a theorem; what is left to TLC is named at the end of
section 5.
