# A TLA+ verification project for mysten-infra

mysten-infra is a workspace of infrastructure crates used by Sui and Narwhal.
This directory holds TLA+ models of the crates that carry state and control,
the TLC configurations that check them on small instances, and TLAPS proofs
of their main properties for every instance. `PROJECT.json` is the index: the
components, the runs, the source lines behind every definition, the hazards of
the code and the properties that watch them, and the theorems.

To run a check: `tlc -workers 2 -config StoreActor.cfg MCStore`. To check a
proof module: `tlapm StoreProofs.tla`.

## 1. Inventory

Paths are relative to `src/crates`.

### typed-store: the `Store` actor (`typed-store/src/lib.rs`)

- *State*: one task owns a `DBMap`, the receiving end of an mpsc channel of 100
  commands, and `obligations`, a table from keys to the oneshot senders of the
  `notify_read` calls waiting for them.
- *Operations*: `async_write`, `sync_write`, `sync_write_all`, `remove`,
  `remove_all`, `read`, `read_raw_bytes`, `read_all`, `notify_read`, `iter`. Each
  sends one `StoreCommand`; all but `async_write` and `remove` await an answer.
- *Interaction*: any number of threads hold clones of the handle. The last
  clone dropped closes the channel and ends the task.
- *Hard*: concurrent callers, a bounded channel, commands in flight when a
  caller is cancelled or the task dies, a waiter that parks while a writer writes.
- *Correct when*: the actor looks like an atomic map to its callers (linearizable,
  fire-and-forget included), every caller gets its answer or finds out that the
  task died, no wake-up is lost, acknowledged commands are not dropped at the end.

### typed-store: `DBMap`, `DBBatch`, opening (`typed-store/src/rocks/mod.rs`, `traits.rs`)

- *State*: the RocksDB database (column families and their contents), the
  in-memory table of handles by name; a `DBMap` keeps only the *name*.
- *Operations*: `get`, `contains_key`, `multi_get`, `insert`, `remove`, `clear`,
  `get_or_insert_unsafe`, batches (`insert_batch`, `delete_batch`,
  `delete_range`, `write`), `report_metrics`, `open_cf(_opts)`, `reopen`,
  `open_cf_opts_secondary`, `try_catch_up_with_primary`.
- *Interaction*: threads share one `Arc<DB>`; every operation looks its handle up
  by name and uses it in a later step.
- *Hard*: `clear` is drop-then-create, so handles vanish and go stale under
  other threads; composite operations look up more than once; the process may
  die between any two steps.
- *Correct when*: every answer was right at some moment of its call, handles are
  missing only inside `clear`, and the contents change by whole calls only, whatever
  fails, panics or ends the process on the way.

### typed-store: iterators and key encoding (`rocks/iter.rs`, `keys.rs`, `values.rs`)

- *State*: a raw RocksDB iterator (a snapshot and a position), a direction.
- *Operations*: `iter`, `keys`, `values`, `skip_to`, `skip_prior_to`,
  `skip_to_last`, `reverse`, `next`.
- *Hard*: order is that of the encoded bytes; an entry that does not decode looks
  like the end; others write while a loop reads.
- *Correct when*: a loop yields exactly the rest of the snapshot from its
  position in its direction, once each, in the order of the keys where those have
  one sign.

### typed-store-derive (`typed-store-derive/src/lib.rs`)

- *Operations*: `DBMapUtils` generates `open_tables_read_write`,
  `get_read_only_handle` (a secondary database), `dump` (a page of a table) and
  `count_keys`; the rest is compile-time checking and configuration structs.
- *Correct when*: a dump returns exactly its page of what it caught up to.

### typed-store: metrics (`typed-store/src/metrics.rs`, `rocks/mod.rs`)

- *State*: `SamplingInterval` keeps one atomic counter, shared by the operations
  and a timer task. `ONCE` holds the `DBMetrics` of the process, registered in a
  Prometheus registry. RocksDB keeps, per thread, a perf level and a perf
  context. Every `DBMap::new` starts a task that reports on its column family once
  a second and shares the database with the map.
- *Operations*: `sample`, the timer; `DBMetrics::init`, `get`, `new`;
  `RocksDBPerfContext::default`, its `Drop`, and the two `report_metrics` of a perf
  context; `DBMap::new`, its clones, and the select of the reporting task.
- *Hard*: the timer checks and resets the counter in two steps and the counter
  wraps; the first maps race with the application's `init`, and registering may
  panic half-way; the perf level is thread-wide, and operations nest and
  leave early; a task that shares a database can keep its path locked.
- *Correct when*: one operation is sampled per reset and sampling never dies out;
  all maps share one complete `DBMetrics`; timing is on only inside a sampled
  operation and a report has no other operation's work; a map is reported on as
  long as it lives, although reports fail, and a database nobody uses is closed.

### mysten-util-mem (`mysten-util-mem/src/*.rs`, the derive crate)

- *State*: none of its own; it walks the data of others. A walk keeps its call
  stack, the guards of the locks it is inside of, its sum, and the pointers it
  has seen when the caller gives it a `have_seen_ptr_op`.
- *Operations*: `size_of`, `shallow_size_of`, `constant_size` and
  `conditional_size_of` of every container; `malloc_size`, `malloc_size_of`.
- *Hard*: others write under the locks while a walk goes by; a lock may be poisoned,
  and the panic unwinds through locks the walk holds; `constant_size` replaces an
  iteration by a multiplication; shared values.
- *Correct when*: a walk accounts for everything it passes, as one snapshot per
  lock; undisturbed, it counts each block once where nothing is shared or pointers
  are remembered; it damages no lock it need not; and it ends.

### telemetry-subscribers (`telemetry-subscribers/src/*.rs`)

- *State*: the global subscriber, the panic hook, the log filter behind its
  reload handle, the registries with the span latencies, `LOGGER` of
  `init_for_testing`, and per output a bounded queue with a worker and a guard.
- *Operations*: `with_env`, `init`, `init_for_testing`, `FilterHandle::update`,
  logging, the panic hook, the drop of the guards.
- *Hard*: several inits race and all but one panic half-way; a panic is
  reported through a queue that another thread empties, and `exit` runs no
  destructor; the drop of the guard waits, but not for ever.
- *Correct when*: hook, guards and filter are those of the subscriber in use; a
  crash has left a message; accepted lines are written before the guards are gone.

### component: the `Supervisor` (`component/src/lib.rs`)

- *State*: the receiver of irrecoverable messages, the cancellation sender and the
  join handle of the current task, and the managed component.
- *Operations*: `new`, `spawn`, `run` (a select over the report and the end of
  the task), `restart`; the component's `start` and `handle_irrecoverable`.
- *Hard*: a report and an end race; a restart starts the new task before it lets
  the old one go, so two generations of a component overlap
  (`component/src/lib.rs:128-136`).
- *Correct when*: every task that is replaced is handled once, before it is
  cancelled, and a task that failed or waits is replaced and released.

### mysten-network (`mysten-network/src/*.rs`)

- *State*: per server the bound address, the cancel handle, the connections and
  their `RequestLifetime` (a path, cloned with the service of each connection);
  the semaphore of the global limit; the metrics callbacks.
- *Operations*: parsing multiaddrs, `bind`, `take_cancel_handle`, `serve`,
  `local_addr`, `connect`, `connect_lazy`, and the tower layers each request
  passes (limit, load shed, lifetime, path header, trace, propagation).
- *Hard*: connections and requests interleave; a request ends by its answer,
  with a stream after its answer, by a timeout or with its connection; shutdown
  races with all of them; a name has several addresses.
- *Correct when*: the reported address leads to the server, a server shuts down
  only when told and then does unless a stream stays open, callbacks pair up and
  name the right path.

### Not modelled

| part | why |
| --- | --- |
| `rccheck` | stateless: a verifier compares the key of a certificate with the expected ones and leaves the chain, the times and the signatures to webpki, x509-parser and rcgen; a model would assume everything that matters |
| `mysten-network/src/codec.rs` | stateless: one call of bincode on a buffer that tonic frames |
| `prometheus-closure-metric` | checks labels and calls its closure when collected: one step, no state |
| `name-variant` | a derive macro without state |
| `x` | the repository's lint runner: configuration and I/O |
| parts of `telemetry-subscribers`: the span latency layer, the jaeger, chrome and tokio-console layers | one histogram observation per span; external crates behind features |
| parts of `mysten-util-mem`: the `roaring`, `lru` and `fastcrypto` implementations, `memory_stats_noop` | a constant or a call without control |
| parts of `mysten-network`: HTTP/2 options, the health reporter, TLS | passed on to tonic |
| the parsing and the generated configuration structs of the derive macros | compile time |
| the numbers of the gauges and counters of `metrics.rs` | copied, never read by the program |

## 2. Modules

| module | models | uses |
| --- | --- | --- |
| `TypedMap` | what `get`, `insert`, `multi_insert`, ... do to the contents of one map | |
| `Store` | the actor and its callers | `TypedMap` |
| `AtomicStore` | abstract: what the Store promises its callers | `TypedMap` |
| `StoreRefinement` | `Store` implements `AtomicStore` (refinement mapping) | `Store`, `AtomicStore` |
| `ColumnFamilies` | threads sharing the DBMaps of a database, crashes and reopening | `TypedMap` |
| `Iteration` | iterators over the encoded order; the derived read-only handle | |
| `SamplingInterval` | the sampling counter and its timer | |
| `PerfContext` | what sampled operations do to RocksDB's perf level and report, composed with the interval that samples them | `SamplingInterval` |
| `DBMetrics` | the process-wide `DBMetrics`, maps and their reporting tasks, the lifetime of a database | |
| `MallocSize` | measuring a structure while others lock and change it | |
| `Telemetry` | setting up logging, the output queue, the panic hook | |
| `Supervisor` | the supervisor and any task it may manage | |
| `Multiaddr` | parsing and interpretation of addresses by server and client | |
| `GrpcServer` | servers, channels, requests, layers and callbacks | `Multiaddr` |
| `MC*` | constants for TLC | the module named |
| `*Proofs` | theorems and proofs | the module named |

### How state and actions correspond to the code

**Store.** A member of `Calls` is one method invocation. `Begin` is the call,
`Enqueue` the completed `channel.send().await` (enabled only with a free slot),
`SendFails` the panic when the task is gone, `Receive` the return (or the
`expect` panic on a closed oneshot), `Cancel` a dropped future. Every
`StoreCommand` has its handler (`HandleWrite`, ...), which removes the command
from the channel, uses the map, wakes the obligations and answers, in one step:
the task has no await between receiving a command and finishing it. `reply` is the
oneshot channel; `obligations[k]` the calls parked on `k`. A failed `get` in
`NotifyRead` parks the call, a failed `remove` still wakes, as in the code.
`HandlerPanics` is a panic in `DBMap::cf` or an `Iter` predicate (the senders
are dropped), `Stop` the end after the last handle. `before`, `served` and
`unreadable` are history variables.

**ColumnFamilies.** An *id* is one incarnation of a column family. `catalog` is
what the database on disk has, `handle` what the open `DB` object maps names to.
An operation takes a lookup step (`LookUp`, or `LookUpPanics`) and then the
steps of the call on the handle it holds; `clear` is `DropCf` and `CreateCf`; a
batch looks up one handle per entry (`AddEntry`) and writes all of them at once
(`WriteBatch`). `ProcessEnds` stops everything at any point; `OpenCf` lists the
column families, opens them with those asked for and creates the missing ones.
`witness` collects every answer that was right at some moment of a call.

**Iteration.** `snap` is the snapshot, `pos` the entry of the raw iterator.
`Ser` is the big-endian two's complement encoding. `Keys` decodes keys only and
cannot be reversed, `Values` decodes values only and cannot be positioned, `Iter`
does all. `sec` is what the secondary has caught up to; `dump` and `count_keys`
catch up (`StartJob`), make an iterator (`JobIterates`) and read it with
`NextItem` like any other. One iterator exists at a time, and a read-only
handle runs one job at a time.

**Supervisor.** A *generation* is one task. `StartSpawns` and `StartReturns` are
the two halves of the component's `start`: the task may run before `start`
returns. `ObserveReport` and `ObserveEnd` are the branches of the select,
with the handling and the restart they lead to. The task is any program:
`Report`, `End` (return or panic), `Acknowledge`. `Drop` drops the future of
`spawn`.

**SamplingInterval.** `Sample` is one `fetch_add` and the test on its result; the
timer task has three steps (`TimerChecks`, `TimerResets`, `TimerWakes`), since
the operations run between its load and its store. The counter wraps at `Modulus`.

**PerfContext.** One thread; `stack` is the operations it is in (the iterator of
the keys of a `multi_get` is the caller's code and may run another operation).
`BeginRead` samples by `SamplingInterval`'s `Sample`, `BeginOther` by an interval
that may answer anything. `Default` is `RocksDBPerfContext::default`, `Drop` its
drop, on every way out (`Return`, `Fail`). `Work` is the call of RocksDB: `ctx`
holds whose work the counters contain. `Elsewhere` is other threads and the timer.

**DBMetrics.** `GetOrInit` is `OnceCell::get_or_init` around `New`, which
registers `Families`, the names of `metrics.rs` in their order, up to a refusal
(then it panics, and what is registered stays). `MetricsGet` and `MetricsInit`
are the two steps of `DBMetrics::get`. A map is a record with its clones (the
senders of the cancel channel), its metrics and its task. `Tick` and `TaskEnds`
are the branches of the task's select; `ReportGauges` is the report on its blocking
thread, which succeeds or panics by whether the column family is there, and
`ReportEnds` the await that gets its result or its `JoinError`. `ClearDrops` and
`ClearCreates` are the two steps of a `clear`. `arcs` counts other owners of a
database, `IsOpen` is RocksDB's lock on the path.

**MallocSize.** A value has a type and parts; `Types` has one constructor per
implementation of `MallocSizeOf`, and `Storage`, `constant_size` and the
`Visit*` actions are their rules. A walk's `todo` is its call stack, with a
release below the contents of a lock. `Unwind` is a panic in the walk
(`unwrap` of a poisoned lock, no `have_seen_ptr_op`); std poisons the mutexes whose
guards it drops. The writers are the program around the crate: they ask for a lock
with others held (`WriterWants`), from the outside in, get it, write, and drop
their guards or panic under them. `Owned` and `ReallyOwned` are the references: what
iteration over everything counts, a value under two Arcs at each of them, and the
blocks of a structure, each once.

**Telemetry.** `InitLayers`, `InitSubscriber` and `InitHook` are the three parts
of `init` another thread can get between; its config was or was not passed through
`with_env`, of which `CRASH_ON_PANIC` is kept. A panic goes through `PanicEvent` (the
hook's ERROR event), `PanicPrints` (the default hook), `PanicEnds` (`exit` when
configured) and `Unwinds`. `Offer` puts a line in the lossy queue,
`WorkerWrites` takes it out; `DropGuard` and `GuardTimesOut` are the drop of the
`WorkerGuard`. `accepted` and `written` count.

**Multiaddr, GrpcServer.** An address is a sequence of protocols; the parsers
accept what the code's do. `BindTcp`/`BindUnix` choose a socket the system has
free (port 0: any port) and record `local_addr`; `BindRefused` is every error
path. A DNS name has a set of addresses: `bind` takes any that is free, and a
channel reaches any listener among them. The cancel handle is `inside` the `Server`, `taken`, `sent`, `dropped`, or
`lost` (gone with a `Server` that is being served, which must not happen).
`Establish` gives a connection its own clone of the service, with an empty
path; `PollReady` takes a permit; `Call` runs the layers from the lifetime layer
inwards; `Respond` (the whole answer), `OpenStream` (the head of an answer whose
body goes on, as that of `Health/Watch`), `Abandon` (timeout, or the client gives up)
and the end of the connection end the handling of a request and give its permit
back; `CloseStream` ends a body. `DrainConnection`, the graceful shutdown of a
connection, waits for handling and for streams.

### External behaviour that is assumed

- RocksDB: operations on one handle are atomic; a batch is written as a whole
  or not at all; a write through the handle of a dropped column family fails,
  while reads through it still see its contents; `drop_cf` removes the handle
  from the table; an iterator reads a snapshot; acknowledged writes survive the
  process; a secondary has the primary's contents when it catches up.
- RocksDB's perf level and perf context belong to the thread; a thread starts with
  counts on and timers off; a path is locked while an `Arc<DB>` exists.
- prometheus: a registry refuses a second family of the same name.
- RocksDB's integer properties fit an `i64` (the report unwraps the conversion).
- std: `OnceCell::get_or_init` runs one initializer, and a panic leaves the cell
  empty; a mutex guard dropped by a panicking thread poisons, a read guard does
  not; a `Lazy` whose initializer panics stays poisoned.
- tracing: one global subscriber; `init` panics when there is one.
  tracing_appender: a bounded queue that drops lines when full; the guard sends an
  end, if there is room in time, and waits a limited time for the worker.
- tokio: channels are FIFO; a dropped receiver or sender is seen at the other end;
  a ready task is polled again.
- tonic, hyper, tower: the service is cloned per connection; `poll_ready` of the
  concurrency limit takes the permit and the response future holds it; graceful
  shutdown stops accepting, then waits for the requests in flight and for the bodies
  of their answers; a load-shed
  layer sheds only when the service inside it is not ready, which these never
  are. A DNS name resolves to a fixed set of addresses, tried in any order. The file of a unix socket survives its
  server. TLS is not modelled; `https` only selects the scheme.

## 3. Runs

| run | result | bounds | states |
| --- | --- | --- | --- |
| `StoreActor` | 5 properties hold | 3 calls out of 11 commands of every kind, 2 keys, 2 values, 2 slots, errors and panics on, symmetry in the calls | 1,878,147 |
| `StoreProgress` | 2 liveness properties hold | 3 calls, 1 slot, panics on | 142,000 |
| `StoreBatchWake` | **violation** | one `notify_read`, one `sync_write_all` | stops at the first violation |
| `ColumnFamilies` | 3 properties hold | 2 threads, 8 operations of every kind, 2 names, 3 ids, errors on | 1,611,813 |
| `ClearRace` | **violation** | `get` against `clear` | " |
| `IterationOrder` | 2 properties hold | 5 keys of 3-bit signed type, one bad key, one bad value, pages of 1 or 2 | 3,921,248 |
| `Supervision` | 5 properties hold | 4 generations, 3 reports each, channel of 2 | 288,852 |
| `Sampling` | 6 properties hold | threshold 2, counter modulo 11, 18 operations, 4 resets, nesting of 2 | 351,919 |
| `MetricsReporting` | 3 properties hold | 2 threads, 2 databases on one path, 2 maps, 3 clones of each, an application with and without clashing families | 78,296 |
| `GrpcServing` | 6 properties hold | 1 server, 11 addresses, a name with 2 IP addresses, 2 ports (one taken), 2 channels, 2 requests, 2 paths, limit 1 | 939,380 |
| `MemoryMeasuring` | 4 properties hold | 2 walkers, 1 writer, 7 structures with every container and lock, types nested at most 4 deep, 1 write, walks from two roots | 52,717 |
| `LoggingSetup` | 4 properties hold | 2 threads, 3 configs, 2 environments, queue of 2, 3 lines | 575,968 |

What they show:

- **StoreActor.** With every kind of command, database errors, cancelled calls, a
  dying task and dropped handles: the oneshot sender of a caller that waits is
  alive, in one place, with a running task (`NoOrphanedCall`); a parked
  `notify_read` is missing its key (`NoLostWakeup`) unless its own `get` failed;
  service keeps the real-time order of calls, fire-and-forget ones included
  (`ServedInRealTimeOrder`); a task that stops has drained the channel
  (`DrainedBeforeStop`); and the whole implements `AtomicStore`. Three calls
  are needed for a returned fire-and-forget call, a waiter and a reader to meet.
- **StoreProgress.** Every call other than `notify_read` ends, and a parked
  `notify_read` ends once a write or removal of its key is queued, though the
  task may die at any command.
- **ColumnFamilies.** `AnswersAreWitnessed` is linearizability of each read
  against the map, with stale handles; `MissingOnlyWhileClearing` says a name
  without a handle is inside a `clear` or was left so by one that failed;
  `WritesAreWhole` says that every change of the contents is a whole put, delete,
  batch or clear: nothing of one that fails, panics or is cut short, and nothing
  through the handle of a dropped column family. Three ids are enough to open two names and clear one. The batch writes to both names,
  with a range deletion, so a stale handle in one entry must void the others.
- **IterationOrder.** A loop returns the entries from its start on, once each; from
  `skip_to` on these are the ones not smaller than the key, in the order of the keys,
  when the keys have one sign. Signed keys put the encoded order at odds with the
  typed one, which is not claimed for them; the bad key and the bad value make `Iter`, `Keys` and `Values` end in
  different places.
- **Supervision.** Four generations make three restarts, so an old task of two
  generations ago can still be around.
- **Sampling.** 18 operations wrap the counter. `ExactRate` is for
  an interval without a duration: one sample in `after_num_ops + 1` operations
  until the counter wraps. `TimingOnlyWhileSampled` and `ReportsOwnWork` are about
  the perf context: one operation inside another is the deepest nesting that
  changes anything, since a deeper one disturbs the window in the same way.
- **MetricsReporting.** `OneDBMetrics` is about the race of the application's `init`
  with the first maps, also when registering fails half-way; `ReportingRecovers`
  and `DatabaseCloses` pull in opposite directions: the task must not end
  while the map lives, although its reports panic during a `clear`, and must give
  the database up afterwards. Two databases on
  one path show that it can be opened again.
- **MemoryMeasuring.** `AccountsForEverything` compares every walk, at every
  step, with the reference sizes, so a wrong constant, a skipped element or a
  read outside a lock's snapshot shows; `ExactWhenCountedOnce` compares the result
  with the blocks of the structure; `PoisonComesFromBelow` says which mutexes a
  walk may poison; `WalksEnd` is liveness: a walk waits for inner locks with the
  outer ones held, and so does the writer. It needs that the writer takes nested locks
  from the outside in; with any other order TLC finds the deadlock. The structures have a constant and a
  non-constant instance of each container rule, a mutex in a mutex, locks in
  locks of other kinds, and shared Arcs of both countings.
- **LoggingSetup.** `FirstInitWins`: an init that loses the race leaves its hook,
  guard and filter to the one that won. `CrashLeavesAMessage`: the default hook has printed before `exit`,
  although the event may be lost. `FlushedOnDrop` and `LinesAreWritten`: no
  accepted line is lost unless the process stops first. A queue of 2 and 3 lines
  make it overflow, and make the guard's end not fit.
- **GrpcServing.** One server: another process's port and stale socket files
  stand for other listeners; the theorem covers any number of servers. Two channels
  and two requests with a limit of one make them compete for the permit, share a
  connection, and use two. `CancelledServerStops`: a cancelled server stops, unless a
  client keeps a stream open for ever, for which graceful shutdown waits (every server
  has `Health/Watch`, and no timeout is set by default). `CallbacksPaired`: a path has
  no more drops than starts, and as many when no channel is open.

The two violations are disagreements between the code and its own words, each
with a finding: a batch wakes waiters with `None`; `clear` makes other threads'
lookups panic.

Reading the source for the models turned up more places where words and code
part, or where a reader may be surprised; the models follow the code, and no run
is spent on them:

- typed-store: `skip_to` on keys of both signs goes by the encoded order
  (`rocks/iter.rs:82-84` and `keys.rs:44-46` say that it skips the smaller keys), and
  `delete_range` deletes by it; `reverse` on an iterator that was not positioned has
  the first entry only (`rocks/iter.rs:104-106`); a cancelled
  `notify_read` leaves its sender in `obligations` until its key is written
  (`lib.rs:136`); `rocksdb` is public, and a write that bypasses the task wakes
  nobody (`lib.rs:57`).
- metrics: a sampled `insert` reports before its put, so its report is empty
  (`rocks/mod.rs:677-687`); `block_read_count` is added twice
  (`metrics.rs:608, 617`); gauges are labelled by column family only, so that
  databases with families of the same name overwrite each other's; the four timer
  tasks of a `DBMap::new` never end.
- component: a task that completes is restarted (`component/README.md:28` says
  that supervision ends; `FailedIsRestarted` claims only what both say); the new task starts while the old one has not been told
  to stop (`component/src/lib.rs:128`).
- mysten-network: `on_start` comes with the first request of a connection only
  (`server.rs:518`), though `metrics.rs:32` says with each, so `CallbacksPaired` does
  not count starts per request; an open `Health/Watch` keeps a cancelled `serve` from
  returning; a server whose name has several addresses may listen at one that its
  clients do not try first (`server.rs:231`); load shedding is inside the limit
  and never sheds (`server.rs:113`); the file of a unix socket survives
  its server (`server.rs:200`).
- mysten-util-mem: `MallocSizeOf` is implemented for `Arc` (`allocators.rs:92`),
  although `malloc_size.rs:506-511` says that it must not be, and a value with two
  Arcs is counted twice, a mutex in it too (`malloc_size.rs:550-552` says that there
  is no such risk); an `IndexMap` of elements without a constant size counts its
  storage twice (`external_impls.rs:44`).
- telemetry-subscribers: the variable is `TOKIO_SPAN_LEVEL` (`lib.rs:299`), the doc
  says `TS_SPAN_LEVEL` (`lib.rs:82`); with `crash_on_panic` the ERROR event of the
  panic may still be in the queue when the process exits (`lib.rs:102`).

### Fairness

- *Store*: weak fairness of the task and of each call's send and receive steps
  (tokio polls ready tasks). Nothing makes clients call, cancel or drop. With a
  full channel the sender queue of tokio is fair; weak fairness suffices at the
  bounds checked because a call is made once.
- *Supervisor*: weak fairness of the supervisor, and of a cancelled task's
  acknowledgement. `start`, which is user code, is assumed to return. No task is
  made to report, end or wait.
- *SamplingInterval, PerfContext*: the timer task runs and its sleep ends.
- *DBMetrics*: the interval ticks, a report runs and ends. Strong fairness of `TaskEnds`: the select takes its
  ready branches in random order, so a tick does not pass the cancellation over
  for ever.
- *MallocSize*: strong fairness of the steps of a walk and of a writer that waits for
  a lock (std and parking_lot grant a lock that is free again and again in the end),
  and of a writer's unlocking: it gives up its guards between two requests in the
  end. No writer need lock or write.
- *Telemetry*: weak fairness of the worker. Nothing makes a thread log, panic
  or end.
- *GrpcServer*: the accept loop is polled (`serve` awaits it), connections drain
  once asked to when nothing of theirs is in flight, and the handling of a request
  ends: in an answer, in a stream that is opened, or by its timeout. Streams need not
  end, and clients need do nothing.

`CHECK_DEADLOCK FALSE` is set wherever the system may rest: all calls of the
instance made, a stopped server, a bound reached.

## 4. Proofs

The theorems hold for every value of the constants that satisfies the named
assumptions, which TLC evaluates in the runs.

- **StoreProofs.** `IInv` = `TypeOK`, `Lifecycle` (what status, channel and reply
  a call can have together), `SendersInOnePlace`, `NoOrphanedCall`,
  `NoLostWakeup`, `RealTimeOrder`, `DrainedBeforeStop`. They need each other: a
  lost wake-up is excluded because a parked call's sender is only in
  `obligations`, and the drain because commands are served in order. From it:
  `TypeCorrectness`, `NoOrphans`, `WakeupSafety`, `Drained`, and the action
  property `RealTime`. `Refinement` shows that `Store` implements `AtomicStore`
  under the mapping of `StoreRefinement`: a command takes effect when the task
  handles it, the end of the task is the death of the store, and getting a slot of
  the channel is a stutter. It needs `IInv` and `ClosedByDeath`: a oneshot closes
  without an answer only when the task is gone.
- **ColumnFamiliesProofs.** `IInv` = `TypeOK`, `Handles` (handles are those of
  the catalog, ids are fresh), `StagesFit` (which stage an operation can be in and
  what it holds), `CallsWitness`, and the properties. `CallsWitness` is the
  key: a held handle is the current one or that of a dropped family, and what
  can be read through it is already among the witnessed answers, because a
  dropped family does not change any more. From it: `LinearizableAnswers`,
  `HandlesMissOnlyInClear` and the action property `CallsAreAtomic`: a step that
  changes what the names lead to is the write of a call whose handles are all current.
- **SupervisorProofs.** `IInv` adds `Bookkeeping`, which says which generations
  are absent, current or past, and that the first report of the watched task is
  still at the head of its channel. From it: `HandlingIsOrderly`,
  `AcknowledgementIsHonest`, `EarlierGenerationsReleased`.
- **IterationProofs.** `IterInv` adds to the types `AtStart` (an iterator that was
  made is on the entry it starts on) and `SeenSoFar`: while it is read, what `next`
  returned is exactly what lies between the start and the position, in its
  direction. Then `prev`/`next` of RocksDB moves the position by one entry of a
  finite, totally ordered set. From it: `LoopsYieldTheRest`. `JobInv` says of a dump
  that the i-th entry it read has i - 1 entries before it, so the pages are the
  intervals of ranks: `DumpsReturnThePage`. The encoding enters only through
  being injective on the keys.
- **MetricsProofs**, on `SamplingInterval`, `PerfContext` and `DBMetrics`.
  - `IInv` adds `CounterCounts`: until the timer resets it the counter counts the
    operations since the last sample. From it: `OneSample`, `Spaced`.
    `CountsAllOps` says that without a timer the counter is the number of
    operations plus one; with the quotient of the next number: `ExactlyRated`.
  - `PerfInv` adds `StackOK` and, for each sampled operation, its `Window`: since it
    began the counters were reset, the timers run until it has worked, and
    `ctx` has only its work and that of what ran inside. From it: `TimersGoOff`,
    `ReportsAreOwn`. `PerfImplementsSampling` shows that every step of the
    composition is a step or a stutter of `SamplingInterval`; so
    `OperationsAreSampled` carries the guarantees of the interval over to it.
  - `MetricsInv` adds `MadeAfterInit` (a map is made only when there is a
    `DBMetrics`) and `LeftByClash` (what a failed `new` left registered comes from
    a clash with the application). It uses that the names of `Families` are
    distinct, an assumption TLC evaluates on the list itself. From it:
    `MetricsAreShared`.
- **MallocSizeProofs.** `MallocInv` = `Shape` (writing changes neither what a value is
  nor gives it parts it never had), `Walks` (whatever is on the stack of a walk
  before the release of a lock is strictly below that lock), `GuardsOnStack` (a
  walk holds exclusively only mutexes, and their releases are on its stack) and
  `PoisonComesFromBelow`. A walk that panics is then at something below every mutex
  it holds. `Below` is a recursive function; that it has a solution, and that
  it is the closure under parts, is proved from the order of the values
  (`BelowIsClosure`), by the last value at which it would fail. Assumed of a
  structure: it is finite and has no cycles. From it: `PoisonHasASource`.

  `AccountInv` = `AccountsForEverything`, `Held`, `OnTheWay` and `Sums`.
  - *Recursive functions.* `Recursion` shows once, for any ranked definition, that a
    recursive function satisfies its equation; with it `Sum`, `constant_size` (ranked by
    `Depth`) and `Owned` (by the order of the values) are unfolded.
  - *Constants.* `ConstantsAreExact`: a type's `constant_size`, when it has one, is what
    every well-typed value of it owns. `ElementsAreExact`: so `len * constant` is
    what the iteration over the elements of a collection would give.
  - *Interference.* `OnTheWay`: what a walk has still to visit is outside every lock, or
    inside locks that the walk has still to release (`Sheltered`). `Held`: those locks
    are held, by it. A writer changes only what is inside a lock it holds exclusively, so
    it changes neither these values nor what they own up to the next lock
    (`OwnedStays`).

  From it: `NothingIsMissed`.

  `ExactInv` says of a walk that nobody disturbed: there is a set `V` of values it is
  done with and a set `Pending` it has still to visit, each once (`Explored`). The two
  are disjoint, have the parts of all of `V`, and every value in them but the first is
  part of one in `V`; the sum so far is the `Cost` of `V`, and the op has seen what
  the conditional Arcs of `V` lead to. At the end nothing is pending, so `V` is
  closed, hence all that is reached. The set is needed because the stack alone does not
  say what was counted: a part is new (`PartsAreNew`) because a second owner of
  it in `V` would be another conditional Arc, and then the op has seen it.
  - *Sums over sets.* `ReallyOwned` sums over a set, in the order that `CHOOSE` takes its
    members; `SumTakesOut` shows that any member may be taken first (by the smallest set
    for which it would fail), so sums of disjoint sets add up (`SumOfDisjoint`).
  - *What is reached.* `ReachIsLeast`: `Reach` is the least set closed under parts.
  - *Constants.* A collection whose elements have a constant size is done with in one
    step, so all that is below it joins `V` at once. `ElementsAreTrees`: it has no Arcs and
    its storage adds up to `len * constant`. `ElementsAreNew`: none of it was counted.

  From it: `CountsEachBlockOnce`.

  Both use that a structure is well typed (an `Arc` leads to one value), that a value has
  one owner and is one part of it unless its owners are Arcs, and that what is measured is
  not itself inside somebody's lock (`StructureAssumption`); all of them are what Rust's
  ownership gives. Types are of finite size (`TypesAssumption`). An op begins with nothing
  seen, or there is none (`MallocAssumption`).
- **TelemetryProofs.** `LogInv` adds `ThreadsFit` (where the thread of the
  subscriber and a panicking thread can be) and `GuardFits`: while the guard is
  held the queue has only lines, and with what is written at least all that was
  accepted; while it is dropped, all that was accepted is written or before the
  end in the queue. From it: `OneInitWins`, `CrashIsReported`, `DropFlushes`.
- **GrpcServerProofs.** `ServerInv` = `TypeOK`, `ListensWhileServing`,
  `HeldFilesExist`, `NoHandleLost`, `LocalAddrReaches`,
  `ShutdownOnlyWhenCancelled`, `ChannelsAndRequests` and
  `ResponsePathIsRequestPath`. An address leads to its own server because two
  servers never hold one socket, and a unix path stays taken while its file
  exists. `CallbacksPaired` rests on `OpenCallsCounted`: starts minus drops of a path
  is the number of open connections whose first call had that path; its proof is
  about cardinalities of finite sets. So is that of `LimitIsGlobal`: `LimitInv` counts, for each server,
  the connections that have a permit and the requests being handled, gone clients
  included; `Call` moves a permit from the first to the second, and only
  `PollReady`, which looks at the count, adds one.

Only model-checked:

- liveness (`CallsEnd`, `WaitersWakeUp`, `FailedIsRestarted`, `WaitingIsReleased`,
  `OverdueIsReset`, `CancelledServerStops`, `ReportingRecovers`, `DatabaseCloses`,
  `WalksEnd`,
  `LinesAreWritten`): fairness is out of the prover's reach here. Every invariant
  and every action property that a passing run checks is also proved.

## 5. Plan

Modelled, in this order: the Store, the database, the iterators, the supervisor,
sampling, the network servers, then measuring memory, the perf context, the
process-wide metrics with the lifetime of a database, and logging. What is left
of the system is listed under "Not modelled".

Of the properties that the runs check, what is left to prove is the liveness.

Four hazards in `PROJECT.json` have no property, for want of a promise to state: a
failed `get` that parks a `notify_read`, a failed `remove` that wakes with `None`, the
order of keys of both signs, and pages of a dump that shift between calls.
