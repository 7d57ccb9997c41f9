# SpectraFlux in TLA+

SpectraFlux is a chassis that runs WebAssembly cells ("fluxcells"): it routes
HTTP requests and broker events to them, and stages, activates and removes them
while it runs. This directory holds TLA+ models of the parts whose
correctness depends on interleavings, failures and restarts, the TLC
configurations that check them on small instances, and TLAPS proofs of the
safety properties for every instance. Paths below are relative to the
repository.

Run `tlc -config X.cfg M.tla` for a run of the table under "Runs", and
`tlapm M.tla` for a proof module.

## 1. The system

| Component | State it keeps | Operations | Module |
|---|---|---|---|
| Circuit breaker (`runtime/src/wasm/mod.rs`) | one per cell: state, failure count, probe flag, trip instant, each with its own lock or atomic | `can_execute`, `record_success`, `record_failure` | `CircuitBreaker` |
| Brokers (`runtime/src/broker/mod.rs`) | in memory: one bounded channel and detached backoff timers; NATS: nothing | publish, subscribe, ack, nack | `EventPipeline` |
| Event processor (`runtime/src/broker/processor.rs`) | the message in hand, its verdicts | consumer loop, built-in handler, cells, trace, ack / retry / DLQ | `EventPipeline`; deployment events in `Deployer` |
| Router (`runtime/src/http/mod.rs`) | radix trees, `registered_paths`, `fluxcell_routes`, under one lock | register, unregister, rebuild | `Router` |
| Deployer, registry, guard (`runtime/src/deployer`) | records in memory and in `fluxcells.json`, wasm files, lockdown flags | stage (upload, remote), activate, remove, lockdown | `Deployer` |
| Boot (`runtime/src/runner.rs`) | how far the start has come | load configuration, open storage and database, migrate, load and restore cells | `FrontDoor`; persisted cells in `Deployer` (Crash, Restore) |
| Instance pool, epoch deadline, host ABI (`runtime/src/wasm/mod.rs`) | idle instances per cell; with an instance its transactions, handle numbers and command id | take, put back, discard on a trap, host calls | `GuestHost` |
| Host transactions, database pool (`runtime/src/db/mod.rs`) | pooled connections, open transactions by handle | begin, execute, query, commit, roll back, roll back on drop | `HostDatabase`, `GuestHost` |
| Migrations (`runtime/src/db/migrations.rs`) | applied versions in the database | migrate at boot | `Migrations` |
| Storage (`runtime/src/storage/mod.rs`) | key-value pairs with TTL | set, get_del, expire, reopen; INCR | `KeyValue`; INCR in `GuestHost` |
| Durable steps (`runtime/src/wasm/mod.rs`, `sdks/*/checkpoint`) | checkpoints by scope and step | load, save | `GuestHost`, `GuestCells` |
| Causal guard, dedup, HLC (`sdks/rust/src`, `sdks/typescript/assembly`) | bounded gates in guest memory, watermark table | compare, check and advance | `Causality`, `GuestCells` |
| Trace storage (`runtime/src/telemetry/trace.rs`) | recent list and map in memory, traces and index in the store | record, list, get | `TraceStore` |
| Configuration control plane (`dynamic_state.rs`, `config.rs`, `http/handlers/admin.rs`) | the configuration in force, its file | load, update, reload | `ControlPlane` |
| Magic link (`broker/processor.rs`, `wasm/mod.rs`, `fluxcells/rust/magic-link`) | tokens and codes in the store | mint, mail, redeem | `SignIn` |
| Mailer (`runtime/src/mailer.rs`), cell limits (`config.rs`) | none | resolve a tenant's provider, send; resolve a cell's profile | `Mailer` |
| HTTP front end and dispatch (`runtime/src/http`) | requests in flight, the log buffer | route, dispatch, answer | `HttpFront`, `FrontDoor` |
| SSRF shield, webhook cell, SDK bindings, TypeScript cell, CLI, launcher, heartbeat | none of their own, or counters nothing reads back | stateless translation and I/O | not modelled |

How they interact:

- HTTP workers call cells through the breaker and the router's read lock, and
  call the deployer from the `/_flux/deployer` handlers.
- The broker's consumer is one task. It runs cells through the same breaker,
  takes and publishes messages on the broker, stores traces, and hands
  deployment events to the deployer, some of them in spawned tasks.
- The deployer changes four things in sequence, with a separate lock or file
  access each: loaded modules, router, records, manifest file. Nothing
  serialises two deployments.
- The boot reads the manifest and the files that the deployer left, the
  configuration that an admin handler wrote, and a database that another replica
  may be migrating.
- A guest reaches the database, the checkpoints and the key-value store only
  through host calls. Its invocation owns an instance; connections, rows and keys
  it shares with every other invocation.
- The event consumer mints and mails the keys that an HTTP request redeems, under
  whatever mailer configuration is in force when it sends.
- A dispatched request spawns a task that records its trace after the answer;
  the admin handlers read what these tasks write.

What is hard in it, and therefore what the properties are about:

- *Check-then-act over several locks.* The breaker copies state and trip time
  and decides on the copies; the deployer works on a copy of a record and
  writes it back; the manifest is copied under a lock and written after it.
- *Partial failure.* A registration that collides at its second route; one of
  several cells that fails; an activation refused after the new module loaded.
- *Retry and loss.* Backoff timers racing new messages, a transport without
  redelivery, a dead letter published into the channel that only the publisher
  drains, an envelope that comes back to the consumer that produced it.
- *Crash between any two steps* of a deployment, the truncation and the write of
  the manifest included; of a start; of the write of the configuration.
- *Resources that outlive their user.* Connections of a guest that trapped, handles
  in a pooled instance, a migration of a replica that died.
- *Answers that are lost* after the work was done: a commit, a GETDEL, a mail, a
  checkpoint that was not saved.
- *State read before an await and used after it*: the version of the configuration,
  the list of recent traces, the watermark of an entity.

`PROJECT.json` lists every such hazard at its line, with the properties that
would notice it going wrong, or the reason why none does.

## 2. Modules

| Module | What it is |
|---|---|
| `CircuitBreaker` | the breaker, at the grain of one atomic access, with any number of threads |
| `CircuitBreakerProofs` | its invariants and one action property, proved |
| `MCCircuitBreaker` | three threads for TLC |
| `Delivery` | abstract: what the pipeline promises for one event |
| `EventPipeline` | brokers and processor; refines `Delivery` |
| `EventPipelineProofs` | its six safety invariants, and that each of its steps is one of `Delivery`, proved |
| `MCEventPipeline` | two messages, two cells for TLC |
| `Router` | `FluxRouter` as operators on a router value |
| `Deployer` | extends `Router`: deployment, manifest, crash and boot |
| `DeployerProofs` | what the router's operators preserve; types, routing agreement, approval and, for operations in turns, persistence and service, proved |
| `MCDeployer` | two workers, two names, two overlapping builds for TLC |
| `Causality` | stamps, their comparisons in Rust, AssemblyScript and SQL, and the bounded gates, as operators |
| `HostDatabase` | extends `Causality`: connection pool, transactions, row locks, watermark table |
| `GuestHost` | extends `HostDatabase`: instance pool, host calls, checkpoints, counter |
| `GuestCells` | extends `GuestHost`: cells of both SDKs as state machines, with traps and retries |
| `MCGuest` | two workers, two connections, two commands for TLC |
| `KeyValue` | the store of a chassis, in memory or a server |
| `HttpFront` | extends `KeyValue`: requests in flight, answers, log buffer |
| `TraceStore`, `SignIn`, `ControlPlane` | extend `HttpFront`: what requests and events do to traces, keys, configuration |
| `Mailer` | mailer and profile resolution as operators |
| `Migrations` | each replica's run of the embedded migrations |
| `FrontDoor` | composes the five into one chassis: start, requests, events, crash |
| `GuestProofs` | types, ownership of connections, checkpoints and counters of `GuestCells`, proved |
| `GuestOrderProofs` | extends `GuestProofs`: gates, results of steps, answers, rows and watermarks, proved |
| `MigrationProofs`, `SignInProofs` | the safety of those two inside `FrontDoor`, proved |
| `ControlProofs` | extends both: configuration in turns, the traces that are listed, and the types of `FrontDoor`, proved |
| `MCFrontDoor` | two users, two tokens, three command ids, two texts, two replicas for TLC |

A definition that ends in a mistake (`ResetFailures` has `DecrementFailures`
before it, `Mount` has `MountIgnoresError`) is a mutant: no specification uses
it. It stands for a plausible bug, and `PROJECT.json` says which property
notices when it takes the place of the definition it precedes.

### CircuitBreaker and the code

`state`, `failures`, `probing` and `tripped` are the fields of
`WasmCircuitBreaker`. A thread's `pc` is where it is in `can_execute`, in the
guest, or in `record_success` / `record_failure`; `permission` and `count` are
its locals. One action is one atomic operation or one critical section:
`ReadState`, `ReadTripped` and `Upgrade` are the three lock acquisitions of
`can_execute` on an open breaker, `CompareExchange` the one on a half-open one;
`ResetFailures`, `FreeSlotOnSuccess`, `Close` are `record_success`;
`FreeSlotOnFailure`, `CountFailure`, `Trip` are `record_failure`. Time is three
values of `tripped` (never, recent, cooled); the count is kept up to the
threshold, the only value it is compared with. `Heal` is the cell's dependency
recovering; nothing forces it.

### EventPipeline and the code

A message is `[id, depth, attempt]`: its origin, the number of `dlq.` prefixes
of its topic, and `delivery_attempt`. `channel` is the mpsc channel, `timers`
the tasks that `nack` spawns, `pc`, `msg`, `todo`, `allSucceeded`,
`dlqRequested` the consumer's locals. `Receive` takes a message and runs the
built-in handler; `RunCell` runs one subscribed cell, in any order since the
code iterates over a `HashMap`; then exactly one of `Ack`, `Nack`, `Drop`
(DLQ disabled) and `GiveUp` followed by `PublishDlq` settles the attempt, after
`Conclude` stored the trace. Both adapters are in one module because the
processor cannot tell them apart: `adapter` selects what `Nack`, `PublishDlq`
and room mean. `handled`, `trace` and `outcome` are what observers see:
`outcome` is a history variable.

`Delivery` is the promise: status, tries, and whether a cell asked for the dead
letter queue, per event. `EventPipeline` instantiates it as `Promise` with
`StatusOf` and `TriesOf`, and `KeepsPromise` is its `FairSpec`: liveness is part
of the refinement.

### Router, Deployer and the code

`Router` models `register_fluxcell_routes` including its partial effect on a
collision, `unregister_fluxcell_routes` (which does nothing for a cell that is
not listed) and `rebuild_routers`. A path stands for a method and a full path
pattern, and two different paths do not overlap: what the radix tree adds
(parameters, wildcards) is left out.

In `Deployer` a request gives a worker a *job*: the plan of steps that its
operation has left, the cell's name, the record it works on, and the manifest
copy that `save_to_disk` is about to write. `StagePlan`, `ActivatePlan`, and
`RemovePlan` spell out the order of steps in `stage_bytes`, `activate` and
`remove`, nested calls included: staging audits and then upserts, activation
upserts and then audits, and each of these saves the manifest. Each step is an
action that touches one shared thing: `Load` (module table), `Mount`/`Unmount`
(router, under its write lock), `Insert`/`Forget` (records), `OpenFile`, `WriteFile`,
`FailToWrite` and `Erase` (wasm files), `Snapshot`, `Truncate`, `Flush` (manifest). A
file is truncated when it is opened and written afterwards, through an open `handle` that
writes to nothing if the file has been erased meanwhile. `torn` records that a crash or
a failed write left the file of an Active build cut short. `Proceed`, `Return`
and `Reject` are success, early return, and the audit entry of a refusal.
`Lookup` takes the record and reads its file in one step. `Crash` drops all
memory at any point, `Restore` is one turn of the boot's loop.

`overlap` chooses in the initial state whether operations may overlap. Some
properties hold only when they take turns, and say so in their text (`~overlap`).

### Causality, HostDatabase, GuestHost, GuestCells and the code

`Causality` gives a stamp what its readers tell apart: its place in the order of
strings, whether it has a dot, and the pair each reader parses it to (or none).
`Evaluate` is `evaluate_causality`, `SqlOlder` the WHERE clause of the upsert,
which decides numbers or text by another test than the SDKs do. A gate is a map
and a queue, as in both SDKs; `EvictRust` and `EvictTs` differ in what a capacity
of zero means.

`HostDatabase` is `PostgresDb`, `PostgresTx` and as much of PostgreSQL as cells can
tell apart: an upsert waits for a lock on its row and sees what was committed
last; an error aborts the transaction, and COMMIT of an aborted one answers as if
nothing were wrong. A transaction that is dropped leaves its connection with a task
(`at = "rollback"`) until `FinishRollback`.

`GuestHost` keeps per worker the `HostState` of the instance it has checked out.
A host call touches nothing another worker sees except database and stores, so
each is one action, but for INCR of the embedded store, which reads and writes in
two. An INCR of Redis that fails may have counted all the same (`IncrFails`): the answer
may be lost after the server executed the command. `Checkout`, `PutBack` and `Discard`
are the three ends of `invoke_guest_json`'s handling of an instance.

`GuestCells` runs one of the three programs that the SDK documents (orders,
payments, visits), in either language: `language` selects whether an open
transaction rolls back when dropped, whether an SDK error is a value or a trap,
and what the SELECT of the watermark finds (the AssemblyScript port never finds
a row). `Trap` may cut an invocation off at any point: panic, throw, deadline.
`UpsertFresh` waits while another transaction has the row, as `BeginTx` waits for a
connection, and neither has a timeout; a failure may end the first wait (`FailUpsert`) but
need not. `counted` and `unsure` are history: the INCRs that answered, and those of Redis
that failed.

### KeyValue, HttpFront, TraceStore, Mailer, SignIn, ControlPlane, Migrations

A request is a record: its kind, where its handler is (`pc`), and what it has read
(`arg`, `seen`, `base`). Each action is what a handler does between two awaits.
`KeyValue` lets a call fail; on a server a failed call may have been carried out.

- `TraceStore`: `SaveTrace`, `Remember`, `CopyRecent`, `SaveIndex` are
  `record_trace`, two store accesses around two critical sections; `GetTrace` to
  `KeepTrace` and `ListRecent` to `AdoptIndex` are the two readers, which fill
  memory from the store after an await.
- `Mailer`: how file, environment and tenant overrides resolve to a provider, and
  which outcomes each provider's send may have. The SMTP sender connects to nobody,
  so its mail is `"written"` and reaches nobody.
- `SignIn`: `Mint`, `StoreToken`, `StoreCode`, `SendMail` are one attempt at a
  magic-link event; a Nack is one more `Mint`. `Redeem` is the GETDEL of
  `dispatch_builtin`.
- `ControlPlane`: a configuration is a text that parses or not. `Loaded` is the
  load with its fallbacks. `OpenFile` truncates and `WriteFile` writes: between
  them a reader finds the empty text, which parses. `StoreState` stores
  the version it based on what it loaded in `OpenFile`, plus one.
- `Migrations`: one action per statement, per replica. `tx` is the version whose
  transaction the replica has open. A run that fails (`Fail`) drops its transaction, which
  rolls back, while its connection stays in the pool of the living process (`Ends`);
  the end of the process closes the connection (`ForgetMigrator`).

### FrontDoor

`FrontDoor` adds the phases of `start_server`, `Arrive` and `Dispatch` for every
kind of request, the events, expiry, edits of the file by hand, and `Crash` at any
point. `traffic` chooses in the initial state which requests come: sign-in,
traces, configuration, or starts of two replicas. They share the chassis, the store and
the request table; keeping them apart keeps TLC's state space small. `inTurns`
chooses whether admin requests may overlap, as `overlap` does in `Deployer`.

## 3. Runs

| Run | Module, cfg | Checks | Result |
|---|---|---|---|
| `breaker` | `MCCircuitBreaker` | `TypeOK`, `ProbeSlotOwned`, `OpenHasTripInstant`, `ClosedStaysOutOfHalfOpen`, `OpenIsProbed`, `Recovery` | holds |
| `breaker_cooloff` | `MCCircuitBreaker`, `CircuitBreakerCooloff.cfg` | `OpenUntilCooled` | violated |
| `pipeline` | `MCEventPipeline` | `TypeOK`, `OneCopy`, `AckedMeansHandled`, `BuriedIsInDlq`, `TraceTellsOutcome`, `NeverBlockedOnItself`, `KeepsPromise` | holds |
| `pipeline_nats_loss` | `MCEventPipeline`, `EventPipelineNats.cfg` | `NothingLost` | violated |
| `pipeline_full_channel` | `MCEventPipeline`, `EventPipelineFull.cfg` | `DlqUnblocksStream` | violated |
| `deployer` | `MCDeployer` | `TypeOK`, `RoutesAgree`, `OnlyApprovedRuns`, `ActiveIsServed`, `RecordsPersistInTurns` | holds |
| `deployer_manifest` | `MCDeployer`, `DeployerManifest.cfg` | `RecordsPersist` | violated |
| `deployer_remove` | `MCDeployer`, `DeployerRemove.cfg` | `RemoveUnmounts` | violated |
| `deployer_repeated` | `MCDeployer`, `DeployerRepeated.cfg` | `ActiveIsServed` | violated |
| `guest` | `MCGuest` | `TypeOK`, `HandlesAreOwn`, `GatesInBounds`, `AnsweredMeansDurable`, `NewestWinsInTurns`, `ChargedAgainOnlyIfLost`, `StepOfIdentifiedIsOwn`, `CountsKept`, `WatermarkGrows`, `EveryInvocationEnds` | holds |
| `guest_steps` | `MCGuest`, `GuestSteps.cfg` | `StepIsOwn` | violated |
| `frontdoor` | `MCFrontDoor` | `TypeOK`, `RedeemedOnce`, `SignedInAsAddressed`, `RefusedForAReason`, `ListedIsOpenable`, `FileIsInForceInTurns`, `UpdateSurvivesRestart`, `MigratedOnce`, `VersionGrowsInTurns`, `StartEnds`, `HostHoldsNothingUp` | holds |

### What the passing runs show

- **breaker**. However the accesses of three threads interleave, the probe slot
  does not leak (a leak would deny a half-open cell for good), no decision on
  stale copies half-opens a closed breaker, an open breaker is probed or closed
  in the end, and once the dependency heals the breaker closes and stays
  closed.
- **pipeline**. No event is in two places, none is acknowledged unless all its
  cells answered ok in one attempt, a buried event has its envelope, the trace
  tells how the event left, and the pipeline implements `Delivery`: at most
  `MaxTries` attempts, one settlement, and each published event is tried and
  settled in the end. `NeverBlockedOnItself` holds with room for every event in
  flight (capacity two, two events).
- **deployer**. Listing and dispatch of the router agree, and no build
  runs under a name where nobody asked to activate it, whatever overlaps,
  collides or crashes. When operations take turns, an Active record is loaded,
  listed and routed, and the manifest gives back the records in memory, whatever
  was refused or cut off by a crash before. The first is subject to `~torn`: staging a
  build again truncates the file `{name}-{sha8}.wasm` that its Active record names, so a
  crash or a failed write at that point leaves a build that the next boot, or the next
  activation, cannot load. Neither of the two holds when operations overlap: the run
  `deployer_manifest` shows it for the manifest, and for `ActiveIsServed` a removal
  beside an activation of the same cell is enough. Nor does `ActiveIsServed` hold if a
  build lists a route twice (`deployer_repeated`).
- **guest**. No connection leaks through a trap, an early return or the pool of
  instances, and no guest reaches another's (`HandlesAreOwn`); an acknowledged
  order is durable, though commits fail, answers are lost and aborted transactions
  answer COMMIT; the committed watermark only grows, even where two transactions
  were both told Fresh; with the Rust SDK and in turns the row is that of the newest
  stamp; an effect repeats only if its checkpoint was lost; a pooled instance never
  hands out a step of its previous command; no count that was answered is lost (on the
  embedded store only in turns), and none appears but for INCRs of Redis whose answer was lost
  (`CountsKept`); and every invocation ends, though guests wait, without any timeout, for
  connections and rows that trapped guests held. The stamps of the
  instance (99.9999 and 100.0001) order the other way as strings.
- **frontdoor**. A key signs in at most as often as it was minted, nobody is signed
  in with the token of somebody else's mail, and a mailed key is refused only for a
  cause; a listed trace can be opened; an update answered 200 in turns survives
  restarts, and the file, what is shown and what is in force agree; two replicas
  build each migration once; a start ends, also beside a replica whose migrations failed
  and which lives on; and the host holds nothing up: again and again every request
  has ended, with the task it leaves, but for those that wait for their client's body or for
  their guest.

### What the violated runs show

Each is a sentence of the repository that the code does not keep; `PROJECT.json`
quotes it under "findings".

- **breaker_cooloff** (`OpenUntilCooled`). A success admitted before the trip
  reports after it and closes the breaker at once. `Recovery` and `OpenIsProbed`
  still hold, so the effect is a shorter cool-off, not a stuck breaker.
- **pipeline_nats_loss** (`NothingLost`). The NATS adapter's `nack` does nothing
  and each of its deliveries is the first, so with `max_retries` above one a
  failed event is neither retried nor dead-lettered.
- **pipeline_full_channel** (`DlqUnblocksStream`). With a full channel the
  consumer waits for room that only it could make.
- **deployer_manifest** (`RecordsPersist`). Two operations write the manifest in
  the opposite order of their copies, or into each other.
- **guest_steps** (`StepIsOwn`). Commands that carry no id run under the scope
  "default", so one of them is given the memoised result of the other's step, and its
  own effect never runs. The run gives both commands no id; with ids the property
  holds (`StepOfIdentifiedIsOwn`).
- **deployer_remove** (`RemoveUnmounts`). A registration that collided halfway
  leaves a claimed path of a cell that is not listed, and removal rebuilds only
  for listed cells.

- **deployer_repeated** (`ActiveIsServed`). Staging compares the routes of a build with
  those of other cells only, so a build may list a route twice. Its activation loads the
  new module and takes the old routes down before the second registration collides with
  the first: the cell stays recorded Active, under its old sha, and has no routes.

### Bounds, and why they are enough

- *breaker*: three threads and threshold 2, so that one thread can hold a stale
  copy while a second trips the breaker and a third probes it, and so that the
  threshold is reached by two different threads. Time and count are finite
  by abstraction; there is no state constraint.
- *pipeline*: two messages, two cells, two attempts, one DLQ level, capacity 2
  (1 in the full-channel run, where the channel must fill). One message is
  malformed, one cell also listens to the DLQ topic, and both topics run the
  built-in handler. `MaxDepth` cuts off an envelope of an envelope: deeper
  levels repeat the first.
- *deployer*: two workers, two names, two builds of which one claims a path of
  the other at its second route, so that a collision can happen halfway. Events
  are operations, lockdowns and crashes. At most five when they take turns
  (`MaxInTurns`: stage and activate both cells, then crash), three when they
  overlap (`MaxOverlapped`: two overlapping, and one before them or a crash
  after); `overlap` chooses in the initial state, and the runs that look for
  a violation set the bound they do not need to zero. `deployer_repeated` has three in
  turns, of which two suffice: a build, then one that lists a route twice. Workers
  are symmetric; names are not, because `BootOrder` orders them.
- *guest*: two workers and two connections, so that a rollback under way holds the
  row, or the last connection, that another worker waits for; two commands on one
  entity, the first delivered up to twice, so that a retry meets a newer command;
  one pooled instance and a gate of capacity one, so that both limits are met;
  two transactions per invocation (`MaxTx`), as an Err lets a handler try again. Program,
  language, gate, backend and overlap are chosen in the initial state.
- *frontdoor*: per behaviour two requests, three for configuration in turns
  (`MaxArrivals`), and one crash, expiry or edit (`MaxMishaps`); two users, two
  tokens and one code, so that codes collide; three ids of which two were traced by
  an earlier process and a list of at most two; two texts (one names a cell profile that
  does not resolve), the malformed and the empty one; three environments; two
  replicas and two migrations; a log buffer of one. What one kind of traffic does not
  depend on is fixed for it (`Init`): the configuration varies only for admin requests,
  the store only for sign-in and traces.

`CHECK_DEADLOCK FALSE` is set where the system may stop: every event settled, or
the bound on operations used up.

### Fairness

- `CircuitBreaker!FairSpec`: weak fairness of each thread (invocations keep
  arriving, the scheduler runs them, and the epoch deadline makes a guest
  return) and of the passing of time. None for `Heal`.
- `EventPipeline!FairSpec`: weak fairness of the consumer, a task whose awaited
  calls return except for a send without room, and strong fairness of each
  timer's send, because the channel hands out its permits in the order
  in which tasks asked for them, so that a waiting timer is served if room
  appears again and again. None for producers.
- `GuestCells!FairSpec`: strong fairness of each worker's own steps and weak fairness
  of the rollback tasks. The pool serves waiters in order and so do PostgreSQL's row
  locks, so a resource that is free again and again is obtained; only `BeginTx` and
  `UpsertFresh` ever wait, and no failure is a way out that the fairness could force:
  a statement on a locked row fails by `FailUpsert`, which is not among the
  fair steps (`Work`), and a failed BEGIN needs a free connection too. The assumption is that
  a statement that waits for no row, and a store call, is answered or fails. Nothing obliges
  guests to trap, commands to arrive or checkpoints to expire.
- `FrontDoor!FairSpec`: weak fairness of each replica's start, and of the handlers and trace
  tasks taken together: the runtime runs some of them if any is ready. Left out of it are
  handlers that wait (`Waits`): for the body that a client still has to send
  (`dispatch.rs:33`, `admin.rs:272`), and for a guest, which may wait for a connection of the
  pool. The server sets no timeout for either (`runner.rs:368-370`), so such a request may
  stay for ever, and no property says otherwise. The assumption is that calls to the store,
  the database and the mail server are answered or fail. No fairness for requests, events,
  crashes, lost migrations, expiry or edits.
- `Deployer` has no liveness property.

## 4. Proofs

All theorems are for every value of the constants under the named assumptions:
`ThresholdAssumption`, `PipelineAssumption`, `NobodyAssumption`,
`DeployerAssumption`, `StampAssumption`, `DatabaseAssumption`, `HostAssumption`,
`DeliveriesAssumption`, `TraceAssumption`, `MigrationsAssumption`,
`FrontDoorAssumption`. TLC evaluates each on its runs.

**CircuitBreakerProofs.** `IInv` is `TypeOK`, `ProbeSlotOwned` and
`OpenHasTripInstant` together. The slot stays owned because only its owner's own
control point ends ownership, and a store of FALSE by a straggler makes the claim
vacuous. A half-open step keeps the trip instant because the breaker it found
Open has one. `NoHalfOpenFromClosed` proves the action property: the only step
to HalfOpen re-reads the state under the write lock.

**EventPipelineProofs.** `OneCopy` is not inductive: burying an event adds a copy
of another, its envelope. The invariant adds `EnvelopeAfterBurial` (an envelope
exists only once its event is dead), `CellsAccounted` (until something fails,
each subscribed cell has answered or is to be run) and `TracedBeforeDlq`. The
channel is a sequence, so `AppendEvents` and `TailEvents` first say what
appending and taking do to the set of queued events and their distinctness.

`ConsumerNeverWaitsForItself` is for a channel with room for every event
(`Cardinality(Messages) <= Capacity`; the run `pipeline_full_channel` shows what happens
without): what the channel, the timers and the consumer hold are different events, so
while the consumer holds one the channel has room for it. `ImplementsDelivery` is the
safety half of `KeepsPromise`: under `IInv` each step delivers one attempt, settles an event
or leaves `StatusOf` and `TriesOf` of every event as they are (`StepKeepsPromise`, one
lemma per action).

**DeployerProofs.** First the router's operators: registration keeps `Agrees` because
it claims only paths that were free, which no listed cell's can be; rebuilding does
because agreement makes listed routes disjoint; removal of a cell is a rebuild or
nothing. Then the deployer. `OnlyApprovedRuns` is not inductive: a record turns Active
in a worker's hands, travels to memory, into another worker's manifest copy,
onto disk, through a crash, and is loaded by the boot. `IInv` follows approval
along that way (`ApprovedJob`, `ApprovedManifest` of the records, of the
copies and of the disk). A job's plan is data, so the invariant also says what
the remaining steps rely on (`JobOK`): a step that uses the record has one or
looks it up before (`Prepared`), and a plan that forgets a record, and then holds
one of another sha, does not load. `AdvanceKeepsJob` shows that taking a step off
the plan keeps this, `OneJobChanges` lifts it to all workers, and each action has
a lemma.

With operations in turns one worker at most is busy, and a plan is a path through a fixed
relation of which step may follow which (`Follows`, `PlanOK`). `SyncInv` says how far its
save has come: only between truncation and flush does the manifest not open to the
records. That gives `RecordsSurviveInTurns` without further hypotheses. `ServedInv` adds
what the busy worker may rely on (`TurnOK`): every other cell is served, its own is unless
it is between touching the module or the routes and its record (`Disturbed`), and nobody
else has the routes that it is about to mount (`Free`); and, while the chassis boots,
that only cells already restored are mounted (`BootOK`). `ActiveCellsAreServed` needs
`RoutesDistinct`, without which it is false (`deployer_repeated`), and `BootListsAll`: the
boot goes once over the values of the registry's map, sorted by name. `~torn` is part of the
property. Until something is torn, the file of each Active record is whole or is
being written by the one busy worker, and what that worker will write is the build that
the record names. Once it is torn the property says nothing more: the routes of
the cell that did not load are free, so a later activation may take them, and to repair
the file does not by itself give the cell its routes back.

**MigrationProofs.** That a commit adds a version nobody recorded rests on its
transaction having found the key free and on no other transaction being at the same
version (`ApartFromEachOther`); that none is missing before it rests on how far the
replica has come (`RunsAhead`). A replica has a transaction open only between its DDL and its commit
(`OpenAt`), since every way to end a run closes it. The rest of `FrontDoor` leaves migrations
alone.

**SignInProofs.** `RInv` says where requests of which kind can be, so that no
trace is written under a key of a mail. `SInv` follows a key: it is in the store, or
about to be, no more often than it was minted and not redeemed (`Counted`); a token
has one owner over mint, store and mails (`OneOwner`), a code need not; a mailed
key is in the store until it is spent (`MailedKept`), which it also is when a store in
memory is lost with its process; who redeems typed a guess or a key of their mail (`Honest`). Each
step of the chassis has a lemma, most of them through `SilentKeeps`: it moves no
request that redeems.

**GuestProofs.** `HandlesAreOwn` follows from how a handle is used: one that was not
begun holds nothing (`Unused`), no connection is under two handles (`OneHandle`), and
an instance in the pool or with an idle worker has no handles at all (`Clean`). Each
step either moves a connection between the pool and one handle (`BeginKeeps`,
`CloseKeeps`), takes all of an instance's (`LeaveKeeps`), or none (`MovesKeeps`). For
checkpoints and counters `TurnInv` says that in turns an effect runs only where
nothing is remembered or the checkpoint was lost, and a counter about to be stored is
still the one that was read; `AsideKeeps` serves the steps that touch neither. The bound of
a counter from above, by what was answered or left unsure, holds under overlap too,
for it and for every value that a guest has read; the bound from below is for Redis
or in turns.

**GuestOrderProofs.** A gate's queue and map have equally many entries because no key is
queued twice (`OnceEach`), which is the inductive part. `StepsAreOwn` follows the result of
a step back to what was saved in the scope (`SavedInScope`, `ResultInScope`); its
hypothesis `IdsAreOwn` is that two commands have one id only if they have none. The other
three theorems are for stamps that every reader parses to the same pair
(`StampsAgree`), which are those an HLC prints: `Causality` also has stamps that the
readers order differently, and they break the claim. `OrderInv` says that a
transaction which upserted a watermark has the row to itself (`Locks`), so that the
verdict it was given stands until it ends; where a worker's program is, what its
transaction wrote and what it has answered agree (`Claim`); and what was answered has been
reached by the committed watermark. `Grown` is what any one step may do to a watermark.

**ControlProofs.** Extends `SignInProofs` by `CInv`. In turns the handler at work is
the only one (`OneAdmin`), so what it has read is still so (`UpToDate`): the version it
loaded, the file it truncated, the text it wrote or read. An acknowledged update is
in the configured file, and the configuration in force names that file
(`Remembered`), so the truncation that could lose it is also the one that gives the
acknowledgement up. Requests do not outlive their process (`Dependent`), so a boot
finds none.

For the traces, a task that is slow and a reader of the index may each put an old list in
the place of a newer one, in memory or in the store. So the invariant is about every list
alike: the one in memory, the one in the store, and each copy that a request holds
(`Backed`): it repeats no id, and names only ids whose trace the store
has, failed to take or let expire (`Saved`). What is listed has its trace in memory or
came with the index (`MemoryOK`), and nothing is left of memory when the process is
gone (`Forgotten`).
`InFront` is written by position (`Place`), which is what removing an id from a list
that has it at most once is. `Typed` says for each kind of request what it holds at each
point; with the other invariants of `FrontDoor` it gives `TypeOK`.
`FrontDoorAssumption` also says that keys of different uses (tokens, codes, traces, the
index) differ, that `NoValue` is not a number, and that the bounds are naturals.

| Theorem | Says |
|---|---|
| `CircuitBreakerProofs!TypeCorrect`, `SlotAlwaysOwned`, `TripInstantKnown`, `NoHalfOpenFromClosed` | `TypeOK`, `ProbeSlotOwned`, `OpenHasTripInstant`, `ClosedStaysOutOfHalfOpen` |
| `EventPipelineProofs!TypeCorrect`, `NeverTwoCopies`, `AcknowledgedWasHandled`, `BuriedStaysInDlq`, `TraceIsTruthful`, `ConsumerNeverWaitsForItself` | `TypeOK`, `OneCopy`, `AckedMeansHandled`, `BuriedIsInDlq`, `TraceTellsOutcome`, `NeverBlockedOnItself` |
| `EventPipelineProofs!ImplementsDelivery` | the pipeline implements `Delivery!Spec` |
| `DeployerProofs!TypeCorrect`, `ListingMatchesDispatch`, `OnlyApprovedBuildsRun`, `RecordsSurviveInTurns`, `ActiveCellsAreServed` | `TypeOK`, `RoutesAgree`, `OnlyApprovedRuns`, `RecordsPersistInTurns`, `ActiveIsServed` |
| `DeployerProofs!RegisterKeepsAgreement` and its siblings | what the router's operators preserve |
| `GuestProofs!GuestsTyped`, `ConnectionsOwned`, `EffectsRemembered`, `CountersKeepAnswers` | `TypeOK`, `HandlesAreOwn`, `ChargedAgainOnlyIfLost`, `CountsKept` |
| `GuestOrderProofs!GatesBounded`, `StepsAreOwn`, `AnswersAreDurable`, `NewestWins`, `WatermarksGrow` | `GatesInBounds`, `StepOfIdentifiedIsOwn`, `AnsweredMeansDurable`, `NewestWinsInTurns`, `WatermarkGrows` |
| `MigrationProofs!BuiltOnce` | `MigratedOnce` |
| `SignInProofs!KeysRedeemedOnce`, `SignedInAsOneself`, `RefusalsJustified` | `RedeemedOnce`, `SignedInAsAddressed`, `RefusedForAReason` |
| `ControlProofs!FileInForce`, `AcknowledgedIsLoaded`, `VersionsGrow`, `ListedOpens`, `FrontDoorTyped` | `FileIsInForceInTurns`, `UpdateSurvivesRestart`, `VersionGrowsInTurns`, `ListedIsOpenable`, `TypeOK` |

**Only model-checked**: liveness, that is `OpenIsProbed`, `Recovery`,
`EveryInvocationEnds`, `StartEnds`, `HostHoldsNothingUp`, and of `KeepsPromise` the half that
every published event is tried and settled in the end. Liveness under fairness and ENABLED
are beyond the prover. Every invariant and every action property that a passing run checks
is a theorem. What a recursive definition computes for every input would take an
induction over data, which the provers cannot do either: the proofs treat lists through
their elements and positions.

## 5. What is left out of the modelled parts

- Errors of manifest I/O, and of wasm file I/O other than writing a file (the code
  propagates or ignores them), and the audit history's content; that every audit entry
  saves the manifest is kept.
- What `stage_bytes` checks before its collision test (magic header, mount path,
  compiling, profile) is one choice to refuse or go on; so is a download and its
  checksum.
- Matching of route parameters and wildcards; the router's error text.
- NATS dropping messages of a slow consumer or across a reconnect; the loss
  that is modelled comes from the adapter alone.
- A crash of the process in `EventPipeline`: the in-memory broker is for tests
  and local development and promises nothing across a restart.
- The value of backoff delays: a timer fires at any time.
- What a cell does, in `EventPipeline`: it answers ok, fails, or asks for the dead
  letter queue. `GuestCells` has three programs.
- Marshalling across the guest boundary, fuel, memory limits, and the host imports for
  logs, random numbers, mail, publishing and `kv_store`.
- Nested transactions: a guest that begins one while it holds another. As many such guests
  as the pool has connections would wait for each other for ever, since `pool.get()` has no
  timeout here. No cell in the repository does it, so `EveryInvocationEnds` says nothing
  of them.
- Stores: lists, hashes, arithmetic other than INCR, and the width of a counter; time to
  live is a choice to expire. The embedded store is the one in memory, which is the default;
  the persistent one (`kevy://path`, `storage/mod.rs:31-78`) is left out.
- The search for a configuration file: `resolve_config_path` (`config.rs:108-139`) tries
  several candidates in order; `Loaded` has the one that it settles on.
- How likely two magic links are to have the same short code. That they may is modelled,
  and no property says whom a code signs in (`SignedInAsAddressed` is about tokens).
- HTTP: headers, spans, WebSockets, static pages, probes and read-only admin endpoints;
  of an authorisation only that it may refuse.
- Several databases, several cells in the configuration, cell watching, TLS, the
  heartbeat; broker and listeners start with the chassis.
- The session that a sign-in opens, and the templates of its mail.
- SSRF shield and webhook signature: predicates of their input. The CLI, the launcher
  and the TypeScript magic-link cell keep no state.
- A replica's database going away for good: a lost connection ends a transaction or a run
  of migrations.

## 6. Plan

Done, in this order: `CircuitBreaker`, `Delivery` and `EventPipeline`, `Router`
and `Deployer`; then the guests (`Causality` to `GuestCells`) and the chassis
(`KeyValue` to `FrontDoor`), with the proofs above, the refinement of `Delivery` and the
theorems for operations in turns among them. Next:

1. The remaining commands of the store, with counters of a width.
2. Action properties worth a theorem: what a step may do to an approval, to a settled event,
   to a key that was spent.
3. The crash of a process under the in-memory broker, should it ever promise more.

Composition: `Deployer` extends `Router`; `EventPipeline` instantiates `Delivery`;
`GuestCells` extends `GuestHost`, `HostDatabase` and `Causality`; `FrontDoor` extends
`TraceStore`, `SignIn`, `ControlPlane` and `Migrations`, which share `HttpFront` and
`KeyValue`. The breaker, the pipeline and the guests meet only in a cell's
answer, which each leaves open, so they need no product.
