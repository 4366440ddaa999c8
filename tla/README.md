# TLA+ models of the Firefly framework

Firefly (`src/`) is a Rust workspace of 72 crates: a Spring-Boot-like framework
with messaging, orchestration, resilience, scheduling, caching and many
adapters. This directory holds TLA+ models of the parts whose correctness
depends on interleaving, failure and ordering, the TLC configurations that
check them, and TLAPS proofs of the core safety properties for every value of
the constants.

## Inventory

Every part is listed in `PROJECT.json` with its status. The parts with protocol
state of their own:

| Part | State | Operations | What is hard | Module |
|---|---|---|---|---|
| Postgres broker (`eda-postgres`) | outbox table, cursor row per group, advisory lock, subscriptions, wake permit, page in memory | start, subscribe, publish, close, LISTEN supervisor, drain task | replicas sharing a group, lost NOTIFY, lost session, crash between dispatch and cursor, commit order against id order | `PostgresBroker` |
| Circuit breaker, bulkhead, timeout, chain (`resilience`) | breaker state, failure list or ring, probe counters, semaphore | execute, try_execute, allow, record | the operation is awaited between allow and record; a timeout drops futures | `ResilienceChain` |
| Saga engine (`orchestration`) | executed steps, rollback progress, cancellation token | run, retries, compensate under six policies | graphs, parallel batches, failures inside the rollback, cancellation | `Saga` |
| Recovery and persistence (`orchestration`) | rows (status, updated_at), passes under way | save, suspend, resume, list_stale, claim_stale, recover_stale, cleanup | overlapping passes, handlers longer than the threshold, unconditional saves | `Recovery` |
| Workflow engine | done set, completion order, spawned tasks, two cancellation tokens | run, compensate | siblings finishing after a failure, fire-and-forget nodes racing the rollback, the NoProgress exit | `Workflow` |
| Signals and waits | waiters, buffered payloads, oneshot channels | subscribe, deliver, wait_all, wait_any, dropped waiters | a delivery before, during and after a subscription; waiters dropped in between | `SignalService` |
| Event sourcing | streams, global log, snapshots, uncommitted events | load, raise, save (append, snapshot), projections' poll and replays | optimistic append, events appended between snapshot and stream read, older snapshot written last, failing projections | `EventRepository`, `Projections`, abstract `EventLog` |
| Outbox relay | queue of records, task handle, stop signal | enqueue, start, stop, relay loop | start and stop by several callers, failing sinks | `Outbox` |
| Scheduler and locks | dispatch loops, lock entry, session, stop signal | start, stop, tick, try_acquire, release | a run outliving its lock, lost replies and sessions, crashes | `Scheduler` |
| TCC engine | tried participants | try, confirm, cancel | partial confirm, ignored cancel errors | planned |
| Event ports, Redis Streams, cache, sessions, webhooks, callbacks, lifecycle | queues, LRU, registries | publish, get, put, register, deliver, shutdown | retries, bounds, invalidation races | planned or candidate |
| Everything else | configuration, adapters, wiring | | remote I/O, parsing, pure values | not modelled |

Interactions: an application awaits `Saga::run` or `Workflow::run`; the engines
do not persist, their host saves `ExecutionState` rows that `RecoveryService`
scans. A workflow node parks at gates of the `SignalService`, to which anybody
delivers. Writers reach the event store through the repository; projections read
the same store while they write. Instances of the scheduler meet only in the lock
backend. `Chain` nests decorators around one future, so dropping the outer future
drops everything inside. Replicas of a service meet only in the database: in the
outbox and offset tables and the advisory lock.

What makes each part correct: the broker delivers every row it passes, in order,
from one drainer, and is never stuck; the breaker trips, probes and recovers
within its budgets and leaks nothing; a saga runs and undoes steps in dependency
order and accounts for every step, and so does a workflow, which also leaves
no task behind and misses no signal; the repository is an append-only log whose
readers see prefixes of it, and projections get every event; the relay settles every
record once and can be stopped; a locked job overlaps with itself only when its lock
lapsed and is never locked out for ever; recovery repairs abandoned executions and
does not disturb live or finished ones. The hazards list in `PROJECT.json` names
the lines where each of these could fail.

## Modules

`PostgresBroker` - one consumer group shared by `Replicas`. A row's destination
and event type are one `kind`; `Selected` stands for the destination filter and
`Pattern` for the handlers' globs. `publish()` is three steps (INSERT draws the
id, the insert commits, NOTIFY), because other sessions run between them. A
session runs one statement at a time (`SessionFree`). The drain task follows
`run`, `drain`, `drain_one_batch` and `dispatch` through the values of `pc`;
`offset`, `last_dispatched`, `batch`, `full_page` and `matched` are the locals of
the same names. The histories `handled`, `late` (rows that became visible behind a
page), `missed` (handlers registered after a row was dispatched) and `cleared` (handlers
that `close()` removed before) exist for the properties only. The two queries of
`drain_one_batch`, cursor and page, are one step: the advisory lock keeps the cursor
still between them. Faults: failing or timed-out handlers, a lost LISTEN session
(reconnected without a catch-up poke), a lost query session (never reconnected;
the server frees the lock and discards unfinished inserts), crash and restart,
and `close()` in its two halves.

`ResilienceChain` - concurrent calls through Timeout, CircuitBreaker and
Bulkhead in both orders (`timeout_outermost`). `allow()` and `record()` are the
atomic sections of the breaker's mutex. Instants are kept as saturating ages.
`ExpireOutside` drops the breaker's own future: the permit returns (its guard is
dropped), nothing is recorded. `Acquire` and `TryAcquireFull` are the two bulkhead
entry points.

`Saga` - one run of a definition chosen from `Sagas`: `execution_order` as
the loop it is (`ready` is the layer, `Frontier` the steps of in-degree zero), the
forward pass, and the rollback. `CompOrder` holds the positions in `executed` of the
compensable steps and `rest` those whose result is not collected; the `Batch` under
way is the last of them, all of them, or the last with its neighbours of one group.
`CollectResult` is one turn of the loops that push names and count failures.

`Recovery` - rows by status and age; a pass's cutoff is the set `old[p]` of rows
older than it, which a row leaves with its next write. `claim_stale` is atomic in
both providers (a mutex; a transaction); `Claimable` is its condition. Handlers
are awaited between `Claim` and `HandlerDone`. `owner` is the host process that
runs an execution; `overrun` records executions taken up while somebody still
worked on them.

`EventLog` - the promise of the event store and repository: per aggregate a
sequence that only grows, writers that read the whole of it in one step and may extend
it only while it still is what they read. `EventRepository` is the code: `load` reads the snapshot
and then the events after it, `save` drains the buffer, appends with the expected
version and writes a snapshot every `SnapshotInterval` versions, each in a step of
its own with other writers between them and any store call failing. An aggregate's
state is the sequence of events folded into it, so that a lost, doubled or misplaced
event shows; `LoadAfter` is the suffix behind the snapshot's version. `ImplementsEventLog` is the refinement (INSTANCE EventLog WITH the
streams, and the aggregate a writer holds after load as its view).

`Projections` extends `EventRepository` by the `ProjectionRunner`: the poll of
`drive_once` with its checkpoint, `replay_all` and `replay` of one aggregate feed the
same projections while writers append; a projection may fail at any event. A page is
the set of its positions in the log, worked off in order (`Turn`).

`SignalService` - waiters, buffer and channels for one correlation id; each method is
one step under its mutex. `Workflow` extends it by a run of the engine: waves, skip
conditions, spawned tasks, both cancellation tokens, gates (`wait_all`, `wait_any`, with
timers and timeouts), compensation, and the exits of `run_inner`.

`Scheduler` - dispatch loops of one locked job over the in-process, Redis and Postgres
providers (`backend`). Sleeps, runs and TTLs end at some moment, so every order of the
three is explored. Faults are crashes, lost sessions and lost replies. An entry whose
run is gone (`Orphan`) stays until its TTL or, with Postgres, until the server notices
the closed connection. `lapsed` and `robbed` are histories.

`Outbox` - `start` is one step under its mutex; `stop` takes the handle, signals and
awaits in three; the relay loop copies the pending records (`batch`, worked off in
queue order) and publishes one at a time. `Send` is `watch::Sender::send`, which fails when no receiver is left.

`MC*` modules give the constants of the runs. Three of them put components that share no
state into one run: `MCGuards` (`ResilienceChain`, `Scheduler`), `MCOrchestration`
(`Saga`, `Workflow`, `Recovery`) and `MCEventSourcing` (`Projections`, `Outbox`). A
behaviour chooses its component at the start (`part`, `load`) and the others rest in their
initial state, so the run explores exactly the union of the components' state spaces, under
the fairness of each. Instances that are split further to keep them small:
`MCEventSourcing` has all writers on one aggregate beside the poll, or one writer of all
aggregates beside the poll and a rebuild; `MCOrchestration` has overlapping recovery passes
over one execution, or one pass over all of them.

The `*Proofs` modules hold the theorems, one module per
component; `EventSourcingProofs` is about `EventRepository` and `Projections`,
`WorkflowProofs` about `Workflow` and `SignalService`. Operators commented "Mutant of ..." are faulty variants of the definition
below them; substituting one must make the property listed beside it in
`PROJECT.json` fail.

## Runs

| Run | Bounds | Shows |
|---|---|---|
| `broker` | 2 replicas, 1 handler, 2 rows, pages of 2, 1 fault | NoSilentSkip, OrderedFirstDelivery, SingleDrainer, DuplicateOnlyAfterFault, NeverStuck |
| `guards` | chain: 3 calls, 2 permits, three configurations, both orders; scheduler: 3 loops on 2 instances, 3 providers, 1 fault; 119,480 states | TripsAtThreshold, SlotsAreHeld (permits conserved, probe budget, every slot recorded with the timeout inside), PhasesEnd; OverlapNeedsLapse, RobbedAtHome, NeverWedged, StopEnds |
| `orchestration` | sagas: every graph over 3 steps, 6 policies over 4 steps with 2 attempts, 6 steps for the rollback's circuit; workflows: every graph over 3 nodes with and without a fire-and-forget node, 4-node variants, gates on 2 signals with 2 deliveries; recovery: 2 passes over 1 execution, 1 pass over 2 (one skipped by the decider), threshold 1, retention 1, 1 fault; 269,941 states | DependencyOrder, RollbackComplete, InvocationsBounded, RunEnds; WaveOrder, RollbackExact, NothingOutlivesRun, NoLostWakeup, RunReturns; DoubleOnlyAfterThreshold, TerminalIsFinal, StuckIsRepaired |
| `eventsourcing` | two writers on one aggregate with 4 events beside the poll; one writer of 2 aggregates with 3 events beside the poll and a rebuild; snapshots every 2 versions, pages of 2, 2 projections, 1 fault; outbox: 2 relays, 2 records, 2 attempts; 213,592 states | ImplementsEventLog, SnapshotFaithful, NoProjectionGap, CatchesUp; OneRelay, SettledIsFinal, RecordsSettle, StopReturns |
| `broker_gap` (violation) | 2 replicas, 2 rows, no fault | a row that commits behind the cursor is never delivered |
| `broker_close` (violation) | 1 replica, 1 row | `close()` lets a page pass the handlers it has removed |
| `breaker_probe` (violation) | 2 calls, the timeout outermost | a probe that times out takes its half-open slot with it |
| `recovery_double` (violation) | 2 passes, 1 execution, threshold 1 | two handlers at work on one execution |
| `workflow_leak` (violation) | every graph over 3 nodes, no deliveries | a returned run with a spawned task still running |
| `es_retry` (violation) | 2 writers, 1 aggregate, the caller keeps an aggregate whose save failed | raised events neither stored nor buffered |
| `outbox_restart` (violation) | 2 relays, 1 record | a relay started after a completed stop relays nothing |
| `outbox_stop` (violation) | 2 relays, no record | a `start()` inside a `stop()` makes the relay miss the stop |

Why the bounds are enough to meet the interesting cases: two rows are the least
for which order, gaps and partial pages exist, two replicas for contention on the
lock, one fault placed anywhere for each recovery path. Three calls let a call
from an earlier phase meet two probes. Three steps give every kind of cycle and
diamond-free order, the four-step shapes add the diamond, and six steps leave work
after three failed compensations. With threshold 1 a handler can be younger than,
at, and beyond the threshold. Four events and snapshots every second version let an
older snapshot overwrite a newer one and a load meet both. Three loops are the least
with a sibling that shares its token and a rival that does not; one fault is a crash, a
lost session or a lost reply at any point. Two relays let a start fall into a stop and
follow one. The safety properties do not rest on the bounds: every invariant and action
property of the passing runs is proved for all values of the constants. The bounds
matter for the liveness properties.

Deadlock is not checked where the system may stop: every replica closed, every
row, event, start and fault used up, or the run done.

The violation runs state what a doc comment says and the code does otherwise; the
findings in `PROJECT.json` quote both. Beside each stands the strongest form that holds:

- `broker_gap`: ids are drawn before the insert commits, so the cursor can pass a row
  that is not visible yet. `NoSilentSkip` is what holds; it names these rows (`late`).
- `broker_close`: `close()` clears the handlers before it aborts the drain task, which
  counts its next row as dispatched. `NoSilentSkip` names these pairs (`cleared`).
- `breaker_probe`: in the order the crate calls canonical a timeout drops the breaker's
  future between `allow()` and `record()`; the half-open slot is never recorded, and once
  all are lost the breaker refuses every call. `SlotsAreHeld` contains the property for the
  order with the timeout inside; for the same reason `PhasesEnd` speaks of the end of
  half-open phases for that order only.
- `recovery_double`: nothing refreshes a claimed row while its handler runs, so a handler
  longer than `stale_threshold` gets a second one beside it. `DoubleOnlyAfterThreshold` is
  what the claim does guarantee; `TerminalIsFinal` names the executions two parties worked
  on (`overrun`), for which the unconditional save may overwrite a result.
- `workflow_leak`: the NoProgress exit does not join the spawned tasks.
  `NothingOutlivesRun` shows that it is the only exit that does not.
- `es_retry`: `save()` drains the aggregate's buffer before the append; after a failed
  append a second `save()` of the same aggregate returns Ok and stores nothing.
  `eventsourcing` models the caller that reloads (`Reload`), for which all is well.
- `outbox_restart`: `start()` resets the stop signal with `send`, which does nothing
  without a receiver; the relay it spawns then exits at once.
- `outbox_stop`: a `start()` between the parts of a `stop()` finds no handle, resets the
  signal and spawns a second relay; the first never sees the stop and `stop()` hangs.
  `StopReturns`, `OneRelay` and `SettledIsFinal` hold until such a call (`raced`).

Two smaller divergences are visible in the models and have no run of their own: a handler
registered after `start()` does not get the rows the group's cursor has passed (`missed`;
`broker.rs:209` says it "immediately receives any already-persisted events"), and a success
that fills the failure-rate ring at the rate does not open the breaker, since `record()`
compares on a failure only (`resilience/README.md:104`, "opens once the window is **full**").

Behaviour the properties leave alone because it is intended or nothing is said of it:

- a late result of a call admitted while closed may decide a half-open phase;
- a cancelled saga is not rolled back (`saga.rs:1111`); a StopOnError rollback leaves steps
  standing and still reports Compensated;
- a node parked at a gate for which no payload comes keeps its run waiting, also after a
  cancellation (`RunReturns`); payloads of the losers of a `wait_any` are lost;
- a loop that outlived its lock may release the lock of a sibling on its own instance,
  never that of another instance (RobbedAtHome); the Postgres provider ignores the TTL;
- that a full page is followed by a re-poke only makes the next page come sooner:
  `NeverStuck` holds through the poll.

## Fairness

- Broker: a drain task takes its next step (spawned task, every sleep ends,
  handlers are bounded by `HANDLER_TIMEOUT`) and the server finishes the statement
  of a live session. Handler errors, publishes and faults are not forced. With
  `MaxFaults` bounded, a handler fails finitely often; a row whose handler fails
  for ever blocks its group by design.
- Breaker: time passes, a call returns or times out, and traffic continues.
- Saga: the engine's future is polled and actions return. Compensations have no
  timeout of their own: one that never returns hangs the run, which `RunEnds`
  excludes by assumption.
- Event sourcing: the poll is called again and again (WF on Poll); writers and
  rebuilds are not obliged to do anything. Faults are bounded, so a projection fails
  finitely often; one that fails for ever stops the checkpoint by design.
- Workflow: the run's future and each spawned task are polled and node bodies return.
  Nobody is obliged to deliver a signal: RunReturns speaks of runs not parked at a gate
  for which no payload came.
- Scheduler: loops step and TTLs expire. Leaving the loop is strongly fair, because
  `select!` picks among ready branches at random, so a stop that is ready at every turn
  is picked in the end.
- Outbox: relay tasks and the callers inside `stop()` are polled. Nobody is obliged to
  call `start()` or `stop()`.
- Recovery: time passes and the host keeps scheduling passes whose handlers return.
  Owners are not obliged to progress.

## Proofs

`PostgresBrokerProofs` (any sets of replicas, handlers and kinds, any page size,
number of rows and faults; from `BrokerAssumption`). `NoSilentSkip` is not inductive:
what the cursor may pass depends on the page a drain task holds and on the
connection it writes with. `IInv` adds that ids beyond the sequence are free
(`SequenceInv`), a connected task between lock and unlock owns the lock (`LockInv`),
the page lies beyond the last dispatched row (`PageInv`), every row between the
page's cursor and its end is in the page or settled (`CoverInv`) and handlers leave
the snapshot only by returning Ok (`SnapshotInv`). Together with `SingleDrainer`,
the cursor a task overwrites is the one its page was fetched from. For
`DuplicateOnlyAfterFault` it adds that without a fault every started session is sound
(`SessionInv`) and that no page can repeat a delivery: the cursor or the page in memory
is past its row, or the handler has left the snapshot of the row under way
(`DeliveredInv`).
Two lemmas carry most steps: `GrowthStep` (deliveries and visible rows never disappear,
the cursor never rewinds) and `PageStep` (a page is kept, fetched or advanced by one
row). Theorems: `BrokerTypeCorrect`, `BrokerInvariant`, `BrokerNoSilentSkip`,
`BrokerOrderedFirstDelivery`, `BrokerSingleDrainer`, `BrokerDuplicateOnlyAfterFault`.

`RecoveryProofs` (any executions, passes, threshold, retention, faults; from
`RecoveryAssumption`). `IInv` adds that cutoff sets hold only rows older than the
threshold (`OldInv`), that a row is never older than the claim of the handler at
work on it (`HeldInv`) - so a claim that finds a handler at work finds one beyond
the threshold - and that an execution never taken up twice has at most one party
at work and is not terminal meanwhile (`SoloInv`). Theorems: `RecoveryTypeCorrect`,
`RecoveryInvariant`, `RecoveryDoubleOnlyAfterThreshold`, `RecoveryTerminalIsFinal`.

`OutboxProofs` (any number of starts, records and attempts; from `OutboxAssumption`).
`OneRelay` is not inductive: that no second relay is alive depends on who holds the
handle. The invariant adds that a relay that is alive is the one stored in `task` or
one that a `stop()` has taken and not yet joined (`HandleInv`, `SoloInv`), that a copy
holds pending records as long as its relay is the only one (`FreshInv`), and, for the
type of `attempts`, that attempts made and under way stay within the limit plus one
round of raced relays (`BudgetInv`). Theorems: `OutboxInvariant`,
`OutboxTypeCorrect`, `OutboxOneRelay`, `OutboxSettledIsFinal`.

`SchedulerProofs` (any loops, instances, backends and faults; from
`SchedulerAssumption`, which keeps the value for "nobody" apart from loops and lock
entries). The invariant says that a run whose lock neither lapsed nor was taken by a
sibling is the run of the current lock entry (`IntactInv`), so there is at most one, and
that the entry carries the token of the process of its run (`OwnerInv`, `SessionInv`). Theorems: `SchedulerInvariant`, `SchedulerTypeCorrect`,
`SchedulerOverlapNeedsLapse`, `SchedulerRobbedAtHome`.

`ResilienceChainProofs` (any finite set of calls, any configurations; from
`ChainAssumption`: the calls in flight are finite in number, so that permits and slots
can be counted). Failures are kept oldest first (`AgesSorted`), so that `retain` cuts a
prefix (lemma `WindowCut`) and a window never grows by ageing. `SlotInv` counts the
probes in flight and the successes of a half-open phase against `half_open_calls`;
`ProbeLife` says which calls can hold a slot. Theorems: `ChainInvariant`,
`ChainTypeCorrect`, `BreakerTripsAtThreshold`, `ChainSlotsAreHeld` (whose last part, that
every slot is recorded, is for the order with the timeout inside the breaker).

`SagaProofs` (every definition: any number of steps, any edges, policies, groups; from
`SagaAssumption`). Kahn's loop places a step behind all its dependencies, and no set of
placed steps waits for itself (`OrderInv`), a fact the loop preserves step by step, so
no induction over the order is needed; when no layer is left, the rest waits for itself
(`KahnInv`). The forward pass executes a prefix of that order (`ForwardInv`). Results of
the rollback are collected from the last executed step down, and only members of the
batch under way are settled but not collected (`RollbackInv`); hence the list of names
(`RolledInv`), the single failure of StopOnError (`StopInv`) and the meaning of
`consecutive_failures` (`CircuitInv`). Theorems: `SagaInvariant`, `SagaTypeCorrect`,
`SagaDependencyOrder`, `SagaInvocationsBounded`, `SagaRollbackComplete`.

`WorkflowProofs` (every definition, any signals, receivers and deliveries; from
`WorkflowAssumption`). `StatusInv` and `OrderInv` say that between waves every node that
left "pending" is done and that its dependencies were done before it; `TaskInv` and
`PcInv` which nodes and tasks can be under way at each point of the run; `CompletedInv`
that the completion order lists the compensatable nodes that returned Ok, none behind a
node that depends on it; `UndoInv` that the rollback walks it backwards, so that nodes are
undone in reverse order of completion. `NoLostWakeup` is
inductive by itself. Theorems: `WorkflowInvariant`, `WorkflowTypeCorrect`,
`WorkflowWaveOrder`, `WorkflowNothingOutlivesRun`, `WorkflowRollbackExact`,
`SignalNoLostWakeup`.

`EventSourcingProofs` (any aggregates, writers, events, faults, snapshot interval,
projections and page size; from `RepositoryAssumption` and `ProjectionsAssumption`, under
the hypothesis `Reload`: callers drop an aggregate whose `save()` failed, as the run
`es_retry` shows they must). An aggregate in memory is a prefix of its stream followed by
its buffer (`HeldInv`), a snapshot is such a prefix (`SnapInv`), and buffered events are in
no stream (`FreshInv`); so the version that `append` compares decides whether the writer
has seen the whole stream, which is the step of the refinement. For the projections, an
event a caller has fetched follows only events that every projection has or that the
caller has fetched too (`PageInv`, `HeadInv`, `CursorInv`, `OrderInv`). Theorems:
`EventSourcingInvariant`, `EventSourcingTypeCorrect`, `SnapshotsFaithful`,
`RepositoryImplementsEventLog` (every step of the repository is a step of `EventLog` or
leaves it unchanged), `ProjectionsWithoutGap`.

All inductive invariants were model-checked on the instances of the runs before they were
proved.

Only model-checked: the liveness properties (`NeverStuck`, `PhasesEnd`, `RunEnds`,
`StuckIsRepaired`, `CatchesUp`, `RunReturns`, `NeverWedged`, `StopEnds`, `RecordsSettle`,
`StopReturns`), since fairness is outside the proof system's reach; and the eight
violations, which are counterexamples.

## Not modelled

Payload, header and timestamp encoding of the broker and of the SQLite rows;
listener callbacks and metrics; a `start()` of the broker that fails half way;
`delete` and `list` of the persistence port (no engine calls them) and its non-atomic
default `claim_stale` (both providers override it); chains with a rate limiter; upcasting
of events; the isolation of the SQL event store, whose append is one atomic step here:
`with_tx` asks for no isolation level (`sql_store.rs:153`), so under READ COMMITTED two
appends of different aggregates may read the same `MAX(global_seq)` and store their events
under one position, which no unique key forbids and a page boundary could then split; projections registered while a poll or a
replay runs, and a `replay_all` from a position other than the first; an outbox sink that
hangs or panics; timers' own persistence; cron arithmetic, the executor pool and
the extra run of a fixed-delay task after a panic; the parts marked `not_modelled` in
`PROJECT.json`, with the reason beside each. The larger part of the workspace is
adapters, macros, configuration, web plumbing and starters: code whose correctness is
a matter of remote I/O, parsing or wiring, with no protocol state to check.

## Plan

1. An abstract at-least-once log that `PostgresBroker` implements, with its refinement
   proved from `BrokerInvariant`.
2. Further action properties from the invariants that are already proved: the cursor of
   a group and the checkpoint of the projections never move backwards, `rolled` and
   `undone` only grow.
3. Further components, in this order: TCC, Redis Streams, listener retry and dead
   letters, the concurrent-session registry, the query cache.
