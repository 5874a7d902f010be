# A TLA+ verification of StrataKV

StrataKV is a distributed transactional key-value store: Percolator-style MVCC
with primary-first two-phase commit, optimistic and pessimistic transactions, a
timestamp oracle (TSO), one Raft group per Region over RocksDB, and a metadata
service that splits Regions and moves their replicas. This directory holds TLA+
models of its source, the TLC configurations that check them, and TLAPS proofs.

`PROJECT.json` maps each definition to the lines it models, and lists the runs,
the mutants that show each property can fail, the hazards, the disagreements
found between code and documents, and the theorems.

    tlc -workers 2 -config MCTransactionsOptimistic.cfg MCTransactions
    tlapm TransactionsTheorems.tla

## 1. Inventory

Paths are below `src/src/`. "Status" says where a part stands in this project.

| Part | State | Operations | Hard behaviour | What must hold | Status |
|---|---|---|---|---|---|
| **MVCC store** `transaction/mvcc_storage.cpp` | locks, write records, values and a revision per key | Get, Scan, Prewrite, PrewriteLock, PessimisticLock, Commit, Rollback, CheckTxnStatus, ResolveLock and their batches, ApplyPrepared, GarbageCollect, reload | commands late, repeated, reordered; reload of a half-known state | one outcome per key and transaction; snapshots do not change; locks only advance | `MvccStorage` |
| **Coordinator** `transaction/distributed_transaction_coordinator.cpp`, `transaction_coordinator.cpp` | buffered writes, start/commit/forUpdate timestamps, confirmed and uncertain locks, state | Begin, Get, Scan, GetForUpdate, LockKeys, Put, Delete, Commit, Rollback | lost answers, unknown commits, crash between primary and secondaries | atomic outcome; what a client is told is true; no lost update | `Transactions` |
| **Transaction RPC client** `transaction/raft_mvcc_storage.cpp`, `region_request_sender.cpp`, `region_channel_pool.cpp` | leader hints, circuit breakers, request numbers, budgets | one call per store operation, retry on another peer, route refresh | a retry of what was already applied; a budget ending while a request is under way | each request is one command, known or unknown | as "answered or given up" in `Transactions`; attempts, peers and refreshes in `Regions` |
| **Lock recovery, GC** `transaction/txn_recovery_manager.cpp`, `lock_resolver.cpp` | list of expired locks, safe point | ScanOnce, CheckPrimary, AdvanceGc | stale list, primary read on one Region and applied on another, racing a live coordinator | recovery agrees with the primary; locks drain; retained snapshots stay | `Transactions` |
| **Transaction scheduler** `transaction/txn_scheduler.cpp` | latch queues, tasks, in-flight requests, Region executors | Schedule, Dispatch, Execute, OnApplied, OnProposalRejected, deadlines, OnRegionRemoved | prepare and apply are separate; leader changes and removals in between; queue limits | no two commands on a key between prepare and apply; latches always released; every completion called once | `NodeLatches`, `TxnScheduler` |
| **TSO** `tso/tso_consensus.cpp`, `tso_service.cpp`, `transaction/*timestamp_oracle.cpp` | reserved range, last timestamp, leader epoch | reserve through Raft, allocate, recover, client retry | deposed leader still allocating, restart inside a range, clock behind | timestamps unique and growing in real-time order | `Tso`, `TimestampService` |
| **Raft** `raft/raft.cpp`, `persister.cpp` | term, vote, log, commit, snapshot, members | elections, AppendEntries, InstallSnapshot, ReadIndex, ConfChange, compaction | crashes, message loss, membership change, log before a snapshot | one leader per term; committed entries stay; reads are linearizable | `Raft`, `Persister`; what the scheduler meets, in `TxnScheduler` |
| **Region peer** `raft/region_peer.cpp` | applied index, duplicate table, split and retirement state | apply loop, reads, split, conf change, log GC, retire | restart between apply and save; duplicates; entries behind a split | each command applied once; split neither loses nor doubles a key | apply loop and duplicates in `TxnScheduler`, splits, reads and retirement in `Regions`, `RegionNode` |
| **Metadata** `metadata/metadata_state_machine.cpp`, `metadata_consensus.cpp`, `metadata_service.cpp` | Region map with epochs, stores, split and move records, mutation results | register, heartbeat, split begin/commit/abort, move steps, operators | retries with remembered results; split and move together | ranges partition the key space; epochs grow; moves end | `MetadataStateMachine`, `Topology` |
| **Balancer, topology operations** `metadata/auto_balancer*.cpp`, `topology_operation_coordinator.cpp` | operators and their phases | plan, drive moves and splits | a driver restarted in any phase | operators finish or roll back; never fewer replicas than before | `AutoBalancerPlanner`, `Topology` |
| **Routing** `transaction/region_cache.cpp`, `region_metadata.cpp`, `shard_router.cpp`, `topology_config.cpp` | route table, revision, invalidations, refresh in flight | Lookup, Invalidate, Refresh | an invalidation during a refresh | a stale route is refused by the Region and refreshed; revisions grow | `RegionCache`, `Regions` |
| **Region registry, validation** `server/region_registry.cpp`, `region_request_validator.cpp` | hosted Regions, their state and leases | publish, replace, retire, acquire | retire while requests run | no request runs on a retired or wrong Region | `RegionNode`, `Regions` |
| **Node server, bootstrap** `server/node_*.cpp`, `store_heartbeat_reporter.cpp`, `*_main.cpp` | assembled services | start, watch, stop | order of start and stop | – | mounting and retiring in `Regions`; the rest is configuration and I/O |
| **RPC framework** `rpc/` | sockets | call, dispatch | loss and delay | – | seen as loss, repetition and delay |
| **Storage engine** `storage/rocksdb_kv_engine.cpp` | RocksDB | batches, iterators, checkpoints | – | – | taken as atomic batches |
| **Client library, tools** `sdk/`, `client/`, `admin/`, `metadata/metadata_client.cpp` | – | split, move, cancel and configuration commands; argument checks, printing | a command stopped half-way | – | the administrator's flows in `Topology`; the rest is façade and I/O |
| **Utilities, failpoints** `common/`, `transaction/txn_2pc_failpoint.cpp` | thread pool, queues | submit, stop | pool at its limit | – | pool in `TxnScheduler` |

How they interact: a client's coordinator takes timestamps from the TSO, finds
the Region of a key through the routing cache and sends commands to the Region's
leader. There the scheduler takes latches on the keys, prepares the command
against the MVCC store and proposes the prepared batch to Raft; the Region peer
applies it and the scheduler answers. The recovery loop of each node resolves
expired locks of the Regions it leads, asking the Region of the primary, and
collects old versions. The metadata service owns the Region map all of them use.

## 2. The models

### MvccStorage

The store of a Region as pure operators on a *cell*, the state of one key:
`[lock, writes, data]`. For every `Prepare*` method there is an operator
`XStatus`, the status the method returns with its checks in the code's order,
and `XApply`, the cell its modifications leave. `Get` is `GetStatus` with
`ReadCommitted` (Rollback and Lock records are skipped, a Put without a value is
a `StorageError`). Values are abstracted to the start timestamp that wrote them.

### Transactions

Any number of transactions over the stores of any number of Regions.

| Variable | Code |
|---|---|
| `cells` | the store of the Region that owns the key |
| `tso` | the last timestamp issued |
| `co[t]` | the `Transaction` object and how far its coordinator's call is |
| `sent` | requests handed to the RPC client |
| `lapsed` | expired locks a scan has listed |
| `reads`, `locked`, `safePoint` | history for the properties |

Actions follow the coordinator call by call. `Begin`, `Get`, `AcquireKeys` with
`LockAcquired`/`LockRefused`/`LockUnknown`, `Write`, `Deadline`, `Prewrite` with
one answer per Region, `CommitPrimary`, `PrimaryCommitted`/`PrimaryUnclear`, the
`Query*` loop on the primary's state, `FinishCommit` of secondaries and pure
locks, `Cleanup*`, `Rollback`, and `Rollback` after `ResultUnknown`. On the
nodes: `Execute`, `Expire`, `RecoverPrimary`, `RecoverSecondary`, `AdvanceGc`.

* A request stays in `sent`. It can be executed at any later time, again, or
  never, so loss, repetition, delay and reordering need no actions of their own.
  Its caller gets the answer of some execution or gives up.
* A coordinator crash is a behaviour in which it takes no further step.
* A batch of keys of one Region is applied whole or not at all; batches of
  different Regions are separate requests.
* A restart of a store is covered by `RestartLosesNothing`: the reload maps every
  reachable cell to itself, so it is not an action.

Assumptions, each a definition with its reason in a comment:

* `InTime`: no lock or prewrite request is executed after a lock of its
  transaction has expired. The default options give a transaction 60 s and its
  locks 120 s. Options with a smaller margin are outside of the model.
* `AdvanceGc`: the retention time (5 min) exceeds the life of a transaction and
  of its requests. `RecoveryKeepsUp` says whether expired locks are resolved
  within it; both values are checked.
* Preparing and applying a command is one step. The code relies on latches, and
  on the per-key revision check of `ApplyPrepared`; `TxnScheduler` checks when
  they provide it.

### MCTransactions

Workloads for TLC, each chosen for one interplay: an optimistic writer against a
reader that deletes its primary; a locked but unwritten primary; one key locked
twice; keys locked and not written; a single transaction over three keys.

### NodeLatches

`NodeLatchManager`: a latch per key of a Region and a gate per Region for commands
that need all of it (garbage collection). `want` is what a command asked for,
`held` and `waiting` the two states of a request, `owner` and `waiters` the key
resources, `exclusiveOwner`, `activeKeyOwners` and `exclusiveWaiters` the gate.
The table is a specification of its own, `LatchSpec`, which the
scheduler implements. `Acquire` queues a command and grants it if it can. `Release` (and `Cancel`, the
same function) takes it out and walks over the waiting commands in ascending
order, `GrantNext` being one iteration and `Return` the end; `releasing` keeps the
mutex over the walk.

### TxnScheduler

`NodeTxnScheduler` with the threads that enter it, over `NodeLatches`. A step is
one critical section; `pc`, `cur` and `todo` say where a thread is, which command
it works on and what it has still to dispatch.

| Actions | Code |
|---|---|
| `Admit`, `Insert`, `FindTask`, `AcquireLatches`, `SubmitOwn` | `Schedule`, between its critical sections |
| `DispatchNext`, `ReleaseLatches`, `GrantWaiter`, `Released` | `DispatchAll`, `FinishBeforeProposal`, the latch calls of every thread |
| `Execute`, `Prepare`, `Recheck`, `Propose` | `Execute` on a worker of the bounded pool |
| `DeadlinePasses` | `DeadlineLoop`: answers a call and leaves its task |
| `ApplyNext`, `ApplyBatch`, `OnApplied`, `OnProposalRejected` | the apply loop of a Region peer and its callbacks |
| `Poll`, `LoseLeadership`, `BecomeLeader`, `Overwrite`, `InstallSnapshot`, `ForeignWrite` | what the scheduler meets of Raft |
| `RemovePeer`, `OnRegionRemoved`, `FinishRemoved`, `Mount` | retirement of a Region and its return |

A Region's state machine is a revision per key and the last request number of
each client. A prepared write is the set of revisions it expects. A write whose
expectation fails at apply makes the state machine unhealthy, as in the code.
`checkedIn` in an entry is history: the term in which its worker first found the
peer leading. Entries of other leaders always meet their revisions, and are not
batched with others. `plan` is the workload: the calls, the workers, and how often
Raft and the placement of Regions interfere.

`found` says which of the Region's successive peers a call holds: a task of a
retired peer never reaches the next one.

### TimestampService and Tso

`TimestampService` is the promise of the `TimestampOracle` interface: `Next`
returns a timestamp nobody else gets, above everything returned or observed
before the call began; callers in `excused` may be given a lower one. `Tso` is
`TsoConsensusNode`, `PersistentTimestampOracle` and `RemoteTimestampOracle`, and is
checked to implement it. `issued`, `bound` and `floor` are history variables with the
names of the interface; `excused` is `Outdated`, the calls at a member that an
election has replaced.

| Variable | Code |
|---|---|
| `raft`, `log`, `proposals`, `tail`, `readyTerm` | the Raft group: terms, leaders, the contact that blocks a vote, the election that is due, the committed high waters and the proposals a new leader may keep |
| `member` | the fields of a `TsoConsensusNode`, its durable floor and its snapshot |
| `call` | where a call is and its local variables |

The loads, the compare-and-swap and the three stores that publish a range are
steps of their own (`Invoke`, `Swap`, `Check`, `PublishNext`, `PublishHighWater`,
`PublishTerm`); everything under `slowPathMutex_` is between `Require` and the end of
the call. The fence is a timer that starts before the `ReadIndex` round
(`Require`, `Acknowledge`, `FinishRound`), and a voter refuses until a longer timer has
run out (`Electable`). The candidate itself is not held to that timer: its ticker looks
at it and lets go of the lock (`Expire`), and `doElection` does not look again, so that it
may have acknowledged the leader in between (`Elect`). Clocks of all members run at the
same rate; wall clocks may show anything in the workload's `walls`. An `Observe` at or
below the committed high water returns without a second look at the fence;
`StaleObserves` says whether it then counts as observed.

### Persister and Raft

`Persister` has the two files of a peer as operators, with a `Torn` operator for
every place where the process can die between two writes. `Raft` is one group:
`node[s]` holds the fields of class `Raft`, `file[s]` its files, `machine[s]` the state
machine of the Region peer with the apply channel `chan` and the applier's `batch`.
A handler runs under `m_mtx` and is one action; an RPC, a push to the channel and
the serialization of a snapshot separate actions. `net` and `ballot` hold the calls
under way, `late` those whose caller gave up. `Deliver` executes AppendEntries or
InstallSnapshot at the receiver; `Lose`, `Delay`, `Restart`, `DieAppending` and
`DieCompacting` are the faults. `elected`, `chosen` and `regressed` are history.
A workload says who campaigns, proposes, applies, compacts and crashes, and how
often.

### MetadataStateMachine, AutoBalancerPlanner and Topology

`MetadataStateMachine` is `ApplyLocked` and its snapshot as pure operators on the
record `sm`: catalog with epochs, Stores, splits and moves that are prepared,
operators, configuration, remembered results (`dedup`, evicted in order).
`AutoBalancerPlanner` is `Plan` over a published view. `Topology` runs them: `Mutate` is
what a call of `MetadataClient` may come to (applied and answered, applied with a
second copy on its way, no answer), `ApplyLate` a copy that arrives after all, with
more copies of the same call behind it or not; `EvaluateOnce` and `SubmitOperator` the
evaluator, `ReconcileOnce` and the steps below `Execute` the driver of moves and splits.
The driver gives up where it asks whether its node still leads (`Stops`); a crash
(`Crash`) ends it between any two steps. `AutoBalancer` gives the coordinator no hooks, so
that the driver passes over the steps that need one; with `plan.hooked` a hook is set and
may fail (`Hook`). `Administer` has the commands of the administrator's tool;
`ReportHeartbeat`, `RestartStore`, `Tick` and `ElectLeader` are the rest of the world.
Clocks in `plan.ahead` are fast (`Clock`). A Region's Raft group has a descriptor, the
roles Raft derives from it and at most one change in flight: `Acceptable` is what
`ProposeConfChange` refuses, `ApplyConfChange` applies the change, by its epoch or not at
all, and `LoseConfChange` loses it to a new leader.

### RegionCache, RegionNode and Regions

`RegionCache` decides what a scan does to the route table (`Verdict`, `Replaced`).
`RegionNode` has the peer of a Region on a node, the checks of requests and the
phases of a split. `Regions` composes clients, nodes and the catalogue: a client
looks a key up, shares a refresh, sends, and retries (`Resolve`, `LookupOrRefresh`,
`ScanRegions`, `ReplaceInterval`, `ClearInvalidated`, `Send`, `Receive`); a node looks
the Region up, takes a handle, checks, prepares and waits (`Lookup`,
`TryAcquireRequest`, `Dispatch`, `Prepare`, `Finish`); a replica applies
(`GetCommandFromRaft`), its split thread makes the child step by step
(`CreateCheckpoint` to `MaterializeSplitChild`); retirement unregisters, drains, stops
and deletes; `Restart` reads the files again. A Raft group is its committed log and
leader here.

## 3. The runs

Each run asks one question of one composition. Where a property is too costly to
check in every scenario, the workloads of a run are chosen so that each scenario
combines the events that interact and leaves out the rest. Deadlock is checked in
no run: every workload is finite, and a system that has done all of it rests.

### Transactions

All runs use at most two transactions and three keys. A conflict, a primary with
a secondary in another Region, and a late request of one transaction against the
other need no more. Timestamps are bounded by the workload (a transaction takes
one for its start, one for each locking call and one for its commit), so no
counter needs a cap.

| Run | Instance | Shows |
|---|---|---|
| `optimistic` | a writer and a deleter, two Regions, one safe point, 520k states | atomic outcome, truthful answers, no lost update, repeatable reads, also under garbage collection |
| `pessimistic` | lock-only primary against a writer, 847k states | the lock-only primary decides; locking reads stay current |
| `drain` | one transaction, three keys, one locked twice, 16k states, fair recovery | locks only advance; the commit is above every locking read; every lock is eventually released |

`optimistic` and `pessimistic` leave out Rollback after `ResultUnknown`
(`RollbackUnknown = FALSE`) because of `rollback_unknown` below; `drain` has it.

**Fairness.** `FairSpec` of `Transactions` assumes of the nodes only that the recovery
loop keeps working: as long as a lock can expire, or a listed lock can be looked
at or resolved, one of these steps is taken. The loop in `TxnRecoveryManager` runs for as
long as its node leads a Region, and Regions are assumed to have a leader again
and again. Nothing is assumed of coordinators.

### Latches and scheduler

| Run | Instance | Shows |
|---|---|---|
| `sched` | 834k states up to the symmetry of workers: two key writes and a collection with two workers, a pool queue of 1 and a table of 2; two writes of a key over two terms, one lost suffix, one retirement and return; two writes and a foreign one | latch holders do not conflict and no wake-up is missed; prepared writes stay valid until applied, alone or batched; latches have owners; an answer "applied" is true, and every answer is given once |
| `sched_live` | a write, its retry and a rival, with a step-down, 83k states, fair | the threads use the latch table only as `LatchSpec` allows; every call is answered and every task ends |

Two calls on one key, or a key call against a Region call, are the conflicts the
latches distinguish, and a third call is needed for a retry beside a rival. One
election, lost suffix, foreign write and retirement each suffice for the races
with a task's path.

`LatchesOwned` speaks of peers that lead as from the start. Otherwise it fails:
`Schedule` looks its task up a second time and acquires the latches after it has
given up the mutex (`txn_scheduler.cpp:390`). When the Region is removed in between,
or the same request is applied by way of another leader, the latch is left
without a task, although the comment at line 384 takes the look-up to cover this.

**Fairness.** Some thread goes on as long as one can; the deadline thread wakes
every 10 ms, and a Raft group commits what its log keeps. Elections, losses,
foreign writes and retirements are not assumed to happen, or to stop.

**Scope.** `SameTermWritesApply` and `InFlightLatched` speak of writes appended in
the term in which `Execute` found the peer leading. `Execute` compares no terms:
a worker delayed over a step-down and a re-election can append a write prepared
earlier, which is refused when applied and stops the Region. `hazards` lists it.

### Timestamps

`tso`: three members, two clients, ranges of two timestamps, two terms, 735k states
up to the symmetry of members and clients. Seven workloads: three allocations from
two ranges; all operations; all with a wall clock that jumps; a timestamp observed in
the range under allocation; a restart of any member at any time; numbers that run out;
elections that come late. While a fence is valid, only one of those that confirmed it
leads a newer term; `Peek` is ahead of all that was returned, and the group implements
`TimestampService`, both except for calls at a member that has been replaced. Without a
late election there are no such calls under a valid fence (section 4). `StaleObserves` is
`FALSE`: a timestamp whose `Observe` ended after its fence does not count as observed. Both
exceptions are needed, as the last lines of this section show. The view leaves out how
long ago a member heard of a leader, once the last election is over and unless it
leads, as nothing reads it then.
`FenceDuration < MinElectionTimeout` is the only relation of the
timers that is used; the code has 150 ms against about 2 s.

### Control plane

`topology`: two metadata nodes, three Stores, one Region with two peers, eighteen
workloads, 189k states. Moves, splits and repairs by the balancer race with those
of an administrator, with repeated and late commands, time-outs, lost proposals, a
change of leader, a crash, cancellations, stale heartbeats, new configurations and a new
address of a Store. The catalog stays a partition in which no promised identifier is
used twice; a restart from snapshot and log reproduces the state; a command has its
effect at most once; epochs advance; no Region has fewer voters than at the start; and
under one leader whose calls are answered every operator ends. Three of these have a
condition. A Store that gets another address than its peers have (`Readdressed`) makes
the snapshots unacceptable until it is undone, and the published view older than the
state. A balancer configuration without a version is applied again once its result has
been forgotten (`Unversioned`). Operators end if the clocks agree.

**Fairness.** The executor's loop never stops: what it has started ends, and the
leader's loop takes up an operator that is active.

### Raft

`raft`: three peers, fourteen scenarios, 564k states, each with one or two elections,
at most two commands and the faults it is about (its comment in `MCRaft` names
them). One leader per term; the latest leader has all that was chosen; a state
machine holds the effects of chosen entries only and all of them up to its index;
a linearizable read is current.

### Regions

`regions`: two nodes, two clients, fifteen scenarios, 394k states. At most one
registered peer answers for a key; what was written ahead of a split is in one of
the two halves at every step, also across restarts and failed disks; a read whose peer
still owns the key when it reads the store returns what was acknowledged before it
began (`TxnGet` looks at the range before its barrier only, see `ReadsAcrossSplit` below);
the route table never goes back; requests end. Scenarios marked live have no unlimited faults. **Fairness:** in those, some step
is taken as long as one is possible.

### Disagreements of code and documents

Three violation runs, with the quotation in `findings`:

| Run | Shows |
|---|---|
| `rollback_unknown` | Rollback after `ResultUnknown` acts on a primary state that is not final |
| `raft_tail` | a tail left by a crash before the header write is not ignored: the next append makes it part of the log |
| `split_write` | a write of the right half that the parent's log orders after the split is acknowledged and not in the child |

More of them show up when a configuration is varied; each line names the
configuration to start from, what to change and the property that fails:

* `MCTransactionsPessimistic.cfg` with `Workload <- PureLockWorkload`, `PutRecordHasData`:
  recovery commits a never-upgraded lock as a Put without a value
  (`mvcc_storage.cpp:672`; `openspec/specs/pessimistic-transactions/spec.md:195` has a
  commit release such locks). The same workload under `FairSpec` violates `LocksDrain`.
* `MCTransactionsPessimistic.cfg` with `Key = {1}`, `Workload <- RelockWorkload`,
  `LockedKeyCanBePrewritten`: a key locked above a newer commit cannot be prewritten
  by its owner (`mvcc_storage.cpp:490`; `spec.md:184` of the same document).
* `MCTransactionsOptimistic.cfg` with `RecoveryKeepsUp = FALSE`,
  `CommittedNotRolledBack`: collecting the primary's record lets recovery roll back a
  committed transaction when a secondary lock outlives the retention time.
* `MCTxnSchedulerLive.cfg` with `Workloads <- LossyWorkloads`, `TasksEnd`: the task of an
  entry that is overwritten, or covered by a snapshot, keeps its latches for ever
  (`raft.cpp:197`; the comment at `raft.cpp:1351` has step-down release them).
* `MCTxnScheduler.cfg` with `Workloads <- RecoveryWorkloads`, `RecoveryMeansDone`: a
  resolution is reported applied because another node's recovery manager used the
  same client id and number (`txn_recovery_manager.cpp:154`).
* `MCRaft.cfg` with `Workloads <- SnapshotWorkloads`, `CoveredSnapshotsIgnored`: a peer
  that has applied more since its last snapshot takes an older state from a leader
  (`raft.cpp:622`, "Ignore snapshots already covered by local state").
* `MCTso.cfg` with `Plans <- LateWorkloads`, `AtMostOneFence`: a member that acknowledged
  the leader after its ticker found the timer expired (`raft.cpp:434`) can win the
  election while the leader's fence is valid; the comment at `raft.cpp:972` takes the
  refusal of the voters to make the lease safe. The deposed member then serves `Next`
  and `Peek` for up to a fence more: with `excused <- {}` in place of `Outdated`,
  `ImplementsOracle` fails too. Timestamps stay unique.
* `MCTso.cfg` with `Plans <- ObserveWorkloads` and `StaleObserves = TRUE`,
  `ImplementsOracle`: `Observe` returns for a timestamp below the committed high water
  although its fence has run out and another leader is behind it
  (`tso_consensus.cpp:169`; `openspec/specs/pessimistic-transactions/spec.md:53` has every
  timestamp above those known through `Observe`).
* `MCTopology.cfg` with `Workloads <- MCAheadWorkload`, `CancelledOperatorsEnd`: a
  cancellation stamped by a clock that is ahead makes the update to `CANCELLED` a
  conflict (`metadata_state_machine.cpp:862` and `905`), which is remembered under the
  fixed mutation id, so that the operator stays active; `README.md:325` of the
  repository has operators cancelled safely before the irreversible point.
* `MCTopology.cfg` with `Workloads <- MCReaddressWorkload`, `SnapshotsAccepted`: after
  `PutStore` has changed the address of a Store, `Restore` refuses the snapshot, whose
  peers have the old one (`metadata_state_machine.cpp:965` and `1106`;
  `openspec/specs/region-metadata-control-plane/spec.md:86` has a member reconstruct the
  committed state from its log and snapshot).
* `MCRegions.cfg` with `ReadsAcrossSplit`: a read that passed the look at the range
  before a split reads the parent's store after the child's keys were cleaned up
  (`region_peer.cpp:1467`; `openspec/specs/crash-safe-region-split/spec.md:135`: "no
  client observes a lost acknowledged write").
* `MCRegions.cfg` with `RegionPlans <- SourceWorkloads`, `RemovedIsUnregistered`: a replica
  that removes itself with no request under way stays in the registry
  (`node_server.cpp:411`; `openspec/specs/online-replica-migration/spec.md:68`).

## 4. The proofs

All theorems hold for every value of the constants that satisfies the named
assumptions of the modules (TLC evaluates them on every run): any sets of keys,
transactions, Regions, commands, calls, workers and members, any workload and any
bound on queues and terms.

| Theorem | Module | Statement |
|---|---|---|
| `TypeCorrect` | `TransactionsTypeProofs` | `Spec => []TypeOK` |
| `OneOutcome` | `TransactionsProofs` | `Spec => []OneOutcomePerKey` |
| `RestartIsLossless` | `TransactionsProofs` | `Spec => []RestartLosesNothing` |
| `CommitAboveLocks` | `TransactionsProofs` | `Spec => []CommitsAfterLocks` |
| `LocksAdvance` | `TransactionsProofs` | `Spec => LocksOnlyAdvance` |
| `SecondariesFollow` | `TransactionsTheorems` | `Spec => []SecondariesFollowPrimary` * |
| `AbortIsFinal` | `TransactionsTheorems` | `Spec => []AbortedNotCommitted` * |
| `UpdatesAreKept` | `TransactionsTheorems` | `Spec => []NoLostUpdate` * |
| `SnapshotsAreStable` | `TransactionsTheorems` | `Spec => []ReadsRepeatable` * |
| `LockingReadsAreCurrent` | `TransactionsTheorems` | `Spec => []LockingReadsProtected` * |
| `CommitIsFinal` | `TransactionsTheorems` | `Spec => []CommittedNotRolledBack` * + |
| `LatchesTyped`, `LatchTablesAgree` | `NodeLatchesProofs` | `LatchSpec => []LatchTypeOK`, `[]TablesAgree` |
| `LatchesExclude` | `NodeLatchesProofs` | `LatchSpec => []LatchExclusion` |
| `LatchesMissNoGrant` | `NodeLatchesProofs` | `LatchSpec => []NoMissedGrant` |
| `SchedulerImplementsLatches` | `TxnSchedulerProofs` | `Spec => ImplementsLatches` |
| `SchedulerLatchesExclude`, `SchedulerMissesNoGrant` | `TxnSchedulerProofs` | `Spec => []LatchExclusion`, `[]NoMissedGrant` |
| `CallsAnsweredOnce` | `TxnSchedulerProofs` | `Spec => AnsweredOnce` |
| `RivalConfirmed` | `TsoProofs` | `Spec => []RivalConfirmedFence` |
| `OneFenceInTime` | `TsoProofs` | `Spec => [](plan.late = {} => AtMostOneFence)` |

Two switches of `Transactions` are assumptions of theorems. Those marked `*` assume
`~RollbackUnknown`: no application calls `Rollback` after `ResultUnknown`. The code
allows that call, and the run `rollback_unknown` shows what it does to a committed
transaction; so the theorems say that nothing else does. `CommitIsFinal` (`+`) also
assumes `RecoveryKeepsUp` (section 2): the safe point does not pass a lock that
recovery has not yet resolved. Without it garbage
collection removes the commit record of a primary whose secondary is still locked,
and recovery then rolls the secondary back.

`TransactionsInvariants` holds the invariants `Inv` and `AtomicityInv` and no theorem.
`TransactionsProofs`, `AtomicityProofs` and `IsolationProofs` each prove that one
invariant is inductive; they share the facts about store operations at the end of
`TransactionsTypeProofs`. `TransactionsTheorems` puts them together.

### One outcome per key: `Inv`

`OneOutcomePerKey` is not inductive. A lock granted to a transaction that already
has a record on the key could be committed a second time. So `CellOK` adds that
the owner of a lock has no record on the key. That in turn depends on the lock
and prewrite checks, which look for a *newer commit* and not for a commit of the
same transaction: a late lock request of a committed transaction is refused only
because the commit timestamp is above the request's forUpdateTs. Hence `RecordOK`
(a commit record is above the start and every forUpdate timestamp of its
transaction), `RequestOK` (a lock request carries no more than the
transaction's largest forUpdateTs, a commit request such a commit timestamp), and
`CoordinatorOK` (once it has a commit timestamp, a coordinator locks nothing
more). Start timestamps are distinct because the TSO only grows.

The steps: what each store operation does to one cell (`LockKeepsCell`,
`PrewriteKeepsCell`, `CommitKeepsCell`, `RollbackKeepsCell`,
`GarbageCollectKeepsCell`); what a request does to its keys (`ApplyOnOK`);
records and requests stay good while timestamps advance (`RecordsStayOK`,
`RequestsStayOK`); then one step per action. `LocksAdvance` needs only the types.

### Atomicity: `AtomicityInv`

Every transaction is in one of a few situations that no step leaves. `Doomed`: the
primary is not committed and never will be, because it has a rollback record or no
request of the transaction that takes a lock is executed any more. `Barren`: in
addition no key is committed and no commit of a secondary is under way. `Sealed`:
every key is prewritten, or committed at the commit timestamp. `Secured`: the
primary is committed, or was and is collected. The guards say which of them the
coordinator may rely on: a commit of a secondary is sent, and a record of one
exists, only for a secured transaction (`RequestGuard`, `RecordGuard`); a key is
undone only for a doomed transaction or one that gave up before it had a commit
timestamp (`MayUndo`); a decided transaction is doomed or sealed as long as garbage
collection has not passed its commit timestamp (`DecisionGuard`).

`Stepped` lists what a step may do to one key (keep, collect, take, commit, undo) and
`Lawful` says that every key takes such a step and no coordinator is revived. From
`Lawful` alone follows that each situation stays (`DoomStays`, `SealStays`,
`BarrenStays`, `SecuredStays`, `PrewrittenStays`), so that each action has to show
only that it is lawful and what it newly relies on.

### Isolation: `IsolationInv`

`LockAbove`: a prewrite lock for a mutation is above every commit of the key, a
pessimistic or lock-only lock has seen every commit up to its forUpdateTs. `Disjoint`:
the transactions that committed a key did so one after the other. `TakingGuard` is the
strengthening that is easy to miss: a repeated lock or prewrite request must find its
lock, a record, or its time over; else it could take the lock again after the
transaction ended and pass a commit of somebody else. `ReadGuard`: a decided
transaction that locks a key somebody read commits above the read timestamp, because
`GetStatus` refuses to read past a lock. `LockedGuard`: a lock taken for a locking
read is held from then on, and is not taken again once gone. `Told` and `Quiet` say
what is left of a transaction whose commit was reported, before and after garbage
collection passes it.

`Effect` refines `Stepped` with the timestamps the store compares; `Carried` is what an
action owes for coordinators, requests and reads. `StaysIsolated` draws the
invariant's next state from the two, and one lemma per action proves `Carried`.

### Latches and scheduler: `LatchInv`, `SchedulerInv`

`LatchInv` relates the tables to the commands in two halves that take the tables as
parameters, as a command is queued and granted within one call: `Owners` (owners,
exclusive owners and counters say which commands hold what) and `Queues` (each queue
holds the waiting commands that need the resource, once each). `Passed` is the
invariant of the loop in `GrantReadyLocked`: no command the loop has behind it could
be granted. It holds because granting a command never frees another.

`SchedulerImplementsLatches` is a refinement: every step of the scheduler is a step of
the latch table or leaves it alone. It needs `IdsInv`: command ids are given out once,
so that `Acquire` is never called for an id that holds or waits. The latch theorems
then hold of the scheduler. `AnswersInv` (a call waits in at most one task, and has no
answer yet) gives `CallsAnsweredOnce`.

### The lease of the timestamp oracle: `FenceInv`

A fence is a lease that a quorum backs (`FenceOK`): each member of the quorum had
contact with the leader recently enough to refuse its vote for longer than the fence
is valid, and a member that leads a newer term is one of the quorum, or its term was
brought in by a quorum that shares no member with it (`Backed`, `Apart`); as two quorums
meet, it is one of the quorum. A round of reads in progress is a lease in the making
(`RoundOK`), because its clock starts before the first question is sent. A term has one
leader, and only a quorum brings in a new one (`GroupOK`). That gives `RivalConfirmed`,
whatever the candidates do. `OneFenceInTime` adds that, when nobody is late, no election
is due and a member that leads remembers no contact (`Punctual`), so that the rival which
`RivalConfirmed` speaks of does not exist. Of the timers the proofs use `FenceDuration <
MinElectionTimeout` and nothing else.

### Only model-checked

* Liveness (`LocksDrain`, `CallsAnswered`, `TasksEnd`, `OperatorsEnd`, `RequestsEnd`):
  out of the prover's reach, as is everything about `ENABLED`.
* `ImplementsOracle` and `PeekAhead` of `Tso`: they need an invariant over the log, the
  proposals under way and the highest reservation, and facts about filtered
  sequences that the libraries do not state.
* `LatchesOwned`, `InFlightLatched`, `SameTermWritesApply` and `AppliedMeansDone` of
  `TxnScheduler`: they relate latches to proposals in the logs of the Regions.
  `AppliedMeansDone` depends on the identities the workload gives to calls.
* The properties of `Raft`, `Topology` and `Regions`, whose states are built from
  sequences and recursive definitions over them.

## 5. Not modelled

Of the store and the coordinator: `Scan`, `DropKeysInRange`, `MaxObservedTs`; the
unbatched protocol for old clusters; regrouping a prewrite when its Region has
split; circuit breakers and budgets of the RPC client; the routing registry of the
recovery manager; locks of the format without an expiry.

Of the scheduler: shutdown, counters, the names of task states (never read), and a
state machine left unhealthy by a failed snapshot.

Of the TSO: the oracle of a single process, segments of the durable floor longer
than one timestamp, and the framing of the RPC channel. The channel is not
thread-safe (`remote_timestamp_oracle.cpp:35`), and `Peek` and `Observe` use it without
the endpoint's mutex; the model takes a call and its answer as matched.

Of Raft: `Persister::Save`, which truncates both files before it writes them, is one
step; a snapshot travels as one chunk; a restarted peer takes its membership from
the scenario.

Of Regions: the client's deadline inside one attempt, a retry while the first call
still runs, leader hints, and membership changes together with splits. A Region is
split once. Finding and unregistering a Region is one step, and so are the removal
from the node's list and the deletion of its storage.

The RPC framework is seen as loss, repetition and delay, the storage engine as
atomic batches. Configuration, start-up, metrics and the benchmark tools are left out.
