# A formal model of IMPOSBRO Search

TLA+ modules for the parts of IMPOSBRO Search whose correctness depends on the
order in which several processes act: the durable write path, the control plane,
routing rollouts, deletions and their restores, audit delivery, dead-letter
resolution, federated reading and the fences of the workers. TLC checks them on
small instances, and TLAPS proves the main properties of the write path for every
value of the constants. What is left out, and what may follow, is at the end.

Paths below are relative to the repository.

## The system

Query API replicas accept document mutations, route each one to one or more
Typesense clusters, record it in PostgreSQL, publish it to Kafka and answer
searches by fanning out over the clusters. Indexing workers consume Kafka and
write to Typesense behind checkpoints kept in PostgreSQL. A control plane
(cluster registry, routing rules, rollouts, audit) is stored in PostgreSQL as
revisions and replicated into every Query API process.

| Component | State | Operations | Interacts with |
|---|---|---|---|
| Event store (`query_api/app/indexing_events`) | a head per document identity, the outbox with global positions | `prepare`, `prepare_latest_repair`, `mark_published`, `high_water_mark`, reads | request threads, dispatchers, rollout backfill, retention |
| Publication (`services/kafka_producer.py`, `main.py`) | none of its own; rows in flight per thread | publish inline, `publish_pending`, repair | event store, Kafka |
| Indexing worker (`indexing_service/app`) | the polled batch, attempts, cluster clients | poll, process with retries, quarantine, commit | Kafka, checkpoints, Typesense, Query API |
| Checkpoint fences (`checkpoint_store.py`) | a row per identity and cluster, advisory locks | `event_scope`, `load`, `save` | workers |
| Outbox retention (`scripts/ops/outbox_retention.py`) | none | delete superseded published rows | event store, control-plane outbox |
| Control-plane store (`control_plane/postgres_store.py`) | the current revision, audit chain, outbox | `commit` by compare-and-set, appends, marks | state manager, dispatchers, audit delivery |
| State manager and federation (`services/state_manager.py`, `federation.py`, `routers/admin.py`) | the runtime of one process and its revision | administration handlers, `save_state`, `load_state`, restore | control-plane store, config sync |
| Configuration sync (`services/config_sync.py`) | the last revision seen, acknowledgements | notify, listen, reconcile, reload | Redis, state manager |
| Routing rollout (`domain/routing_rollout.py`, `services/routing_migration.py`) | phase, backfill cursor, parity evidence | create, transition, backfill step, verify | event store, federation, Kafka lag |
| Deletion ledger (`control_plane/deletion_ledger.py`) | tombstones and their targets | register, record, reconcile | event store, restores |
| Audit delivery (`control_plane/audit_delivery.py`) | a cursor over the audit chain | batch, deliver, advance | control-plane store, HTTP sink |
| Dead-letter resolution (`scripts/ops/dlq_resolver.py`) | the resolver group's offset | inspect, replay, dispose | Kafka |
| Federated search (`routers/search.py`) | none | fan-out by pages, merge, cursors, lookup | Typesense |
| Rate limiter, authentication, health probes, settings, telemetry, migration, UI | counters, caches; none | | |

### What is hard

- PostgreSQL transactions of several sessions interleave; positions are
  allocated before commit and commits happen out of order.
- A mutation is published by its own request thread and by the dispatchers of
  all replicas at once; Kafka gets duplicates, and events of one document out of
  sequence.
- A rebalance gives a partition to a second worker while the first is still in
  the middle of a record. Its locks, not its ownership, protect the targets.
- Typesense, PostgreSQL and Kafka share no transaction: a crash or an error falls
  between any two of them, and a call that failed may have been executed, or be
  executed later.
- A record goes to several targets, and some succeed before one fails.
- Administration handlers change the runtime of their process before the
  revision is committed, and other threads of the process read and save it
  meanwhile.
- A reload moves the revision of its replica before it can fail, and then leaves the
  old runtime under the new revision.
- A rollout relies on replicas having seen a routing revision by the time
  positions and parity are measured; its handlers commit by the revision of the
  whole state, and put a phase into their runtime before it is committed.

`PROJECT.json` lists these as hazards at their source lines, with the properties
aimed at each one.

### What makes each part correct

- Event store: per identity the sequences have no gap when they are allocated
  and agree with the positions; a key names one mutation; the newest mutation is
  never deleted; no row appears under a returned high-water mark.
- Publication: nothing accepted is lost; a row is closed only once Kafka has it.
- Worker: a target never goes behind its checkpoint; checkpoints and offsets
  only advance; an offset is committed only behind settled records; every record
  is settled in the end.
- Write path: once it is quiet, every target of the newest mutation holds it.
- Control plane: one history of revisions, each an earlier one, complete, with one
  checked change, and the one before it unless that could not be loaded; a replica
  serves what its revision says, never goes back and reaches the newest revision;
  references resolve; a tombstone stays; an answer agrees with the log.
- Control-plane store: the audit chain has no gap or fork, every revision is
  announced, and nothing that is not announced is deleted.
- Rollout: in every phase, committed or only in a runtime, search serves the newest
  mutation of every document; progress never goes back; the candidate is exact when it
  becomes the only one read.
- Deletion ledger: a deleted document does not come back with a restore; a
  receipt stands for the deletion in force; traffic reopens.
- Audit delivery: what the cursor has passed is at the sink, without a gap.
- Dead letters: none is committed over that was neither replayed nor given up, and
  all are resolved in the end.
- Federated search: a page is the page of the union; counts and cursors claim no
  more than is known; a lookup reports a document missing only when it is.
- Checkpoint scopes: one scope at a time per checkpoint, no circular wait, no lock
  left behind, progress of the written targets kept.

## Modules

| Module | Models |
|---|---|
| `EventLog` | what the event store promises: an atomic log |
| `EventStore` | the store's transactions on PostgreSQL, and retention; implements `EventLog` |
| `IndexingWorker` | the consumer group, checkpoints, Typesense, dead letters |
| `IndexingPipeline` | EXTENDS `IndexingWorker`, instantiates `EventLog`: mutation to Typesense |
| `CheckpointScopes` | the three checkpoint stores with their locks, taken one by one |
| `ControlPlane` | replicas, admin requests, committed revisions, reloads, provider calls |
| `ControlPlaneLog` | what the control-plane store promises: revisions, audit chain, announcements |
| `ControlPlaneStore` | its transactions, dispatchers and retention; implements `ControlPlaneLog` |
| `AuditVerification` | EXTENDS `ControlPlaneLog`: `verify_audit_chain` beside writers |
| `AuditDelivery` | EXTENDS `ControlPlaneLog`: delivery of the chain to a sink |
| `RoutingRules` | the evaluation of routing policies |
| `RoutingRollout` | EXTENDS `RoutingRules`: a rollout with writers, workers, replicas, operators |
| `DeletionLedger` | tombstones, restores of targets, the reconciler |
| `DeadLetters` | the dead-letter topic and the resolver's runs |
| `FederatedSearch` | search pages and lookups over clusters |
| `MC*` | constants for TLC |
| `IndexingProofs` | theorems about `IndexingWorker` and `IndexingPipeline` |
| `StoreProofs` | theorems about `EventLog`, `EventStore` and `ControlPlaneStore` |
| `ComplianceProofs` | theorems about `AuditDelivery` and `DeletionLedger` |
| `CheckpointScopesProofs`, `ControlPlaneProofs`, `DeadLettersProofs`, `RoutingRolloutProofs`, `FederatedSearchProofs` | theorems about the module each is named for |

An operator whose comment begins with "Variant:" is a plausible mistake in the
definition below it; `PROJECT.json` pairs it with the property that it breaks.

### EventStore and EventLog

`rows` is the table `indexing_event_outbox` (`published` holds the positions with
a `published_at`), `head` is `indexing_event_heads`, `nextPos` the identity
column, which no rollback gives back. A session is in one request at a time:
`Begin` is the unlocked key lookup of `prepare` (a repair has none), `waiting` is
the wait for the head's row lock, `LockAndReturn` and `LockAndInsert` are what
happens under it, `open` is a transaction that has inserted, and `Commit` or
`Rollback` end it. Statements between the grant of the lock and the insert touch
only rows the lock covers, so they are one step. `HighWaterMark` waits for the
sessions in `open`: they hold `ROW EXCLUSIVE` on the table. `fence` is a history
variable, the highest mark handed out. A request's body stands for what its
digest binds; a repair's own `targets` are the candidate clusters.

`EventLog` has the same variables without the sessions, and each operation is
one step whose guard says what the callers rely on (the next sequence, a fresh
key, a position above every earlier one of its identity and above `fence`, a
repair with the newest body). `EventStore!ImplementsLog` is the refinement; the
mapping is the identity on the shared variables.

### IndexingWorker

A worker handles one record: `Poll`, then `try` (an attempt is about to open its
scope), `apply` (all advisory locks held), `quarantine`, `ack`. Phase one of
`_process_v2_event` is in `OpenScope` (`Decision`, `Planned`), phase two is one
`WriteTarget` or `WriteFails` per cluster; `save` only stages, and
`CommitScope` publishes the staged checkpoints. `FailAttempt` is the common tail
of every attempt that raised, including the move to quarantine at the limit.
`CommitOffset` succeeds only for the current owner of the partition.

An event carries its id, identity, sequence, version and targets; two events are
the same contents exactly when the records are equal, which stands for
`indexing_event_digest`. `Malformed` is any record that fails decoding, parsing
or the key check. `content` says which event a cluster's document comes from; a
deletion is an event like another.

Abstractions:

- a poll returns records of one partition; a real poll of several partitions
  behaves as several polls, since leaving the loop abandons one partition only;
- the locks of a scope are granted together. The code takes them in the order of
  their keys, so that no two scopes wait for one another in a circle, and gives
  up at a common deadline (`ScopeUnavailable`);
- the targets are written in any order; the code uses the envelope's order;
- `refresh_clients` repeats until the Query API answers, so `MissingTarget`
  always ends with the registered clusters;
- a worker without a dead-letter producer behaves as one whose publication
  fails (`DlqMayFail`);
- an aborted PostgreSQL transaction, whose commit keeps nothing, is the branch of
  `WriteFails` and `CommitScopeFails` that loses what was staged;
- a shutdown between two records is a `Crash` that happens to be harmless.

### IndexingPipeline

`Ingest`, `Delete` and `Repair` record a row as an `EventLog` step (`Recorded`)
and start its publication in the same thread; `Again` is a repeated request whose
event is not marked yet; `Dispatch` is one round of `dispatch_indexing_outbox`. A
publisher has taken a set of rows, published in the order of their positions, and for
the first of them (`InHand`) is before or after the send. `misses` counts the failed
calls and ends of publishers, apart from the workers' `faults`. The workers' steps are
those of `IndexingWorker`; to them a publisher is the producer of `Deliver`. Deletions go to every registered
cluster, upserts where routing says, repairs to the candidate clusters of a
rollout.

### CheckpointScopes

`IndexingWorker` grants the locks of a scope together; this module takes them one
by one, in the order of the checkpoint ids, and asks whether that is allowed. The
three adapters of `checkpoint_store.py` are the value of `backend`. `entry`,
`users` and `refs` are `_DeterministicLockRegistry`: `Open` enters all keys under
the registry's guard, `Acquire` and `Release` go lock by lock, `Unregister` gives
the entries up. Lock objects are reused once nothing refers to them, so that a
stale reference would show. `got` and `plan` are sets: the next lock is the least
checkpoint id that is missing, the last one granted the greatest, the next target the
first of the event that is left. `Load`, `Apply`, `Commit` and `ApplyFails` are what a
worker does inside; `staged` becomes `rows` at the end of the scope, except in the
Typesense store, whose upsert is visible at once. `ConnectionLost` ends a
PostgreSQL transaction with everything in it, as a statement that fails does too: the
commit that follows it keeps nothing.

### ControlPlane

`log` is the history of committed revisions: revision *n* of the table
`control_plane_state` is `log[n].cfg`, with the request and operation that
committed it. `prov` is what the providers hold. Per replica, `cur` is
`StateManager.current_revision` and `run` the federation runtime with its
`applied_revision`; `missed` is a history variable, the revisions that the replica
has come to and could not load. An entry of `log` has the revision `on` which its
runtime was. Per request, `pc` says where its handler is, `exp` is the
expected revision of its next commit and `snap` the copy for the roll-back.

| `pc` after | Step | Code |
|---|---|---|
| `checked` | `Begin` | `_expected_revision` |
| `mutated` | `Mutate` | the checks, `_federation_runtime_snapshot`, the change of the shared runtime in place |
| `committed` | `Commit` | the transaction with `_cas_state` |
| `current` | `SetCurrent` | `save_state` sets the revision |
| `provider` | `Install` | `mark_applied_revision` (an import: `load_from_state`), notification |
| `done` | `CallProvider`, `ProviderFails`, `Answer` | the calls to the clusters |

`Refuse`, `Conflict` and `CommitFails` end a handler early, the last two after
the roll-back. A deletion goes through the table twice: `Finalize` turns it from
`tombstone` into `finalize`. `Resume` is for requests that have nothing to commit
(`reconcile_collections`, and a deletion that finds its tombstone) and goes straight
to the providers. `CommitFails` covers the commit whose answer is
lost. `LoadState` and `Swap` are two steps, since `load_state` moves the
revision before the runtime is replaced. Between the two a reload can fail: a
secret of the stored clusters is not allowed (`state_manager.py:250`) or a client
cannot be built (`federation.py:957`). `LoadFails` is that step; the replica keeps
the old runtime under the new revision until a later poll, which compares the
*applied* revision, has loaded it. `InstallFails` is the same failure in an import,
after its commit. A handler that runs meanwhile passes the compare-and-set with the
old runtime and undoes the revision: `OneChangePerRevision` says that this is the
only way to do so, and `NoLostUpdate`, which denies it, has its counterexample among
the further configurations.

Who runs with whom. `async def` handlers (collections, aliases) and reloads share the
event loop of their process: until its commit is over such a handler does not
await, and its provider calls do. FastAPI runs `def` handlers (clusters, routing
rules, import) in a thread pool, so they overlap with one another and with the
event loop. `Turns = FALSE` is the code as it is. `Turns = TRUE` lets the thread
pool's handlers take turns with the rest of their process up to the end of their
commit, which is what the handlers are written for; the runs that pass with it
isolate what compare-and-set and the roll-back guarantee between replicas, and
`control_overlap` and `control_stranded` show what is lost without it.

Abstractions:

- the configuration is the set of clusters, the schemas, one routing choice per
  collection and one alias per cluster; fields of documents, credentials and rule
  order do not matter to the properties;
- a notification and a poll that find a newer revision both end in `Reload`.
  A request whose `If-Match` names another revision than the replica's is
  answered before it does anything, and is no step;
- an export that is imported is any earlier revision;
- `set_routing_rules` asks the first of the registered clusters for a collection that
  is not in the schemas; which one that is is left open (`Found`, `Unfound`);
- checks and snapshot of a handler are one step, the revision is read before it; a
  secret or client that fails at the start of a process keeps it from starting and is
  no step;
- the evaluation of several rules is in `RoutingRules`, the rollout's requests in
  `RoutingRollout`, and the tables behind `Commit` in `ControlPlaneStore`. The
  legacy state store in Typesense has no revisions and is left out.

### ControlPlaneLog and ControlPlaneStore

The abstract log has one step per commit, which raises `revision`, extends the
audit chain and adds an outbox row. It is what `in_memory_store.py` does under its
lock. `ControlPlaneStore` has the statements of the PostgreSQL transactions:
`CasState` or `Conflict`, `AppendAudit` (which locks the audit head) and `Close`.
An open transaction is `txn[w]`; what it has written appears when it ends. A
statement that would wait for a row lock is not enabled (`StateFree`, `HeadFree`).
`known` is the revision a replica believes in, which the lost answer of a commit
leaves behind. Dispatchers list, announce and mark one row at a time, several of
them on the same rows. Retention deletes in batches and looks at the backlog before
each. `Implements` maps `auditRows` to the chain in the order of their sequence numbers.

A hash is the hashed content itself, so that equality of hashes is equality of
histories.

### AuditDelivery and AuditVerification

A delivery attempt is `ReadCursor`, `ReadHead`, `ReadRows`, `Deliver` and `Advance`
or `RecordFailure`: every statement of `deliver_once` is a step, because nothing
but the row lock of the cursor keeps two workers of one destination apart. The sink
takes a batch and may lose its answer. `AuditVerification` reads the entries in one
step and the head in another, as `verify_audit_chain` does.

### RoutingRules

Pure operators: default resolution, rule order by priority and index, the deciding
rule, the targets of a policy, its validation. Fields, operators and operands of a
rule come down to the set of values that it matches.

### RoutingRollout

`rec` is the committed rollout record and `rev` the control-plane revision, of which
the record is a part: every commit of the control plane raises it, those of other
operations too (`Administer`, which commits the record its replica has). `view[r]` is
the record in the runtime of replica `r` and `cur[r]` its `current_revision`. A handler
(`job`) keeps the revision (`exp`) and the record it began with, and takes its steps.
When it has the new record it installs it: from then on (step `commit`, `Installing`)
the replica routes and searches by it (`Runtime`, with the choice that
`_rollout_for_collection` makes beside another rollout), although nobody else knows of
it. `Commit` compares `exp` with `rev` (`UnchangedSince`); if they differ the runtime
gets back what `view` still has. `CommitUnanswered` commits and gives the runtime back
all the same, `Abandon` is a commit that fails or a process that ends. Of the handlers
of one replica, one at a time is between its installation and the end of its commit,
and no reload falls there (`Free`); revision and record are read in one step. What
happens otherwise is the subject of `ControlPlane` with `Turns = FALSE`
(`control_overlap`, `control_stranded`). Its effect on a rollout is the lapse
`"stranded"`: a replica that has an old record under a newer revision, as a failed
reload leaves it as well.

A transition to `cutover` or `completed` measures the topic (`MeasureLag`), the dead
letters (`MeasureDlq`) and the outbox (`MeasurePending`), one after the other; a backfill step exports, imports batch by batch past the
checkpoints, and commits; a repair step lists a window of the log and publishes each
newest mutation again; parity reads barrier, source, candidate and barrier in four
steps. `Route` and `Accept` are two steps of one mutation: it is routed by one runtime
and recorded later. A worker handles an event in one step here; one that gives up may
have written some of the targets, with their checkpoints.

`Lapses` names what the code leaves to its operator and to luck, see the further
configurations. `from` and `to` of a completed rollout change places for the next
one, so that a second rollout finds what the first one left behind. `rolling_back`
restores the old placement as the active one; phases, gates and evidence are those
of `domain/routing_rollout.py`.

### DeletionLedger

A `Mutate` that deletes replaces the identity's ledger row and the rows of its
targets. `Restore` puts a target back to a snapshot and isolates it; `Replay` is an
upsert that `replay_allowed` lets through, check and write in one step, since the
caller is not in the repository; a reconciler's pass (`run`) goes record by
record and target by target, and calls the provider and records the receipt in two
steps. `Reopen` needs a completed `reconcile_restore` and a `reconcile_once` that
found nothing. The target adapter is not in the repository: it deletes what is at or
below the tombstone and raises its checkpoint, as the `DeletionTarget` protocol
demands.

### DeadLetters

`Fetch` reads the group's position, the record and its wrapper and checks the order;
`Send`, `Check` and `Commit` follow, each in a call of its own. Inspection and
dry-run end with `Fetch` and are no step. A replay without a commit, a failing call
and the end of the tool leave what is done. The broker may drop the oldest letters.

### FederatedSearch

One client reads a search page after page, or looks a document up. `Search` checks
the window against the limit, `FetchPage` reads one page of one cluster,
`Answer` merges, drops duplicates, sorts, cuts and computes the counts and the next
offset. `index[c]` is the ranked list of a cluster; `Rank` and `Total` define the
order and the size of the whole collection without windows or pages, and are what
the answers are compared with. A sorted list is given by its places: the place of a
hit is one more than the number of hits before it (`Place`), and `Merged` has at each
number the hit whose place that is. Sums over the clusters are counts of pairs of a
cluster and a number. While an answer is being made the index may change,
and then nothing is claimed of it (`still`).

## Runs

All runs say `CHECK_DEADLOCK FALSE`: the models are bounded and the system may
stop when nothing is left to do.

| Run | Result | Shows |
|---|---|---|
| `store` | pass | two sessions, two identities, an ordinary and a repair key, two bodies: the refinement and the durability of an answer |
| `pipeline` | pass | two publishers and two workers, with deletions, repairs and every kind of fault: fence, acknowledgement, convergence, nothing rejected, checkpoints and offsets advance |
| `pipeline_live` | pass | an accepted mutation is published and settled in the end, also by a worker with an outdated cluster list |
| `control` | pass | two requests of any kind on two replicas with a crash, a lost answer, a reload that fails or a failing provider: every revision is one checked change of an earlier one, and of the last unless that could not be loaded, true answers, a replica serves what its revision says, never goes back and reaches the newest revision |
| `control_store` | pass | two writers, two dispatchers and retention: the refinement, every revision accounted for, announced before it is marked, announced in the end |
| `rollout` | pass | two documents move between two clusters, with writes, deletions, dead letters, other operations, lost commits and answers, a crash and roll-backs in every phase: nothing is hidden, by a committed phase or by one that is only in a runtime, progress never goes back, the cutover is exact |
| `audit` | pass | two workers with crashes and lost answers: cursor covered, no gap, everything delivered |
| `ledger` | pass | two targets, two restores, deletions and mutations in between, a failing provider: nothing comes back, receipts are current, traffic reopens |
| `letters` | pass | two operators, three events of two documents, expiry: nothing forgotten, the lag ends |
| `search` | pass | two clusters, three documents with two scores and any copies: exact pages, honest counts, complete sessions, true misses |
| `scopes` | pass | three threads, overlapping target lists in different orders, all three adapters: exclusion, no circular wait, no lock kept, progress stored |
| `control_stranded` | violation | a roll-back undoes a committed change and no poll repairs it |

The violation is reached by steps of the code and contradicts
`docs/ENTERPRISE_DELIVERY_CONTRACT.md`; `PROJECT.json` quotes it under `findings`.

### Further configurations

Each of these makes TLC show a smaller disagreement between the code and what is
said of it, or that an assumption of a passing run cannot be dropped. They are not
among the runs. Where no file has the exact name, the table gives the changes to
make to one that exists.

| Configuration | Property | What is said or assumed | What happens |
|---|---|---|---|
| `worker_skips` | `AckedSettled` | `indexing_service/app/consumer.py:435`, failed offsets are not committed unless published to the DLQ | a record whose quarantine failed is committed over by the next one |
| `worker_stuck` | `Drained` | `consumer.py:436`, the uncommitted offset is retried | a record whose commit failed is not fetched again while the worker keeps its partition |
| `worker_late` | `FenceHolds` | ADR 0004, a late older upsert cannot pass | a write that Typesense executes after its caller gave up passes the checkpoint |
| `pipeline_drop` | `PublishedReachedKafka` | ADR 0004:26, a row is marked after the broker's acknowledgement | `flush` returns, the future of a refused record is not looked at, and its row is marked |
| `pipeline_hidden` | `VisibleEverywhere` | ADR 0004:46, accepted writes become eventually visible | a repair hides an accepted mutation from the targets it does not name |
| `control_overlap` | `OneChangePerRevision` | `docs/ENTERPRISE_DELIVERY_CONTRACT.md:42`, mutations are atomic | a handler commits the uncommitted change of another thread of its replica |
| `control_claims` | `ConflictLeavesNothing` | ADR 0003:51, a 409 has no side effect | a deletion answered 409 has committed its tombstone and deleted copies |
| `control_claims`, that property, `MaxFaults = 1` | `NoLostUpdate` | `docs/README.md:96`, compare-and-swap keeps two operators from overwriting one another | a reload that fails moves the revision and keeps the runtime (`state_manager.py:247`, `main.py:415`): the next handler of the replica passes the comparison and commits the old runtime with its change over the newer revision |
| `control_claims`, that property | `RoutingStopsFirst` | comment in `delete_collection`, every replica stops routing first | copies are deleted while a replica that has not reloaded routes to them |
| `control_claims`, that property | `DeletedEverywhere` | docstring of `delete_collection`, deleted from all federated clusters | a create on another replica puts copies back between the two commits |
| `control_claims`, three requests | `CreatedEverywhere` | `create_collection`, the schema is applied to all registered clusters | a create that succeeded loses its copies to an older deletion |
| `control_claims`, kinds `tombstone` and `unroute` | `TombstoneKept` | comment in `delete_collection`, the tombstone is kept | outside of the enterprise profile, deleting the routing rules lifts it |
| `control_claims`, three requests, kinds `create`, `register`, `unregister` | `RoutedClusterKept` | docstring of `delete_cluster`, the cluster must not be in use | the cluster that default routing resolves to can be removed |
| `rollout_lapse` | `NoHiddenDocument` | `docs/ENTERPRISE_DELIVERY_CONTRACT.md:43`, coverage prevents hidden documents | the barrier is taken while an older mutation is not indexed: the copy misses it and no repair brings it |
| `rollout_lapse`, `Lapses = {"stale"}`, two replicas | `NoHiddenDocument` | as above | a replica that still routes by an earlier phase writes to the old placement alone |
| `rollout_lapse`, `Lapses = {"overtaken"}`, `MaxFaults = 1` | `NoHiddenDocument` | as above | an older event comes behind its repair and is skipped by the targets that the repair does not name |
| `rollout_lapse`, `Lapses = {"late"}`, two operators | `NoHiddenDocument` | as above | an import of a handler whose commit is going to fail overwrites what came since |
| `rollout_lapse`, `Lapses = {"early"}`, `Docs = {1}`, `MaxFaults = 1` | `NoHiddenDocument` | as above | a mutation is routed to one placement by a final phase that is in the runtime (`admin.py:1803`, `1955`); its commit fails, and the rollout goes on reading the other placement |
| `rollout_lapse`, `Lapses = {"stranded"}`, two replicas, `Docs = {1}` | `ProgressKept` | `docs/README.md:96`, compare-and-swap keeps two operators from overwriting one another | a replica keeps its record under a newer revision: the step that it commits takes version and progress back |
| `rollout_lapse`, `Lapses = {}`, `Historic = {1}` | `NoHiddenDocument` | as above | a copy that an earlier policy placed is searched as long as there is neither rule nor rollout, and hidden by the first draft |
| `rollout`, `Policies <- Split`, one replica, `MaxVersion = 13`, `MaxFaults = 0` | `NoHiddenDocument` | as above | policies that share a cluster: a document that stays is exported and imported over itself, and over a mutation indexed in between |
| `rollout_lapse`, `Lapses = {}`, `Clients <- Three`, `Policies <- Sharded`, `Docs = {1}`, `MaxLog = 2` | `NoHiddenDocument` | as above | a repair writes the document to every cluster of the candidate policy, also where that policy does not place it; a later mutation does not reach that copy, and search returns it after cutover |
| `ledger`, `Idents = {1, 2}`, `Limit = 1`, `MaxSeq = 2`, `MaxRestores = 1` | `NothingResurrected` | `docs/DATA_LIFECYCLE.md:81`, the gate enumerates every suppression | it reads the first page, and so does the check that nothing is pending |
| `ledger`, `MaxSeq = 4`, `MaxRestores = 1`, `Routes <- Either` | `NothingResurrected` | as above | a deletion replaces the targets of the former one: a restored target that only that one named is not asked |
| `letters_first` | `RefusedIfChanged` | the reason `concurrent_offset_change` | before the group's first commit every commit is refused for a change that nobody made |
| `letters_first`, `FirstCommit = 0` | `CommitsAdvance` | the check before the commit | two operators pass it together, and the slower commit puts the group's offset back |
| `search_ties` | `PagesDisjoint` | `search.py:1095`, correct pagination across sharded data | clusters that order equal scores otherwise than the gateway send another prefix: a document appears on two pages and another on none |
| `audit_alarm` | `NoFalseAlarm` | `control_plane/contracts.py:141`, raised if the chain was altered | an entry appended between the two reads raises it |

These pass, and hold for variants of the runs: `worker` (checkpoints and offsets
advance with every fault class switched on, outdated workers, malformed and
contradicting records and batches of two); `pipeline` with `DlqMayFail`,
`LateWrites` and `SendMayDrop` on, one attempt and two records per poll
(`NothingRejected`); `control` with the kinds `unalias` and `unroute` besides and two
faults, under `Spec` (all its safety properties, `ReferencesResolve` and, without
`unroute`, `TombstoneKept`); `control_overlap` with one fault (`AnswersAgree`). Every
module's type invariant holds in all of these and in the runs; `TypeOK` of
`IndexingWorker`, which the proofs need, is the one that a run lists.

### Bounds

Two sessions, publishers and workers are the smallest numbers that race; two
clusters allow partial progress; one partition suffices for the workers, since
events of one identity share one and partitions interact only through locks of an
identity. `MaxTopic = 3` lets one event be duplicated and arrive on either side of
another; `MaxFaults` is large enough for a failed attempt followed by a rebalance
or a crash; `MaxAttempts = 2` has a retry and an exhaustion; `MaxPos = 3` has two
mutations of one identity beside one of the other, or a rolled back position.
`MaxRows = 2` in the pipeline is an original and a later mutation, deletion or
repair of it. `pipeline_live` sets `MaxTopic` so high that no send of the bounded
run waits for room. `MaxFaults` and `MaxMisses` bound workers and publishers apart.
Symmetry is over processes and ordinary keys and is not used for liveness.

The control plane has two replicas, the least that race on a revision; two
requests make every pair of operations meet on the bootstrapped configuration.
Two clusters, one of them the bootstrapped one, allow a target to be missing and
a deletion to be half done; operations on different collections meet in the whole
configuration they commit, which aliases, clusters and the one collection show
already. `MaxFaults = 1` in `control` is a crash, a lost answer, a failing load or a
failing call;
two of them are in a further configuration. `control_stranded` needs one replica only.

In `control_store` three entries are two commits and an entry without a revision, or
three commits, so that retention has a row to delete and one to leave. `rollout` has
`MaxDocuments = 1`, so that copy and repair take two steps each and a mutation can
fall between them, and `MaxVersion = 11`, enough for a whole rollout, for one with a
repair step or a failed verification up to `drain`, and for a roll-back from every
phase (it passes with 12 as well, in which a rollout with a repair step completes); two replicas let one be behind. Its
`MaxFaults = 1` is a dead letter, a failing call or commit, a lost answer, a process
that ends, or another operation of the control plane, which makes a handler lose its
revision. In `audit`
a page of two of three entries makes batches that overlap. `ledger` has two restores
of two targets and three mutations, so that a deletion is followed by a document and
another deletion. `letters` has a valid, an invalid and again a valid event, the last
of the document of the first; four letters and replays let one be replayed twice.
`search` has a provider page of two, a deep window of three and limits of one and two:
windows of one and of two provider pages, a last page that is cut short and one at the
limit. `scopes` has four scopes for three threads, so that a lock entry is forgotten
and made again while another thread is about to take it.

### Assumptions of the runs

The constants `DlqMayFail`, `LateWrites` and `SendMayDrop` switch a class of
faults on. `FenceHolds` and `Converged` need `LateWrites` off, `AckedSettled`
needs `DlqMayFail` off and `PublishedReachedKafka` needs `SendMayDrop` off. `control`
needs `Turns`, `rollout` an empty `Lapses` (replicas that have loaded a phase before
the next is asked for, mutations settled before the barrier, repairs that no older
event of their document follows, imports that end before their revision is
lost, no mutation routed to fewer clusters by a phase that is not committed, no
replica with an old record under a newer revision), `ledger` a page that holds all rows and routes that do not move. The further
configurations show that none of these can be dropped. `OrderedTies` in `search` says
that clusters order equal scores as the gateway does. Malformed and contradicting
records do not come from the event log; that they disturb neither fence nor
acknowledgement is proved (below).

### Fairness

`WF` of each worker's `Progress`: the poll loop is a `while True` in a process
that its supervisor restarts, and a call that does not fail returns (client
timeouts). Faults are never fair. `WF` of each publisher's `Publish`:
`dispatch_indexing_outbox` runs for ever in every replica and a request thread
that is not killed finishes. `WF` of each request's `Handle` and each replica's
`Follow`: a handler runs to its end, the poll of `_reconcile_revisions` and the
reload are loops of every process, and a process that ended is started again.
Notifications need no fairness, since the poll does without them. `WF` of each
writer's transaction and each dispatcher in `ControlPlaneStore`, of each worker's
attempt and the end of a retry delay in `AuditDelivery`: statements return and both
loops run for ever. `DeletionLedger` assumes an operator who repeats the passes until
traffic reopens, and `DeadLetters` one who resolves in order, as the runbooks say;
nothing else is assumed of people, clients, rebalances or retention. Faults,
mutations and restores are bounded, which is how the liveness properties express
"once faults stop".

## Proofs

| Theorem | Statement | Assumptions |
|---|---|---|
| `TypeCorrect` | `Spec => []TypeOK` | |
| `FenceCorrect` | `Spec => []FenceHolds` | `~LateWrites` |
| `CheckpointsCorrect` | `Spec => CheckpointsAdvance` | |
| `OffsetsCorrect` | `Spec => OffsetsAdvance` | |
| `AckCorrect` | `Spec => []AckedSettled` | `~DlqMayFail`, `MaxPollRecords = 1` |
| `PipelineIsWorker` | `PipeSpec => Spec` of `IndexingWorker` | |
| `PublishedCorrect` | `PipeSpec => []PublishedReachedKafka` | `~SendMayDrop` |
| `RejectedCorrect` | `PipeSpec => []NothingRejected` | |
| `ConvergedCorrect` | `PipeSpec => []Converged` | `~SendMayDrop`, `~LateWrites`, `~DlqMayFail`, `MaxPollRecords = 1` |
| `LogCorrect` | the invariants of `EventLog` | |
| `StoreCorrect` | the invariants of `EventStore` | |
| `StoreImplementsLog` | `Spec => ImplementsLog` | |
| `RevisionsCorrect` | `StoreSpec => []RevisionAccounted` | |
| `AnnouncedCorrect` | `StoreSpec => []PublishedAnnounced` | |
| `ChainCorrect` | `StoreSpec => []L!Verified(Chain)` | |
| `RefinementCorrect` | `StoreSpec => Implements` | |
| `CursorCorrect` | `DeliverySpec => []CursorCovered` | |
| `SinkCorrect` | `DeliverySpec => []SinkGapFree` | |
| `AnswersCorrect` | `Spec => []AnswersAgree` | |
| `RevisionsAreChanges` | `Spec => []OneChangePerRevision` | `TakingTurns` |
| `RuntimeCorrect` | `Spec => []RuntimeMatchesRevision` | `TakingTurns` |
| `AppliedForward` | `Spec => AppliedAdvances` | `TakingTurns` |
| `ExclusiveCorrect` | `Spec => []Exclusive` | |
| `DeadlockFree` | `Spec => []NeverDeadlocked` | |
| `NothingKeptCorrect` | `Spec => []NothingKept` | |
| `ProgressStoredCorrect` | `Spec => ProgressStored` | |
| `RowsAdvanceCorrect` | `Spec => RowsAdvance` | |
| `ScopesTyped` | `Spec => []TypeOK` of `CheckpointScopes` | |
| `ReceiptsCorrect` | `Spec => []ReceiptIsCurrent` | |
| `NothingReturns` | `Spec => []NothingResurrected` | `Covering` |
| `NothingIsForgotten` | `Spec => []NothingForgotten` | |
| `ProgressCorrect` | `Spec => ProgressKept` | `"stranded" \notin Lapses` |
| `NothingHidden` | `Spec => []NoHiddenDocument` | `WholeMove` |
| `CutoverFaithful` | `Spec => CutoverExact` | `WholeMove` |
| `PagesCorrect` | `Spec => []PageIsExact` | `OrderedTies` |
| `SessionsCorrect` | `Spec => []SessionReadsAll` | `OrderedTies` |
| `CountsCorrect` | `Spec => []CountsAreHonest` | |
| `MissingCorrect` | `Spec => []MissingIsMissing` | |

They hold for any sets of processes, documents, clusters, keys and requests, and any
bounds that satisfy the named assumptions of the modules. Those say what kind of value
a constant is, that `Nil` is none of the values it stands beside, and, in
`ControlPlane`, what the bootstrapped configuration is. An assumption in the table is
one that a theorem cannot do without: `worker_late` and `worker_skips` for
`~LateWrites` and `~DlqMayFail`, `pipeline_drop` for
`~SendMayDrop`, `control_overlap` for `TakingTurns`, `search_ties` for `OrderedTies`,
the two variants of `ledger` for the parts of `Covering`, and those of `rollout` and
`rollout_lapse` for `WholeMove` and for `"stranded" \notin Lapses`. One record per poll is the default of
`KAFKA_MAX_POLL_RECORDS`. `TakingTurns` says that handlers take turns, *or* that the
requests are only those whose handlers run on the event loop, `create`, `tombstone`,
`alias` and `unalias`: for these the theorems hold of the scheduling as it is.
`Covering` says that the page of `list_restore_suppressions` holds the ledger and that
every mutation goes to all targets. `WholeMove` says that there are no lapses and no
copies of an earlier policy, and that each of the two policies places every document
on one cluster, the old policy on one and the new policy on another: the collection
moves as a whole. It is what the run `rollout` has. `NoHiddenDocument` fails with any
one of the lapses (`"stranded"` is shown to break `ProgressKept`), with a historical copy, with a candidate policy that spreads the
documents (`Sharded`) and with policies that share a cluster (`Split`). Whether it
holds when every document is on several clusters of a policy is open.

*The fence.* `FenceHolds` is not inductive: a worker in `apply` writes without
looking at the checkpoint again. The strengthening says that scopes of two workers
never cover a common identity and cluster (`Exclusive`), that the checkpoints a
scope has still to write are absent or older than its event (`ScopesFresh`), and
that a staged target already shows the event (`StagedShown`). `Exclusive` makes
the last two stable under the steps of other workers.

*Offsets.* A commit may only raise the offset if the owner's current record is
behind it: `OwnedAhead` says that the batch of a worker that owns its partition
lies between the committed offset and the position, which holds because the
new owner restarts at the committed offset.

*Acknowledgement.* `AckInv` says that everything up to the committed offset is
settled, that the records between it and the position are in the hands of the
owner, and that a worker in `ack` has settled its record. With one
record per poll and a dead-letter topic that accepts, a record is abandoned only
after it was settled; that a settled record stays settled follows from
`CheckpointsAdvance`.

*The pipeline.* Given `RowsInv` (positions and sequences are each row's own and do not
pass the head) and `QueueInv` (a publisher has rows of the table, and a first one
whenever it has sent), a publisher's step delivers the event of a row or leaves the
worker's variables alone, so that the pipeline is a behaviour of `IndexingWorker` and
all of its invariants hold. `MarkInv`: the row that a publisher has sent and not yet
marked is in the topic, which no other publisher undoes, and so is every marked row.
`LoggedInv`: topics, checkpoints, documents and late writes hold events of the log, and
each identity its own. From there two arguments follow. Two events of one identity are
equal or strictly ordered (`LoggedOrdered`), so no worker classifies one as
contradicting (`NeverRefused`), and records come to quarantine by failed attempts alone.
And in a quiet pipeline the newest row of a document is in the topic, settled and not in
the dead-letter topic; no target can have passed it, so each has its checkpoint, and by
the fence a document at least as new, which can only be that row's.

*The event store.* The invariant relates open transactions to the tables: two
sessions never hold the same head, an open row has the next sequence of its
identity, a fresh key, a position above every row of its identity and above the
fence, and all positions are below `nextPos`. Each step is then a step of
`EventLog` or leaves its variables alone; the only visible step of a transaction
is `Commit`. The invariants of the log are proved for `EventLog` first (`LogInv`) and
cited for each of these steps.

*Checkpoint scopes.* `Exclusive` speaks of checkpoints, the in-process adapters of lock
objects. `RegistryInv` is what ties them together: a key that a scope refers to has one
lock, that lock has no other key, and every scope that names the key refers to that
one; `UsersInv` says that a lock's count is the number of these scopes, so that
`Unregister` forgets a lock exactly when nobody else could be waiting for it. A lock is
then free exactly when its key is (`SameLock`, `TakenByKey`). For `DeadlockFree`,
`ScopeInv` says that what a thread holds is below what it misses; of the threads that
wait, take one that asks for the greatest key of all: whoever holds that key has no
greater one to wait for. `FreshInv`, that what a scope will write advances the stored
checkpoint, is stable since nobody else writes the keys of its fences; it is what
`RowsAdvanceCorrect` needs for the adapter that does not compare.

*The control-plane store.* `StoreInv` has five parts. `RowsInv`: the sequences of the
audit rows are `1 .. n`, each once, and the head is the last row with its hash.
`RevisionsInv`: no replica believes in a revision that does not exist yet. `LockInv` is
what row locks give: one open transaction at most has changed the state row, and then
it goes to the next revision; one at most has read the audit head, and what it read is
still the head when it closes. `OutboxInv`: every revision is in the outbox or was
published, the newest is in the outbox, and what a retention batch is about to delete
is published. `PagesInv`: the row that a dispatcher is about to mark was announced.
`ChainCorrect` adds the hashes. For the refinement, `Close` is the one visible step of a
transaction: since no other transaction can have appended since the head was read, it
adds exactly one entry at the end of the mapped chain (`ChainGrows`), and raises the
revision by one exactly when it commits a change. Statements before it, conflicts and
aborts stutter.

*Audit delivery.* Nothing locks the cursor between the steps of an attempt, so
`DeliveryInv` must say that what a worker has read, however long ago, is still true
(`AttemptOK`): the cursor that it read was covered and stays covered, a batch in hand
begins right behind something that is covered, and the position that it is about to
write is covered by the acknowledged batch. Chain and sink only grow, so other workers'
steps keep it. `Boundary` is the reason why a stored cursor always passes the check
against the chain.

*Answers of the control plane.* `AnswersCorrect` needs no assumption on the scheduling:
`RequestInv` relates the step a handler is at to what it has in the log (none before
its commit, the tombstone or the change after it, none after a conflict), and only its
own steps add its entries.

*Revisions of the control plane.* `OneChangePerRevision` speaks of the log alone; it is
true because of what the handlers see. `TurnsInv`: of the requests that are between
their check and the end of their commit, one at most is at work on a replica, and no
reload is. `RestInv`: a replica where none is has, in its runtime, the configuration of
the revision that the runtime names, and has come to a newer one only where it could
not load it (`Near`). `StepInv` follows the handler at work: its snapshot is that of an
earlier revision, the expected one unless the replica has missed that; the runtime is
the snapshot with its change; after the commit the log has it. So when the
compare-and-set accepts, the last revision is the one that the change was made to, or
one that the replica missed, and when it does not, the roll-back puts back what the log
has. `ByRequests` is there because `missed` is asked of the replica of the request, which
must not change once the request has committed.
The invariant is what overlapping handlers break: TLC finds the step in
`control_overlap`.

*The deletion ledger.* `LedgerSafe` says that the row of an identity is its last
tombstone, that checkpoints do not run ahead of the log, that the rows a pass works on
may have been replaced but only by newer ones (`Known`), and that the target that has
answered has passed the tombstone of the record at hand and holds nothing that it
covers (`PassInv`). A receipt is then current, since `record_target` compares the
sequence again and checkpoints do not fall. For `NothingReturns`, a document of a target
is `Clean` when it is not behind a deletion that the target has passed. Every step but
`Restore` keeps that: a new deletion is ahead of all checkpoints, a replay asks the
ledger, and the provider deletes whatever it lets a target pass. `TrafficInv` says that
during the pass of a restore a document is clean or still ahead of the pass (`Ahead`),
which the pass establishes because its page holds the ledger and each row names all
targets, and that after it, and in traffic, everything is clean.

*Dead letters.* Two runs of the tool may work on the same record, and a commit may come
so late that it takes the offset back; so `NothingForgotten` cannot follow from the
offset alone. `Done` says of a dead letter that its event is in the topic, applied,
given up, or has a later dead letter: steps of the worker keep that, since what leaves
the topic is applied or becomes the last dead letter. Everything below the offset is
done (`CommittedInv`), and so is, for a run that has compared the offset, everything
below its record, and the record itself if the run published it again (`RunOK`). Of the
dead letters of one event the last one then decides: it is above the offset, or done
without a later one.

*Federated search.* What a cluster sends is a beginning of its ranked list, at least as
long as the window of the gateway (`PartOK`; the pages of a call are numbered, so this
needs that a page begins where the one before it ended, `FetchedOK`). The heart of
the argument is `WindowOfWhole`: if a set of hits holds every hit of the whole
collection's first `W` places, then among its own best copies the first `W` places are
the same hits. `WindowHolds` gives the premise, and it is the step that fails without
`OrderedTies`: a hit that a cluster sends later than the window has `W` hits of other
documents before it. `RankIsPlace` turns a place among the best copies into the rank
that the property speaks of. Counts are compared by injections between sets of pairs;
they need no order, so `CountsCorrect` has no assumption. For a session, `AnswersInv`
says of each answer that it is exact and that it `Follows` the ones before it: it
starts at or behind the end of each, and every place before its start is on one of
them. Two answers then share no place, and when the client stops since nothing is left,
every place is on one. A change of the index takes the claim from all answers at once
(`ChangeKeeps`), so nothing need be said of pages of different states of the index.
For a lookup, the clusters that held the document all the while are among those still
to be asked, unless one has failed (`LookupInv`).

*The rollout record.* A handler works on the record of its replica, which may be old,
and other handlers and operations commit meanwhile. `RolloutInv` says that each version
has one record (`ViewOK`), that a replica of the committed revision has the committed
record (`RevisionOK`, the part that a stranded replica breaks), and that a handler's
result, as long as the revision is the one that the handler began with, is that record
with its barrier drawn or may be committed after it (`JobOK`). The record's own version
is never compared by the code; it is the revision that carries the argument. `RolloutOK` ties the cursor to the copy: repair begins at the
barrier when the copy ends, and it ends where the log ended then.

*Where the documents are.* `PlacedInv` is the reason why a move hides nothing. A cluster
is `Covered` for a document if it holds the newest mutation and whatever is still on
its way to it is superseded, or if the newest mutation is on its way to it. The active
placement is covered in every phase, and the candidate from the moment at which parity
is committed until the rollout ends (`Live`). For the active placement this is a
matter of routing: a runtime is at most one phase behind the record (`Lags`, since a
transition waits for all replicas), and the modes of two phases that follow each
other have the active policy in common (`Reading`); the imports of the copy go to the
other cluster, and `InTime` and the revision keep them to the phase `backfill`. For the
candidate copy and repair are of no use to the proof: what they leave undone, parity
finds. What parity cannot see is what is on its way. `Dual`: every mutation behind the
source barrier, everything that was on its way when it was taken, and what is routed
since, goes to both clusters.
`Mirrored` draws the conclusion: if the exports agree on a document, the newest
mutation is at both or going to both, and an older event that is going to the candidate
is superseded there, by the checkpoint of the same cluster or because it is so at
the active one. A handler may have measured this long ago; what it holds (`Relies`) is
kept by every step but a commit, and a commit makes its revision old. A record that is
installed and not committed may follow the committed one (`Serving`): as long as its
revision is current it reads what is covered, and what it routes goes at least where
the committed record sends it, as no lapse is `"early"`. `Fresh` covers the
search without rules, which asks every cluster: before the first rollout the others
are empty.

Only model-checked: the liveness properties (`EventuallySettled`, `Converges`,
`Announces`, `Delivered`, `Reopens`, `LagEnds`), which need fairness and are beyond
the prover. `LedgerSafe`, `SearchInv`, `PlacedInv` and the other inductive invariants
were checked by TLC on the constants of the runs before they were proved.

## Not modelled

- Rate limiter: one counter per window, incremented by Redis atomically; the memory
  backend is for tests and single-process runs.
- Authentication and authorisation: decisions on tokens and claims without a protocol
  between processes.
- Migration and legacy reader, legacy envelopes, the direct publication and the state
  store in Typesense: one-off or development paths that the enterprise profile
  refuses.
- Dependency health: a cache that nothing but the health endpoints reads.
- Settings, secrets, telemetry, deployment charts, benchmarks and the administration
  UI: no state that other parts depend on.
- In the modelled parts: message contents, HTTP, SQL text, filters and projections of
  a search, files of evidence and the command lines of the tools. The cryptography of
  hashes is abstracted to equality.

## Plan

1. Done: `EventLog`, `EventStore`, `IndexingWorker`, `IndexingPipeline` and their
   proofs; the other modules with their runs.
2. Done: the proofs above, of the event store, the worker, the composed pipeline, the
   control-plane store and its refinement, audit delivery, the control plane, the
   deletion ledger, the checkpoint scopes, dead letters, the rollout and federated
   search.
3. Left: `NothingHidden` for policies that place every document on several clusters,
   where parity compares the union of the copies and not each cluster's.
