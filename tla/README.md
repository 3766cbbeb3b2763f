# Verification of ClickHouse continuous backup

The program keeps a ClickHouse table that an exactly-once Kafka Connect sink
fills backed up together with the exact Kafka position of the archive, and
restores a table to any later position by replaying a bounded range of Kafka.
This directory holds TLA+ models of it, TLC configurations that check them on
small instances, and TLAPS proofs for every instance.

Paths are relative to the repository; `backup/src/` is meant where only a file
name is given.

## 1. The system

| Part | State | Operations | Talks to |
| --- | --- | --- | --- |
| Backup Job, `backup.rs` | none that outlives the process; a plan, captured checkpoints | `run`, `create_backup`, `plan_backup`, `validate_chain`, `checkpoint`, `resume_ingestion` | everything below |
| Snapshot barrier, `snapshot.rs` | temporary clone tables named after the run | per target table: pause, wait, capture, check, sync, clone, recheck, resume; `cleanup` | Connect, ClickHouse, Kafka |
| Connect client, `connect.rs` | the requested and reported state of a connector, its committed offsets | pause, resume, stop, create stopped, patch offsets, waits | Kafka Connect REST, 15 s per request |
| Backup catalog, `metadata.rs` | one partition of a compacted topic; a consumer group as lock | `acquire`, `commit`, `load_manifest` | Kafka |
| Kafka log checks, `kafka.rs` | none | `require_offsets_replayable` | Kafka |
| ClickHouse client, `clickhouse.rs` | tables, KeeperMap rows, `system.backups` | sync, clone, backup, restore, KeeperMap reads and writes | ClickHouse, no request timeout |
| Bounded copy, `replay.rs` | replay topic, committed group offset, producer epoch | `verify_ranges`, `copy`, `verify_replay_retained` | Kafka |
| Recovery controller, `controller.rs` | phase in the resource's status; connectors and tables derived from its UID | `reconcile`: restore, copy, replay, follow | Kubernetes and all above |
| Recovery plan, `recovery_resource.rs` | none | `RecoveryPlan::new`, a pure function | |
| Manifest rules, `backup.rs`, `model.rs` | none | `checkpoint`, `validate_manifest`, `validate_chain` | |
| Configuration, preflight, `config.rs`, `preflight.rs`, `main.rs` | none | parse, validate, dispatch | |
| Helm chart, `chart/` | CronJob, controller Deployment | `Forbid`, one pod retry, 6 h deadline, 300 s grace; one controller replica | Kubernetes |

They interact through requests that may fail, be executed without an answer, or
be executed late, and through state others change at the same time: the sink
goes on whenever it is not paused, another user of the Connect API may resume a
connector, Kafka trims logs and forgets group offsets, transaction coordinators
finish what a dead process began.

What makes each part correct:

- **Barrier**: the archive of a committed manifest holds exactly the records
  below its offsets; ingestion is held back for one target table at a time, never
  during the upload, never after success, and never against an operator's pause.
- **Catalog**: backups form chains a later Job and a recovery can read back to a
  full backup; one Job at a time publishes, on top of the latest backup.
- **Manifests**: a published offset is the number of archived records of its
  partition whatever KeeperMap and Connect report, and what was published stays
  acceptable to every later Job and recovery.
- **Recovery plan**: a start and a target for exactly the partitions that wrote the
  table, whatever vector a user asks for.
- **Bounded copy**: the replay topic shows each record of the range once, in
  order, whatever dies; an incomplete copy never succeeds.
- **Controller**: a destination ends at exactly the requested position, its follow
  connector continues there without a hole or a duplicate, and a reconciliation
  that was interrupted anywhere can be repeated.

`PROJECT.json` lists the hazards of the code line by line, with the properties
that cover them.

## 2. Modules

```text
SinkState ── SnapshotBarrier ── MCSnapshotBarrier
                     └───────── SnapshotBarrierProofs
SerialCatalog ── BackupCatalog ── MCBackupCatalog      (refinement)
                     └───────── BackupCatalogProofs ── CatalogChainProofs
BoundedCopy ── MCBoundedCopy
      └─────── BoundedCopyProofs
TableRecovery ── MCTableRecovery
      └──────── TableRecoveryProofs
Manifest ── RecoveryPlan ── OffsetHandover ── MCOffsetHandover
                                  └────────── OffsetHandoverProofs ── HandoverRecoveryProofs
Extrema: lemmas for the proofs of BackupCatalog and BoundedCopy
```

### SinkState

KeeperMap rows, the offset derived from one, and the three per-partition tests
the backup makes: `Accepts` (`checkpoint`), equality (`require_unchanged_keeper`)
and `InsideLog` (`verify_watermarks`).

### SnapshotBarrier

One Job against the live system. `pc` names the request the Job makes next;
`todo` is the rest of the loop over connectors it is in, `cur` the connector
between the two requests of one iteration. Connectors of one loop are visited in
any order; the code's order is one of them. An error takes the way out the code
has at that point: `Exits` (before the operation: nothing is resumed),
`BarrierFails` (the group is resumed first), `Finalizes` (the final resume and
cleanup). `Terminate` is `tokio::select!` dropping the operation, at any await.

A table is the set of input offsets it holds per partition; `table` is what is on
some replica, `replica` what is on the one the Job queries. The sink is external:
it marks a range in KeeperMap, inserts it, marks it done, and Connect commits
some time later; a put can fail on either side of the insert and is retried.
`target` is the state requested of a connector, `status` the one it reports, and
`latePause` holds pause requests whose client gave up but which are still to be
executed. `trimmed` is auxiliary: partitions whose log
moved after their last check, the gap `docs/failure-modes.md` calls impossible to
close.

### BackupCatalog and SerialCatalog

Several Jobs around one log. An entry is a transaction: manifest and chain state.
`Join` is `read` up to the watermarks, `Acquire` the rest of it with
`validate_chain` and `plan_backup`; `Publish` and `CommitTransaction` are
`publish`. A transaction of a Job that is gone may be open, prepared, committed
or aborted, and the last stable offset (`StableEnd`) hides what is behind it, as
it does for the program's `read_committed` consumer and its watermark queries.
The group coordinator assigns, rebalances and expires members; the cleaner
removes superseded chain states, never manifests, whose keys are unique.
`StateAt` is the chain state a reader up to an offset sees and `ValidChain` the walk
from it to the full backup; `Found` is what `load_manifest`, the reader of a
recovery, returns for an ID at this moment: it takes no lock and sees the log
below the last stable offset only.

`SerialCatalog` is the promise: one publication after the other, each extending
the chain or starting a new one at the limit. `SerializesPublication` is
`BackupCatalog` implementing it, the committed entries of the last chain being
the abstract chain.

### BoundedCopy

One or two controllers run `copy`, from the start after every error. The replay
log is written when a transaction ends, as its records and a marker or as holes;
`Fenced` is the producer epoch, `LostProgress` and `RequireEmpty` are the tests
on resumption. A record is its source offset; source offsets without one are
markers or aborted records, which the code must tell from records retention took
(`Contiguous`). `kept` is auxiliary: the progress at which the replay topic was last
deleted, so that `CopiedExactly` can say what a recreated topic holds.

### TableRecovery

One resource, reconciled from the top after every error, death or change of the
resource. `pc` names the next request; `role` and `index` are the connector it is
about; `view`, `empty`, `created` and `existing` are what this attempt has read:
the cached phase, whether the destination had rows, whether `create_stopped` made
the connector, the KeeperMap row found before that. Everything else is what
Kubernetes (`phase`, and `seen`, the cache), ClickHouse (`restore`, `dest`) and
Kafka Connect (`conn`) remember. `repeated` is auxiliary: a record was inserted
twice. `user` lets the operator, once Complete was published, resume a follow
connector at any time, as the documented cutover does.

A step is one request with its answer. A request that failed without effect is
`Fail` before the step, one whose answer was lost is `Fail` after it. The
connector's topic, its sink and its KeeperMap row are external: a connector
inserts from the later of its committed offset and its row, and a connector
without an offset, or with one its topic does not have any more, fails
(`TaskFails`, `auto.offset.reset=none`). It may also fail of anything else
(`SinkFails`), and then stays failed until it is stopped: resuming it does not
restart its task. A copy is one step that succeeds with the whole range, which is
`SuccessIsComplete` of `BoundedCopy`. `low` is what retention left of a replay topic
(`TrimReplay`), which the code looks at before and after the connector reads it
(`Copy`, `VerifyRetained`); `early` is auxiliary: it was trimmed before the connector
had stopped at its end.

### Manifest and RecoveryPlan

Operators only. `Manifest` has `CheckpointAccepts` and `Checkpoint`, which is
`checkpoint()` failing and returning, and the independent `ManifestAccepted`
(`validate_manifest`) and `ChainAccepted` (`validate_chain`). A key is a topic and
a partition; offsets and row ends are u64 (`0 .. 2 * MaxSigned + 1`) and
`Successor` wraps, so that the tests against `i64::MAX` have something to keep out.
`RecoveryPlan` is `RecoveryPlan::new` (`Flattens`, `StartOffsets`,
`TargetsAccepted`), `validate_range`, and what the controller makes of the
vectors: `FollowRows`, the KeeperMap rows of a follow connector, and
`ProgressAccepted`, the test of a live one that is found again.

### OffsetHandover

The composition of both with a sink, a catalog and a recovery: the way of an offset
from a live KeeperMap row to that of a follow connector. Pipelines have several
partitions and may feed the same table; the rows of the live sink may be
unfinished, lost, of another topic, without a range or at the end of i64 or u64;
topics grow and logs are trimmed. `Capture`, `Check` and `Publish` are the three
points at which a Job looks at them, one step each. `place` is how far the
recovery is: `Plan` repeats `PlanAccepted` at every attempt; `Handover` is
`ensure_follow_connector`, one request after the other: `Create` (with the copy and
replay that precede it), `Stop`, `PatchOffsets`, `Hydrate` and `Resume`, or
`Progress` or `Hydrate` for a connector that has rows. The KeeperMap is read twice, by
`Create` (into `existing`) and by `Hydrate`, and a live connector may put records
between any two requests (`FollowPut`). `Interrupt` starts over, `Cutover` is the
user afterwards. What happens between the requests of the other steps is in the
other modules.

## 3. Runs

| Run | Instance | What it shows |
| --- | --- | --- |
| `barrier_shared` | two connectors, one replicated table, a record each in it and a record to come; failing puts, hanging and failing queries, other users, signals | `TypeOK`, `ManifestIsExact`, and `IngestionRestored`, a liveness property |
| `barrier_split` | two tables; every fault of Connect, ClickHouse and Kafka, retention, late pauses, signals, kills | `IngestingWhileUploading`, `PauseConfinedToOneTable`, `SuccessLeavesRunning`, `RecordedOffsetsReplayable`, `OperatorPauseRespected` |
| `catalog_serial` | three Jobs one after the other, empty and non-empty catalog; failures, kills, expired sessions, cleaner | `TypeOK` (with the chain limit), `SerializesPublication` |
| `catalog_overlap` | three Jobs, two configurations, empty and non-empty catalog; everything at once | `SessionExclusive`, `ChainReadable`, `ParentsCommitted`, `FoundStaysFound`, and `CommittedIsFound`, a liveness property |
| `catalog_empty` | overlap over an empty catalog, nothing fails | **violates** `LeaseExclusive` |
| `catalog_stale` | overlap over a non-empty catalog, nothing fails | **violates** `CatalogIsLinear` |
| `copy_zombie` | two controllers, two partitions, three starts; failures, source retention, a deleted replay topic | `TypeOK` (with the target bound), `CopiedExactly` |
| `copy_housekeeping` | one controller, two starts; retention on both topics, expired progress | `SuccessIsComplete` |
| `copy_recreated` | one controller, the replay topic deleted | **violates** `SuccessIsComplete` |
| `recovery_faults` | two source connectors, to a target and live, three faults of any kind, failing tasks included, retention on the replay topics, user resumes | `TypeOK`, `InsertedOnce`, `FollowContinuesDestination`, `CompleteAtTarget`, `ReplayVerified`, and `RecoveryEnds`, a liveness property |
| `recovery_unpatched` | one source connector, one failed request | **violates** `ReconciliationIsRetryable` |
| `handover` | three pipelines, two of the recovered table; two backups, seven kinds of target vector and the live mode, every kind of row, retention, growth | `TypeOK`, `PublishedOffsetsExact`, `CheckpointsStayValid`, `ChainStaysValid`, `FollowStartsAtEnd`, `CompleteIsAsRequested`, `ConflictIsTransient` |

### What the violations mean

- **`catalog_empty`**: `read` returns before it waits for the assignment when the
  topic is empty (`metadata.rs:118`), so the lock does not exist until the first
  backup is committed. `docs/architecture.md:38-39` promises exclusive ownership.
- **`catalog_stale`**: the watermarks are taken before the wait for the lock
  (`metadata.rs:112`) and later records are ignored. A Job that waited while the
  holder committed plans on the old tip. `docs/backup-procedure.md:47-48`.
- **`copy_recreated`**: a recreated replay topic fails one reconciliation; the
  retry accepts it (`replay.rs:222`). `docs/table-recovery.md:109-110`.
- **`recovery_unpatched`**: a replay connector that was created in an attempt that
  did not write its offsets never gets them (`controller.rs:305`), and its task
  fails for ever. `docs/table-recovery.md:75`.

`RecoveryEnds` says that there are four dead ends and no other: a replay connector
without offsets (`Unpatched`, the violation above); a failed task that is waited for
(`FailedForGood`: that of a replay connector short of its end, or of a live follow
connector with a KeeperMap row; resuming it does not restart the task, waiting for
it to run fails at once, `controller.rs:320-324` and `connect.rs:82`, and the stop
after which a resume would start new tasks comes later, so that only somebody who
restarts the task by hand helps); a restore whose outcome is bad or unknown
(`RestoreLost`); and a replay topic that retention has reached (`ReplayLost`). The
documentation announces the last two, and promises the opposite of the second as of
the first (`docs/table-recovery.md:75`). The last one also strikes a connector that
has long ingested its topic, since each attempt begins with looking at it again.
`recovery_faults` also passes through a behaviour worth knowing: a reconciliation
that was queued while the last one ran may start from a cache that does not show
Complete yet, and takes the phase back to Replaying for another pass
(`controller.rs:108`). `CompleteAtTarget` and `FollowContinuesDestination` hold
through it.

`catalog_overlap` says how far the first two reach, together with a commit that
reports an error and happened all the same (`metadata.rs:206`,
`docs/failure-modes.md:17`): they fork chains and repeat generations, but no fork,
late transaction or expired session ever makes the catalog unreadable for a Job,
takes an ancestor from a committed backup, or changes or hides a manifest that a
recovery could read once; and every committed backup can be read at last.
`SerializesPublication` therefore needs what `catalog_serial` assumes: no overlap
and no transaction that outlives its Job.

`FollowStartsAtEnd` and `ConflictIsTransient` say that the two ways to write
KeeperMap rows for a follow connector (the captured ones at the checkpoint, made up
ones at any other target, none for offset zero) mean the same to the sink, and that
what the attempt before, or a connector that ingested since, left behind is no
lasting obstacle. They do allow a passing one. An empty KeeperMap does not only mark an
incomplete initialization, as `docs/table-recovery.md:63-66` says: a live
connector that began at offset zero has none either. It is initialized again, may put
a record after its rows were read (`controller.rs:377`) and before it stops, and its row is
then "conflicting" (`controller.rs:476`). `ConflictIsTransient` says that this is the
only way a recovery is stopped by its own progress, never a bounded one, and that the
next attempt accepts the row and goes on.

### Bounds

- Two connectors are enough for every interleaving within a loop, for a shared
  table and for a second table with its own barrier. In `barrier_shared` each
  partition has a record in the table and one that can be put before, during or
  after the capture; one record is enough where a run asks which connector is
  paused. Partitions start with and without a lost KeeperMap row, and connectors
  running or paused by an operator.
- Three Jobs are a holder, a waiter and a successor that reads what the two left
  behind. `MaxIncrementals` 1 and 2 reach extension, limit and a new chain.
  `MaxIngested = 1` tells two checkpoints apart. `SameCopiers` exchanges the two
  controllers of `copy_zombie`, a run of invariants only.
- The copied ranges have a gap inside, a record at the target, a range that ends
  in a gap, and batches that end before and at the target. `MaxEpoch` bounds the
  number of starts: three let a controller be fenced and then a third attempt
  inherit what both left.
- In `TableRecovery` one source connector has an archived record, two to replay and
  one after the target; the other has neither an archive nor a range, so that its
  KeeperMap row at the target does not exist. Three faults are enough to be
  interrupted in an initialization, in its repetition, and in what follows. The
  replay topic has two records, so that it can be trimmed before, between and
  after the two reads of its connector.
- In `OffsetHandover` `MaxSigned = 3` puts i64 and u64 above every log end. One
  partition has two records, so that a checkpoint, a target between and the end
  differ; one connector at a time has malformed rows; one topic grows, into a
  partition with a record; one interruption lets each place be entered again. The
  other table's pipeline shows that a recovery leaves it out. `View` drops what
  a recovery does not read any more once it was requested: the sink and the Jobs
  rest then, and the one backup it uses stays in the view.

Deadlock is checked in every run: the models have explicit idle steps, enabled
only where the program is over.

### Fairness

`IngestionRestored` assumes, and only assumes: a connector is eventually moved to
the state last requested of it; steps that a request timeout of the Connect or
Kafka client or `pause_timeout` bounds are taken (`TimedStep`); and the Job is
eventually terminated if it does not end (`activeDeadlineSeconds` in
`chart/templates/backup.yaml`). ClickHouse queries get no fairness, because
`clickhouse.rs` sets a connect timeout only: a query may hang for ever, in the
barrier and in the cleanup. That the grace period covers one request per
connector is what `chart/templates/validate.yaml:31-33` enforces. Late pause
requests are left out of this run: one that is executed after the final resume
leaves its connector paused, which the documentation's best-effort resume allows.

`CommittedIsFound` assumes that the transaction coordinator finishes every
transaction whose producer is gone or was told to end it (`Resolve`, Kafka's
transaction timeout) and that a Job that sent its commit is answered or times out
(`CommitTransaction`, the client's timeout). No Job has to go on.

`RecoveryEnds` assumes that reconciliation and the cache go on, that a restore that
is running is executed, and that a sink ingests, commits, stops, or reports that it
has no offset to go on from (`TaskFails`). The faults are bounded by `MaxFailures`: it is about what is left when
they are over. Nothing else has to happen; in particular a failed task is not
restarted, because nothing in the program does.

## 4. Proofs

Every theorem is about the specification of a module, for every value of its
constants that satisfies the module's named assumptions, and any set of faults but
those the table excludes. `Extrema` has the lemmas about `Min` and `Max` two of the
modules share.

| Module | Theorem | States |
| --- | --- | --- |
| `SnapshotBarrierProofs` | `TypeCorrect` | `Spec => []TypeOK` |
| | `ManifestExact` | `Spec => []ManifestIsExact` |
| | `PauseConfined` | `Spec => []PauseConfinedToOneTable` |
| | `SuccessRestores` | `Spec => []SuccessLeavesRunning` |
| | `UploadIngests` | `Spec => []IngestingWhileUploading` |
| | `OffsetsReplayed` | `Spec => []RecordedOffsetsReplayable` |
| | `PauseRespected` | `Spec => OperatorPauseRespected`, unless somebody else resumes connectors |
| `BackupCatalogProofs` | `CatalogTyped` | `Spec => []TypeOK`, with the chain limit |
| | `OneSession` | `Spec => []SessionExclusive` |
| | `ParentsStayCommitted` | `Spec => []ParentsCommitted` |
| | `FoundIsKept` | `Spec => FoundStaysFound` |
| `CatalogChainProofs` | `ChainStaysReadable` | `Spec => []ChainReadable` |
| | `SerialCatalogIsImplemented` | `Spec => SerializesPublication`, the refinement of `SerialCatalog`, unless Jobs overlap or transactions outlive them |
| `OffsetHandoverProofs` | `CheckpointIsAccepted` | what `checkpoint()` returns, `validate_manifest` accepts, for all rows and offsets |
| | `OffsetsExact` | `Spec => []PublishedOffsetsExact` |
| | `CapturedStaysValid` | `Spec => []CheckpointsStayValid` |
| | `PublishedStaysValid` | `Spec => []ChainStaysValid` |
| `HandoverRecoveryProofs` | `HandoverTyped` | `Spec => []TypeOK` |
| | `FollowBeginsAtEnd` | `Spec => []FollowStartsAtEnd` |
| | `CompletesAsRequested` | `Spec => []CompleteIsAsRequested` |
| | `ConflictsPass` | `Spec => []ConflictIsTransient` |
| `TableRecoveryProofs` | `RecoveryTyped` | `Spec => []TypeOK` |
| | `NeverInsertedTwice` | `Spec => []InsertedOnce` |
| | `FollowContinues` | `Spec => []FollowContinuesDestination` |
| | `CompleteStaysAtTarget` | `Spec => []CompleteAtTarget` |
| | `IngestionVerified` | `Spec => []ReplayVerified` |
| `BoundedCopyProofs` | `CopyTyped` | `Spec => []TypeOK` |
| | `CopyIsExact` | `Spec => []CopiedExactly`, unless progress expires |
| | `SuccessComplete` | `Spec => SuccessIsComplete`, unless progress expires or the replay topic is deleted |
| | `SuccessCompleteAlone` | `Spec => SuccessIsComplete`, unless two controllers run or the replay topic is deleted |

**Barrier.** `ManifestIsExact` is not inductive: what makes the archive right was
read long before the commit. `IInv` adds what each stage may rely on. `SinkInv` ties
a KeeperMap row to the table (all below the row's range is there, nothing above it;
an idle finished row means exactly its range). `CaptureInv` says a captured row
that is still the live one was finished, so the table has held exactly its prefix
since; the row cannot have left and come back, as offsets only grow.
`LoopInv` and `PlaceInv` carry that through the loops for the connectors already
visited: after the sync the replica holds at least the prefix, after the attach
the clone holds it, and after the recheck nothing more. `ArchiveInv` carries it to
the archive. The proof has a lemma per action or per kind of action and uses that
other groups' clones are left alone.

The pause theorems rest on `PauseInv`: which connectors may be paused, or have
a late pause outstanding, given the group, the place in it and what is left to
visit; and that a failure is never forgotten on the way to the outcome.
`OffsetsReplayed` rests on `ReplayInv`: a connector that a check has passed is
replayable unless its partition was trimmed after it. `PauseRespected` is about one
connector that was paused at the start: `HeldBack` says that the Job has not got past
its first loop, where that connector is still to be visited, or is over.

**Catalog.** `OneSession` rests on `LeaseInv`: a Job that found something in the
catalog holds on only as the owner. `ParentsStayCommitted` rests on `ChainInv`: an
entry, and the plan of a Job on the way to one, `Rests` on a committed entry before
it, of the same chain and topology, one position and at least a generation further, and
with a checkpoint no later. It stays so because no step takes back an entry or what
became of its transaction (`Grows`). `FoundIsKept` also needs that a Job has one
transaction and one entry with an ID of its own (`TxnInv`), so that what a reader
finds for an ID it finds for ever, and that the last stable offset never moves
back (`StableEndGrows`).

`ChainStaysReadable` is about the walk `ReadBack`, a recursive function whose number of
steps is the state's position. What it does cannot be proved by the library's
induction, so `CatalogChainProofs` argues by the least step that goes wrong
(`LeastNat`): each step of the walk finds the parent of the entry before, which
`ParentsStayCommitted` puts below it and which is the only entry with its ID, so
the walk goes down one position at a time and ends at the full backup that gave the chain
its name. It holds for every prefix of the log, whatever forked behind it.

`SerialCatalogIsImplemented` maps the committed entries to `published`, those of the last
entry's chain to `chain`, and the last entry's generation to `generation`. Every step is a stutter
but the commit, which is `Publish`. For that `SerialInv` has three parts: at most one Job
is between its start and its end, and a transaction is open only while its Job
publishes (`AloneInv`); the cleaner leaves the last chain state, and no committed entry of
its chain has a larger position (`TipInv`); and nothing comes between what the working Job read
and what it publishes, so that its plan, and then its entry, is the one that comes next
after the tip, or starts a new chain exactly at the limit (`PlanInv`). Both hypotheses are
needed: TLC finds forks with either fault (`catalog_stale` shows the first).

**Handover.** `OffsetsExact` rests on `RowInv`: a row that a put can have written
says what the table holds, and a partition without a row is empty or Connect knows
where it ends. With `CheckpointAccepts`, which compares both, an offset is then
exact or after the end of the log, as a malformed row makes it, and
`require_offsets_replayable` throws that out before anything is published
(`ExactInLog`). `PublishedStaysValid` needs more than each manifest's validity: offsets
are compared with a parent's only when a chain is read back. `JobInv` says why
they never fall behind: they are exact, and archives grow.

What `OffsetHandover` says of a recovery rests on `RecoveryInv`. Its centre is
`DestInv`: at every moment the destination holds of a partition the records below
`Standing`: nothing before the restore, the archive until the follow connector is
created, the goal while it has no offsets, and from then on what is below that
connector's position. The archive's
end is the plan's start by `OffsetsExact`, so the replay joins on (`FirstRecordsJoin`), and
`RowsOfVector` shows that the rows written for a vector, captured or made up, mean the vector
to the sink. `FollowOK` is about a connector between any two requests: it does not run,
and has no rows, before it has its offsets and what it begins with; from then on it only
moves forward, which `ProgressAccepted` allows. `PlaceInv` is what the attempt made sure of by
its earlier requests to the connector it is at: that it is stopped, that it has its
offsets, and that rows it did not have when they were read first are those of a live one
with none to begin with. `ConflictsPass` is the conjunction of both at the point where the second
read meets other rows. `ReachedInv` says that the connectors the loop is past are `Ready`, and
with `PlanFits` gives `CompletesAsRequested`.

**Recovery.** What the three invariants say of running connectors and final phases has
to be known of every connector at every request, so `ConnInv` says it of the
connectors that stand still too: a replay connector commits no more than it inserted
(`ReplayOK`); a follow connector exists only once there is nothing left to replay,
and has its offset before its row (`FollowOK`); the destination ends where the
connector that writes it says (`DestOK`, `End`). `RestoreInv` puts the archive before
the connectors, whichever phase is looked at, the cached one included. `PlaceInv` is
what an attempt has made sure of when it makes a request: it is proved for a
controller that remembers nothing between attempts, so nothing it says of a
request outlives `Errs`.
It survives the steps of others because connectors, offsets and rows are never taken
back (`Grows`). `PhaseInv` says that a terminal phase is left before anything else is
done, and reached with all offsets in place.

`IngestionVerified` rests on `TopicInv`. `early` is about a trim at one moment, the check about
the log at a later one: a trimmed topic never gets its first record back, so that a
section an attempt is past (`Past`) was not trimmed early, and its connector is at rest
(`AtRest`). For that the invariant says how a replay connector comes to rest and stays
there: it is stopped, by this or an earlier attempt, at its end only, and resumed
only short of it (`ReplayPlace`).

**Copy.** `CopiedExactly` says nothing of a batch that is still open, nor of a copier
that was overtaken. `PlaceAt` adds both: the copier that has the current epoch is where
the progress is, ahead of it by exactly the records of its batch (`CopyRecord` skips
none, as `ReceivedIs` shows of what `recv` may return); a fenced one knows
only that the progress has passed it. `EpochInv` says that there is one of the
first kind, and that no other has records to commit. The lemmas about `Exact` are the
algebra of the replay log: a commit appends a batch after everything before it, an
abort appends nothing visible. `SuccessComplete` adds that a topic which is complete
is not written any more (`CompleteRests`), so that the reported ends stay right until
the retention check.

Progress that expires breaks `CopiedExactly` by itself: the records
are there and the group says they are not. `SuccessCompleteAlone` therefore follows the
log instead of the progress (`Upto`): a copier that is alone knows that a topic it has just
created is empty, or has seen that nothing is visible (`RequireEmpty`). The second may
be so because retention emptied the topic, and then the copy starts over behind
records that are gone; `WorkInv` claims nothing of such a partition, and `VerifyRetained`
does not let it pass. That only one controller runs is needed here: one that
creates the topic and sleeps while another fills it, and the progress then
expires, would not look again. A deleted replay topic is the violation
`copy_recreated`.

**Only model-checked**: the liveness properties `IngestionRestored`, `RecoveryEnds` and
`CommittedIsFound`, since neither fairness nor ENABLED is within the prover's reach. Every other
property of a passing run is a theorem. Outside all of them: a copy with expired
progress and two controllers at the same time, which no run has either.

## 5. What is left out

- The archive of an incremental backup is taken as the rows one restores from it;
  that a chain's ancestors exist is `ParentsCommitted`.
- A `CREATE` of a clone executed after the `DROP` of the cleanup; truncation and
  partition changes of input topics between the requests of a barrier; KeeperMap
  edits by hand while a backup runs: the documentation excludes them. Malformed and
  lost rows as such are in `OffsetHandover`.
- Known and left as they are: a clone whose `ATTACH` failed after its `CREATE`
  may stay behind (`clickhouse.rs:335`); a Job that is killed outright leaves its
  connectors paused (`backup.rs:79`); a pause executed after the final resume
  leaves its connector paused (`snapshot.rs:169`).
- A topic that grows between the backup and a recovery. `docs/table-recovery.md:98-100`
  says that changed partition counts are rejected; `replay.rs:55` asks for the
  watermarks of the manifest's partitions and of no other, so that the recovery is
  accepted and the records of the new partition are neither replayed nor followed. The
  growth is in `OffsetHandover` and in its run, with the partitions of the manifest as
  what a recovery is about; no property is about the new one.
- Two recoveries into one destination at a time; edits of a recovery's spec, which
  the resource's schema forbids.
- Producers run ahead: every partition has its `LogEnd` records from the start,
  and the range a copy is asked for lies below the source's stable end. Deleting a
  replay topic while a transaction is open is not modelled.
- Generation overflow, JSON, SQL text, the spelling of keys and identifiers, and
  credentials.
- In `TableRecovery` the manifest and plan are valid, the ranges retained and a
  connector has one partition; a sink's put is one step, what it does halfway is in
  `SnapshotBarrier`. `OffsetHandover` has the plans and partitions, with one step for
  the requests before a follow connector exists and none for a request that fails.
- Configuration, preflight, chart and build files are sequential or declarative and
  have no model of their own.

## 6. Plan

Done: `SnapshotBarrier`, `BackupCatalog` with `SerialCatalog`, `BoundedCopy`,
`TableRecovery`, `Manifest`, `RecoveryPlan` and `OffsetHandover`, their runs, and the
theorems of section 4.

Next: abstract specifications of the other parts (a barrier as one atomic snapshot,
a copy as one append, a recovery as one insertion of a range) with the detailed
modules shown to implement them, as `SerialCatalog` is.
