--------------------------- MODULE OffsetHandover ---------------------------
(***************************************************************************)
(* The way of an offset through the whole system: from the KeeperMap rows  *)
(* and Connect offsets of the live sink (checkpoint), into a manifest      *)
(* (validate_manifest, validate_chain), through a recovery's plan          *)
(* (RecoveryPlan::new, verify_ranges) to the KeeperMap rows and Connect    *)
(* offsets of a follow connector (ensure_follow_connector), while rows are *)
(* left unfinished or malformed, logs are trimmed and topics grow.         *)
(*                                                                         *)
(* A Job captures all connectors in one step, a recovery restores in one   *)
(* and copies, replays and creates a follow connector in one: what happens *)
(* between their requests is in SnapshotBarrier, BoundedCopy and           *)
(* TableRecovery, which have one key per connector and valid plans only.   *)
(* From the creation on ensure_follow_connector is here request by         *)
(* request, since a live connector may put records between any two.        *)
(***************************************************************************)
EXTENDS RecoveryPlan, SequencesExt

CONSTANTS
    Pipelines,       \* the configured pipelines, in the order they are captured in:
                     \* records of connector, table, topic, partitions
    RecoveredTable,  \* the table a recovery is asked for
    LogEnd,          \* bound: a partition has the records 0 .. LogEnd[key] - 1
    Modes,           \* whether a recovery is asked for, to a target ("PointInTime"),
                     \* live ("Follow")
    Requests,        \* the target vectors a user asks for
    OddRows,         \* rows that are no put's, see OddRow
    MaxBackups,      \* bound: backups in the catalog
    MaxRetries,      \* bound: how often a recovery is interrupted
    Faults           \* which faults happen, see FaultKinds

\* put: a put fails; rows: a KeeperMap row is malformed or lost; retention: Kafka removes records;
\* growth: a topic gets another partition.
FaultKinds == {"put", "rows", "retention", "growth"}

Indexes == DOMAIN Pipelines

\* The partitions of a topic, and the one it may grow by.
Grown(pipeline) == [topic |-> pipeline.topic, partitions |-> pipeline.partitions + 1]
Keys == UNION {KeysOf(Grown(Pipelines[n])) : n \in Indexes}

\* Pipelines have topics and connectors of their own (chart/templates/validate.yaml).
ASSUME PipelineAssumption ==
    /\ Len(Pipelines) \in Nat \ {0} /\ Indexes = 1 .. Len(Pipelines)
    /\ \A n \in Indexes : Pipelines[n].partitions \in Nat \ {0}
    /\ \A n, m \in Indexes :
          Pipelines[n].topic = Pipelines[m].topic \/ Pipelines[n].connector = Pipelines[m].connector
              => n = m

ASSUME BoundAssumption ==
    /\ LogEnd \in [Keys -> 0 .. MaxSigned]
    /\ MaxBackups \in Nat /\ MaxRetries \in Nat
    /\ Modes \subseteq {"PointInTime", "Follow"} /\ Faults \subseteq FaultKinds

\* A row a put can have written.
Sane(row) == row.key \in Keys /\ row.min <= row.max /\ row.max < LogEnd[row.key]

\* The offsets a user asks for are u64.
ASSUME RequestAssumption ==
    \A targets \in Requests : \A i \in DOMAIN targets : targets[i].offset \in Unsigned

ASSUME OddRowAssumption ==
    \A row \in OddRows : row.min \in Unsigned /\ row.max \in Unsigned /\ ~Sane(row)

VARIABLES
    held,      \* how many records of a partition the source table holds
    keeper,    \* the KeeperMap rows of a pipeline
    observed,  \* the offsets Connect reports for it
    low,       \* the first offset Kafka retains of a partition
    count,     \* the partitions a pipeline's topic has
    job,       \* how far the current Job is
    captured,  \* its checkpoints
    archive,   \* what it archived: held, as it was
    backups,   \* the catalog: [connectors, archive]
    place,     \* how far the recovery is
    request,   \* what it was asked for: [backup, mode, targets]
    index,     \* the connector it is at
    existing,  \* the rows it found in that connector's KeeperMap table
    retries,   \* how often it was interrupted
    restored,  \* its phase is past Restoring
    dest,      \* the records of a partition in the destination, in order of arrival
    follow     \* the follow connector of a pipeline

sinkVars == <<held, keeper, observed>>
kafkaVars == <<low, count>>
jobVars == <<job, captured, archive, backups>>
planVars == <<place, request, index, existing, retries, restored>>
recoveryVars == <<planVars, dest, follow>>
vars == <<sinkVars, kafkaVars, jobVars, recoveryVars>>

\* Where an attempt can be in ensure_follow_connector, see Create to Resume.
Handing == {"handover", "stop", "patch", "hydrate", "progress", "resume"}

NoRequest == [backup |-> 0, mode |-> "none", targets |-> <<>>]
Absent == [state |-> "absent", rows |-> {}, offsets |-> {}]

\* The records 0 .. n - 1, each once and in order.
FirstRecords(n) == [i \in 1 .. n |-> i - 1]

\* Every variable has its type; checkpoints and rows are as their readers left them.
TypeOK ==
    /\ held \in [Keys -> Nat] /\ \A k \in Keys : held[k] <= LogEnd[k]
    /\ \A n \in Indexes : UniqueKeys(keeper[n]) /\ UniqueKeys(observed[n])
    /\ low \in [Keys -> Nat] /\ \A k \in Keys : low[k] <= LogEnd[k]
    /\ \A n \in Indexes : count[n] - Pipelines[n].partitions \in {0, 1}
    /\ job \in {"idle", "captured", "checked"}
    /\ Len(captured) \in {0, Len(Pipelines)}
    /\ Len(backups) <= MaxBackups
    /\ place \in Handing \cup {"none", "plan", "rejected", "conflict", "done", "cutover"}
    /\ request.backup \in 0 .. Len(backups)
    /\ index \in Indexes /\ UniqueKeys(existing)
    /\ retries \in 0 .. MaxRetries /\ restored \in BOOLEAN
    /\ DOMAIN dest = Keys /\ \A k \in Keys : Len(dest[k]) <= LogEnd[k]
    /\ \A n \in Indexes : follow[n].state \in {"absent", "STOPPED", "RUNNING"}

Nothing == [k \in Keys |-> 0]

Init ==
    /\ held = Nothing
    /\ keeper = [n \in Indexes |-> {}]
    /\ observed = [n \in Indexes |-> {}]
    /\ low = [k \in Keys |-> 0]
    /\ count = [n \in Indexes |-> Pipelines[n].partitions]
    /\ job = "idle" /\ captured = <<>> /\ archive = Nothing
    /\ backups = <<>>
    /\ place = "none" /\ request = NoRequest /\ index = 1 /\ existing = {}
    /\ retries = 0 /\ restored = FALSE
    /\ dest = [k \in Keys |-> <<>>]
    /\ follow = [n \in Indexes |-> Absent]

-----------------------------------------------------------------------------
(* The sink, Connect and Kafka, external.                                    *)

\* Entries of which each has a key of its own.
With(entries, entry) == {e \in entries : e.key # entry.key} \cup {entry}

Has(entries, key) == \E e \in entries : e.key = key
At(entries, key) == CHOOSE e \in entries : e.key = key

\* The next offset to insert: the KeeperMap row's, else the one Connect committed.
Position(rows, offsets, key) ==
    IF Has(rows, key) THEN ExactOffset(rows, key)
    ELSE IF Has(offsets, key) THEN At(offsets, key).offset ELSE 0

KeysNow(n) == KeysOf([topic |-> Pipelines[n].topic, partitions |-> count[n]])

\* A put of the records up to last. A failed one leaves its row unfinished, and
\* its records in the table or not.
Put(n, key, last) ==
    /\ Has(keeper[n], key) => Sane(At(keeper[n], key)) /\ At(keeper[n], key).state = "AFTER_PROCESSING"
    /\ last >= Position(keeper[n], observed[n], key) /\ last < LogEnd[key]
    /\ low[key] <= Position(keeper[n], observed[n], key)
    /\ \E state \in {"AFTER_PROCESSING"}
                     \cup (IF "put" \in Faults THEN {"BEFORE_PROCESSING"} ELSE {}) :
          /\ keeper' = [keeper EXCEPT ![n] =
                With(@, [key |-> key, min |-> Position(keeper[n], observed[n], key),
                         max |-> last, state |-> state])]
          /\ \/ held' = [held EXCEPT ![key] = last + 1]
             \/ state = "BEFORE_PROCESSING" /\ UNCHANGED held
    /\ UNCHANGED <<observed, kafkaVars, jobVars, recoveryVars>>

\* A put that failed is repeated.
PutAgain(n, row) ==
    /\ Sane(row) /\ row.state = "BEFORE_PROCESSING"
    /\ keeper' = [keeper EXCEPT ![n] = With(@, [row EXCEPT !.state = "AFTER_PROCESSING"])]
    /\ held' = [held EXCEPT ![row.key] = row.max + 1]
    /\ UNCHANGED <<observed, kafkaVars, jobVars, recoveryVars>>

\* Connect commits what was put.
CommitOffset(n, row) ==
    /\ Sane(row) /\ row.state = "AFTER_PROCESSING"
    /\ observed' = [observed EXCEPT ![n] = With(@, [key |-> row.key, offset |-> row.max + 1])]
    /\ UNCHANGED <<held, keeper, kafkaVars, jobVars, recoveryVars>>

\* A row no put can have written (failure-modes.md: "malformed ... or outside the
\* configured topic partitions") ... Bound: of one connector at a time.
OddRow(n, row) ==
    /\ "rows" \in Faults
    /\ \A m \in Indexes \ {n} : \A other \in keeper[m] : Sane(other)
    /\ keeper' = [keeper EXCEPT ![n] = With(@, row)]
    /\ UNCHANGED <<held, observed, kafkaVars, jobVars, recoveryVars>>

\* ... and one that is lost after Connect committed its end.
LoseRow(n, row) ==
    /\ "rows" \in Faults
    /\ Sane(row) /\ row.state = "AFTER_PROCESSING"
    /\ [key |-> row.key, offset |-> row.max + 1] \in observed[n]
    /\ keeper' = [keeper EXCEPT ![n] = @ \ {row}]
    /\ UNCHANGED <<held, observed, kafkaVars, jobVars, recoveryVars>>

Trim(key) ==
    /\ "retention" \in Faults
    /\ low[key] < LogEnd[key]
    /\ low' = [low EXCEPT ![key] = @ + 1]
    /\ UNCHANGED <<sinkVars, count, jobVars, recoveryVars>>

\* Bound: one topic grows.
Grow(n) ==
    /\ "growth" \in Faults
    /\ \A m \in Indexes : count[m] = Pipelines[m].partitions
    /\ count' = [count EXCEPT ![n] = @ + 1]
    /\ UNCHANGED <<sinkVars, low, jobVars, recoveryVars>>

\* Bound: a recovery reads nothing of the source's sink, which is left alone then.
Sink ==
    /\ place = "none"
    /\ \E n \in Indexes :
          \/ \E key \in KeysNow(n), last \in 0 .. MaxSigned : Put(n, key, last)
          \/ \E row \in keeper[n] : PutAgain(n, row) \/ CommitOffset(n, row) \/ LoseRow(n, row)
          \/ \E row \in OddRows : OddRow(n, row)

Source ==
    \/ Sink
    \/ \E n \in Indexes : Grow(n)
    \/ \E key \in Keys : Trim(key)

-----------------------------------------------------------------------------
(* The Job.                                                                  *)

\* require_offsets_replayable, one checkpoint.
OffsetsReplayable(c) ==
    /\ \A n \in Indexes : Pipelines[n].topic = c.topic => count[n] = c.partitions
    /\ \A i \in DOMAIN c.offsets :
          LET o == c.offsets[i]
          IN  o.offset <= MaxSigned /\ low[o.key] <= o.offset /\ o.offset <= LogEnd[o.key]

AllReplayable == \A n \in DOMAIN captured : OffsetsReplayable(captured[n])

\* CAPTURE: a Job whose predecessors form a valid chain makes a checkpoint of
\* every pipeline and clones the table, while ingestion is paused.
Capture ==
    /\ job = "idle" /\ place = "none" /\ Len(backups) < MaxBackups
    /\ ChainAccepted([b \in DOMAIN backups |-> backups[b].connectors], Pipelines)
    /\ \A n \in Indexes : CheckpointAccepts(Pipelines[n], observed[n], keeper[n])
    /\ job' = "captured"
    /\ captured' = [n \in Indexes |-> Checkpoint(Pipelines[n], observed[n], keeper[n])]
    /\ archive' = held
    /\ UNCHANGED <<sinkVars, kafkaVars, backups, recoveryVars>>

JobEnds == job' = "idle" /\ captured' = <<>> /\ archive' = Nothing

\* It checks them before the upload ...
Check ==
    /\ job = "captured"
    /\ \/ AllReplayable /\ job' = "checked" /\ UNCHANGED <<captured, archive>>
       \/ ~AllReplayable /\ JobEnds
    /\ UNCHANGED <<sinkVars, kafkaVars, backups, recoveryVars>>

\* ... and, with the manifest, after it. Nothing is published otherwise.
Publish ==
    /\ job = "checked"
    /\ JobEnds
    /\ backups' = IF ManifestAccepted(captured) /\ AllReplayable
                  THEN Append(backups, [connectors |-> captured, archive |-> archive])
                  ELSE backups
    /\ UNCHANGED <<sinkVars, kafkaVars, recoveryVars>>

-----------------------------------------------------------------------------
(* The recovery.                                                             *)

Bounded == request.mode = "PointInTime"

Request ==
    /\ place = "none" /\ job = "idle"
    /\ \E b \in DOMAIN backups :
          \/ /\ "PointInTime" \in Modes
             /\ \E targets \in Requests :
                   request' = [backup |-> b, mode |-> "PointInTime", targets |-> targets]
          \/ /\ "Follow" \in Modes
             /\ request' = [backup |-> b, mode |-> "Follow", targets |-> <<>>]
    /\ place' = "plan"
    /\ UNCHANGED <<sinkVars, kafkaVars, jobVars, index, existing, retries, restored, dest, follow>>

Manifest == backups[request.backup].connectors

\* The checkpoints of the requested table, by their places in the manifest. What is
\* made of them is sorted by key.
PlannedConnectors ==
    Restrict(Manifest, {n \in DOMAIN Manifest : Manifest[n].table = RecoveredTable})
Starts == StartOffsets(PlannedConnectors)
Goals == IF Bounded THEN Vector(request.targets) ELSE Starts
Planned(n) == Pipelines[n].table = RecoveredTable

\* validate_manifest, RecoveryPlan::new and verify_ranges or verify_starts.
PlanAccepted ==
    /\ ManifestAccepted(Manifest)
    /\ DOMAIN PlannedConnectors # {} /\ Flattens(PlannedConnectors)
    /\ Bounded => TargetsAccepted(Starts, request.targets)
    /\ \A key \in DOMAIN Goals : \* its domain is that of Starts, see TargetsAccepted
          /\ key \in DOMAIN Starts
          /\ RangeAccepted(Starts[key], Goals[key], low[key], LogEnd[key])

\* The records of the archive, if they are the recovered table's.
Restored(key) ==
    IF \E n \in Indexes : Planned(n) /\ key \in KeysOf(Pipelines[n])
    THEN FirstRecords(backups[request.backup].archive[key]) ELSE <<>>

\* PLAN, at every attempt anew; the archive is restored at the first that gets there.
Plan ==
    /\ place = "plan"
    /\ \/ /\ PlanAccepted
          /\ place' = "handover" /\ index' = 1
          /\ restored' = TRUE
          /\ dest' = IF restored THEN dest ELSE [k \in Keys |-> Restored(k)]
       \/ /\ ~PlanAccepted
          /\ place' = "rejected"
          /\ UNCHANGED <<index, restored, dest>>
    /\ UNCHANGED <<sinkVars, kafkaVars, jobVars, request, existing, retries, follow>>

\* The vector a connector is handed over at, and the rows that stand for it.
GoalOf(n) == TopicOffsets(Goals, Pipelines[n].topic)
RowsOf(n) == FollowRows(Manifest[n], GoalOf(n))
Offsets(vector) == {[key |-> k, offset |-> vector[k]] : k \in DOMAIN vector}

\* The records a replay adds to a partition.
Replayed(n, key) ==
    IF key \in DOMAIN GoalOf(n)
    THEN [i \in 1 .. GoalOf(n)[key] - Starts[key] |-> Starts[key] + i - 1] ELSE <<>>

\* The attempt goes on with the next connector.
Advances ==
    /\ existing' = {}
    /\ IF index < Len(Pipelines) THEN place' = "handover" /\ index' = index + 1
       ELSE place' = "done" /\ UNCHANGED index

\* ... or with the same one.
Continues(next) == place' = next /\ UNCHANGED <<index, existing>>

handedVars == <<sinkVars, kafkaVars, jobVars, request, retries, restored>>

\* Replays the connector's range, reads its KeeperMap rows and creates it. One step:
\* nobody puts for a connector that is not there, and where it is there, the range
\* has been replayed, once (TableRecovery), and only the read is left.
Create ==
    /\ place = "handover"
    /\ \/ ~Planned(index) /\ Advances /\ UNCHANGED <<follow, dest>>
       \/ /\ Planned(index) /\ follow[index] = Absent
          /\ follow' = [follow EXCEPT ![index].state = "STOPPED"]
          /\ dest' = [k \in Keys |-> dest[k] \o Replayed(index, k)]
          /\ existing' = {} /\ place' = "stop" /\ UNCHANGED index
       \/ /\ Planned(index) /\ follow[index] # Absent
          /\ existing' = follow[index].rows
          /\ place' = IF existing' = {} THEN "stop"
                      ELSE IF Bounded THEN "hydrate" ELSE "progress"
          /\ UNCHANGED <<index, follow, dest>>
    /\ UNCHANGED handedVars

\* Without rows it is stopped, if it was there it may have been running until now ...
Stop ==
    /\ place = "stop"
    /\ follow' = [follow EXCEPT ![index].state = "STOPPED"]
    /\ Continues("patch")
    /\ UNCHANGED <<handedVars, dest>>

\* ... and given its offsets.
PatchOffsets ==
    /\ place = "patch"
    /\ follow' = [follow EXCEPT ![index].offsets = Offsets(GoalOf(index))]
    /\ Continues("hydrate")
    /\ UNCHANGED <<handedVars, dest>>

\* ensure_keeper_rows with a read of its own, which bails if it finds another row than
\* those it would write. A bounded connector that had rows must have its offsets, too.
Hydrate ==
    /\ place = "hydrate"
    /\ LET k == follow[index]
           accepted == k.rows \subseteq RowsOf(index)
                       /\ (existing # {} => k.offsets = Offsets(GoalOf(index)))
       IN  \/ /\ accepted
              /\ follow' = [follow EXCEPT ![index].rows = RowsOf(index)]
              /\ IF Bounded THEN Advances ELSE Continues("resume")
           \/ /\ ~accepted
              /\ Continues("conflict") /\ UNCHANGED follow
    /\ UNCHANGED <<handedVars, dest>>

\* A live connector that had rows may have put more since, which is not looked at.
Progress ==
    /\ place = "progress"
    /\ Continues(IF ProgressAccepted(existing, RowsOf(index), GoalOf(index))
                 THEN "resume" ELSE "conflict")
    /\ UNCHANGED <<handedVars, follow, dest>>

\* A live connector is resumed.
Resume ==
    /\ place = "resume"
    /\ follow' = [follow EXCEPT ![index].state = "RUNNING"]
    /\ Advances
    /\ UNCHANGED <<handedVars, dest>>

Handover == Create \/ Stop \/ PatchOffsets \/ Hydrate \/ Progress \/ Resume

\* An attempt fails anywhere, or one starts from a cache that does not show the end;
\* one that found a conflict is followed by another, too.
Interrupt ==
    /\ \/ place \in Handing \cup {"done"} /\ retries < MaxRetries /\ retries' = retries + 1
       \/ place = "conflict" /\ UNCHANGED retries
    /\ place' = "plan" /\ existing' = {}
    /\ UNCHANGED <<sinkVars, kafkaVars, jobVars, request, index, restored, dest, follow>>

\* The user resumes the follow connectors of a complete recovery.
Cutover ==
    /\ place = "done" /\ Bounded
    /\ place' = "cutover"
    /\ follow' = [n \in Indexes |-> IF Planned(n) THEN [follow[n] EXCEPT !.state = "RUNNING"]
                                    ELSE follow[n]]
    /\ UNCHANGED <<sinkVars, kafkaVars, jobVars, request, index, existing, retries, restored, dest>>

\* A follow connector puts records as the source's does; external. With no reset
\* policy it needs an offset Connect has committed, and the log to hold it.
FollowPut(n, key, last) ==
    LET k == follow[n]
        next == Position(k.rows, k.offsets, key)
    IN  /\ k.state = "RUNNING" /\ Has(k.offsets, key)
        /\ low[key] <= next /\ next <= last /\ last < LogEnd[key]
        /\ follow' = [follow EXCEPT
              ![n].rows = With(@, [key |-> key, min |-> next, max |-> last,
                                   state |-> "AFTER_PROCESSING"]),
              ![n].offsets = With(@, [key |-> key, offset |-> last + 1])]
        /\ dest' = [dest EXCEPT ![key] = @ \o [i \in 1 .. (last + 1) - next |-> next + i - 1]]
        /\ UNCHANGED <<sinkVars, kafkaVars, jobVars, planVars>>

-----------------------------------------------------------------------------
\* No Job and no attempt of a recovery is under way.
Idle == job = "idle" /\ place \in {"none", "rejected", "done", "cutover"} /\ UNCHANGED vars

Next ==
    \/ Source
    \/ Capture \/ Check \/ Publish
    \/ Request \/ Plan \/ Handover \/ Interrupt \/ Cutover
    \/ \E n \in Indexes : \E key \in KeysNow(n), last \in 0 .. MaxSigned : FollowPut(n, key, last)
    \/ Idle

Spec == Init /\ [][Next]_vars
-----------------------------------------------------------------------------
(* Properties.                                                               *)

\* Whatever is wrong with a KeeperMap row or a Connect offset, a published offset
\* is the number of records in the archive, and in particular never one that
\* wrapped around at the end of u64 (guarantees.md: "binds an immutable ClickHouse
\* archive to the exact KeeperMap checkpoint").
PublishedOffsetsExact ==
    \A b \in DOMAIN backups : \A n \in DOMAIN backups[b].connectors :
        LET offsets == backups[b].connectors[n].offsets
        IN  \A i \in DOMAIN offsets : offsets[i].offset = backups[b].archive[offsets[i].key]

\* What checkpoint() accepts, validate_manifest accepts after the upload, and so
\* does every later Job and recovery: the two are written independently, and a
\* difference would waste a backup or lock the catalog.
CheckpointsStayValid == captured # <<>> => ManifestAccepted(captured)

\* What is published never locks the next Job out: validate_chain accepts the
\* catalog although a Job compares its own offsets with nobody's.
ChainStaysValid == ChainAccepted([b \in DOMAIN backups |-> backups[b].connectors], Pipelines)

\* A follow connector that has offsets to begin at begins exactly where the
\* destination ends, in every partition, with no record twice or missing, whatever
\* it put before it was stopped and given its first offsets again: the rows written
\* for a target, the captured rows reused for a checkpoint, and no row for offset
\* zero mean to the sink what the vector says.
FollowStartsAtEnd ==
    \A n \in Indexes : follow[n].offsets # {} =>
        \A key \in KeysOf(Pipelines[n]) :
            dest[key] = FirstRecords(Position(follow[n].rows, follow[n].offsets, key))

\* A complete bounded recovery holds what its user asked for, partition by
\* partition, even if the request left one out, repeated one or asked for more
\* than there is: such requests do not complete.
CompleteIsAsRequested ==
    place = "done" /\ Bounded =>
        \A n \in Indexes : Planned(n) =>
            \A key \in KeysOf(Pipelines[n]) :
                \E i \in DOMAIN request.targets :
                    /\ request.targets[i].key = key
                    /\ dest[key] = FirstRecords(request.targets[i].offset)

\* An attempt takes rows for somebody else's only where its own live connector, which
\* began at offset zero and so had no row, wrote them between its two reads of the
\* KeeperMap, and then the next attempt accepts them: a recovery that is disturbed by
\* its own progress is not stuck with it, and a bounded one never disturbed.
ConflictIsTransient ==
    place = "conflict" =>
        /\ ~Bounded /\ RowsOf(index) = {} /\ existing = {}
        /\ follow[index].rows # {}
        /\ ProgressAccepted(follow[index].rows, RowsOf(index), GoalOf(index))
=============================================================================
