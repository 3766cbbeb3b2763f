-------------------------- MODULE SnapshotBarrier ---------------------------
(***************************************************************************)
(* One backup Job (backup.rs run and create_backup, snapshot.rs) against   *)
(* the live system it snapshots: the Kafka Connect workers it pauses and   *)
(* resumes, the sink that goes on ingesting whenever it is not paused, and *)
(* the ClickHouse table it clones.                                         *)
(*                                                                         *)
(* Every request of the Job is a step of its own, so the workers, the sink *)
(* and other users of the Connect API interleave between any two of them.  *)
(* Data is abstracted to offsets: a table is the set of input offsets it   *)
(* holds, per partition. Left out: who else holds the backup catalog and   *)
(* what it contains (BackupCatalog.tla); the archive of an incremental     *)
(* backup is the rows one restores from it.                                *)
(***************************************************************************)
EXTENDS SinkState, FiniteSets

CONSTANTS
    Connectors,      \* the managed connectors, one per pipeline
    Partitions,      \* the input topic partitions of all of them
    ConnectorOf,     \* the connector that consumes a partition
    NumGroups,       \* the number of physical target tables
    GroupOf,         \* the target table of a connector, in snapshot order
    Replicated,      \* whether a target table has a Replicated engine
    LogEnd,          \* bound: every partition has the records 0 .. LogEnd - 1
    InitialOffsets,  \* bound: how far a partition was ingested at the start
    Faults           \* which faults happen, see FaultKinds

\* connect: a Connect request fails; clickhouse: a ClickHouse query fails;
\* kafka: a Kafka request fails; retention: Kafka removes records; put: a put
\* fails; interference: somebody else resumes a connector; late: a Connect
\* request its client gave up on is still executed; signal: SIGINT or SIGTERM,
\* which the Job's deadline sends too; kill: SIGKILL or node loss.
FaultKinds == {"connect", "clickhouse", "kafka", "retention", "interference",
               "put", "late", "signal", "kill"}

Groups == 1 .. NumGroups

ASSUME LayoutAssumption ==
    /\ ConnectorOf \in [Partitions -> Connectors]
    /\ NumGroups \in Nat \ {0}
    /\ GroupOf \in [Connectors -> Groups]
    /\ \A g \in Groups : \E c \in Connectors : GroupOf[c] = g
    /\ Replicated \in [Groups -> BOOLEAN]
    /\ LogEnd \in Nat
    /\ InitialOffsets \subseteq 0 .. LogEnd
    /\ Faults \subseteq FaultKinds

NoConnector == "no connector"

ASSUME SentinelAssumption == NoConnector \notin Connectors

PartitionsOf(c) == {p \in Partitions : ConnectorOf[p] = c}
ConnectorsIn(g) == {c \in Connectors : GroupOf[c] = g}
TableOf(p) == GroupOf[ConnectorOf[p]]
PartitionsIn(g) == {p \in Partitions : TableOf(p) = g}

VARIABLES
    \* Kafka, the sink and ClickHouse
    logStart,    \* first offset Kafka retains, per partition
    keeper,      \* the KeeperMap row of a partition, or NoRow
    phase,       \* where the sink is in its put of a partition
    table,       \* the input offsets the target table holds, on any replica
    replica,     \* those the replica the Job queries holds
    connOffset,  \* the offset Kafka Connect committed
    \* Kafka Connect
    target,      \* the state last requested of a connector
    status,      \* the state its connector and tasks report
    latePause,   \* connectors with an abandoned pause request still in flight
    \* the Job
    pc,          \* the request the Job makes next
    group,       \* the snapshot group it is at
    todo,        \* connectors the current loop has not visited yet
    cur,         \* the connector between the two requests of one iteration
    observed,    \* Connect offsets as read
    captured,    \* KeeperMap rows as read: connectors[..].keeper.rows
    clone,       \* the temporary table of a group
    cloned,      \* the offsets attached to it
    archived,    \* ClickHouse created the archive
    archive,     \* the offsets in it
    committed,   \* the manifest is in the catalog
    failed,      \* the operation, or a resume, returned an error
    outcome,     \* how the Job ended
    \* auxiliary: partitions trimmed after the last replayability check
    trimmed

sinkVars == <<logStart, keeper, phase, table, replica, connOffset, trimmed>>
connectVars == <<target, status, latePause>>
loopVars == <<pc, group, todo, cur>>
captureVars == <<observed, captured>>
cloneVars == <<clone, cloned>>
backupVars == <<archived, archive, committed>>
resultVars == <<failed, outcome>>
jobVars == <<loopVars, captureVars, cloneVars, backupVars, resultVars>>
vars == <<sinkVars, connectVars, jobVars>>

Unread == [min |-> 0, max |-> -1, state |-> "UNREAD"]

\* What the Job does before it installs its signal handlers ...
Preflight == {"require_running", "acquire", "precleanup"}
\* ... while connectors of the current group may be paused ...
Barrier == {"pause", "wait", "capture", "check_group", "sync", "create",
            "attach", "recheck"}
\* ... with every snapshot taken, and on the way out.
Publishing == {"check_all", "upload", "confirm", "check_manifest", "commit"}
Operation == Barrier \cup {"resume_group"} \cup Publishing
Finalizing == {"final_resume", "cleanup"}

SinkTypeOK ==
    /\ logStart \in [Partitions -> 0 .. LogEnd]
    /\ keeper \in [Partitions -> KeeperRow(LogEnd) \cup {NoRow}]
    /\ phase \in [Partitions -> {"idle", "claimed", "inserted"}]
    /\ table \in [Partitions -> SUBSET Prefix(LogEnd)]
    /\ replica \in [Partitions -> SUBSET Prefix(LogEnd)]
    /\ connOffset \in [Partitions -> 0 .. LogEnd]
    /\ trimmed \subseteq Partitions

ConnectTypeOK ==
    /\ target \in [Connectors -> {"RUNNING", "PAUSED"}]
    /\ status \in [Connectors -> {"RUNNING", "PAUSED"}]
    /\ latePause \subseteq Connectors

LoopTypeOK ==
    /\ pc \in Preflight \cup Operation \cup Finalizing \cup {"done"}
    /\ group \in Groups
    /\ todo \subseteq Connectors
    /\ cur \in Connectors \cup {NoConnector}
    /\ failed \in BOOLEAN
    /\ outcome \in {"none", "ok", "error", "killed"}

DataTypeOK ==
    /\ observed \in [Partitions -> 0 .. LogEnd]
    /\ captured \in [Partitions -> KeeperRow(LogEnd) \cup {NoRow, Unread}]
    /\ clone \in [Groups -> {"absent", "empty", "attached"}]
    /\ cloned \in [Partitions -> SUBSET Prefix(LogEnd)]
    /\ archived \in BOOLEAN
    /\ archive \in [Partitions -> SUBSET Prefix(LogEnd)]
    /\ committed \in BOOLEAN

\* Every variable has its type.
TypeOK == SinkTypeOK /\ ConnectTypeOK /\ LoopTypeOK /\ DataTypeOK

\* A row that says everything below n is ingested.
Finished(n) == IF n = 0 THEN NoRow ELSE Row(0, n - 1, "AFTER_PROCESSING")

\* The Job starts while a partition is ingested up to some offset Connect has
\* committed. Its KeeperMap row may have been lost, and an operator may have
\* paused connectors.
Init ==
    /\ logStart = [p \in Partitions |-> 0]
    /\ connOffset \in [Partitions -> InitialOffsets]
    /\ keeper \in [Partitions -> {Finished(n) : n \in InitialOffsets} \cup {NoRow}]
    /\ \A p \in Partitions : keeper[p] \in {Finished(connOffset[p]), NoRow}
    /\ phase = [p \in Partitions |-> "idle"]
    /\ table = [p \in Partitions |-> Prefix(connOffset[p])]
    /\ replica = table
    /\ trimmed = {}
    /\ target \in [Connectors -> {"RUNNING", "PAUSED"}]
    /\ status = target
    /\ latePause = {}
    /\ pc = "require_running"
    /\ group = 1
    /\ todo = Connectors
    /\ cur = NoConnector
    /\ observed = [p \in Partitions |-> 0]
    /\ captured = [p \in Partitions |-> Unread]
    /\ clone = [g \in Groups |-> "absent"]
    /\ cloned = [p \in Partitions |-> {}]
    /\ archived = FALSE
    /\ archive = [p \in Partitions |-> {}]
    /\ committed = FALSE
    /\ failed = FALSE
    /\ outcome = "none"

-----------------------------------------------------------------------------
(* The exactly-once sink, external: it marks the range it is about to insert *)
(* in KeeperMap, inserts it, marks it inserted, and only then lets Connect   *)
(* commit. A put that failed is retried with the range KeeperMap names, and  *)
(* ClickHouse deduplicates the repeated insert.                              *)

\* The first offset the sink still has to insert. Without a row it has only
\* the offset Connect committed.
Position(p) ==
    IF keeper[p] = NoRow THEN connOffset[p] ELSE NextOffset(keeper[p])

\* PUT BEGINS: the sink claims a new range.
PutBegin(p) ==
    /\ status[ConnectorOf[p]] = "RUNNING"
    /\ phase[p] = "idle"
    /\ keeper[p].state # "BEFORE_PROCESSING"
    /\ logStart[p] <= Position(p)
    /\ \E last \in Position(p) .. LogEnd - 1 :
          keeper' = [keeper EXCEPT ![p] =
                        Row(Position(p), last, "BEFORE_PROCESSING")]
    /\ phase' = [phase EXCEPT ![p] = "claimed"]
    /\ UNCHANGED <<logStart, table, replica, connOffset, trimmed>>

\* PUT IS RETRIED: a range left unfinished is claimed again.
PutRetry(p) ==
    /\ status[ConnectorOf[p]] = "RUNNING"
    /\ phase[p] = "idle"
    /\ keeper[p].state = "BEFORE_PROCESSING"
    /\ phase' = [phase EXCEPT ![p] = "claimed"]
    /\ UNCHANGED <<logStart, keeper, table, replica, connOffset, trimmed>>

\* PUT INSERTS: another replica may take the insert of a replicated table.
PutInsert(p) ==
    /\ phase[p] = "claimed"
    /\ phase' = [phase EXCEPT ![p] = "inserted"]
    /\ table' = [table EXCEPT ![p] = @ \cup keeper[p].min .. keeper[p].max]
    /\ replica' = IF Replicated[TableOf(p)] THEN replica
                  ELSE [replica EXCEPT ![p] = table'[p]]
    /\ UNCHANGED <<logStart, keeper, connOffset, trimmed>>

\* PUT ENDS: the range is finished.
PutEnd(p) ==
    /\ phase[p] = "inserted"
    /\ phase' = [phase EXCEPT ![p] = "idle"]
    /\ keeper' = [keeper EXCEPT ![p].state = "AFTER_PROCESSING"]
    /\ UNCHANGED <<logStart, table, replica, connOffset, trimmed>>

\* PUT THROWS: a retriable failure returns control to the worker, before or
\* after the insert took effect, and leaves the row unfinished.
PutFail(p) ==
    /\ "put" \in Faults
    /\ phase[p] \in {"claimed", "inserted"}
    /\ phase' = [phase EXCEPT ![p] = "idle"]
    /\ UNCHANGED <<logStart, keeper, table, replica, connOffset, trimmed>>

\* CONNECT COMMITS: it may lag the sink by any amount, never lead it.
CommitOffset(p) ==
    /\ phase[p] = "idle"
    /\ keeper[p].state = "AFTER_PROCESSING"
    /\ connOffset[p] < NextOffset(keeper[p])
    /\ connOffset' = [connOffset EXCEPT ![p] = NextOffset(keeper[p])]
    /\ UNCHANGED <<logStart, keeper, phase, table, replica, trimmed>>

\* REPLICATION: the queried replica fetches what another one took.
Replicate(p) ==
    /\ replica[p] # table[p]
    /\ replica' = [replica EXCEPT ![p] = table[p]]
    /\ UNCHANGED <<logStart, keeper, phase, table, connOffset, trimmed>>

\* The last replayability check of the partition is behind the Job.
LastChecked(p) ==
    \/ pc \in {"commit", "final_resume", "cleanup", "done"}
    \/ pc = "check_manifest" /\ ConnectorOf[p] \notin todo

\* RETENTION removes the oldest record.
Retain(p) ==
    /\ "retention" \in Faults
    /\ logStart[p] < LogEnd
    /\ logStart' = [logStart EXCEPT ![p] = @ + 1]
    /\ trimmed' = IF LastChecked(p) THEN trimmed \cup {p} ELSE trimmed
    /\ UNCHANGED <<keeper, phase, table, replica, connOffset>>

Sink ==
    /\ \E p \in Partitions :
          \/ PutBegin(p) \/ PutRetry(p) \/ PutInsert(p) \/ PutEnd(p)
          \/ PutFail(p) \/ CommitOffset(p) \/ Replicate(p) \/ Retain(p)
    /\ UNCHANGED <<connectVars, jobVars>>

-----------------------------------------------------------------------------
(* Kafka Connect workers, external: they follow the requested state.         *)

\* A task reports PAUSED only after its active put returned.
TaskPauses(c) ==
    /\ target[c] = "PAUSED"
    /\ status[c] = "RUNNING"
    /\ \A p \in PartitionsOf(c) : phase[p] = "idle"
    /\ status' = [status EXCEPT ![c] = "PAUSED"]
    /\ UNCHANGED <<target, latePause>>

TaskResumes(c) ==
    /\ target[c] = "RUNNING"
    /\ status[c] = "PAUSED"
    /\ status' = [status EXCEPT ![c] = "RUNNING"]
    /\ UNCHANGED <<target, latePause>>

\* A pause request its client gave up on takes effect after all.
LatePause(c) ==
    /\ c \in latePause
    /\ latePause' = latePause \ {c}
    /\ target' = [target EXCEPT ![c] = "PAUSED"]
    /\ UNCHANGED status

\* Somebody else, an operator or another Job, resumes a connector.
ExternalResume(c) ==
    /\ "interference" \in Faults
    /\ target[c] = "PAUSED"
    /\ target' = [target EXCEPT ![c] = "RUNNING"]
    /\ UNCHANGED <<status, latePause>>

Worker ==
    /\ \E c \in Connectors : \/ TaskPauses(c) \/ TaskResumes(c)
                             \/ LatePause(c) \/ ExternalResume(c)
    /\ UNCHANGED <<sinkVars, jobVars>>

-----------------------------------------------------------------------------
(* Control flow of the Job.                                                  *)

Goto(place) == pc' = place /\ cur' = NoConnector

\* Mutant of Exits: an early error runs through the finalizer too.
ExitsThroughFinalizer ==
    Goto("final_resume") /\ todo' = Connectors /\ failed' = TRUE /\ UNCHANGED outcome

\* An error before the operation starts: run returns without resuming.
Exits == Goto("done") /\ outcome' = "error" /\ failed' = TRUE /\ UNCHANGED todo

\* An error while a group may be paused: its connectors are resumed first.
BarrierFails ==
    /\ Goto("resume_group")
    /\ todo' = ConnectorsIn(group)
    /\ failed' = TRUE
    /\ UNCHANGED outcome

\* Mutant of Finalizes: the Job only cleans up.
FinalizesWithoutResume(error) ==
    /\ Goto("cleanup")
    /\ todo' = Connectors
    /\ failed' = (failed \/ error)
    /\ UNCHANGED outcome

\* The end of the operation, by an error or without one.
Finalizes(error) ==
    /\ Goto("final_resume")
    /\ todo' = Connectors
    /\ failed' = (failed \/ error)
    /\ UNCHANGED outcome

\* One iteration of a loop is over; after the last the Job moves on.
Visited(c, place, connectors) ==
    /\ IF todo = {c} THEN pc' = place /\ todo' = connectors
                     ELSE pc' = pc /\ todo' = todo \ {c}
    /\ cur' = NoConnector

\* A step that reaches no other system and leaves the Job's results alone.
Succeeds == UNCHANGED resultVars

-----------------------------------------------------------------------------
(* Before the operation: nothing is paused yet.                              *)

\* RUN: every connector must be running.
RequireRunning(c) ==
    /\ pc = "require_running" /\ c \in todo
    /\ \/ status[c] = "RUNNING" /\ Visited(c, "acquire", {}) /\ Succeeds
       \/ status[c] # "RUNNING" /\ Exits
       \/ "connect" \in Faults /\ Exits
    /\ UNCHANGED <<sinkVars, connectVars, group, captureVars, cloneVars, backupVars>>

\* RUN: the catalog lease, the chain, the plan and the table engines.
Acquire ==
    /\ pc = "acquire"
    /\ \/ Goto("precleanup") /\ UNCHANGED todo /\ Succeeds
       \/ Faults \cap {"kafka", "clickhouse"} # {} /\ Exits
    /\ UNCHANGED <<sinkVars, connectVars, group, captureVars, cloneVars, backupVars>>

\* RUN: snapshots.cleanup drops what an earlier attempt left under the names.
PreCleanup ==
    /\ pc = "precleanup"
    /\ \/ Goto("pause") /\ todo' = ConnectorsIn(1) /\ Succeeds
       \/ "clickhouse" \in Faults /\ Exits
    /\ UNCHANGED <<sinkVars, connectVars, group, captureVars, cloneVars, backupVars>>

-----------------------------------------------------------------------------
(* The barrier of one group: pause_ingestion_and_capture_snapshot.           *)

\* PAUSE one connector of the group. A request that fails may have been
\* executed, and one that timed out may be executed later.
Pause(c) ==
    /\ pc = "pause" /\ c \in todo
    /\ \/ /\ target' = [target EXCEPT ![c] = "PAUSED"]
          /\ UNCHANGED <<status, latePause>>
          /\ Visited(c, "wait", ConnectorsIn(group)) /\ Succeeds
       \/ /\ "connect" \in Faults
          /\ \/ UNCHANGED connectVars
             \/ /\ target' = [target EXCEPT ![c] = "PAUSED"]
                /\ UNCHANGED <<status, latePause>>
             \/ /\ "late" \in Faults
                /\ latePause' = latePause \cup {c}
                /\ UNCHANGED <<target, status>>
          /\ BarrierFails
    /\ UNCHANGED <<sinkVars, group, captureVars, cloneVars, backupVars>>

\* WAIT until connector and tasks report PAUSED, or until pause_timeout.
WaitPaused(c) ==
    /\ pc = "wait" /\ c \in todo
    /\ \/ status[c] = "PAUSED" /\ Visited(c, "capture", ConnectorsIn(group)) /\ Succeeds
       \/ status[c] # "PAUSED" /\ BarrierFails
       \/ "connect" \in Faults /\ BarrierFails
    /\ UNCHANGED <<sinkVars, connectVars, group, captureVars, cloneVars, backupVars>>

\* CAPTURE, first request: the offsets Connect committed.
CaptureOffsets(c) ==
    /\ pc = "capture" /\ c \in todo /\ cur = NoConnector
    /\ \/ /\ observed' = [p \in Partitions |->
                            IF ConnectorOf[p] = c THEN connOffset[p] ELSE observed[p]]
          /\ cur' = c
          /\ UNCHANGED <<pc, todo>> /\ Succeeds
       \/ "connect" \in Faults /\ BarrierFails /\ UNCHANGED observed
    /\ UNCHANGED <<sinkVars, connectVars, group, captured, cloneVars, backupVars>>

\* CAPTURE, second request: the KeeperMap rows, which checkpoint() must accept.
CaptureKeeperRows(c) ==
    /\ pc = "capture" /\ cur = c
    /\ LET accepted == \A p \in PartitionsOf(c) : Accepts(keeper[p], observed[p])
       IN  \/ /\ accepted
              /\ captured' = [p \in Partitions |->
                                IF ConnectorOf[p] = c THEN keeper[p] ELSE captured[p]]
              /\ Visited(c, "check_group", ConnectorsIn(group)) /\ Succeeds
           \/ /\ ~accepted \/ "clickhouse" \in Faults
              /\ BarrierFails /\ UNCHANGED captured
    /\ UNCHANGED <<sinkVars, connectVars, group, observed, cloneVars, backupVars>>

\* The captured offsets of a connector are inside its topic's log.
OffsetsReplayable(c) ==
    \A p \in PartitionsOf(c) :
        InsideLog(NextOffset(captured[p]), logStart[p], LogEnd)

\* CHECK the offsets of the group.
CheckGroup(c) ==
    /\ pc = "check_group" /\ c \in todo
    /\ \/ /\ OffsetsReplayable(c)
          /\ Visited(c, IF Replicated[group] THEN "sync" ELSE "create", {})
          /\ Succeeds
       \/ ~OffsetsReplayable(c) /\ BarrierFails
       \/ "kafka" \in Faults /\ BarrierFails
    /\ UNCHANGED <<sinkVars, connectVars, group, captureVars, cloneVars, backupVars>>

\* SYNC: the queried replica fetches all that replication announced so far.
SyncReplication ==
    /\ pc = "sync"
    /\ \/ /\ replica' = [p \in Partitions |->
                            IF p \in PartitionsIn(group) THEN table[p] ELSE replica[p]]
          /\ Goto("create") /\ UNCHANGED todo /\ Succeeds
       \/ "clickhouse" \in Faults /\ BarrierFails /\ UNCHANGED replica
    /\ UNCHANGED <<logStart, keeper, phase, table, connOffset, trimmed, connectVars,
                   group, captureVars, cloneVars, backupVars>>

\* CLONE, first statement: CREATE TABLE. A failed statement may have taken effect.
CloneCreate ==
    /\ pc = "create"
    /\ \/ /\ clone' = [clone EXCEPT ![group] = "empty"]
          /\ Goto("attach") /\ UNCHANGED todo /\ Succeeds
       \/ /\ "clickhouse" \in Faults
          /\ clone' \in {clone, [clone EXCEPT ![group] = "empty"]}
          /\ BarrierFails
    /\ UNCHANGED <<sinkVars, connectVars, group, captureVars, cloned, backupVars>>

\* CLONE, second statement: ATTACH PARTITION ALL takes the parts of the queried
\* replica.
CloneAttach ==
    /\ pc = "attach"
    /\ \/ /\ clone' = [clone EXCEPT ![group] = "attached"]
          /\ cloned' = [p \in Partitions |->
                          IF p \in PartitionsIn(group) THEN replica[p] ELSE cloned[p]]
          /\ Goto("recheck") /\ todo' = ConnectorsIn(group) /\ Succeeds
       \/ /\ "clickhouse" \in Faults
          /\ UNCHANGED cloneVars
          /\ BarrierFails
    /\ UNCHANGED <<sinkVars, connectVars, group, captureVars, backupVars>>

\* RECHECK, first request: the connector is still paused.
RequirePaused(c) ==
    /\ pc = "recheck" /\ c \in todo /\ cur = NoConnector
    /\ \/ status[c] = "PAUSED" /\ cur' = c /\ UNCHANGED <<pc, todo>> /\ Succeeds
       \/ status[c] # "PAUSED" /\ BarrierFails
       \/ "connect" \in Faults /\ BarrierFails
    /\ UNCHANGED <<sinkVars, connectVars, group, captureVars, cloneVars, backupVars>>

KeeperUnchanged(c) == \A p \in PartitionsOf(c) : keeper[p] = captured[p]

\* RECHECK, second request: its KeeperMap rows did not move.
RequireUnchangedKeeper(c) ==
    /\ pc = "recheck" /\ cur = c
    /\ \/ KeeperUnchanged(c) /\ Visited(c, "resume_group", ConnectorsIn(group)) /\ Succeeds
       \/ ~KeeperUnchanged(c) /\ BarrierFails
       \/ "clickhouse" \in Faults /\ BarrierFails
    /\ UNCHANGED <<sinkVars, connectVars, group, captureVars, cloneVars, backupVars>>

-----------------------------------------------------------------------------
(* resume_ingestion, after each group and again when the operation is over:  *)
(* every connector is tried, the errors are reported at the end.             *)

\* Mutant of Resume: its error is dropped.
ResumeBestEffort(c) ==
    /\ c \in todo
    /\ \/ target' = [target EXCEPT ![c] = "RUNNING"]
       \/ "connect" \in Faults /\ UNCHANGED target
    /\ UNCHANGED <<status, latePause, outcome, failed>>

\* One resume request; one that fails may have been executed.
Resume(c) ==
    /\ c \in todo
    /\ \/ target' = [target EXCEPT ![c] = "RUNNING"] /\ failed' = failed
       \/ /\ "connect" \in Faults
          /\ target' \in {target, [target EXCEPT ![c] = "RUNNING"]}
          /\ failed' = TRUE
    /\ UNCHANGED <<status, latePause, outcome>>

\* Mutant of HasNextGroup: the loop runs past the last group.
HasGroupLeft == group <= NumGroups

HasNextGroup == group < NumGroups

\* RESUME the group; then fail, or go on with the next group or the upload.
ResumeGroup(c) ==
    /\ pc = "resume_group"
    /\ Resume(c)
    /\ \/ Visited(c, "final_resume", Connectors) /\ failed' /\ UNCHANGED group
       \/ /\ ~failed' /\ HasNextGroup
          /\ Visited(c, "pause", ConnectorsIn(group + 1))
          /\ group' = IF todo = {c} THEN group + 1 ELSE group
       \/ /\ ~failed' /\ ~HasNextGroup
          /\ Visited(c, "check_all", Connectors)
          /\ UNCHANGED group
    /\ UNCHANGED <<sinkVars, captureVars, cloneVars, backupVars>>

FinalResume(c) ==
    /\ pc = "final_resume"
    /\ Resume(c)
    /\ Visited(c, "cleanup", {})
    /\ UNCHANGED <<sinkVars, group, captureVars, cloneVars, backupVars>>

\* CLEANUP: drop the temporary tables; failures are only logged.
Cleanup ==
    /\ pc = "cleanup"
    /\ \E dropped \in SUBSET Groups :
          /\ dropped = Groups \/ "clickhouse" \in Faults
          /\ clone' = [g \in Groups |-> IF g \in dropped THEN "absent" ELSE clone[g]]
          /\ cloned' = [p \in Partitions |-> IF TableOf(p) \in dropped THEN {} ELSE cloned[p]]
    /\ Goto("done")
    /\ outcome' = IF failed THEN "error" ELSE "ok"
    /\ UNCHANGED <<sinkVars, connectVars, group, todo, captureVars, backupVars, failed>>

-----------------------------------------------------------------------------
(* The rest of create_backup, while ingestion is running.                    *)

\* CHECK every captured offset again, before the upload ...
CheckAll(c) ==
    /\ pc = "check_all" /\ c \in todo
    /\ \/ OffsetsReplayable(c) /\ Visited(c, "upload", {}) /\ Succeeds
       \/ ~OffsetsReplayable(c) /\ Finalizes(TRUE)
       \/ "kafka" \in Faults /\ Finalizes(TRUE)
    /\ UNCHANGED <<sinkVars, connectVars, group, captureVars, cloneVars, backupVars>>

\* UPLOAD: BACKUP of the temporary tables. A failed one may leave an archive.
UploadBackup ==
    /\ pc = "upload"
    /\ \/ /\ archived' = TRUE
          /\ archive' = cloned
          /\ Goto("confirm") /\ UNCHANGED todo /\ Succeeds
       \/ /\ "clickhouse" \in Faults
          /\ UNCHANGED <<archived, archive>>
          /\ Finalizes(TRUE)
    /\ UNCHANGED <<sinkVars, connectVars, group, captureVars, cloneVars, committed>>

\* CONFIRM the archive in system.backups; validate_manifest accepts what
\* checkpoint() made.
RequireBackupCreated ==
    /\ pc = "confirm"
    /\ \/ archived /\ Goto("check_manifest") /\ todo' = Connectors /\ Succeeds
       \/ "clickhouse" \in Faults /\ Finalizes(TRUE)
    /\ UNCHANGED <<sinkVars, connectVars, group, captureVars, cloneVars, backupVars>>

\* ... and CHECK them before the commit.
CheckManifest(c) ==
    /\ pc = "check_manifest" /\ c \in todo
    /\ \/ OffsetsReplayable(c) /\ Visited(c, "commit", {}) /\ Succeeds
       \/ ~OffsetsReplayable(c) /\ Finalizes(TRUE)
       \/ "kafka" \in Faults /\ Finalizes(TRUE)
    /\ UNCHANGED <<sinkVars, connectVars, group, captureVars, cloneVars, backupVars>>

\* COMMIT the manifest. A commit whose answer is lost may have happened.
Commit ==
    /\ pc = "commit"
    /\ \/ committed' = TRUE /\ Finalizes(FALSE)
       \/ "kafka" \in Faults /\ committed' \in BOOLEAN /\ Finalizes(TRUE)
    /\ UNCHANGED <<sinkVars, connectVars, group, captureVars, cloneVars, archived, archive>>

-----------------------------------------------------------------------------
(* The end of the process from outside.                                      *)

\* The request in flight when the process or its operation is dropped.
AbandonsRequest ==
    \/ UNCHANGED connectVars
    \/ /\ "late" \in Faults /\ pc = "pause"
       /\ \E c \in todo : latePause' = latePause \cup {c}
       /\ UNCHANGED <<target, status>>

\* SIGNAL: before run listens for it, it ends the process; during the operation
\* it drops the operation; afterwards it is ignored.
Terminate ==
    /\ "signal" \in Faults
    /\ \/ /\ pc \in Preflight
          /\ Goto("done") /\ outcome' = "killed"
          /\ UNCHANGED <<connectVars, todo, failed>>
       \/ /\ pc \in Operation
          /\ AbandonsRequest
          /\ Finalizes(TRUE)
    /\ UNCHANGED <<sinkVars, group, captureVars, cloneVars, backupVars>>

\* KILL: SIGKILL or node loss; nothing is resumed or cleaned up.
Kill ==
    /\ "kill" \in Faults
    /\ pc # "done"
    /\ AbandonsRequest
    /\ Goto("done") /\ outcome' = "killed"
    /\ UNCHANGED <<sinkVars, group, todo, captureVars, cloneVars, backupVars, failed>>

-----------------------------------------------------------------------------
\* Steps that end within a request timeout of the Connect or Kafka client, or
\* by pause_timeout.
TimedStep ==
    \/ \E c \in Connectors :
          \/ RequireRunning(c) \/ Pause(c) \/ WaitPaused(c) \/ CaptureOffsets(c)
          \/ CheckGroup(c) \/ RequirePaused(c) \/ ResumeGroup(c) \/ FinalResume(c)
          \/ CheckAll(c) \/ CheckManifest(c)
    \/ Commit

\* ClickHouse queries, which have no request timeout.
QueryStep ==
    \/ \E c \in Connectors : CaptureKeeperRows(c) \/ RequireUnchangedKeeper(c)
    \/ Acquire \/ PreCleanup \/ SyncReplication \/ CloneCreate \/ CloneAttach
    \/ UploadBackup \/ RequireBackupCreated \/ Cleanup

Job == TimedStep \/ QueryStep \/ Terminate \/ Kill

\* The Job is over and the sink has ingested everything it can.
Idle == pc = "done" /\ UNCHANGED vars

Next == Sink \/ Worker \/ Job \/ Idle

Spec == Init /\ [][Next]_vars

\* A connector is eventually moved to the state last requested, requests are
\* answered or time out, and the Job's deadline terminates it. A ClickHouse
\* query may never be answered.
Fairness ==
    /\ \A c \in Connectors :
          WF_vars((TaskPauses(c) \/ TaskResumes(c)) /\ UNCHANGED <<sinkVars, jobVars>>)
    /\ WF_vars(TimedStep)
    /\ WF_vars(Terminate)

FairSpec == Spec /\ Fairness
-----------------------------------------------------------------------------
(* Properties.                                                               *)

\* A committed manifest binds its archive to its offsets exactly: for every
\* partition the archive holds all records below the recorded offset and none
\* at or above it, however the sink, the replicas and other users of Connect
\* interleaved with the barrier (guarantees.md: "binds an immutable ClickHouse
\* archive to the exact KeeperMap checkpoint").
ManifestIsExact ==
    committed => \A p \in Partitions : archive[p] = Prefix(NextOffset(captured[p]))

\* From the last barrier to the commit every connector has been asked to run
\* and no pause request can overtake that: the upload never holds ingestion up.
IngestingWhileUploading ==
    pc \in Publishing =>
        latePause = {} /\ \A c \in Connectors : target[c] = "RUNNING"

\* The operation never holds back the connectors of more than one target
\* table: those the Job paused, or may still pause, write the current group's.
PauseConfinedToOneTable ==
    pc \in Operation =>
        \A c \in Connectors :
            target[c] = "PAUSED" \/ c \in latePause => GroupOf[c] = group

\* A Job that exits successfully has committed its manifest and has left every
\* connector requested to run, with no abandoned pause request behind it.
SuccessLeavesRunning ==
    outcome = "ok" =>
        /\ committed
        /\ latePause = {} /\ \A c \in Connectors : target[c] = "RUNNING"

\* The recorded offsets of a committed manifest are inside Kafka's log, unless
\* retention moved after the last check of the partition (the gap
\* failure-modes.md calls impossible to close).
RecordedOffsetsReplayable ==
    committed => \A p \in Partitions \ trimmed :
                    NextOffset(captured[p]) \in logStart[p] .. LogEnd

\* The Job never resumes a connector that was paused when it started: it
\* refuses to start instead of overriding an operator's pause.
OperatorPauseRespected ==
    \A c \in Connectors : target[c] = "PAUSED" => [](target[c] = "PAUSED")

\* However the Job ends short of SIGKILL, hanging ClickHouse queries included,
\* all connectors end up running for good if they were when it started.
IngestionRestored ==
    (\A c \in Connectors : status[c] = "RUNNING")
        => <>[](\A c \in Connectors : status[c] = "RUNNING")
=============================================================================
