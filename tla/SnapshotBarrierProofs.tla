----------------------- MODULE SnapshotBarrierProofs ------------------------
(***************************************************************************)
(* Proofs about SnapshotBarrier, for every layout of connectors, tables    *)
(* and partitions, every log length and every set of faults: its type      *)
(* invariant, that a committed manifest is exact, that only one table's    *)
(* connectors are held back, and that success leaves none behind.          *)
(***************************************************************************)
EXTENDS SnapshotBarrier, TLAPS

(* The inductive invariant. The sink's own protocol relates the KeeperMap    *)
(* row to the rows of the table ...                                          *)
SinkInv ==
    \A p \in Partitions :
        /\ phase[p] # "idle" => keeper[p].state = "BEFORE_PROCESSING"
        /\ keeper[p] = NoRow => table[p] = Prefix(connOffset[p])
        /\ keeper[p].state = "AFTER_PROCESSING" =>
              table[p] = Prefix(NextOffset(keeper[p]))
        /\ keeper[p].state = "BEFORE_PROCESSING" =>
              /\ keeper[p].min <= keeper[p].max
              /\ table[p] \in {Prefix(keeper[p].min), Prefix(NextOffset(keeper[p]))}
              /\ phase[p] = "inserted" => table[p] = Prefix(NextOffset(keeper[p]))
        /\ ~Replicated[TableOf(p)] => replica[p] = table[p]

Captured(p) == captured[p].state # "UNREAD"

(* ... the row only moves forward, so one that still equals the captured row *)
(* never moved since, and the table holds exactly what the row says ...      *)
CaptureInv ==
    \A p \in Partitions :
        Captured(p) =>
            /\ captured[p].state \in {"NONE", "AFTER_PROCESSING"}
            /\ NextOffset(captured[p]) <= NextOffset(keeper[p])
            /\ keeper[p].state = "BEFORE_PROCESSING" =>
                  NextOffset(captured[p]) < NextOffset(keeper[p])
            /\ keeper[p] = captured[p] =>
                  table[p] = Prefix(NextOffset(captured[p]))

(* ... the loops of the barrier stay inside the current group ...            *)
LoopInv ==
    /\ pc \in Preflight => group = 1
    /\ pc \in {"capture", "recheck"} => todo \subseteq ConnectorsIn(group)
    /\ cur # NoConnector => pc \in {"capture", "recheck"} /\ cur \in todo
    /\ pc = "capture" /\ cur # NoConnector =>
          \A p \in PartitionsOf(cur) : keeper[p] = NoRow => observed[p] = connOffset[p]

\* The clone holds exactly what the captured row says.
Exact(p) == Captured(p) /\ cloned[p] = Prefix(NextOffset(captured[p]))

(* ... and each place of the Job knows what is captured, synced and cloned.  *)
PlaceInv ==
    /\ pc = "capture" =>
          \A p \in PartitionsIn(group) : ConnectorOf[p] \notin todo => Captured(p)
    /\ pc \in {"check_group", "sync", "create", "attach", "recheck"} =>
          \A p \in PartitionsIn(group) : Captured(p)
    /\ pc \in {"create", "attach"} =>
          \A p \in PartitionsIn(group) : keeper[p] = captured[p] => replica[p] = table[p]
    /\ pc = "recheck" =>
          \A p \in PartitionsIn(group) :
              keeper[p] = captured[p] \/ ConnectorOf[p] \notin todo => Exact(p)
    /\ pc = "resume_group" /\ ~failed => \A p \in PartitionsIn(group) : Exact(p)
    /\ pc \in Barrier \cup {"resume_group"} =>
          \A p \in Partitions : TableOf(p) < group => Exact(p)
    /\ pc \in {"check_all", "upload"} => \A p \in Partitions : Exact(p)

ArchiveInv ==
    /\ archived => /\ pc \notin Preflight \cup Barrier \cup {"resume_group"}
                   /\ \A p \in Partitions : archive[p] = Prefix(NextOffset(captured[p]))
    /\ pc \in {"confirm", "check_manifest", "commit"} => archived
    /\ committed => archived

IInv == TypeOK /\ SinkInv /\ CaptureInv /\ LoopInv /\ PlaceInv /\ ArchiveInv

-----------------------------------------------------------------------------
(* The sink: its types and its protocol.                                     *)

SinkInd == SinkTypeOK /\ SinkInv

\* A KeeperMap row has integer bounds, and only NoRow has state NONE.
LEMMA RowType ==
    ASSUME NEW row \in KeeperRow(LogEnd) \cup {NoRow}
    PROVE  /\ row.min \in Int /\ row.max \in Int
           /\ row.state \in {"NONE", "BEFORE_PROCESSING", "AFTER_PROCESSING"}
           /\ row.state = "NONE" <=> row = NoRow
           /\ row = Row(row.min, row.max, row.state)
           /\ NextOffset(row) \in 0 .. LogEnd
    BY LayoutAssumption DEF KeeperRow, NoRow, States, Row, NextOffset

\* Every step of the sink keeps its types and its protocol.
LEMMA SinkStep == SinkInd /\ Sink => SinkInd'
<1> SUFFICES ASSUME SinkInd, Sink PROVE SinkInd'
    OBVIOUS
<1> USE LayoutAssumption DEF SinkInd
<1> PICK p \in Partitions :
        \/ PutBegin(p) \/ PutRetry(p) \/ PutInsert(p) \/ PutEnd(p)
        \/ PutFail(p) \/ CommitOffset(p) \/ Replicate(p) \/ Retain(p)
    BY DEF Sink
<1>1. CASE PutBegin(p)
    BY <1>1 DEF PutBegin, SinkTypeOK, SinkInv, Position, Row, KeeperRow, NoRow,
        NextOffset, States, Prefix
<1>2. CASE PutRetry(p)
    BY <1>2 DEF PutRetry, SinkTypeOK, SinkInv
<1>3. CASE PutInsert(p)
  <2>1. /\ keeper[p].state = "BEFORE_PROCESSING"
        /\ keeper[p].min \in 0 .. LogEnd - 1 /\ keeper[p].max \in 0 .. LogEnd - 1
    BY <1>3 DEF PutInsert, SinkTypeOK, SinkInv, KeeperRow, NoRow
  <2>2. table[p] \cup keeper[p].min .. keeper[p].max = Prefix(NextOffset(keeper[p]))
    BY <2>1 DEF SinkInv, Prefix, NextOffset
  <2>3. table' = [table EXCEPT ![p] = Prefix(NextOffset(keeper[p]))]
    BY <1>3, <2>2 DEF PutInsert
  <2>4. Prefix(NextOffset(keeper[p])) \subseteq Prefix(LogEnd)
    BY <2>1 DEF Prefix, NextOffset
  <2>5. SinkTypeOK'
    BY <1>3, <2>3, <2>4 DEF PutInsert, SinkTypeOK
  <2>6. SinkInv'
    BY <1>3, <2>1, <2>3 DEF PutInsert, SinkInv, SinkTypeOK, NoRow
  <2> QED
    BY <2>5, <2>6
<1>4. CASE PutEnd(p)
    BY <1>4 DEF PutEnd, SinkTypeOK, SinkInv, KeeperRow, NoRow, States, NextOffset
<1>5. CASE PutFail(p)
    BY <1>5 DEF PutFail, SinkTypeOK, SinkInv
<1>6. CASE CommitOffset(p)
    BY <1>6 DEF CommitOffset, SinkTypeOK, SinkInv, KeeperRow, NoRow, NextOffset
<1>7. CASE Replicate(p)
    BY <1>7 DEF Replicate, SinkTypeOK, SinkInv
<1>8. CASE Retain(p)
    BY <1>8 DEF Retain, SinkTypeOK, SinkInv
<1> QED
    BY <1>1, <1>2, <1>3, <1>4, <1>5, <1>6, <1>7, <1>8

\* A step of the Job leaves the sink alone, except that SyncReplication makes
\* the queried replica complete.
LEMMA JobLeavesSink ==
    ASSUME Job, ~SyncReplication PROVE UNCHANGED sinkVars
<1>1. CASE TimedStep
    BY <1>1 DEF TimedStep, RequireRunning, Pause, WaitPaused, CaptureOffsets, CheckGroup,
        RequirePaused, ResumeGroup, HasNextGroup, FinalResume, CheckAll, CheckManifest, Commit
<1>2. CASE QueryStep
    BY <1>2 DEF QueryStep, CaptureKeeperRows, RequireUnchangedKeeper, Acquire, PreCleanup,
        CloneCreate, CloneAttach, UploadBackup, RequireBackupCreated, Cleanup
<1>3. CASE Terminate
    BY <1>3 DEF Terminate
<1>4. CASE Kill
    BY <1>4 DEF Kill
<1> QED
    BY <1>1, <1>2, <1>3, <1>4 DEF Job

\* The sink's types and protocol hold in every step.
LEMMA SinkNext == SinkInd /\ [Next]_vars => SinkInd'
<1> SUFFICES ASSUME SinkInd, [Next]_vars PROVE SinkInd'
    OBVIOUS
<1>1. CASE Sink
    BY <1>1, SinkStep
<1>2. CASE SyncReplication
    BY <1>2 DEF SyncReplication, SinkInd, SinkTypeOK, SinkInv
<1>3. CASE UNCHANGED sinkVars
    BY <1>3 DEF sinkVars, SinkInd, SinkTypeOK, SinkInv
<1> QED
    BY <1>1, <1>2, <1>3, JobLeavesSink DEF Next, Worker, Idle, vars

-----------------------------------------------------------------------------
(* The types of Connect and of the Job.                                      *)

\* Every step keeps the types of the Connect state.
LEMMA ConnectTypeNext == ConnectTypeOK /\ LoopTypeOK /\ [Next]_vars => ConnectTypeOK'
<1> SUFFICES ASSUME ConnectTypeOK, LoopTypeOK, [Next]_vars PROVE ConnectTypeOK'
    OBVIOUS
<1> USE DEF ConnectTypeOK
<1>1. CASE UNCHANGED connectVars
    BY <1>1 DEF connectVars
<1>2. CASE Worker
    BY <1>2 DEF Worker, TaskPauses, TaskResumes, LatePause, ExternalResume
<1>3. ASSUME NEW c \in Connectors, Pause(c) PROVE ConnectTypeOK'
    BY <1>3 DEF Pause, connectVars
<1>4. ASSUME NEW c \in Connectors, ResumeGroup(c) \/ FinalResume(c) PROVE ConnectTypeOK'
    BY <1>4 DEF ResumeGroup, HasNextGroup, FinalResume, Resume
<1>5. CASE Terminate \/ Kill
    BY <1>5 DEF Terminate, Kill, AbandonsRequest, connectVars, LoopTypeOK
<1>6. CASE TimedStep
    BY <1>1, <1>3, <1>4, <1>6 DEF TimedStep, RequireRunning, WaitPaused, CaptureOffsets,
        CheckGroup, RequirePaused, CheckAll, CheckManifest, Commit
<1>7. CASE QueryStep
    BY <1>1, <1>7 DEF QueryStep, CaptureKeeperRows, RequireUnchangedKeeper, Acquire,
        PreCleanup, SyncReplication, CloneCreate, CloneAttach, UploadBackup,
        RequireBackupCreated, Cleanup
<1> QED
    BY <1>1, <1>2, <1>5, <1>6, <1>7 DEF Next, Sink, Job, Idle, vars

\* Every step keeps the types of the Job's control.
LEMMA LoopTypeNext == LoopTypeOK /\ [Next]_vars => LoopTypeOK'
<1> SUFFICES ASSUME LoopTypeOK, [Next]_vars PROVE LoopTypeOK'
    OBVIOUS
<1> USE LayoutAssumption DEF LoopTypeOK, Preflight, Barrier, Publishing, Operation,
        Finalizing, Groups, Goto, Exits, BarrierFails, Finalizes, Visited, Succeeds,
        resultVars, ConnectorsIn
<1>1. CASE UNCHANGED jobVars
    BY <1>1 DEF jobVars, loopVars
<1>2. ASSUME NEW c \in Connectors,
             RequireRunning(c) \/ Pause(c) \/ WaitPaused(c) \/ CaptureOffsets(c)
      PROVE  LoopTypeOK'
    BY <1>2 DEF RequireRunning, Pause, WaitPaused, CaptureOffsets
<1>3. ASSUME NEW c \in Connectors,
             CheckGroup(c) \/ RequirePaused(c) \/ CheckAll(c) \/ CheckManifest(c)
      PROVE  LoopTypeOK'
    BY <1>3 DEF CheckGroup, RequirePaused, CheckAll, CheckManifest
<1>4. ASSUME NEW c \in Connectors, ResumeGroup(c) PROVE LoopTypeOK'
  <2>1. group' \in Groups
    BY <1>4 DEF ResumeGroup, HasNextGroup
  <2>2. failed' \in BOOLEAN /\ outcome' = outcome
    BY <1>4 DEF ResumeGroup, HasNextGroup, Resume
  <2>3. /\ pc' \in {pc, "final_resume", "pause", "check_all"}
        /\ todo' \subseteq Connectors
        /\ cur' = NoConnector
    BY <1>4 DEF ResumeGroup, HasNextGroup
  <2> QED
    BY <2>1, <2>2, <2>3
<1>5. ASSUME NEW c \in Connectors, FinalResume(c) PROVE LoopTypeOK'
    BY <1>5 DEF FinalResume, Resume
<1>6. ASSUME NEW c \in Connectors,
             CaptureKeeperRows(c) \/ RequireUnchangedKeeper(c)
      PROVE  LoopTypeOK'
    BY <1>6 DEF CaptureKeeperRows, RequireUnchangedKeeper
<1>7. CASE Acquire \/ PreCleanup \/ SyncReplication \/ CloneCreate \/ CloneAttach
    BY <1>7 DEF Acquire, PreCleanup, SyncReplication, CloneCreate, CloneAttach
<1>8. CASE UploadBackup \/ RequireBackupCreated \/ Commit \/ Cleanup
    BY <1>8 DEF UploadBackup, RequireBackupCreated, Commit, Cleanup
<1>9. CASE Terminate \/ Kill
    BY <1>9 DEF Terminate, Kill
<1> QED
    BY <1>1, <1>2, <1>3, <1>4, <1>5, <1>6, <1>7, <1>8, <1>9
    DEF Next, Sink, Worker, Job, TimedStep, QueryStep, Idle, vars

\* Every step keeps the types of what the Job captured, cloned and archived.
LEMMA DataTypeNext ==
    SinkTypeOK /\ LoopTypeOK /\ DataTypeOK /\ [Next]_vars => DataTypeOK'
<1> SUFFICES ASSUME SinkTypeOK, LoopTypeOK, DataTypeOK, [Next]_vars PROVE DataTypeOK'
    OBVIOUS
<1> USE DEF DataTypeOK
<1>1. CASE UNCHANGED <<captureVars, cloneVars, backupVars>>
    BY <1>1 DEF captureVars, cloneVars, backupVars
<1>2. ASSUME NEW c \in Connectors, CaptureOffsets(c) PROVE DataTypeOK'
    BY <1>2 DEF CaptureOffsets, SinkTypeOK, cloneVars, backupVars
<1>3. ASSUME NEW c \in Connectors, CaptureKeeperRows(c) PROVE DataTypeOK'
    BY <1>3 DEF CaptureKeeperRows, SinkTypeOK, cloneVars, backupVars
<1>4. CASE CloneCreate
    BY <1>4 DEF CloneCreate, LoopTypeOK, captureVars, backupVars
<1>5. CASE CloneAttach
    BY <1>5 DEF CloneAttach, SinkTypeOK, LoopTypeOK, captureVars, cloneVars, backupVars
<1>6. CASE UploadBackup
    BY <1>6 DEF UploadBackup, captureVars, cloneVars
<1>7. CASE Commit
    BY <1>7 DEF Commit, captureVars, cloneVars
<1>8. CASE Cleanup
    BY <1>8 DEF Cleanup, captureVars, backupVars
<1>9. CASE TimedStep
    BY <1>1, <1>2, <1>7, <1>9 DEF TimedStep, RequireRunning, Pause, WaitPaused, CheckGroup,
        RequirePaused, ResumeGroup, HasNextGroup, FinalResume, CheckAll, CheckManifest
<1>10. CASE QueryStep
    BY <1>1, <1>3, <1>4, <1>5, <1>6, <1>8, <1>10
    DEF QueryStep, RequireUnchangedKeeper, Acquire, PreCleanup, SyncReplication,
        RequireBackupCreated
<1>11. CASE Terminate \/ Kill
    BY <1>1, <1>11 DEF Terminate, Kill
<1> QED
    BY <1>1, <1>9, <1>10, <1>11 DEF Next, Sink, Worker, Job, Idle, vars, jobVars

\* The initial states have all types and the sink's protocol.
LEMMA InitTypes == Init => TypeOK /\ SinkInd
<1> SUFFICES ASSUME Init PROVE TypeOK /\ SinkInd
    OBVIOUS
<1> USE LayoutAssumption
<1>1. \A p \in Partitions :
          /\ connOffset[p] \in 0 .. LogEnd
          /\ keeper[p] \in {Finished(connOffset[p]), NoRow}
    BY DEF Init
<1>2. \A n \in InitialOffsets : Finished(n) \in KeeperRow(LogEnd) \cup {NoRow}
    BY DEF Finished, KeeperRow, NoRow, Row, States
<1>3. keeper \in [Partitions -> KeeperRow(LogEnd) \cup {NoRow}]
    BY <1>2 DEF Init
<1>4. \A p \in Partitions : Prefix(connOffset[p]) \in SUBSET Prefix(LogEnd)
    BY <1>1 DEF Prefix
<1>5. SinkTypeOK
    BY <1>3, <1>4 DEF Init, SinkTypeOK
<1>6. ConnectTypeOK
    BY DEF Init, ConnectTypeOK
<1>7. LoopTypeOK
  <2>1. pc = "require_running" /\ group = 1 /\ todo = Connectors /\ cur = NoConnector
    BY DEF Init
  <2>2. failed \in BOOLEAN /\ outcome = "none"
    BY Zenon DEF Init
  <2> QED
    BY <2>1, <2>2 DEF LoopTypeOK, Preflight, Groups
<1>8. DataTypeOK
  <2>1. /\ observed = [p \in Partitions |-> 0]
        /\ captured = [p \in Partitions |-> Unread]
        /\ clone = [g \in Groups |-> "absent"]
    BY DEF Init
  <2>2. /\ cloned = [p \in Partitions |-> {}] /\ archive = [p \in Partitions |-> {}]
        /\ archived \in BOOLEAN /\ committed \in BOOLEAN
    BY Zenon DEF Init
  <2> QED
    BY <2>1, <2>2 DEF DataTypeOK
<1>9. ASSUME NEW p \in Partitions
      PROVE  /\ keeper[p].state \in {"NONE", "AFTER_PROCESSING"}
             /\ keeper[p].state = "AFTER_PROCESSING" =>
                   NextOffset(keeper[p]) = connOffset[p]
  <2>1. CASE keeper[p] = NoRow
    BY <2>1 DEF NoRow
  <2>2. CASE keeper[p] = Finished(connOffset[p])
    BY <1>1, <2>2 DEF Finished, Row, NoRow, NextOffset
  <2> QED
    BY <1>1, <2>1, <2>2
<1>10. SinkInv
    BY <1>9 DEF Init, SinkInv
<1> QED
    BY <1>5, <1>6, <1>7, <1>8, <1>10 DEF TypeOK, SinkInd

\* In every reachable state every variable has its type.
THEOREM TypeCorrect == Spec => []TypeOK
<1>1. TypeOK /\ SinkInv /\ [Next]_vars => (TypeOK /\ SinkInv)'
    BY SinkNext, ConnectTypeNext, LoopTypeNext, DataTypeNext DEF TypeOK, SinkInd
<1>2. Init => TypeOK /\ SinkInv
    BY InitTypes DEF SinkInd
<1> QED
    BY <1>1, <1>2, PTL DEF Spec

-----------------------------------------------------------------------------
(* A captured row that is still the live row never moved in between.         *)

\* What a step of the sink does to the row and the rows of a partition: nothing,
\* an insert under an unfinished row, a new claim, or the end of a claim.
LEMMA RowForward ==
    ASSUME SinkInd, Sink, NEW p \in Partitions
    PROVE  /\ \/ keeper'[p] = keeper[p] /\ table'[p] = table[p]
              \/ keeper'[p] = keeper[p] /\ keeper[p].state = "BEFORE_PROCESSING"
              \/ /\ keeper'[p].state = "BEFORE_PROCESSING"
                 /\ NextOffset(keeper[p]) < NextOffset(keeper'[p])
              \/ /\ keeper[p].state = "BEFORE_PROCESSING"
                 /\ NextOffset(keeper'[p]) = NextOffset(keeper[p])
           /\ replica'[p] \in {replica[p], table'[p]}
           /\ keeper'[p] = NoRow => keeper[p] = NoRow /\ connOffset'[p] = connOffset[p]
<1> USE LayoutAssumption DEF SinkInd
<1> PICK q \in Partitions :
        \/ PutBegin(q) \/ PutRetry(q) \/ PutInsert(q) \/ PutEnd(q)
        \/ PutFail(q) \/ CommitOffset(q) \/ Replicate(q) \/ Retain(q)
    BY DEF Sink
<1>1. CASE PutBegin(q)
    BY <1>1 DEF PutBegin, SinkTypeOK, Position, Row, KeeperRow, NoRow, NextOffset
<1>2. CASE PutInsert(q)
    BY <1>2 DEF PutInsert, SinkTypeOK, SinkInv
<1>3. CASE PutEnd(q)
    BY <1>3 DEF PutEnd, SinkTypeOK, SinkInv, KeeperRow, NoRow, NextOffset
<1>4. CASE CommitOffset(q)
    BY <1>4 DEF CommitOffset, SinkTypeOK, NoRow
<1>5. CASE Replicate(q)
    BY <1>5 DEF Replicate, SinkTypeOK
<1>6. CASE PutRetry(q) \/ PutFail(q) \/ Retain(q)
    BY <1>6 DEF PutRetry, PutFail, Retain
<1> QED
    BY <1>1, <1>2, <1>3, <1>4, <1>5, <1>6

\* The derived offsets are integers.
LEMMA OffsetsAreInt ==
    ASSUME SinkTypeOK, DataTypeOK, NEW p \in Partitions
    PROVE  /\ NextOffset(keeper[p]) \in Int
           /\ NextOffset(captured[p]) \in Int
           /\ observed[p] \in Nat /\ connOffset[p] \in Nat
    BY LayoutAssumption
    DEF SinkTypeOK, DataTypeOK, KeeperRow, NoRow, Unread, NextOffset

\* If the sink leaves, or makes, the live row equal to the captured one, it did
\* not touch row or table.
LEMMA StillCaptured ==
    ASSUME SinkInd, SinkInd', DataTypeOK, DataTypeOK', CaptureInv, Sink,
           NEW p \in Partitions, Captured(p), keeper'[p] = captured[p]
    PROVE  keeper[p] = captured[p] /\ table'[p] = table[p]
<1>1. captured[p].state \in {"NONE", "AFTER_PROCESSING"}
    BY DEF CaptureInv
<1>2. CASE keeper'[p] = keeper[p] /\ keeper[p].state = "BEFORE_PROCESSING"
    BY <1>1, <1>2
<1>3. CASE keeper'[p].state = "BEFORE_PROCESSING"
    BY <1>1, <1>3
<1>4. CASE /\ keeper[p].state = "BEFORE_PROCESSING"
           /\ NextOffset(keeper'[p]) = NextOffset(keeper[p])
    BY <1>4, OffsetsAreInt DEF CaptureInv, SinkInd
<1> QED
    BY <1>2, <1>3, <1>4, RowForward

\* Every step keeps what is known of captured rows.
LEMMA CaptureNext ==
    ASSUME TypeOK, TypeOK', SinkInv, SinkInv', CaptureInv, LoopInv, [Next]_vars
    PROVE  CaptureInv'
<1> USE DEF TypeOK, SinkInd
<1>1. CASE Sink
  <2> SUFFICES ASSUME NEW p \in Partitions, Captured(p)
               PROVE  /\ NextOffset(captured[p]) <= NextOffset(keeper'[p])
                      /\ keeper'[p].state = "BEFORE_PROCESSING" =>
                            NextOffset(captured[p]) < NextOffset(keeper'[p])
                      /\ keeper'[p] = captured[p] =>
                            table'[p] = Prefix(NextOffset(captured[p]))
    BY <1>1 DEF CaptureInv, Captured, Sink, jobVars, captureVars, NextOffset
  <2>1. /\ NextOffset(keeper[p]) \in Int /\ NextOffset(captured[p]) \in Int
        /\ NextOffset(keeper'[p]) \in Int
    BY OffsetsAreInt, LayoutAssumption DEF SinkTypeOK, KeeperRow, NoRow, NextOffset
  <2>2. keeper'[p] = captured[p] => table'[p] = Prefix(NextOffset(captured[p]))
    BY <1>1, StillCaptured DEF CaptureInv
  <2> QED
    BY <1>1, <2>1, <2>2, RowForward DEF CaptureInv
<1>2. ASSUME NEW c \in Connectors, CaptureKeeperRows(c) PROVE CaptureInv'
  <2>1. CASE captured' = captured
    BY <1>2, <2>1 DEF CaptureKeeperRows, CaptureInv, Captured, sinkVars, NextOffset
  <2>2. CASE captured' # captured
    <3> SUFFICES ASSUME NEW p \in Partitions, Captured(p)'
                 PROVE  /\ captured'[p].state \in {"NONE", "AFTER_PROCESSING"}
                        /\ NextOffset(captured'[p]) <= NextOffset(keeper[p])
                        /\ keeper[p].state = "BEFORE_PROCESSING" =>
                              NextOffset(captured'[p]) < NextOffset(keeper[p])
                        /\ keeper[p] = captured'[p] =>
                              table[p] = Prefix(NextOffset(captured'[p]))
      BY <1>2 DEF CaptureKeeperRows, CaptureInv, sinkVars, NextOffset
    <3>1. CASE ConnectorOf[p] # c
      BY <1>2, <2>2, <3>1 DEF CaptureKeeperRows, CaptureInv, Captured
    <3>2. CASE ConnectorOf[p] = c
      <4>1. captured'[p] = keeper[p] /\ Accepts(keeper[p], observed[p])
        BY <1>2, <2>2, <3>2 DEF CaptureKeeperRows, PartitionsOf
      <4>2. keeper[p] = NoRow => table[p] = Prefix(0) /\ NextOffset(NoRow) = 0
        <5>1. keeper[p] = NoRow => observed[p] = connOffset[p]
          BY <1>2, <3>2, SentinelAssumption DEF CaptureKeeperRows, LoopInv, PartitionsOf
        <5> QED
          BY <4>1, <5>1, OffsetsAreInt DEF SinkInv, Accepts, NextOffset, NoRow
      <4>3. keeper[p].state = "NONE" => keeper[p] = NoRow
        BY RowType DEF SinkTypeOK
      <4> QED
        BY <4>1, <4>2, <4>3, OffsetsAreInt DEF Accepts, SinkInv
    <3> QED
      BY <3>1, <3>2
  <2> QED
    BY <2>1, <2>2
<1>3. CASE SyncReplication
    BY <1>3 DEF SyncReplication, CaptureInv, Captured, captureVars, NextOffset
<1>4. CASE UNCHANGED <<sinkVars, captured>>
    BY <1>4 DEF CaptureInv, Captured, sinkVars, NextOffset
<1>5. CASE TimedStep
    BY <1>4, <1>5, JobLeavesSink DEF Job, SyncReplication, TimedStep, RequireRunning, Pause,
        WaitPaused, CaptureOffsets, CheckGroup, RequirePaused, ResumeGroup, HasNextGroup,
        FinalResume, CheckAll, CheckManifest, Commit, captureVars
<1>6. CASE QueryStep
    BY <1>2, <1>3, <1>4, <1>6 DEF QueryStep, RequireUnchangedKeeper, Acquire, PreCleanup,
        CloneCreate, CloneAttach, UploadBackup, RequireBackupCreated, Cleanup, captureVars
<1> QED
    BY <1>1, <1>4, <1>5, <1>6 DEF Next, Worker, Job, Terminate, Kill, Idle, vars, jobVars,
        captureVars

-----------------------------------------------------------------------------
(* The loops and places of the Job.                                          *)

\* Every step keeps the loops of the barrier inside the current group.
LEMMA LoopNext ==
    ASSUME TypeOK, SinkInv, LoopInv, [Next]_vars PROVE LoopInv'
<1> USE LayoutAssumption, SentinelAssumption
    DEF LoopInv, Preflight, Barrier, Publishing, Operation, Goto, Exits, BarrierFails,
        Finalizes, Visited, Succeeds, ConnectorsIn, PartitionsOf
<1>1. CASE Sink
    BY <1>1, RowForward
    DEF SinkInd, TypeOK, Sink, jobVars, loopVars, captureVars
<1>2. CASE UNCHANGED <<sinkVars, jobVars>>
    BY <1>2 DEF sinkVars, jobVars, loopVars, captureVars
<1>3. ASSUME NEW c \in Connectors,
             RequireRunning(c) \/ Pause(c) \/ WaitPaused(c) \/ CheckGroup(c)
      PROVE  LoopInv'
    BY <1>3 DEF RequireRunning, Pause, WaitPaused, CheckGroup
<1>4. ASSUME NEW c \in Connectors, CaptureOffsets(c) PROVE LoopInv'
    BY <1>4 DEF CaptureOffsets, sinkVars, TypeOK, DataTypeOK
<1>5. ASSUME NEW c \in Connectors, CaptureKeeperRows(c) PROVE LoopInv'
    BY <1>5 DEF CaptureKeeperRows
<1>6. ASSUME NEW c \in Connectors, RequirePaused(c) PROVE LoopInv'
    BY <1>6 DEF RequirePaused
<1>7. ASSUME NEW c \in Connectors, RequireUnchangedKeeper(c) PROVE LoopInv'
    BY <1>7 DEF RequireUnchangedKeeper
<1>8. ASSUME NEW c \in Connectors, ResumeGroup(c) PROVE LoopInv'
    BY <1>8 DEF ResumeGroup, HasNextGroup
<1>9. ASSUME NEW c \in Connectors, FinalResume(c) \/ CheckAll(c) \/ CheckManifest(c)
      PROVE  LoopInv'
    BY <1>9 DEF FinalResume, CheckAll, CheckManifest
<1>10. CASE Acquire \/ PreCleanup \/ SyncReplication \/ CloneCreate \/ CloneAttach
    BY <1>10 DEF Acquire, PreCleanup, SyncReplication, CloneCreate, CloneAttach
<1>11. CASE UploadBackup \/ RequireBackupCreated \/ Commit \/ Cleanup
    BY <1>11 DEF UploadBackup, RequireBackupCreated, Commit, Cleanup
<1>12. CASE Terminate \/ Kill
    BY <1>12 DEF Terminate, Kill
<1> QED
    BY <1>1, <1>2, <1>3, <1>4, <1>5, <1>6, <1>7, <1>8, <1>9, <1>10, <1>11, <1>12
    DEF Next, Worker, Job, TimedStep, QueryStep, Idle, vars, jobVars

\* Every step keeps what each place of the Job knows.
LEMMA PlaceNext ==
    ASSUME TypeOK, TypeOK', SinkInv, SinkInv', CaptureInv, LoopInv, PlaceInv, [Next]_vars
    PROVE  PlaceInv'
<1> USE LayoutAssumption, SentinelAssumption
    DEF PlaceInv, Exact, Captured, Preflight, Barrier, Publishing, Operation, Goto, Exits,
        BarrierFails, Finalizes, Visited, Succeeds, ConnectorsIn, PartitionsOf,
        PartitionsIn, TableOf, NextOffset, sinkVars, captureVars, cloneVars, resultVars
<1>1. CASE Sink
  <2>1. UNCHANGED <<pc, todo, group, captured, cloned, failed>>
    BY <1>1 DEF Sink, jobVars, loopVars, captureVars, cloneVars, resultVars
  <2>2. \A p \in Partitions :
            Captured(p) /\ keeper'[p] = captured[p] =>
                /\ keeper[p] = captured[p]
                /\ replica[p] = table[p] => replica'[p] = table'[p]
    BY <1>1, StillCaptured, RowForward DEF TypeOK, SinkInd
  <2> QED
    BY <2>1, <2>2
<1>2. CASE UNCHANGED <<sinkVars, jobVars>>
    BY <1>2 DEF jobVars, loopVars
<1>3. ASSUME NEW c \in Connectors,
             RequireRunning(c) \/ Pause(c) \/ WaitPaused(c) \/ CaptureOffsets(c)
      PROVE  PlaceInv'
    BY <1>3 DEF RequireRunning, Pause, WaitPaused, CaptureOffsets, LoopInv
<1>4. ASSUME NEW c \in Connectors, CaptureKeeperRows(c) PROVE PlaceInv'
  <2>1. pc = "capture" /\ c \in todo /\ GroupOf[c] = group
    BY <1>4 DEF CaptureKeeperRows, LoopInv
  <2>2. \A p \in Partitions : keeper[p].state # "UNREAD"
    BY RowType DEF TypeOK, SinkTypeOK
  <2>3. \A p \in Partitions :
            /\ TableOf(p) < group => captured'[p] = captured[p]
            /\ captured'[p] \in {keeper[p], captured[p]}
    BY <1>4, <2>1 DEF CaptureKeeperRows, TypeOK, LoopTypeOK, Groups
  <2>4. CASE pc' = "resume_group"
    BY <1>4, <2>3, <2>4 DEF CaptureKeeperRows
  <2>5. CASE /\ \A p \in PartitionsOf(c) : captured'[p] = keeper[p]
             /\ pc' = IF todo = {c} THEN "check_group" ELSE "capture"
             /\ todo' = IF todo = {c} THEN ConnectorsIn(group) ELSE todo \ {c}
    <3>1. \A p \in PartitionsIn(group) :
              ConnectorOf[p] = c \/ ConnectorOf[p] \notin todo => Captured(p)'
      BY <2>1, <2>2, <2>3, <2>5
    <3>2. \A p \in Partitions : TableOf(p) < group => Exact(p)'
      BY <1>4, <2>1, <2>3 DEF CaptureKeeperRows
    <3> QED
      BY <1>4, <2>5, <3>1, <3>2 DEF CaptureKeeperRows
  <2> QED
    BY <1>4, <2>4, <2>5 DEF CaptureKeeperRows
<1>5. ASSUME NEW c \in Connectors, CheckGroup(c) PROVE PlaceInv'
    BY <1>5 DEF CheckGroup, SinkInv
<1>6. ASSUME NEW c \in Connectors, RequirePaused(c) PROVE PlaceInv'
    BY <1>6 DEF RequirePaused
<1>7. ASSUME NEW c \in Connectors, RequireUnchangedKeeper(c) PROVE PlaceInv'
    BY <1>7 DEF RequireUnchangedKeeper, KeeperUnchanged
<1>8. ASSUME NEW c \in Connectors, ResumeGroup(c) PROVE PlaceInv'
  <2>1. \A p \in Partitions : Exact(p)' <=> Exact(p)
    BY <1>8 DEF ResumeGroup, HasNextGroup
  <2>2. failed' \/ ~failed
    BY <1>8 DEF ResumeGroup, HasNextGroup, Resume
  <2>3. \A p \in Partitions : TableOf(p) \in 1 .. NumGroups
    BY DEF Groups
  <2>4. group \in 1 .. NumGroups /\ NumGroups \in Nat
    BY DEF TypeOK, LoopTypeOK, Groups
  <2>5. ~failed => \A p \in Partitions : TableOf(p) <= group => Exact(p)
    BY <1>8, <2>3, <2>4 DEF ResumeGroup, HasNextGroup
  <2>6. CASE pc' = "resume_group" /\ group' = group
    BY <1>8, <2>1, <2>2, <2>5, <2>6 DEF ResumeGroup, HasNextGroup
  <2>7. CASE pc' = "final_resume"
    BY <2>7
  <2>8. CASE pc' = "pause" /\ group' = group + 1 /\ ~failed'
    BY <1>8, <2>1, <2>2, <2>3, <2>4, <2>5, <2>8 DEF ResumeGroup, HasNextGroup
  <2>9. CASE pc' = "check_all" /\ ~HasNextGroup /\ ~failed'
    BY <2>1, <2>2, <2>3, <2>4, <2>5, <2>9 DEF HasNextGroup
  <2> QED
    BY <1>8, <2>6, <2>7, <2>8, <2>9 DEF ResumeGroup
<1>9. ASSUME NEW c \in Connectors, FinalResume(c) \/ CheckAll(c) \/ CheckManifest(c)
      PROVE  PlaceInv'
    BY <1>9 DEF FinalResume, CheckAll, CheckManifest
<1>10. CASE Acquire \/ PreCleanup
    BY <1>10 DEF Acquire, PreCleanup, LoopInv, Groups
<1>11. CASE SyncReplication
    BY <1>11 DEF SyncReplication
<1>12. CASE CloneCreate
    BY <1>12 DEF CloneCreate
<1>13. CASE CloneAttach
  <2>1. /\ pc = "attach" /\ group \in Int
        /\ UNCHANGED <<keeper, table, replica, captured, group>>
    BY <1>13 DEF CloneAttach, TypeOK, LoopTypeOK, Groups
  <2>2. CASE pc' = "resume_group" /\ failed' /\ cloned' = cloned
    BY <2>1, <2>2
  <2>3. CASE /\ pc' = "recheck" /\ todo' = ConnectorsIn(group)
             /\ cloned' = [p \in Partitions |->
                              IF p \in PartitionsIn(group) THEN replica[p] ELSE cloned[p]]
    <3>1. \A p \in PartitionsIn(group) :
              Captured(p)' /\ (keeper[p] = captured[p] => Exact(p)')
      BY <2>1, <2>3 DEF CaptureInv
    <3>2. \A p \in Partitions : TableOf(p) < group => Exact(p)'
      BY <2>1, <2>3
    <3> QED
      BY <2>1, <2>3, <3>1, <3>2
  <2> QED
    BY <1>13, <2>2, <2>3 DEF CloneAttach
<1>14. CASE UploadBackup \/ RequireBackupCreated \/ Commit \/ Cleanup
    BY <1>14 DEF UploadBackup, RequireBackupCreated, Commit, Cleanup
<1>15. CASE Terminate \/ Kill
    BY <1>15 DEF Terminate, Kill
<1> QED
    BY <1>1, <1>2, <1>3, <1>4, <1>5, <1>6, <1>7, <1>8, <1>9, <1>10, <1>11, <1>12, <1>13,
       <1>14, <1>15
    DEF Next, Worker, Job, TimedStep, QueryStep, Idle, vars, jobVars

\* Every step keeps what the Job archived exact.
LEMMA ArchiveNext ==
    ASSUME TypeOK, LoopInv, PlaceInv, ArchiveInv, [Next]_vars PROVE ArchiveInv'
<1> USE LayoutAssumption, SentinelAssumption
    DEF ArchiveInv, Preflight, Barrier, Publishing, Operation, Goto, Exits,
        BarrierFails, Finalizes, Visited, Succeeds, captureVars, backupVars, NextOffset
<1>1. CASE UNCHANGED jobVars
    BY <1>1 DEF jobVars, loopVars
<1>2. ASSUME NEW c \in Connectors,
             RequireRunning(c) \/ Pause(c) \/ WaitPaused(c) \/ CaptureOffsets(c)
      PROVE  ArchiveInv'
    BY <1>2 DEF RequireRunning, Pause, WaitPaused, CaptureOffsets
<1>3. ASSUME NEW c \in Connectors,
             CaptureKeeperRows(c) \/ CheckGroup(c) \/ RequirePaused(c)
                \/ RequireUnchangedKeeper(c)
      PROVE  ArchiveInv'
    BY <1>3 DEF CaptureKeeperRows, CheckGroup, RequirePaused, RequireUnchangedKeeper
<1>4. ASSUME NEW c \in Connectors, ResumeGroup(c) PROVE ArchiveInv'
    BY <1>4 DEF ResumeGroup, HasNextGroup
<1>5. ASSUME NEW c \in Connectors, FinalResume(c) \/ CheckAll(c) \/ CheckManifest(c)
      PROVE  ArchiveInv'
    BY <1>5 DEF FinalResume, CheckAll, CheckManifest
<1>6. CASE Acquire \/ PreCleanup \/ SyncReplication \/ CloneCreate \/ CloneAttach
    BY <1>6 DEF Acquire, PreCleanup, SyncReplication, CloneCreate, CloneAttach
<1>7. CASE UploadBackup
    BY <1>7 DEF UploadBackup, PlaceInv, Exact
<1>8. CASE RequireBackupCreated \/ Commit \/ Cleanup
    BY <1>8 DEF RequireBackupCreated, Commit, Cleanup
<1>9. CASE Terminate \/ Kill
    BY <1>9 DEF Terminate, Kill
<1> QED
    BY <1>1, <1>2, <1>3, <1>4, <1>5, <1>6, <1>7, <1>8, <1>9
    DEF Next, Sink, Worker, Job, TimedStep, QueryStep, Idle, vars, jobVars

-----------------------------------------------------------------------------
(* The theorem.                                                              *)

\* The invariant holds initially.
LEMMA InitInv == Init => IInv
<1> SUFFICES ASSUME Init PROVE IInv
    OBVIOUS
<1>1. TypeOK /\ SinkInv
    BY InitTypes DEF SinkInd
<1>2. CaptureInv
    BY DEF Init, CaptureInv, Captured, Unread
<1>3. LoopInv
    BY DEF Init, LoopInv, Preflight
<1>4. PlaceInv
    BY DEF Init, PlaceInv, Barrier
<1>5. ArchiveInv
    BY DEF Init, ArchiveInv
<1> QED
    BY <1>1, <1>2, <1>3, <1>4, <1>5 DEF IInv

\* Every step keeps the invariant.
LEMMA NextInv == IInv /\ [Next]_vars => IInv'
<1> SUFFICES ASSUME IInv, [Next]_vars PROVE IInv'
    OBVIOUS
<1>1. TypeOK' /\ SinkInv'
    BY SinkNext, ConnectTypeNext, LoopTypeNext, DataTypeNext DEF IInv, TypeOK, SinkInd
<1>2. CaptureInv'
    BY <1>1, CaptureNext DEF IInv
<1>3. LoopInv'
    BY LoopNext DEF IInv
<1>4. PlaceInv'
    BY <1>1, PlaceNext DEF IInv
<1>5. ArchiveInv'
    BY ArchiveNext DEF IInv
<1> QED
    BY <1>1, <1>2, <1>3, <1>4, <1>5 DEF IInv

\* A committed manifest is exact: for every partition its archive holds exactly
\* the records below the offset it records, whatever happened during the Job.
THEOREM ManifestExact == Spec => []ManifestIsExact
<1>1. IInv => ManifestIsExact
    BY DEF IInv, ArchiveInv, ManifestIsExact
<1> QED
    BY <1>1, InitInv, NextInv, PTL DEF Spec

-----------------------------------------------------------------------------
(* Who is paused, and what a successful end means.                           *)

AllRunning == latePause = {} /\ \A c \in Connectors : target[c] = "RUNNING"

\* Preflight lets the Job pass only when every connector is asked to run; the
\* barrier pauses connectors of the current group alone, and the error of any
\* pause or resume is remembered in failed.
PauseInv ==
    /\ pc \in Preflight =>
          /\ group = 1 /\ latePause = {}
          /\ \A c \in Connectors : status[c] = "RUNNING" => target[c] = "RUNNING"
    /\ pc = "require_running" => \A c \in Connectors \ todo : target[c] = "RUNNING"
    /\ pc \in {"acquire", "precleanup"} => AllRunning
    /\ pc = "pause" => todo \subseteq ConnectorsIn(group)
    /\ pc \in Barrier \cup {"resume_group"} =>
          \A c \in Connectors :
              GroupOf[c] # group => target[c] = "RUNNING" /\ c \notin latePause
    /\ pc \in Barrier \/ (pc = "resume_group" /\ ~failed) => latePause = {}
    /\ pc = "resume_group" /\ ~failed =>
          \A c \in ConnectorsIn(group) \ todo : target[c] = "RUNNING"
    /\ pc \in Publishing => AllRunning
    /\ pc \in Finalizing \cup {"done"} /\ ~failed /\ outcome # "killed" => AllRunning /\ committed
    /\ outcome = "ok" => pc = "done" /\ ~failed
    /\ outcome # "none" => pc = "done"

\* Every step keeps it.
LEMMA PauseNext ==
    ASSUME TypeOK, PauseInv, [Next]_vars PROVE PauseInv'
<1> USE LayoutAssumption
    DEF PauseInv, AllRunning, Preflight, Barrier, Publishing, Operation, Finalizing, Goto,
        Exits, BarrierFails, Finalizes, Visited, Succeeds, ConnectorsIn, TypeOK,
        ConnectTypeOK, LoopTypeOK, Groups, resultVars, connectVars, backupVars
<1>1. CASE Sink \/ Idle
    BY <1>1 DEF Sink, Idle, vars, jobVars, loopVars
<1>2. CASE Worker
    BY <1>2 DEF Worker, TaskPauses, TaskResumes, LatePause, ExternalResume, jobVars, loopVars
<1>3. ASSUME NEW c \in Connectors, RequireRunning(c) PROVE PauseInv'
    BY <1>3 DEF RequireRunning
<1>4. ASSUME NEW c \in Connectors, Pause(c) PROVE PauseInv'
    BY <1>4 DEF Pause
<1>5. ASSUME NEW c \in Connectors, WaitPaused(c) \/ CaptureOffsets(c) \/ CaptureKeeperRows(c)
      PROVE  PauseInv'
    BY <1>5 DEF WaitPaused, CaptureOffsets, CaptureKeeperRows
<1>6. ASSUME NEW c \in Connectors,
             CheckGroup(c) \/ RequirePaused(c) \/ RequireUnchangedKeeper(c)
      PROVE  PauseInv'
    BY <1>6 DEF CheckGroup, RequirePaused, RequireUnchangedKeeper
<1>7. ASSUME NEW c \in Connectors, ResumeGroup(c) PROVE PauseInv'
  <2>1. /\ pc = "resume_group" /\ c \in todo /\ outcome' = outcome /\ cur' = NoConnector
        /\ UNCHANGED <<status, latePause, committed>>
        /\ \A d \in Connectors : target'[d] \in {target[d], "RUNNING"}
        /\ ~failed' => ~failed /\ target' = [target EXCEPT ![c] = "RUNNING"]
    BY <1>7 DEF ResumeGroup, HasNextGroup, Resume
  <2>2. CASE failed'
    BY <1>7, <2>1, <2>2 DEF ResumeGroup, HasNextGroup
  <2>3. CASE ~failed' /\ todo # {c}
    <3>1. pc' = pc /\ todo' = todo \ {c} /\ group' = group
      BY <1>7, <2>1, <2>3 DEF ResumeGroup, HasNextGroup
    <3> QED
      BY <2>1, <2>3, <3>1
  <2>4. CASE ~failed' /\ todo = {c}
    <3>1. AllRunning'
      BY <2>1, <2>4
    <3> QED
      BY <1>7, <2>1, <2>4, <3>1 DEF ResumeGroup, HasNextGroup
  <2> QED
    BY <2>2, <2>3, <2>4
<1>8. ASSUME NEW c \in Connectors, FinalResume(c) PROVE PauseInv'
    BY <1>8 DEF FinalResume, Resume
<1>9. ASSUME NEW c \in Connectors, CheckAll(c) \/ CheckManifest(c) PROVE PauseInv'
    BY <1>9 DEF CheckAll, CheckManifest
<1>10. CASE Acquire \/ PreCleanup \/ SyncReplication \/ CloneCreate \/ CloneAttach
    BY <1>10 DEF Acquire, PreCleanup, SyncReplication, CloneCreate, CloneAttach
<1>11. CASE UploadBackup \/ RequireBackupCreated
    BY <1>11 DEF UploadBackup, RequireBackupCreated
<1>12. CASE Commit
    BY <1>12 DEF Commit
<1>13. CASE Cleanup
    BY <1>13 DEF Cleanup
<1>14. CASE Terminate
    BY <1>14 DEF Terminate, AbandonsRequest
<1>15. CASE Kill
    BY <1>15 DEF Kill, AbandonsRequest
<1>16. CASE UNCHANGED vars
    BY <1>16 DEF vars, jobVars, loopVars
<1> QED
    BY <1>1, <1>2, <1>3, <1>4, <1>5, <1>6, <1>7, <1>8, <1>9, <1>10, <1>11, <1>12, <1>13,
       <1>14, <1>15, <1>16
    DEF Next, Job, TimedStep, QueryStep

\* It holds initially.
LEMMA InitPause == Init => PauseInv
    BY DEF Init, PauseInv, Preflight, Barrier, Publishing, Finalizing

\* While the operation runs, only connectors of the current table are held.
THEOREM PauseConfined == Spec => []PauseConfinedToOneTable
<1>1. TypeOK /\ SinkInv /\ PauseInv /\ [Next]_vars => (TypeOK /\ SinkInv /\ PauseInv)'
    BY SinkNext, ConnectTypeNext, LoopTypeNext, DataTypeNext, PauseNext DEF TypeOK, SinkInd
<1>2. Init => TypeOK /\ SinkInv /\ PauseInv
    BY InitTypes, InitPause DEF SinkInd
<1>3. PauseInv => PauseConfinedToOneTable
    BY DEF PauseInv, AllRunning, PauseConfinedToOneTable, Operation
<1> QED
    BY <1>1, <1>2, <1>3, PTL DEF Spec

\* A Job that exits successfully has committed and has left nothing paused.
THEOREM SuccessRestores == Spec => []SuccessLeavesRunning
<1>1. TypeOK /\ SinkInv /\ PauseInv /\ [Next]_vars => (TypeOK /\ SinkInv /\ PauseInv)'
    BY SinkNext, ConnectTypeNext, LoopTypeNext, DataTypeNext, PauseNext DEF TypeOK, SinkInd
<1>2. Init => TypeOK /\ SinkInv /\ PauseInv
    BY InitTypes, InitPause DEF SinkInd
<1>3. PauseInv => SuccessLeavesRunning
    BY DEF PauseInv, AllRunning, SuccessLeavesRunning
<1> QED
    BY <1>1, <1>2, <1>3, PTL DEF Spec

-----------------------------------------------------------------------------
(* Ingestion during the upload, and offsets that can be replayed.            *)

\* From the last snapshot to the commit no connector is held back.
THEOREM UploadIngests == Spec => []IngestingWhileUploading
<1>1. TypeOK /\ SinkInv /\ PauseInv /\ [Next]_vars => (TypeOK /\ SinkInv /\ PauseInv)'
    BY SinkNext, ConnectTypeNext, LoopTypeNext, DataTypeNext, PauseNext DEF TypeOK, SinkInd
<1>2. Init => TypeOK /\ SinkInv /\ PauseInv
    BY InitTypes, InitPause DEF SinkInd
<1>3. PauseInv => IngestingWhileUploading
    BY DEF PauseInv, AllRunning, IngestingWhileUploading
<1> QED
    BY <1>1, <1>2, <1>3, PTL DEF Spec

\* The captured offset of a partition is in its log.
Replayable(p) == NextOffset(captured[p]) \in logStart[p] .. LogEnd

\* What the last check has seen holds until Kafka removes a record of the
\* partition, which is then in trimmed.
ReplayInv ==
    /\ pc = "check_manifest" =>
          \A p \in Partitions \ trimmed : ConnectorOf[p] \notin todo => Replayable(p)
    /\ pc = "commit" => \A p \in Partitions \ trimmed : Replayable(p)
    /\ committed =>
          /\ pc \in {"final_resume", "cleanup", "done"}
          /\ \A p \in Partitions \ trimmed : Replayable(p)

\* The sink does not touch what was captured, and the log start only where the
\* partition is trimmed.
LEMMA SinkKeepsReplayable ==
    ASSUME TypeOK, ReplayInv, Sink PROVE ReplayInv'
<1>1. /\ UNCHANGED <<pc, todo, captured, committed>>
      /\ \A p \in Partitions : LastChecked(p) /\ p \notin trimmed' =>
            p \notin trimmed /\ logStart'[p] = logStart[p]
    BY DEF Sink, jobVars, loopVars, captureVars, backupVars, PutBegin, PutRetry, PutInsert,
           PutEnd, PutFail, CommitOffset, Replicate, Retain, TypeOK, SinkTypeOK
<1>2. \A p \in Partitions : LastChecked(p) /\ p \notin trimmed' /\ Replayable(p) => Replayable(p)'
    BY <1>1 DEF Replayable, NextOffset
<1> QED
    BY <1>1, <1>2 DEF ReplayInv, LastChecked

\* Every step keeps it.
LEMMA ReplayNext ==
    ASSUME TypeOK, ReplayInv, [Next]_vars PROVE ReplayInv'
<1> USE DEF ReplayInv, Replayable
<1>1. CASE Sink
    BY <1>1, SinkKeepsReplayable
<1>2. CASE Worker \/ UNCHANGED vars
    BY <1>2 DEF Worker, vars, sinkVars, jobVars, loopVars, captureVars, backupVars, NextOffset
<1>3. ASSUME NEW c \in Connectors, CheckManifest(c) PROVE ReplayInv'
  <2>1. UNCHANGED <<logStart, trimmed, captured, committed>> /\ ~committed
    BY <1>3 DEF CheckManifest, sinkVars, captureVars, backupVars
  <2>2. CASE OffsetsReplayable(c) /\ Visited(c, "commit", {})
    <3>1. \A p \in Partitions : ConnectorOf[p] = c => Replayable(p)
      BY <2>2, LayoutAssumption DEF OffsetsReplayable, InsideLog, PartitionsOf, TypeOK,
         SinkTypeOK, DataTypeOK, NextOffset, KeeperRow, NoRow, Unread
    <3> QED
      BY <1>3, <2>1, <2>2, <3>1 DEF CheckManifest, Visited, Goto, NextOffset
  <2>3. CASE Finalizes(TRUE)
    BY <2>1, <2>3 DEF Finalizes, Goto
  <2> QED
    BY <1>3, <2>2, <2>3 DEF CheckManifest
<1>4. CASE Commit
    BY <1>4 DEF Commit, Finalizes, Goto, sinkVars, captureVars, NextOffset
<1>5. CASE RequireBackupCreated
    BY <1>5, LayoutAssumption DEF RequireBackupCreated, Finalizes, Goto, backupVars
<1>6. CASE TimedStep
    BY <1>3, <1>4, <1>6 DEF TimedStep, RequireRunning, Pause, WaitPaused, CaptureOffsets,
        CheckGroup, RequirePaused, ResumeGroup, FinalResume, CheckAll, Visited, Goto, Exits,
        BarrierFails, Finalizes, sinkVars, captureVars, backupVars, NextOffset
<1>7. CASE QueryStep
    BY <1>5, <1>7 DEF QueryStep, CaptureKeeperRows, RequireUnchangedKeeper, Acquire,
        PreCleanup, SyncReplication, CloneCreate, CloneAttach, UploadBackup, Cleanup, Visited,
        Goto, Exits, BarrierFails, Finalizes, sinkVars, captureVars, backupVars, NextOffset
<1>8. CASE Terminate \/ Kill
    BY <1>8 DEF Terminate, Kill, Preflight, Operation, Barrier, Publishing, Goto, Finalizes,
        sinkVars, captureVars, backupVars, NextOffset
<1> QED
    BY <1>1, <1>2, <1>6, <1>7, <1>8 DEF Next, Job, Idle

\* Every offset of a committed manifest was in its log when it was checked last, and
\* is unless Kafka has removed records since.
THEOREM OffsetsReplayed == Spec => []RecordedOffsetsReplayable
<1>1. TypeOK /\ SinkInv /\ ReplayInv /\ [Next]_vars => (TypeOK /\ SinkInv /\ ReplayInv)'
    BY SinkNext, ConnectTypeNext, LoopTypeNext, DataTypeNext, ReplayNext DEF TypeOK, SinkInd
<1>2. Init => TypeOK /\ SinkInv /\ ReplayInv
    BY InitTypes DEF SinkInd, Init, ReplayInv
<1>3. ReplayInv => RecordedOffsetsReplayable
    BY DEF ReplayInv, Replayable, RecordedOffsetsReplayable
<1> QED
    BY <1>1, <1>2, <1>3, PTL DEF Spec


-----------------------------------------------------------------------------
(* An operator's pause.                                                      *)

\* A Job that finds a connector paused never gets past its first loop: the paused
\* connector stays to be visited, and a visit ends the Job.
HeldBack(c) ==
    /\ pc \in {"require_running", "done"}
    /\ pc = "require_running" => c \in todo
    /\ target[c] = "PAUSED" /\ status[c] = "PAUSED"

\* As long as nobody else resumes it, no step does.
LEMMA HeldBackNext ==
    ASSUME "interference" \notin Faults, NEW c \in Connectors, ConnectTypeOK, HeldBack(c),
           [Next]_vars
    PROVE  HeldBack(c)'
<1>1. CASE Sink
    BY <1>1 DEF HeldBack, Sink, connectVars, jobVars, loopVars
<1>2. CASE Worker
  <2>1. PICK d \in Connectors :
            \/ TaskPauses(d) \/ TaskResumes(d) \/ LatePause(d) \/ ExternalResume(d)
    BY <1>2 DEF Worker
  <2>2. pc' = pc /\ todo' = todo
    BY <1>2 DEF Worker, jobVars, loopVars
  <2>3. target'[c] = "PAUSED" /\ status'[c] = "PAUSED"
    BY <2>1 DEF HeldBack, ConnectTypeOK, TaskPauses, TaskResumes, LatePause, ExternalResume
  <2> QED
    BY <2>2, <2>3 DEF HeldBack
<1>3. ASSUME NEW d \in Connectors, RequireRunning(d) PROVE HeldBack(c)'
  <2>1. pc = "require_running" /\ c \in todo /\ UNCHANGED <<target, status>>
    BY <1>3 DEF RequireRunning, HeldBack, connectVars
  <2>2. CASE Exits
    BY <2>1, <2>2 DEF Exits, Goto, HeldBack
  <2>3. CASE status[d] = "RUNNING" /\ Visited(d, "acquire", {})
    <3>1. d # c
      BY <2>3 DEF HeldBack
    <3> QED
      BY <2>1, <2>3, <3>1 DEF Visited, HeldBack
  <2> QED
    BY <1>3, <2>2, <2>3 DEF RequireRunning
<1>4. CASE Terminate \/ Kill
  <2>1. /\ pc' = "done" /\ UNCHANGED connectVars
    BY <1>4 DEF HeldBack, Terminate, Kill, AbandonsRequest, Goto, Preflight, Operation, Barrier,
       Publishing
  <2> QED
    BY <2>1 DEF HeldBack, connectVars
<1>5. CASE UNCHANGED vars
    BY <1>5 DEF HeldBack, vars, connectVars, jobVars, loopVars
<1>6. CASE TimedStep
    BY <1>3, <1>6 DEF HeldBack, TimedStep, Pause, WaitPaused, CaptureOffsets, CheckGroup,
       RequirePaused, ResumeGroup, FinalResume, CheckAll, CheckManifest, Commit
<1>7. CASE QueryStep
  <2>1. QueryStep => pc \notin {"require_running", "done"}
    BY DEF QueryStep, CaptureKeeperRows, RequireUnchangedKeeper, Acquire, PreCleanup,
       SyncReplication, CloneCreate, CloneAttach, UploadBackup, RequireBackupCreated, Cleanup
  <2> QED
    BY <1>7, <2>1 DEF HeldBack
<1> QED
    BY <1>1, <1>2, <1>4, <1>5, <1>6, <1>7 DEF Next, Job, Idle

\* Whatever fails, is executed late or ends the Job, a connector that was paused when
\* the Job started stays requested to pause, unless somebody else resumes it.
THEOREM PauseRespected ==
    ASSUME "interference" \notin Faults
    PROVE  Spec => OperatorPauseRespected
<1>1. ASSUME NEW c \in Connectors
      PROVE  Spec => (target[c] = "PAUSED" => [](target[c] = "PAUSED"))
  <2>1. Init /\ target[c] = "PAUSED" => HeldBack(c)
    BY DEF Init, HeldBack
  <2>2. ConnectTypeOK /\ HeldBack(c) /\ [Next]_vars => HeldBack(c)'
    BY HeldBackNext
  <2>3. HeldBack(c) => target[c] = "PAUSED"
    BY DEF HeldBack
  <2>4. TypeOK => ConnectTypeOK
    BY DEF TypeOK
  <2> QED
    BY <2>1, <2>2, <2>3, <2>4, TypeCorrect, PTL DEF Spec
<1> QED
    BY <1>1 DEF OperatorPauseRespected
=============================================================================
