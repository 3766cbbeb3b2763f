\* Two backups and a recovery, live or to any kind of target, of a table with three
\* partitions: every kind of KeeperMap row, interrupted attempts, a trimmed log, a
\* growing topic.
SPECIFICATION Spec
CONSTANTS
    MaxSigned = 3
    Pipelines <- ThreePipelines
    RecoveredTable = "a"
    LogEnd <- MCLogEnd
    Modes = {"PointInTime", "Follow"}
    Requests <- MCRequests
    OddRows <- MCOddRows
    MaxBackups = 2
    MaxRetries = 1
    Faults = {"put", "rows", "retention", "growth"}
VIEW View
INVARIANTS
    TypeOK
    PublishedOffsetsExact
    CheckpointsStayValid
    ChainStaysValid
    FollowStartsAtEnd
    CompleteIsAsRequested
    ConflictIsTransient
