\* A recovery of two source connectors, to a target or live; requests fail, the
\* controller and ClickHouse die, restores and tasks fail, replay topics are trimmed,
\* and the user resumes connectors.
SPECIFICATION FairSpec
CONSTANTS
    NumConnectors = 2
    Modes = {"PointInTime", "Follow"}
    Start <- PairStart
    Target <- PairTarget
    LogEnd <- PairEnd
    MaxFailures = 3
    Faults = {"fail", "crash", "restore", "amnesia", "task", "retention", "cutover"}
INVARIANTS
    TypeOK
    InsertedOnce
    FollowContinuesDestination
    CompleteAtTarget
    ReplayVerified
PROPERTIES
    RecoveryEnds
