\* A table each; requests fail, are abandoned and executed late, the Job
\* is ended, Kafka trims its log at any time.
SPECIFICATION Spec
CONSTANTS
    c1 = c1
    c2 = c2
    p1 = p1
    p2 = p2
    Connectors = {c1, c2}
    Partitions = {p1, p2}
    ConnectorOf <- PairConnectorOf
    NumGroups = 2
    GroupOf <- SplitGroupOf
    Replicated <- SplitReplicated
    LogEnd = 1
    InitialOffsets = {0, 1}
    Faults = {"connect", "clickhouse", "kafka", "late", "retention", "signal",
              "kill"}
INVARIANTS
    IngestingWhileUploading
    PauseConfinedToOneTable
    SuccessLeavesRunning
    RecordedOffsetsReplayable
PROPERTIES
    OperatorPauseRespected
