\* Two connectors share a replicated table; somebody else resumes connectors, puts
\* fail, ClickHouse may hang, the deadline terminates the Job.
SPECIFICATION FairSpec
CONSTANTS
    c1 = c1
    c2 = c2
    p1 = p1
    p2 = p2
    Connectors = {c1, c2}
    Partitions = {p1, p2}
    ConnectorOf <- PairConnectorOf
    NumGroups = 1
    GroupOf <- SharedGroupOf
    Replicated <- SharedReplicated
    LogEnd = 2
    InitialOffsets = {1}
    Faults = {"clickhouse", "interference", "put", "signal"}
INVARIANTS
    TypeOK
    ManifestIsExact
PROPERTIES
    IngestionRestored
