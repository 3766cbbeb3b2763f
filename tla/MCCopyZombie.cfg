\* Controllers fail, die and overlap while Kafka trims the source and the replay
\* topic is deleted.
SPECIFICATION Spec
CONSTANTS
    Copiers = {k1, k2}
    NumPartitions = 2
    Records <- GappedRecords
    Start <- GappedStart
    Target <- GappedTarget
    BatchRecords = 2
    MaxEpoch = 3
    Faults = {"fail", "crash", "zombie", "retention", "deletion"}
SYMMETRY SameCopiers
INVARIANTS
    TypeOK
    CopiedExactly
