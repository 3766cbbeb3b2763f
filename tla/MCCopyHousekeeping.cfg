\* One controller; Kafka trims both topics and forgets the progress.
SPECIFICATION Spec
CONSTANTS
    Copiers = {k1}
    NumPartitions = 2
    Records <- GappedRecords
    Start <- GappedStart
    Target <- GappedTarget
    BatchRecords = 2
    MaxEpoch = 2
    Faults = {"fail", "retention", "expiry", "replay retention"}
PROPERTIES
    SuccessIsComplete
