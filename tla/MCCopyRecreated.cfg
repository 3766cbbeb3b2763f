\* One controller; the replay topic is deleted; nothing else fails.
SPECIFICATION Spec
CONSTANTS
    Copiers = {k1}
    NumPartitions = 1
    Records <- SingleRecords
    Start <- SingleStart
    Target <- SingleTarget
    BatchRecords = 2
    MaxEpoch = 3
    Faults = {"deletion"}
PROPERTIES
    SuccessIsComplete
