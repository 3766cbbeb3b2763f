\* One request of a bounded recovery fails.
SPECIFICATION FairSpec
CONSTANTS
    NumConnectors = 1
    Modes = {"PointInTime"}
    Start <- SingleStart
    Target <- SingleTarget
    LogEnd <- SingleEnd
    MaxFailures = 1
    Faults = {"fail"}
PROPERTIES
    ReconciliationIsRetryable
