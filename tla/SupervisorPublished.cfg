CONSTANTS
    LastBackoff = 1
    StallThresholds <- CodeThresholds
    FailureLimit = 2
    MaxDisturbances = 2
SPECIFICATION Spec
INVARIANTS
    PublishedReadyIsSubscribed
CHECK_DEADLOCK FALSE
