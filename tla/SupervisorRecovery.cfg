CONSTANTS
    LastBackoff = 1
    StallThresholds <- CodeThresholds
    FailureLimit = 2
    MaxDisturbances = 2
SPECIFICATION FairSpec
INVARIANTS
    TypeOK
    SessionsAgree
    ReadyMeansSubscribed
    StatusIsCurrent
    RefreshesAreSpaced
PROPERTIES
    Recovers
CHECK_DEADLOCK FALSE
