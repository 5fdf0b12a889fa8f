CONSTANTS
    StallThreshold = 2
    MaxOthers = 1
    MaxDying = 1
    MaxEvents = 1
SPECIFICATION FairSpec
INVARIANTS
    TypeOK
    RegistrationsJudged
    DataSourceFirst
    ExitsQuiet
    SetupStopsStored
PROPERTIES
    Readvertises
CHECK_DEADLOCK FALSE
