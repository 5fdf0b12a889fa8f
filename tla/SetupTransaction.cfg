CONSTANTS
    d1 = d1
    d2 = d2
    Device = {d1, d2}
    NoDevice = NoDevice
    Found <- BothOff
    Named <- First
    MaxCalls = 2
    MaxSent = 2
SPECIFICATION FairSpec
INVARIANTS
    TypeOK
    CleanedUp
    OnlyConfirmedAccepted
    WaitersAreAsked
PROPERTIES
    CommitIsEarned
    Ends
CHECK_DEADLOCK FALSE
