CONSTANTS
    d1 = d1
    d2 = d2
    role = role
    Device = {d1, d2}
    Role = role
    Rank <- Order
    None = None
    Mixed = Mixed
    MaxFaults = 2
    MaxEdits = 1
SPECIFICATION Spec
INVARIANTS
    TypeOK
    AllOrNothing
    LoadedUnlessTorn
    RetrySucceeds
PROPERTIES
    
    ConfigurationGoesLast
    KeepsPromise
