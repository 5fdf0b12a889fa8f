CONSTANTS
    d1 = d1
    d2 = d2
    role = role
    Device = {d1, d2}
    Role = role
    Rank <- Order
    None = None
    Mixed = Mixed
    MaxFaults = 1
    MaxEdits = 0
SPECIFICATION Spec
INVARIANTS
    CompleteIsLoaded
