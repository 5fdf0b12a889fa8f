CONSTANTS
    d1 = d1
    d2 = d2
    p1 = p1
    p2 = p2
    Device = {d1, d2}
    None = None
    Mixed = Mixed
    Pid = {p1, p2}
    NoPid = NoPid
    NoStatus = NoStatus
    MaxStarts = 2
SPECIFICATION LifecycleSpec
SYMMETRY LifecycleSymmetry
INVARIANTS
    LifecycleTypeOK
    NotStaleIsLive
    TornDownIsStopped
