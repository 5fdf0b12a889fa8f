CONSTANTS
    u1 = u1
    u2 = u2
    a1 = a1
    a2 = a2
    UID = {u1, u2}
    App = {a1, a2}
    AppOf <- Apps2
    DesktopId = {d1, d2}
    NoUid = NoUid
    NoApp = NoApp
    NoHandle = NoHandle
    NoContent = NoContent
    NoAttributes = NoAttributes
    MaxPending = 1
    MaxHandles = 1
    MaxApps = 1
    LastVersion <- Texts2
    MaxFragments = 1
    MaxSessions = 1
SPECIFICATION Spec
INVARIANTS
    RemovedIsClosed
CHECK_DEADLOCK FALSE
