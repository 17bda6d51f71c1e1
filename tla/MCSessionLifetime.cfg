SPECIFICATION LifetimeSpec
CONSTANTS
    NULL = NULL
    Connections = {c1, c2}
    MaxRuns = 2
    MaxNotices = 1
INVARIANTS
    SessionTypeOK
    KeysOwned
PROPERTIES
    LeavingEnds
CHECK_DEADLOCK FALSE
