SPECIFICATION LifetimeSpec
CONSTANTS
    NULL = NULL
    Connections = {c1}
    MaxRuns = 2
    MaxNotices = 0
PROPERTIES
    ReplacementUntouched
CHECK_DEADLOCK FALSE
