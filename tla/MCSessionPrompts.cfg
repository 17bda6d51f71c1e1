SPECIFICATION PromptSpec
CONSTANTS
    NULL = NULL
    Sessions = {s1, s2}
    Timers = {t1}
    Limits = {1}
    Sources = {s1}
    PageSize = 1
    MaxDeliveries = 2
    MaxChanges = 2
    MaxRemovals = 1
    MaxCrashes = 1
INVARIANTS
    PromptTypeOK
    AdmittedWithinLimit
    FailedNeverRan
    RemovalSettles
PROPERTIES
    Drained
CHECK_DEADLOCK FALSE
