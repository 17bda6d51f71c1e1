SPECIFICATION PoolSpec
CONSTANTS
    NULL = NULL
    Conversations = {c1}
    Accounts = {p1, p2}
    Services = {}
    Recipes = {r1, r2}
    Sizes = {1}
    Requests = {q1}
    MaxRecords = 2
    MaxCrashes = 1
INVARIANTS
    PoolTypeOK
    SandboxesAccounted
    AttachmentsOwned
PROPERTIES
    CreatesWithinTarget
    TargetReached
CHECK_DEADLOCK FALSE
