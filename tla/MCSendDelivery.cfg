SPECIFICATION DeliverySpec
CONSTANTS
    Msgs <- TwoMsgs
    Reviewed <- Second
    ProviderBound <- First
    Scope <- OneDraft
    NULL = NULL
    MaxEntries = 2
    StorageFails = TRUE
    MaxDisruptions = 1
    MaxCrashes = 1
INVARIANTS
    DeliveryTypeOK
    DispatchedOnce
    AcceptanceHolds
    DispatchedInOrder
    InterruptionsSurface
    ReviewedRetained
CHECK_DEADLOCK FALSE
