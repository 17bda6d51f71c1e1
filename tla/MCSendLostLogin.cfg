SPECIFICATION DeliverySpec
CONSTANTS
    Msgs <- TwoMsgs
    Reviewed <- None
    ProviderBound <- None
    Scope <- OneDraft
    NULL = NULL
    MaxEntries = 2
    StorageFails = FALSE
    MaxDisruptions = 1
    MaxCrashes = 0
INVARIANTS
    RejectedNotDispatched
CHECK_DEADLOCK FALSE
