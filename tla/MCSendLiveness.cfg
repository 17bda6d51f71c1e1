SPECIFICATION DeliverySpec
CONSTANTS
    Msgs <- TwoMsgs
    Reviewed <- None
    ProviderBound <- None
    Scope <- OneDraft
    NULL = NULL
    MaxEntries = 2
    StorageFails = FALSE
    MaxDisruptions = 1
    MaxCrashes = 1
INVARIANTS
    FollowUpsShareSession
PROPERTIES
    PromptsSettle
CHECK_DEADLOCK FALSE
