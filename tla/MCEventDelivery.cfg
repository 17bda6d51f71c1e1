SPECIFICATION FairEventSpec
CONSTANTS
    NULL = NULL
    Batch = 1
    BufferCap = 1
    MaxEvents = 2
    MaxOpens = 1
    MaxDisruptions = 1
INVARIANTS
    EventTypeOK
    RenderedInOrder
    CursorIsShown
    NothingGivenUp
PROPERTIES
    CatchesUp
CHECK_DEADLOCK FALSE
