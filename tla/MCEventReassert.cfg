SPECIFICATION FairEventSpec
CONSTANTS
    NULL = NULL
    Batch = 1
    BufferCap = 2
    MaxEvents = 2
    MaxOpens = 2
    MaxDisruptions = 0
PROPERTIES
    ReassertedApplication
CHECK_DEADLOCK FALSE
