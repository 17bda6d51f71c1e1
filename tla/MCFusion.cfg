SPECIFICATION ReasoningSpec
CONSTANTS
    s1 = s1
    e1 = e1
    m1 = m1
    f2 = f2
    f1 = f1
    NULL = NULL
    Sessions <- MCSessions
    Excluded <- MCExcluded
    ExecutionIds <- MCExecutionIds
    ClientMsgIds <- MCClientMsgIds
    Fingerprints <- MCFingerprints
    AttemptIds <- MCAttemptIds
    ExecutionReasons <- MCExecutionReasons
    AttemptReasons <- MCAttemptReasons
    Stages <- MCStages
    NextStages <- MCNextStages
    MaxGeneration = 1
    MaxEvents = 0
    MaxCrashes = 2
    MaxFailures = 1
INVARIANTS
    ReasoningTypeOK
    CompletionAgreed
PROPERTIES
    StopFences
    RunsSettle
    RecoveryCompletes
CHECK_DEADLOCK FALSE
