SPECIFICATION ReasoningSpec
CONSTANTS
    s1 = s1
    e1 = e1
    e2 = e2
    m1 = m1
    m2 = m2
    f1 = f1
    NULL = NULL
    Sessions <- MCSessions
    Excluded <- MCExcluded
    ExecutionIds <- MCExecutionIds
    ClientMsgIds <- MCClientMsgIds
    Fingerprints <- MCFingerprints
    AttemptIds <- MCAttemptIds
    ExecutionReasons <- MCExecutionReasons
    AttemptReasons <- MCAttemptReasons
    Stages <- MCStages
    NextStages <- MCNextStages
    MaxGeneration = 2
    MaxEvents = 0
    MaxCrashes = 1
    MaxFailures = 1
INVARIANTS
    DispatchedAtMostOnce
    UncertainWorkConfirmed
    StopReachesLiveRun
SYMMETRY MCSymmetry
CHECK_DEADLOCK FALSE
