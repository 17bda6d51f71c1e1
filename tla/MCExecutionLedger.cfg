SPECIFICATION Spec
CONSTANTS
    s1 = s1
    e1 = e1
    e2 = e2
    m1 = m1
    f1 = f1
    f2 = f2
    a1 = a1
    a2 = a2
    NULL = NULL
    Sessions <- MCSessions
    Excluded <- MCExcluded
    ExecutionIds <- MCExecutionIds
    ClientMsgIds <- MCClientMsgIds
    Fingerprints <- MCFingerprints
    AttemptIds <- MCAttemptIds
    ExecutionReasons <- MCExecutionReasons
    AttemptReasons <- MCAttemptReasons
    MaxGeneration = 2
    MaxEvents = 6
    MaxCrashes = 1
INVARIANTS
    TypeOK
    NoOrphanedAttempt
    OneExecutionPerMessage
    LogRebuildsTables
PROPERTIES
    OutcomeIsFinal
    ImplementsLifecycle
SYMMETRY MCSymmetry
CHECK_DEADLOCK FALSE
