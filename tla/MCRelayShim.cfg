CONSTANTS
    FailureThreshold = 5
    HalfOpenFailureThreshold = 3
    SuccessThreshold = 1
    RecoveryTimeout = 3
    MaxPending = 2
SPECIFICATION FairSpec
INVARIANTS
    OutcomeCounts
    HalfOpenNotStuck
PROPERTIES
    KeepsPromise
    Recovers
