CONSTANTS
    Keys = {k1}
    Limit = 3
    Window = 4
    Second = 2
    MaxTime = 12
SPECIFICATION LimiterSpec
INVARIANTS
    WindowRespected
    RefusalsFair
    RetryAfterSuffices
