CONSTANTS
    Clients = {c1, c2}
    MaxCalls = 2
    MaxSeconds = 1
SPECIFICATION FairSpec
INVARIANTS
    LaterCallsAddNothing
    ShownWasStored
PROPERTY
    CallsEnd
CHECK_DEADLOCK FALSE
