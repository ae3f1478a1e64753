CONSTANTS
    Places = {p1, p2}
    MicOnJoin = FALSE
    MayFail = {"token"}
    MaxJoins = 2
    MaxToggles = 1
SPECIFICATION Spec
INVARIANTS
    ShownIsLive
CHECK_DEADLOCK FALSE
