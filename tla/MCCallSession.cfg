CONSTANTS
    Places = {p1, p2}
    MicOnJoin = TRUE
    MayFail = {"token", "connect", "drop", "device"}
    MaxJoins = 3
    MaxToggles = 2
SPECIFICATION Spec
INVARIANTS
    TypeOK
    OnlyHeldRoomIsOpen
    ShowsNewestJoin
    ShownIsLiveUnlessJoinFailed
    ShownMicIsMic
CHECK_DEADLOCK FALSE
