CONSTANTS
    op = op
    alice = alice
    room1 = room1
    People = {op, alice}
    Operator = op
    Rooms = {room1}
    ProofTypes = {"oauth"}
    GeohashRooms = {}
    CohortRooms = {}
    DefaultMediaJoinProofs = {}
    Room = room1
    Callers = {alice}
    Requests = {r1}
    Handlers = {h1, h2}
    RowInputs <- Inputs
    MaxRows = 3
SYMMETRY HandlersAlike
SPECIFICATION Spec
INVARIANT LiveRightsWereGranted
PROPERTY AnsweredIsOver
CHECK_DEADLOCK FALSE
