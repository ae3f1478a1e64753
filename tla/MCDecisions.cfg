CONSTANTS
    op = op
    alice = alice
    room1 = room1
    People = {op, alice}
    Operator = op
    Rooms = {room1}
    ProofTypes = {"oauth"}
    GeohashRooms = {}
    CohortRooms = {}
    DefaultMediaJoinProofs = {}
    Requests = {r1}
    Handlers = {h1}
    AdminInputs <- DecisionInputs
    Queries <- DecisionQueries
    StoreFails = FALSE
    Crashes = FALSE
    MaxRows = 3
SPECIFICATION Spec
INVARIANTS
    TypeOK
    AllowedHadStanding
    AllowedPassedGates
    IssuedGrantsBacked
    AnsweredAsAtOnce
