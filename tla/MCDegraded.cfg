CONSTANTS
    op = op
    alice = alice
    room1 = room1
    People = {op, alice}
    Operator = op
    Rooms = {room1}
    ProofTypes = {"social"}
    GeohashRooms = {room1}
    CohortRooms = {room1}
    DefaultMediaJoinProofs = {}
    Requests = {r1}
    Handlers = {h1, h2}
    AdminInputs <- DegradedInputs
    Queries <- TokenQueries
    StoreFails = TRUE
    Crashes = TRUE
    MaxRows = 2
SPECIFICATION Spec
INVARIANTS
    AllowedWasNotBlocked
    AllowedHadRoom
    AuthorityRooted
