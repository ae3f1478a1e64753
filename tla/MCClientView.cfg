CONSTANTS
    here = here
    other = other
    spot = spot
    elsewhere = elsewhere
    ann = ann
    bob = bob
    Pages = {"world", "chats", "pulse"}
    Spots = {spot, elsewhere}
    Mine = {elsewhere}
    People = {ann, bob}
    Questions = {"metadata"}
    MaxLate = 1
    RelayList <- MCRelayList
    Lists <- MCLists
    Here = here
    MaxConcurrent = 1
    Cooldown = 1
    BackoffBase = 1
    BackoffMax = 2
    Notes <- MCNotes
    Answers <- MCAnswers
    Followed = {ann}
    Window = 1
SPECIFICATION FairSpec
INVARIANTS
    AnswersLandWhereAsked
    ThreadIsOfBeacon
    NeverBlank
    FeedListsEachOnce
    EveryRelayHasAPlace
PROPERTY EveryRelayIsAskedAgain
