CONSTANTS
    MaxPosts = 2
    MaxPulls = 2
    MaxRestarts = 1
    MaySlip = TRUE
SPECIFICATION NoteSpec
INVARIANTS
    ShownOnce
PROPERTIES
    PostsStay
CHECK_DEADLOCK FALSE
