\* A viewer's connection is reset.
CONSTANTS
    Players = {p1}
    Viewers = {v1}
    Single = TRUE
    Grace = 1
    Timeout = 1
    Startup = 1
    MaxInbox = 1
    Cuts = {"reset"}
    NoClient = NoClient
SPECIFICATION Spec
INVARIANT ViewersHarmless
CHECK_DEADLOCK FALSE
