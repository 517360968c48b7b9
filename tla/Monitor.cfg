\* A player and a viewer, resets and mute ends; safety and liveness.
CONSTANTS
    Players = {p1}
    Viewers = {v1}
    Single = FALSE
    Grace = 1
    Timeout = 0
    Startup = 0
    MaxInbox = 1
    Cuts = {"reset", "mute"}
    NoClient = NoClient
SPECIFICATION FairSpec
INVARIANTS TypeOK EndsForCause
PROPERTIES OnlySilentTimedOut NoTakeover  
CHECK_DEADLOCK FALSE
