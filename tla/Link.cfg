\* Two slots and two users; a session can be followed by another.
CONSTANTS
    Slots = {0, 1}
    Users = {u1, u2}
    Systems = {"netplay", "coreless"}
    MaxId = 3
    None = None
SPECIFICATION FairSpec
INVARIANTS TypeOK   
PROPERTIES  RelaunchLands
CHECK_DEADLOCK FALSE
