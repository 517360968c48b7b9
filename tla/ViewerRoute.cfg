\* A late viewer of one session and the player of another get one client id.
CONSTANTS
    Sessions = {s1, s2}
    Players = {p1, p2}
    Viewers = {v1}
    Nobody = Nobody
    Presses = {}
    Rest = Rest
    IdLimit = 4
    MaxClients = 1
    GateHolds = FALSE
    MaxSamples = 0
    MaxInFlight = 0
    MaxTime = 0
    Copies = 2
SPECIFICATION Spec
SYMMETRY Symmetry
INVARIANT RoutesHome
CHECK_DEADLOCK FALSE
