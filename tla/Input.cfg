\* Two singleplayer sessions, a viewer, three client ids.
CONSTANTS
    Sessions = {s1, s2}
    Players = {p1, p2}
    Viewers = {v1}
    Nobody = Nobody
    Presses = {}
    Rest = Rest
    IdLimit = 3
    MaxClients = 1
    GateHolds = FALSE
    MaxSamples = 1
    MaxInFlight = 2
    MaxTime = 2
    Copies = 2
SPECIFICATION Spec
SYMMETRY Symmetry
INVARIANTS TypeOK RoutesLive 
PROPERTIES NoRewind 
CHECK_DEADLOCK FALSE
