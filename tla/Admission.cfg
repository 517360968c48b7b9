\* Three connections of two users race for two slots; safety and refinement.
SPECIFICATION Spec
CONSTANTS
    Conns = {c1, c2, c3}
    u1 = u1  u2 = u2  g1 = g1 
    Users = {u1, u2}
    Games = {g1}
    Hellos <- OneGameHellos
    MaxSlots = 2
    MinPlayers = 2
    MaxPlayers = 2
    None = None
SYMMETRY ConnSymmetry
INVARIANTS TypeOK SingleLiveWriter HubPointsToLiveSlots NothingLost
PROPERTIES SeatsReserved ImplementsProfileLock
