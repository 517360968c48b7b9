\* Two connections and one slot; liveness, so without symmetry.
SPECIFICATION FairSpec
CONSTANTS
    Conns = {c1, c2}
    u1 = u1  u2 = u2  g1 = g1
    Users = {u1, u2}
    Games = {g1}
    Hellos <- OneSlotHellos
    MaxSlots = 1
    MinPlayers = 2
    MaxPlayers = 2
    None = None
INVARIANTS CapacityHeld
PROPERTIES HelloSettled StopCompletes
