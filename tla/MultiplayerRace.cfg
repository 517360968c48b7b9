\* A singleplayer and a multiplayer start in the same tick.
SPECIFICATION Spec
CONSTANTS
    Conns = {c1, c2, c3}
    u1 = u1  u2 = u2  g1 = g1
    Users = {u1, u2}
    Games = {g1}
    Hellos <- OneGameHellos
    MaxSlots = 2
    MinPlayers = 2
    MaxPlayers = 2
    None = None
INVARIANTS MultiplayerExclusive
