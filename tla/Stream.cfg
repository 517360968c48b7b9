\* Two players and a viewer, two levels; safety and the end of cutovers.
CONSTANTS
    Players = {p1, p2}
    Viewers = {v1}
    MaxLevel = 2
    AutoMax = 1
    None = None
SPECIFICATION FairSpec
INVARIANTS TypeOK StagingOwned AppliedBelow
PROPERTIES RaisedForPlayer ToldWhereSent CutoverSettles
