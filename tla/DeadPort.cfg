\* A promoted player and a layout of the shared pipeline.
CONSTANTS
    Players = {p1}
    Viewers = {v1}
    MaxLevel = 3
    AutoMax = 2
    None = None
SPECIFICATION Spec
INVARIANT EndpointLive
