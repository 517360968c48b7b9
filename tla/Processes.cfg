\* Two hosts and three sessions of one slot number.
CONSTANTS
    h1 = h1  h2 = h2  s1 = s1  s2 = s2  s3 = s3
    Hosts = {h1, h2}
    Sessions = {s1, s2, s3}
    Slots = {0}
    None = None
SPECIFICATION Spec
SYMMETRY Symmetry
INVARIANTS TypeOK 
PROPERTY ReapsSpare
