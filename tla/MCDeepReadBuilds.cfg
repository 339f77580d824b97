CONSTANTS
    Commands = {c1, c2}
    Readers = {r1}
    None = None
    Keep = 1
    QuietPrune = TRUE
    MaxBuilds = 3
    MaxWrites = 2
    MaxLost = 1
SPECIFICATION Spec
SYMMETRY Symmetry
CHECK_DEADLOCK FALSE
INVARIANTS TypeOK ActiveIsWhole ReadsAreWhole
PROPERTIES NeverDark BuildsMoveForward
