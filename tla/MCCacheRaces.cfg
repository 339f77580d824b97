CONSTANTS
    Procs = {p1, p2}
    Keys = {k1}
    Readers = {r1}
    Writers = {w1, w2}
    Kinds = {"plain", "nested"}
    Missing = Missing
    None = None
    Takeovers = TRUE
    MaxWrites = 2
SPECIFICATION Spec
SYMMETRY Symmetry
INVARIANTS
    TypeOK
    OutdatedOnlyByRace
