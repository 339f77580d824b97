CONSTANTS
    Procs = {p1, p2}
    Keys = {k1}
    Readers = {r1}
    Writers = {w1}
    Kinds = {"plain", "nested"}
    Missing = Missing
    None = None
    Takeovers = FALSE
    MaxWrites = 2
SPECIFICATION FairSpec
PROPERTY LeaderRefreshed
