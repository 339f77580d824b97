CONSTANTS
    Msgs = {m1, m2}
    Relays = {r1, r2}
    NoClaim = NoClaim
    MaxAttempts = 2
    BatchSize = 2
    DeadRetention = TRUE
    Prompt = FALSE
    Poison = {}
    MaxFaults = 1
    MaxReplays = 1
SPECIFICATION Spec
SYMMETRY Symmetry
INVARIANTS TypeOK UniqueAttempt AttemptsCounted PublishedDelivered NothingLost
PROPERTIES NoAttemptReused ImplementsAtLeastOnce
CHECK_DEADLOCK FALSE
