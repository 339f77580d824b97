CONSTANTS
    Msgs = {m1, m2}
    Relays = {r1, r2}
    NoClaim = NoClaim
    MaxAttempts = 2
    BatchSize = 2
    DeadRetention = TRUE
    Prompt = FALSE
    Poison = {m2}
    MaxFaults = 1
    MaxReplays = 0
    NoOne = NoOne
    MaxConnLosses = 1
SPECIFICATION FairLeaderSpec
INVARIANTS LeaderTypeOK OneLiveLeader OverlapNeedsLostConn OldLeaderIsBehind
PROPERTY TakeoverSettles
CHECK_DEADLOCK FALSE
