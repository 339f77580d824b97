CONSTANTS
    Msgs = {m1, m2}
    Relays = {r1, r2, r3}
    NoClaim = NoClaim
    MaxAttempts = 3
    BatchSize = 2
    DeadRetention = TRUE
    Prompt = TRUE
    Poison = {m2}
    MaxFaults = 2
    MaxReplays = 0
SPECIFICATION FairSpec
INVARIANT AtMostOneHolder
PROPERTIES NoDispatchAfterPublish EventuallySettled GoodDelivered
CHECK_DEADLOCK FALSE
