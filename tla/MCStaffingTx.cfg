CONSTANTS
    People = {ann, bob}
    Positions = {p, q}
    None = None
    EndOfTime = 1
    Capacities = {1, 2}
    Shares = {1}
    Reporting = FALSE
    InDateOrder = FALSE
    Ops = {"create", "update", "rescind", "correct_position"}
    Txs = {t1, t2}
SPECIFICATION TxSpec
SYMMETRY Symmetry
CHECK_DEADLOCK FALSE
INVARIANTS NoWaitCycle
PROPERTY Serializable
