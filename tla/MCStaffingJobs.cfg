CONSTANTS
    People = {ann, bob}
    Positions = {p, q}
    None = None
    EndOfTime = 1
    Capacities = {1, 2}
    Shares = {1}
    Reporting = FALSE
    InDateOrder = TRUE
    Ops = {"create", "update", "correct", "rescind", "delete", "create_position", "update_position", "correct_position", "rescind_position"}
SPECIFICATION Spec
SYMMETRY Symmetry
CHECK_DEADLOCK FALSE
INVARIANTS TypeOK WithinCapacity
