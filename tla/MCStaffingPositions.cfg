CONSTANTS
    People = {ann}
    Positions = {p}
    None = None
    EndOfTime = 2
    Capacities = {1}
    Shares = {1}
    Reporting = TRUE
    InDateOrder = TRUE
    Ops = {"create", "create_auto", "update_auto", "rescind", "create_position", "update_position", "correct_position", "rescind_position", "shift_position", "delete_position"}
SPECIFICATION Spec
SYMMETRY Symmetry
CHECK_DEADLOCK FALSE
INVARIANTS PositionsExist ReportsAcyclic
