CONSTANTS
    Nodes = {root, a, b}
    Root = root
    None = None
    EndOfTime = 2
    Ops = {"create", "move", "correct_move", "update", "shift", "delete_slice", "delete_edge", "rescind"}
    Discipline = {"date_order", "outside_subtree", "settled_undo"}
SPECIFICATION Spec
SYMMETRY Symmetry
CHECK_DEADLOCK FALSE
INVARIANTS Acyclic NoOrphans
PROPERTY HistoryUnchanged
