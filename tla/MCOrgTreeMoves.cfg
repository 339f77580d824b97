CONSTANTS
    Nodes = {root, a, b, c}
    Root = root
    None = None
    EndOfTime = 2
    Ops = {"create", "move", "correct_move"}
    Discipline = {"date_order", "outside_subtree"}
SPECIFICATION Spec
SYMMETRY Symmetry
CHECK_DEADLOCK FALSE
INVARIANTS TypeOK PathsFollowTree Acyclic HintMatchesEdge NeverRefused
