CONSTANTS
    Users = {u1, u2}
    Cmds = {c1}
    None = None
    Scenarios <- TaskScenarios
SPECIFICATION Spec
SYMMETRY Symmetry
INVARIANTS
    TaskAccounted
    HandlesDistinct
    AnswerIsOwn
CHECK_DEADLOCK FALSE
