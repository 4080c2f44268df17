CONSTANTS
    Users = {u1}
    Cmds = {c1}
    None = None
    Scenarios <- CloseScenarios
SPECIFICATION Spec
INVARIANTS
    ClosedStaysClosed
CHECK_DEADLOCK FALSE
