CONSTANTS
    Users = {u1}
    Cmds = {c1}
    None = None
    Scenarios <- LateScenarios
SPECIFICATION Spec
INVARIANTS
    OnlyOwnMessage
CHECK_DEADLOCK FALSE
