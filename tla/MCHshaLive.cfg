CONSTANTS
    Users = {u1, u2}
    Cmds = {c1}
    None = None
    Scenarios <- LiveScenarios
SPECIFICATION FairSpec
PROPERTIES
    TasksDrain
    Reconnects
CHECK_DEADLOCK FALSE
