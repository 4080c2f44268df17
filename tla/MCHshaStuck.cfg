CONSTANTS
    Users = {u1}
    Cmds = {c1}
    None = None
    Scenarios <- StuckScenarios
SPECIFICATION FairSpec
PROPERTIES
    Reconnects
CHECK_DEADLOCK FALSE
