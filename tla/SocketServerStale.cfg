CONSTANTS
    MaxSockets = 1
    Connects = {"EINPROGRESS"}
SPECIFICATION Spec
PROPERTIES
    SetsAsRequested
