CONSTANTS
    HALF = 32
    Period = 3
    MaxLate = 2
SPECIFICATION Spec
INVARIANTS
    HeartbeatInv
    SilenceBounded
    ElapsedMeasured
    ImplementationsAgree
PROPERTIES
    NoEarlyClose
