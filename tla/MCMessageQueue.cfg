CONSTANTS
    HALF = 16
    Clients = {p1, p2}
    Handlers = {h1}
    Consumer = Consumer
    None = None
    Waits <- ForeverAnd2
    Delays = {1, 2}
    MaxPosts = 3
    StartTime = 1
    MaxTime = 2
SPECIFICATION Spec
SYMMETRY ClientSymmetry
INVARIANTS
    TypeOK
    NoLostWakeup
    DelayCovered
    NeverEarly
    PostOrder
    DestroyedUnreachable
PROPERTIES
    DelayedOrder
