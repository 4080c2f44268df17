CONSTANTS
    t1 = t1
    t2 = t2
    h1 = h1
    h2 = h2
    Threads = {t1, t2}
    Foreign = {f1}
    Handlers = {h1, h2}
    None = None
    Loads <- AllLoads
SPECIFICATION FairSpec
INVARIANTS
    TypeOK
    SenderWaits
    NoOneOversleeps
    NoLockCycle
    ClearedEverywhere
PROPERTIES
    SendsComplete
    LoopsSettle
CHECK_DEADLOCK FALSE
