CONSTANTS
    Devices = {d1}
    None = None
    Loads <- AllLoads
SPECIFICATION FairSpec
INVARIANTS
    TypeOK
    ReportedOnce
    PlatesKept
PROPERTIES
    Settles
    Resubscribed
CHECK_DEADLOCK FALSE
