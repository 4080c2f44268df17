CONSTANTS
    MaxSockets = 2
    Connects = {"EINPROGRESS", "error"}
SPECIFICATION FairSpec
INVARIANTS
    TypeOK
    ClosedIsQuiet
    EventsTrue
    FailsOnlyByRace
PROPERTIES
    Served
    WakeUpReturns
