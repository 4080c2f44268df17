CONSTANTS
    Payloads <- Framing
    TempSize = 7
    DEFAULT_SIZE = 8
    TxRoom = 6
    Loads <- InOrOut
    MaxBacklog = 3
SPECIFICATION FairSpec
INVARIANTS
    NoPacketLeft
    BuffersFit
PROPERTIES
    InboundChannel
    OutboundChannel
    RequestsFlushed
CHECK_DEADLOCK FALSE
