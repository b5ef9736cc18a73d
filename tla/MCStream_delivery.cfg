SPECIFICATION DeliverySpec
CONSTANTS
    Calls = {"write", "send", "read", "cancel"}
    IsServer = FALSE
    FeederFails = FALSE
    DeadLink = FALSE
    SendHighWater = 1
    SndWnd = 1
    RcvWnd = 2
    CmdCap = 1
    SendCap = 1
    InputCap = 1
    DataCap = 1
    MaxFrags = 2
    MaxWrites = 2
    MaxPeer = 2
INVARIANTS TypeOK InboundIntact
PROPERTIES IncomingReliable AllRead AllDelivered
CHECK_DEADLOCK FALSE
