SPECIFICATION FairSpec
CONSTANTS
    Calls = {"write", "flush", "shutdown", "close", "drop", "cancel"}
    IsServer = FALSE
    FeederFails = TRUE
    DeadLink = TRUE
    SendHighWater = 1
    SndWnd = 1
    RcvWnd = 1
    CmdCap = 1
    SendCap = 1
    InputCap = 1
    DataCap = 1
    MaxFrags = 1
    MaxWrites = 1
    MaxPeer = 0
PROPERTIES EndsWhenAsked CallsReturn
CHECK_DEADLOCK FALSE
