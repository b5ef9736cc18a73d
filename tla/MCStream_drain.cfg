SPECIFICATION Spec
CONSTANTS
    Calls = {"read", "shutdown"}
    IsServer = FALSE
    FeederFails = FALSE
    DeadLink = FALSE
    SendHighWater = 1
    SndWnd = 1
    RcvWnd = 1
    CmdCap = 1
    SendCap = 1
    InputCap = 1
    DataCap = 1
    MaxFrags = 1
    MaxWrites = 0
    MaxPeer = 2
INVARIANTS NeverDroppedAfterAck
CHECK_DEADLOCK FALSE
