SPECIFICATION Spec
CONSTANTS
    Calls = {"write", "send", "query", "recv", "shutdown", "drop"}
    IsServer = TRUE
    FeederFails = TRUE
    DeadLink = FALSE
    SendHighWater = 1
    SndWnd = 1
    RcvWnd = 2
    CmdCap = 1
    SendCap = 1
    InputCap = 1
    DataCap = 1
    MaxFrags = 2
    MaxWrites = 2
    MaxPeer = 1
INVARIANTS GracefulEnd MemoryBounded Lingers
PROPERTIES OutgoingReliable EofFinal
CHECK_DEADLOCK FALSE
