SPECIFICATION Spec
CONSTANTS
    Half = 11
    KeepAlive = 3
    Interval = 1
    IdleCheck = 30
    Rto = 2
    NoDelay = FALSE
    NoCongestion = FALSE
    ProbeInit = 2
    ProbeLimit = 3
    HighWater = 1
    DeadLinkMax = 3
    Rtt = 1
    Late = 1
    MaxLost = 1
    Origins = {0}
    MaxTicks = 20
INVARIANT VanishedPeerDetected
PROPERTY LivePeerKept
CHECK_DEADLOCK FALSE
