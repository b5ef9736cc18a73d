SPECIFICATION Spec
CONSTANTS
    Half = 16
    KeepAlive = 2
    Interval = 1
    IdleCheck = 30
    Rto = 2
    NoDelay = TRUE
    NoCongestion = TRUE
    ProbeInit = 2
    ProbeLimit = 3
    HighWater = 1
    DeadLinkMax = 3
    Rtt = 1
    Late = 0
    MaxLost = 1
    Origins = {22, 28}
    MaxTicks = 60
INVARIANT VanishedPeerDetected
CHECK_DEADLOCK FALSE
