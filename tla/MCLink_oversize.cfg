SPECIFICATION Spec
CONSTANTS
    Half = 16
    MtuCfg = 3
    Overhead = 1
    SndWnd = 2
    RcvWnd = 2
    WndRcv = 2
    Nodelay = TRUE
    Interval = 1
    Resend = 1
    NoCwnd = FALSE
    MaxRetries = 9
    StreamMode = TRUE
    RtoDef = 1
    MinRto = 1
    RtoMax = 4
    ProbeInit = 2
    ProbeLimit = 3
    ThreshInit = 2
    ThreshMin = 2
    FastackLimit = 5
    IdleWait = 30
    A = A
    B = B
    Writers = {A}
    Conv = 1
    Sizes = {1, 7}
    Isn = 0
    Epoch = 0
    Stray <- NoStray
    MaxSeg = 4
    MaxTime = 1
    MaxNet = 2
    MaxDup = 1
    MaxAck = 0
PROPERTIES RejectedSendLeavesQueue
