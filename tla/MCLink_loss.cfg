SPECIFICATION Spec
CONSTANTS
    Half = 16
    MtuCfg = 3
    Overhead = 1
    SndWnd = 2
    RcvWnd = 1
    WndRcv = 1
    Nodelay = TRUE
    Interval = 1
    Resend = 1
    NoCwnd = FALSE
    MaxRetries = 3
    StreamMode = TRUE
    RtoDef = 1
    MinRto = 1
    RtoMax = 4
    ProbeInit = 1
    ProbeLimit = 2
    ThreshInit = 2
    ThreshMin = 2
    FastackLimit = 5
    IdleWait = 30
    A = A
    B = B
    Writers = {A}
    Conv = 1
    Sizes = {1, 3}
    Isn = 0
    Epoch = 0
    Stray <- NoStray
    MaxSeg = 2
    MaxTime = 2
    MaxNet = 2
    MaxDup = 0
    MaxAck = 0
INVARIANTS CwndPositive
PROPERTIES GivingUpAgrees Scheduled AtoBReliable
CHECK_DEADLOCK FALSE
