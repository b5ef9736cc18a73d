SPECIFICATION Spec
CONSTANTS
    Half = 8
    MtuCfg = 2
    Overhead = 1
    SndWnd = 2
    RcvWnd = 2
    WndRcv = 2
    Nodelay = TRUE
    Interval = 1
    Resend = 1
    NoCwnd = FALSE
    MaxRetries = 9
    StreamMode = FALSE
    RtoDef = 1
    MinRto = 1
    RtoMax = 4
    ProbeInit = 2
    ProbeLimit = 3
    ThreshInit = 2
    ThreshMin = 2
    FastackLimit = 5
    IdleWait = 30
    A = A
    B = B
    Writers = {B}
    Conv = 1
    Sizes = {1, 2, 3}
    Isn = 15
    Epoch = 15
    Stray <- ForeignPush
    MaxSeg = 3
    MaxTime = 1
    MaxNet = 2
    MaxDup = 1
    MaxAck = 0
INVARIANTS TypeOK SafetyInv PiecesInOrder AckedDataHeld FullQueueReadable WithinWindows
PROPERTIES BtoAReliable
