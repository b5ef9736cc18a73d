SPECIFICATION FairSpec
CONSTANTS
    Addr = {a1, a2}
    MaxPending = 1
    Streams = {s1, s2, s3}
    Nobody = Nobody
    NoStream = NoStream
    Removes = TRUE
PROPERTIES EveryPeerServed
CHECK_DEADLOCK FALSE
