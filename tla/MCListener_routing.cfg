SPECIFICATION Spec
CONSTANTS
    Addr = {a1, a2, a3}
    MaxPending = 2
    Streams = {s1, s2, s3, s4}
    Nobody = Nobody
    NoStream = NoStream
    Removes = FALSE
INVARIANTS LiveStreamRouted Bookkeeping
CHECK_DEADLOCK FALSE
SYMMETRY AddrSymmetry
