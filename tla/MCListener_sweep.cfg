SPECIFICATION Spec
CONSTANTS
    Addr = {a1, a2}
    MaxPending = 2
    Streams = {s1, s2, s3}
    Nobody = Nobody
    NoStream = NoStream
    Removes = TRUE
PROPERTIES SweepsOnlyClosed
CHECK_DEADLOCK FALSE
