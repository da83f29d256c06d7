\* A stream without headers stalls a stream with headers.
SPECIFICATION FairSpec
CONSTANTS
    k1 = k1
    k2 = k2
    s1 = s1
    s2 = s2
    Conn <- OneConn
    Stream <- TwoStreams
    MaxConcurrentStreams = 1
    Floor = 64
    Factor = 4
    None = None
PROPERTIES SlowStreamHarmless
