\* Two connections of two streams share one permit; no symmetry: temporal properties.
SPECIFICATION FairSpec
CONSTANTS
    k1 = k1
    k2 = k2
    s1 = s1
    s2 = s2
    Conn <- TwoConns
    Stream <- TwoStreams
    MaxConcurrentStreams = 1
    Floor = 1
    Factor = 2
    None = None
INVARIANTS TypeOK PermitsConserved ActiveStreamsKept
PROPERTIES ShutdownEnds NothingLeftBehind EveryConnectionAnswered ServerPromised
