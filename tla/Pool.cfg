\* Two addresses, three callers, no symmetry: temporal properties.
SPECIFICATION FairSpec
CONSTANTS
    c1 = c1
    c2 = c2
    c3 = c3
    a1 = a1
    a2 = a2
    Addr <- TwoAddrs
    Caller <- ThreeCallers
    Err = Err
    NoReply = NoReply
INVARIANTS TypeOK SingleFlight NoLostWaiter OneOpenPerAddress RightConnection
PROPERTIES LiveEntryKept SharedOutcome EveryCallerAnswered
