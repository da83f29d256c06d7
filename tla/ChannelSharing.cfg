\* Two calls of two attempts run at once and share the pool.
SPECIFICATION Spec
CONSTANTS
    r1 = r1
    r2 = r2
    Call <- TwoCalls
    MaxAttempts = 2
    Limit = 2
    Remote = Remote
    Err = Err
    NoReply = NoReply
SYMMETRY CallSymmetry
INVARIANTS TypeOK PermitsConserved ForwarderStopped
PROPERTIES NoRetryOnDeadConnection ClientPromised
