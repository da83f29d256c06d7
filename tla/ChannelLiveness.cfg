\* Two calls of two attempts queue for one permit; no symmetry: a temporal property.
SPECIFICATION Spec
CONSTANTS
    r1 = r1
    r2 = r2
    Call <- TwoCalls
    MaxAttempts = 2
    Limit = 1
    Remote = Remote
    Err = Err
    NoReply = NoReply
PROPERTIES EveryCallEnds DeadlineHonoured
