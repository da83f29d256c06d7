\* Deadline before the response headers: the forwarder runs on.
SPECIFICATION Spec
CONSTANTS
    r1 = r1
    r2 = r2
    Call <- TwoCalls
    MaxAttempts = 1
    Limit = 1
    Remote = Remote
    Err = Err
    NoReply = NoReply
INVARIANTS DeadlineStopsForwarder
