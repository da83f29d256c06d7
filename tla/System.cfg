\* Two calls of two attempts, one handler at a time, one restart; no symmetry: temporal properties.
SPECIFICATION Spec
CONSTANTS
    Calls = 2
    MaxAttempts = 2
    Limit = 1
    MaxFaults = 2
INVARIANTS TypeOK AtMostOnce FailedWhileRunning
PROPERTIES EveryCallEnds Recovered
