\* A handler ends in a graceful shutdown, and the close overtakes its response.
SPECIFICATION Spec
CONSTANTS
    Calls = 2
    MaxAttempts = 2
    Limit = 1
    MaxFaults = 1
INVARIANTS GracefulDelivers
