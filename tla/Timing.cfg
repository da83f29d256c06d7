\* u64s end at 31 and Instants at 15 seconds; gRPC allows values up to 2.
SPECIFICATION Spec
CONSTANTS
    svc = svc
    other = other
    addr1 = addr1
    addr2 = addr2
    None = None
    Policies <- SomePolicies
    Targets <- SomeTargets
    Literals <- SomeLiterals
    Resolvers <- SomeResolvers
    Headers <- SomeHeaders
    Latency <- SomeLatency
    U64 = 31
    InstantSecs = 15
    SpecMax = 2
    Hour = 6
    Minute = 3
    Second = 8
    Milli = 4
    Micro = 2
INVARIANTS TypeOK TimeoutHonest BackoffsExact
