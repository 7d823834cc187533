CONSTANTS
    U64Max = 5
    OneInBps = 4
    None = None
    Amounts = {1, 2, 5}
    Limits = {0, 1, 3, 5}
    MaxTime = 4
    MaxHistory = 12
SPECIFICATION Spec
INVARIANTS
    TypeOK
    ThroughputBound
    Inv
PROPERTY ImplementsTokenBucket
