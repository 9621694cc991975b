SPECIFICATION Spec
CONSTANTS
    Loops <- MCLoops
    Conns <- MCConns
    LoopOf <- MCLoopOf
    Plans <- MCPlans
    PoolCap = 1
    MaxClock = 2
INVARIANTS
    SameRequests
    Counted
    ClientsBounded
PROPERTY
    Served
CHECK_DEADLOCK FALSE
