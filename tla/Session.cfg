SPECIFICATION Spec
CONSTANTS
    Addrs = {"a", "b"}
    PoolCap = 1
    Uses <- MCSessions
    MaxReq = 6
    MaxMoved = 1
INVARIANTS InOrderAfterWatch NothingOvertakes TxQueued Guarded DedicatedConns
PROPERTY Answered
CHECK_DEADLOCK FALSE
