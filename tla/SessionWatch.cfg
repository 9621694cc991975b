SPECIFICATION Spec
CONSTANTS
    Addrs = {"a", "b"}
    PoolCap = 1
    Uses <- MCPipelinedWatch
    MaxReq = 4
    MaxMoved = 0
INVARIANT InOrder
CHECK_DEADLOCK FALSE
