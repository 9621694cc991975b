SPECIFICATION Spec
CONSTANTS
    Callers = {p1, p2}
    Size = 2
    ChanCap = 1
    MaxBatch = 2
    MaxRetry = 1
    MaxDown = 2
    Removal = TRUE
INVARIANTS OwnReply NoRequestLost RetriesBounded
PROPERTY Returns
CHECK_DEADLOCK FALSE
