SPECIFICATION Spec
CONSTANTS
    MaxReq = 3
    MaxFan = 2
INVARIANTS
    InOrder
    HeadNotReady
PROPERTIES
    ImplementsOrderedReplies
    Answered
CHECK_DEADLOCK FALSE
