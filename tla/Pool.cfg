SPECIFICATION Spec
CONSTANTS
    Procs = {g1, g2, g3}
    MaxSize = 2
    MaxRefused = 1
    g1 = g1
    g2 = g2
    g3 = g3
INVARIANTS
    Accounting
    NoLostWakeup
    OwnReply
PROPERTIES
    Woken
CHECK_DEADLOCK FALSE
