SPECIFICATION Spec
CONSTANTS
    Clients = {c1, c2}
    Channels = {"x"}
    Cmds = {"subscribe", "psubscribe", "bare", "unsubscribe", "punsubscribe", "all", "pall", "reset"}
    MayFail = {"dial", "loss"}
    MaxReq = 3
    MaxPub = 1
INVARIANTS Indexed OnlySubscribed SubscribeAcknowledged StillSubscribed DeliveredOnce
CHECK_DEADLOCK FALSE
SYMMETRY Symmetry
