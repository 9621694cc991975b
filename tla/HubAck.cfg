SPECIFICATION Spec
CONSTANTS
    Clients = {c1, c2}
    Channels = {"x"}
    Cmds = {"subscribe", "unsubscribe"}
    MayFail = {}
    MaxReq = 3
    MaxPub = 0
INVARIANT Acknowledged
CHECK_DEADLOCK FALSE
