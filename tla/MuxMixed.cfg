SPECIFICATION Spec
CONSTANTS
    Clients <- MCClients
    Addrs = {a1, a2}
    Replicas = {a2}
    Redirects = {{"moved", "ask"}}
    Loads <- MCOneEach
    MaxRedirects = 1
    MaxReq = 2
    NoAddr = NoAddr
INVARIANT OwnRepliesInOrder
CHECK_DEADLOCK FALSE
