SPECIFICATION Spec
CONSTANTS
    Clients <- MCClients
    Addrs = {a1, a2}
    Replicas = {a2}
    Redirects = {{"moved"}, {"ask"}}
    Loads <- MCLoads
    MaxRedirects = 1
    MaxReq = 2
    NoAddr = NoAddr
INVARIANTS PendingMatchesWire OwnRepliesInOrder AskingAdjacent
PROPERTY Answered
CHECK_DEADLOCK FALSE
