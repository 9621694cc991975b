SPECIFICATION Spec
CONSTANTS
    Nodes = {1, 2, 3}
    Members = {1, 2, 3}
    Seeds = {1, 2}
    Requests = {"r"}
    MaxRedirects = 1
    Changes = {"reshard", "crash", "leave"}
    MaxChange = 2
    None = None
INVARIANTS EntryPointsFollow TriggerNotLost PoolsRemoved
PROPERTY Converges
