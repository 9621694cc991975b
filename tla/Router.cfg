SPECIFICATION Spec
CONSTANTS
    Nodes <- MCNodes
    Jobs <- MCJobs
    Existing <- MCExisting
    Crc <- MCCrc
    Slots <- MCSlots
    Layouts <- MCLayouts
    MaxRedirects = 2
    MaxRetry = 1
    IdxBits = 2
    Bits = 4
    MaxEvents = 3
INVARIANTS
    KeyedReplyTrue
    AllMastersReplyTrue
    GroupsOfOneSlot
    ScanComplete
PROPERTY
    Replies
CHECK_DEADLOCK FALSE
