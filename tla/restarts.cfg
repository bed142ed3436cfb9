SPECIFICATION RestartSpec
CONSTANTS
    d0 = d0
    d1 = d1
    d2 = d2
    NoDevice = NoDevice
    Devices = {d0}
    Absent = {}
    RequestKinds <- AnyText
    MaxRequests = 3
    ResponseSizes = {1, 2}
    FaultKinds = {"restart", "duplicate", "overtake"}
    MaxFaults = 2
    SpuriousTimeouts = FALSE
    StackJunk = FALSE
    SessionMod = 4
    MaxCount = 3
    MaxRetransmissions = 1
    QueueCap = 4
INVARIANTS SessionPairing BufferInOrder
CHECK_DEADLOCK FALSE
