SPECIFICATION Spec
CONSTANTS
    d0 = d0
    d1 = d1
    d2 = d2
    NoDevice = NoDevice
    Devices = {d0}
    Absent = {}
    RequestKinds <- Short
    MaxRequests = 5
    ResponseSizes = {1, 3}
    FaultKinds = {"lose", "duplicate", "overtake", "recvError"}
    MaxFaults = 1
    SpuriousTimeouts = FALSE
    StackJunk = FALSE
    SessionMod = 8
    MaxCount = 3
    MaxRetransmissions = 1
    QueueCap = 12
INVARIANTS ForwardedIsExecuted ForwardedWhole
CHECK_DEADLOCK FALSE
