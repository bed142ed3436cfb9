SPECIFICATION Spec
CONSTANTS
    d0 = d0
    d1 = d1
    d2 = d2
    NoDevice = NoDevice
    Devices = {d0}
    Absent = {}
    RequestKinds <- AnyText
    MaxRequests = 2
    ResponseSizes = {1, 2, 4}
    FaultKinds = {"lose", "duplicate", "overtake", "restart", "recvError"}
    MaxFaults = 1
    SpuriousTimeouts = FALSE
    StackJunk = TRUE
    SessionMod = 4
    MaxCount = 3
    MaxRetransmissions = 1
    QueueCap = 4
INVARIANTS TypeOK AckedMeansAccepted OwnResponse
CHECK_DEADLOCK FALSE
