SPECIFICATION ProxyFairSpec
CONSTANTS
    d0 = d0
    d1 = d1
    d2 = d2
    NoDevice = NoDevice
    Devices = {d0}
    Absent = {}
    RequestKinds <- Short
    MaxRequests = 2
    ResponseSizes = {1, 2}
    FaultKinds = {"restart"}
    MaxFaults = 1
    SpuriousTimeouts = TRUE
    StackJunk = FALSE
    SessionMod = 4
    MaxCount = 2
    MaxRetransmissions = 1
    QueueCap = 3
INVARIANTS AckedMeansAccepted OwnResponse
PROPERTIES SendDataEnds
CHECK_DEADLOCK FALSE
