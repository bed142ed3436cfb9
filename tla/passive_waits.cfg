SPECIFICATION FairSpec
CONSTANTS
    d0 = d0
    d1 = d1
    d2 = d2
    NoDevice = NoDevice
    Devices = {d0}
    Absent = {}
    RequestKinds <- Short
    MaxRequests = 1
    ResponseSizes = {1, 2}
    FaultKinds = {"lose"}
    MaxFaults = 1
    SpuriousTimeouts = FALSE
    StackJunk = FALSE
    SessionMod = 4
    MaxCount = 2
    MaxRetransmissions = 1
    QueueCap = 4
PROPERTIES PassiveWaitsEnd
CHECK_DEADLOCK FALSE
