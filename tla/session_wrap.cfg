SPECIFICATION Spec
CONSTANTS
    d0 = d0
    d1 = d1
    d2 = d2
    NoDevice = NoDevice
    Devices = {d0}
    Absent = {}
    RequestKinds <- Short
    MaxRequests = 5
    ResponseSizes = {1, 2}
    FaultKinds = {}
    MaxFaults = 0
    SpuriousTimeouts = FALSE
    StackJunk = FALSE
    SessionMod = 4
    MaxCount = 2
    MaxRetransmissions = 1
    QueueCap = 4
INVARIANTS RunningDeviceAnswers
CHECK_DEADLOCK FALSE
