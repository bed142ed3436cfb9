SPECIFICATION FairSpec
CONSTANTS
    d0 = d0
    d1 = d1
    d2 = d2
    NoDevice = NoDevice
    Devices = {d0, d1, d2}
    Absent = {d2}
    RequestKinds <- AnyRequest
    MaxRequests = 3
    ResponseSizes = {1, 2, 3}
    FaultKinds = {}
    MaxFaults = 0
    SpuriousTimeouts = FALSE
    StackJunk = FALSE
    SessionMod = 4
    MaxCount = 2
    MaxRetransmissions = 1
    QueueCap = 4
INVARIANTS StopAndWait NoResidue
PROPERTIES KeepsPromise EveryRequestAnswered
CHECK_DEADLOCK FALSE
