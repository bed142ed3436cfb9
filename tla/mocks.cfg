SPECIFICATION Spec
CONSTANTS
    mocked = mocked
    NoDevice = NoDevice
    Devices = {mocked}
    Absent = {}
    RequestKinds <- ToTheMock
    MaxRequests = 1
    ResponseSizes = {1}
    SpuriousTimeouts = TRUE
    StackJunk = FALSE
    SessionMod = 4
    MaxCount = 3
    MaxRetransmissions = 1
    QueueCap = 2
    DeviceCommands <- DeviceLines
    ProxyCommands <- ProxyLines
    MaxScript = 4
INVARIANTS AckedInOrder AckedInTurn
PROPERTIES ScriptEndsSending ScriptEnds
CHECK_DEADLOCK FALSE
