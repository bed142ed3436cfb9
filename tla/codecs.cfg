SPECIFICATION Spec
CONSTANTS
    SessionMod = 128
    MaxCount = 127
    MaxRetransmissions = 12
    Types <- AllTypes
    Counts <- BoundaryCounts
    Sessions <- BoundarySessions
    Payloads <- SomePayloads
    Alnum = {"d", "e"}
    MaxFilename = 3
    Messages <- AnyMessage
    Bytes = {32, 34, 37, 38, 43, 50, 61, 97, 200}
    MaxText = 4
    Ids <- TwoIds
    Alphabet = {"/", "d", "e", "?", " ", "."}
    MaxPath = 5
    ChunkSizes = {1, 2, 3}
INVARIANTS
    ReadAsModelled BitsAgree ShownAsRead
    MessageSurvives NothingInvented
    QueryRoundTrip AttributesKept
    RoutedToItsDevice ChunksAreWhole NameStaysInside
PROPERTY WholeParseEnds
CHECK_DEADLOCK FALSE
