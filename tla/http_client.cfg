SPECIFICATION FairClientSpec
CONSTANTS
    Handlers = {h1}
    Stoppers = {s1}
    Requests = {1, 2}
    Connections = {c1, c2, c3}
    NoRequest = 0
    MaxChunks = 1
    MaxTroubles = 2
INVARIANTS ClientTypeOK OneRequestEach OwnAnswer SentTwiceAtMost
PROPERTIES NothingAfterStop EveryRequestCalledBack StopEnds
CHECK_DEADLOCK FALSE
