SPECIFICATION FairConnectionsSpec
CONSTANTS
    Clients = {c1, c2, c3}
    Polite = {c1, c2}
    Whole = {c1, c3}
    Nobody = Nobody
    QueueSize = 1
    MaxRead = 2
    MaxAsked = 2
INVARIANTS AnswersInTurn SurvivesOrderlyClients
PROPERTY EveryClientAccepted
CHECK_DEADLOCK FALSE
