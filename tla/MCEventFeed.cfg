SPECIFICATION Spec
CONSTANTS
    h1 = h1
    h2 = h2
    c1 = c1
    c2 = c2
    Msg <- Messages
    Matching <- MatchingMessages
    Quiet <- QuietMessages
    Handlers = {h1, h2}
    Clients = {c1, c2}
    MaxRestarts = 1
    MaxMarks = 4
SYMMETRY Symmetry
INVARIANTS
    TypeOK
    SyncComplete
    HeardIsLogged
    FeedInv
