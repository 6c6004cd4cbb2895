SPECIFICATION SessionSpec
CONSTANTS
    Tokens = {}
    AuthTokens = {}
    NoAuth = none
    ServerMessages = {}
    MaxSubscribers = 0
    MaxRequests = 3
    MaxIdentity = 0
    MaxConnections = 2
    MaxClock = 1
CHECK_DEADLOCK FALSE
INVARIANTS
    CommitOrder
    AnswersTrue
