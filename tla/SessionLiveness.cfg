SPECIFICATION FairSessionSpec
CONSTANTS
    Tokens = {ta}
    AuthTokens = {}
    NoAuth = none
    ServerMessages = {}
    MaxSubscribers = 1
    MaxRequests = 1
    MaxIdentity = 0
    MaxConnections = 2
    MaxClock = 2
CHECK_DEADLOCK FALSE
PROPERTIES
    RequestsAnswered
    SubscribersServed
