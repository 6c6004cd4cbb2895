SPECIFICATION Spec
CONSTANTS
    Tokens = {}
    AuthTokens = {key}
    NoAuth = none
    ServerMessages <- RequestMessages
    MaxSubscribers = 0
    MaxRequests = 3
    MaxIdentity = 1
    MaxConnections = 2
INVARIANTS
    Ledger
    HeldBeyondWatermark
PROPERTIES
    ActionsSentOnce
    KeepsPromise
