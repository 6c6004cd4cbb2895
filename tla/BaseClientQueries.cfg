SPECIFICATION Spec
CONSTANTS
    Tokens = {ta, tb}
    AuthTokens = {key}
    NoAuth = none
    ServerMessages <- QueryMessages
    MaxSubscribers = 3
    MaxRequests = 0
    MaxIdentity = 1
    MaxConnections = 2
INVARIANTS
    RefCountExact
    ScriptYieldsQuerySet
    VersionChain
