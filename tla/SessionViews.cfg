SPECIFICATION SessionSpec
CONSTANTS
    Tokens = {ta}
    AuthTokens = {key}
    NoAuth = none
    ServerMessages = {}
    MaxSubscribers = 2
    MaxRequests = 1
    MaxIdentity = 0
    MaxConnections = 2
    MaxClock = 2
CHECK_DEADLOCK FALSE
INVARIANTS
    NeverRefused
    NeverOutOfStep
    InStepMeansExact
    JournalMatchesView
    ReadYourWrites
PROPERTIES
    MonotonicViews
