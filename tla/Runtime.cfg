SPECIFICATION FairSpec
CONSTANTS
    MaxAttempts = 3
INVARIANTS
    ConnectSentOnce
    NoMissedDeadline
    NothingLeftBehind
PROPERTIES
    EventuallyUp
    RetiredCollected
CHECK_DEADLOCK FALSE
