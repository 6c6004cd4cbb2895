SPECIFICATION FairSpec
CONSTANTS
    MaxAttempts = 2
PROPERTY
    ShutdownReturns
CHECK_DEADLOCK FALSE
