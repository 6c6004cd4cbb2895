SPECIFICATION Spec
CONSTANTS
    MaxAttempts = 2
INVARIANT
    ObserverOutlives
CHECK_DEADLOCK FALSE
