SPECIFICATION FairSpec
CONSTANTS
    ListEnd = 5
    FirstItems = {4}
    initial_num_items = 1
    LoadSizes = {1}
    ReadLimit = 2
    SplitLimit = 1
    SplitPoints = {2, 3}
    Commits = {{1, 2}, {2, 3}, {1}}
    MaxIncidents = 2
    MaxFaults = 1
    MaxResets = 1
INVARIANTS
    Seamless
    ListIsPrefix
PROPERTIES
    SplitsKeepTheView
    EventuallyLoaded
CHECK_DEADLOCK FALSE
