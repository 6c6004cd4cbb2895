SPECIFICATION FairSpec
CONSTANTS
    Tokens = {t1, t2}
    NoToken = none
    Keep = keep
    MaxSets = 3
    MaxDrops = 2
INVARIANTS
    HeldOrTold
    NoHammering
PROPERTIES
    EventuallyAgreed
