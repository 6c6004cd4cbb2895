SPECIFICATION FairSpec
CONSTANTS
    Subscribers = {s1}
    OneShots = {q1}
    Requests = {a1}
    Actions = {a1}
    MaxResults = 2
CHECK_DEADLOCK FALSE
INVARIANTS
    AnsweredOnce
    EffectsFirst
    QuietIsCurrent
    OneShotLeaves
PROPERTIES
    DeliveryCompletes
