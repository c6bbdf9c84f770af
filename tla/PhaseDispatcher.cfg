\* Callbacks may subscribe and unsubscribe: three entries, five tokens, two frames.
SPECIFICATION FairSpec
CONSTANTS
    kMaxSubscribers = 3
    Reentrant = {"subscribe", "unsubscribe"}
    MaxToken = 5
    MaxFrame = 1
INVARIANT SubscribersAreServed
PROPERTIES
    UnsubscribedNeverRuns
    SurvivorsRun
    DispatchEnds
CHECK_DEADLOCK FALSE
