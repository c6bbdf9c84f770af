\* Three attempts to start, on two adapters; four frame tokens.
SPECIFICATION BridgeSpec
CONSTANTS
    kInFlight = 2
    MaxIndex = 4
    Adapters = {"a", "b"}
    MaxAsk = 3
INVARIANTS
    StartIsWhole
    OptionsFollow
    FramesInOrder
PROPERTY NeverFarBehind
CHECK_DEADLOCK FALSE
