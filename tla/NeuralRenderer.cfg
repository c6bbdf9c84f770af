\* Two keys, three features, four frames or resizes; creations may time out.
SPECIFICATION Spec
CONSTANTS
    Keys = {k1, k2}
    TimeoutPossible = TRUE
    MaxFeature = 3
    MaxFrame = 4
INVARIANTS
    FeaturesAreAlive
    CreationIsFenced
    LivesWithFeature
CHECK_DEADLOCK FALSE
