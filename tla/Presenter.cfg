\* Two slots, four frames, two resizes, each of which may time out.
SPECIFICATION Spec
CONSTANTS
    kSlots = 2
    MaxFrame = 4
    MaxResize = 2
INVARIANT SlotServesOneFrame
PROPERTIES
    NoWriteUnderRead
    FreedOnlyWhenIdle
    StreamSpec
    PresentReturns
CHECK_DEADLOCK FALSE
