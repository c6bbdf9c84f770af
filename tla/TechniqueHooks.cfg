\* Protection calls succeed and no call comes before the hooks are in place.
SPECIFICATION HooksSpec
CONSTANTS
    RenderingAtStartup = FALSE
    ProtectFails = FALSE
    MaxSwitch = 2
    kMaxRecords = 1
    MaxDue = 2
INVARIANTS
    PatchesStand
    PhasesOnTime
    TraceIsOneFrame
CHECK_DEADLOCK FALSE
