\* A cycle of two frames over a grid of two cells, with leaps of up to four;
\* a ring of two copies, two layers of which a third draw is one too many,
\* and buffers that change their size once each.
SPECIFICATION Spec
CONSTANTS
    Cycle = 2
    GridSize = 2
    MaxCell = 2
    MaxFrame = 7
    MaxOff = 1
    RingSize = 2
    MaxLayers = 2
    MaxCloudFrame = 4
    MaxDraws = 3
    MaxChanges = 1
    MaxCloudOff = 1
INVARIANTS
    ProbesAreOwn
    CloudsAreWhole
    DrawsLeaveNoTrace
PROPERTY GatheredInTime
