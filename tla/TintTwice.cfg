\* The replacement of the shader switched off and on again, with no edit and
\* nothing loaded anew in between.
SPECIFICATION ReplacementSpec
CONSTANTS
    Slot = {"copy"}
    MaxEdits = 0
    MaxLoads = 0
INVARIANT EnginesOwnBack
