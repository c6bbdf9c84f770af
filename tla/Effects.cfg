\* All five effects that draw, two of them on at a time, two changes of the
\* settings, and two edits of the replaced shader's files.  No value the
\* engine writes to the clamp is one the fog can have written.
SPECIFICATION EffectsSpec
CONSTANTS
    N = 5
    MaxChange = 2
    MaxOn = 2
    MaxResizes = 1
    EngineClamps = {40, 100}
    Amounts = {0, 50, 100}
    Slot = {"copy"}
    MaxEdits = 2
    MaxLoads = 1
INVARIANTS
    SetupsAreWhole
    DrawsAreRight
    EngineUntouched
    ReplacementIsSafe
PROPERTIES
    SwitchedInOrder
    EditsShown
