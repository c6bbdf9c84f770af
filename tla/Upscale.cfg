\* Three changes are enough for DLSS on, a menu or another mode, and off again,
\* with a consumer beside it four; two failures let one hide another.
CONSTANTS
    MaxChanges = 4
    MaxFails = 2
SPECIFICATION UpscaleSpec
INVARIANTS
    EngineGivenBack
    NothingBoundIsFreed
    InputsAreAsTold
PROPERTY HistoryIsTrue
