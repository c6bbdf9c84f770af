\* Two keys, each of which may be the toggle key; the engine may refuse to
\* suppress its input.
SPECIFICATION Spec
CONSTANTS
    Keys = {1, 2}
    SuppressFails = TRUE
INVARIANT OverlayKeepsToItself
PROPERTY RebindsWhatWasAsked
