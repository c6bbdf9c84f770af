\* Three frames in two slots, a row for the frame and one more, a history of
\* one sample, and one refusal; when the frames are used up measuring stops.
SPECIFICATION ProfilerSpec
CONSTANTS
    Names = {"a", "b"}
    Latency = 2
    MaxPasses = 3
    RetireFrames = 1
    HistorySize = 1
    MaxFrame = 5
    MaxNested = 1
    MaxRefusals = 1
INVARIANTS
    SamplesAreOwn
    EveryQueryOnce
