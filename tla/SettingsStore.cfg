\* The player edits at any moment: two settings, one of them in a block with a stray
\* key, four writes of the file.
SPECIFICATION Spec
CONSTANTS
    Paths = {"a", "b"}
    Strays = {"x"}
    Blocks = {{"a", "x"}, {"b"}}
    Values = {0, 1}
    Default = 0
    MaxStamp = 4
INVARIANTS
    EditsNoticed
    InSync
PROPERTY OwnWritesAreHarmless
