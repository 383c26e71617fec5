SPECIFICATION MCSpec
CONSTANTS
    Parts = {"keys"}
    SkipKeys = {1, 2, 3}
    SkipHeight = 2
    Indexes = {0, 1}
    Keys = {1, 2, 3}
    Segments = {0, 1}
    PutOrder <- SecondFirst
    Hash <- TwoSegments
    MaxRows = 2
    Putters = {p, q}
    Readers = {"r"}
CHECK_DEADLOCK FALSE
INVARIANT
    SeekFindsKey
