SPECIFICATION MCSpec
CONSTANTS
    Parts = {"list", "keys", "table"}
    SkipKeys = {1, 2, 3, 4}
    SkipHeight = 3
    Indexes = {0, 1}
    Keys = {1, 2, 3}
    Segments = {0, 1}
    Hash <- TwoSegments
    PutOrder <- SecondFirst
    MaxRows = 2
    Putters = {p, q}
    Readers = {"r"}
INVARIANTS
    RowsReadInOrder
    OnlyWrittenLinks
    KeysFound
    StoredEverywhere
    TableReadsComplete
SYMMETRY PutterSymmetry
CHECK_DEADLOCK FALSE
