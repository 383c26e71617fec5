SPECIFICATION Spec
CONSTANTS
    Half = 4
    Keys = {1, 2, 3}
    Ranges <- SampleRanges
    ExcludeFlags = {TRUE, FALSE}
    MaxRows = 5
INVARIANTS
    TypeOK
    WindowIsFrame
    InstanceLeavesWindow
    BufferBounded
    LateRowsRefusedFromFront
CHECK_DEADLOCK FALSE
