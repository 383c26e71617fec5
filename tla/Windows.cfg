SPECIFICATION MCSpec
CONSTANTS
    Parts = {"agg", "request", "modes"}
    Half = 8
    Keys = {1, 2, 3, 4, 5}
    Ranges <- SampleRanges
    ExcludeFlags = {TRUE, FALSE}
    MaxRows = 6
    Unions = 2
    MaxSegment = 2
    Limits = {0}
    Earlier = {0}
    DistinctTimes = TRUE
INVARIANTS
    WindowIsFrame
    UnionRowsBeforeInstance
    RequestReadsFrame
    Consistent
PROPERTIES
    BatchAnswersEveryRow
CHECK_DEADLOCK FALSE
