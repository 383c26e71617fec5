SPECIFICATION MCSpec
CONSTANTS
    Parts = {"modes"}
    Half = 8
    Keys = {1, 2}
    Ranges <- SampleRanges
    ExcludeFlags = {FALSE}
    MaxRows = 6
    Unions = 2
    MaxSegment = 2
    Limits = {0}
    Earlier = {0}
    DistinctTimes = FALSE
INVARIANTS
    Consistent
CHECK_DEADLOCK FALSE
