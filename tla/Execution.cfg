CONSTANTS
    NullInt = NullInt
    Half = 8
    Plans <- MCPlans
    Indexes <- MCIndexes
    Faulty <- MCFaulty
    Requests <- MCRequests
    Batches <- MCBatches
    MaxRows = 2
    MaxBatchRows = 3
SPECIFICATION Spec
CHECK_DEADLOCK FALSE
INVARIANTS
    ClusterEqualsLocal
    BatchRequestEqualsRequests
    FailureContained
    RunnersMeanQuery
