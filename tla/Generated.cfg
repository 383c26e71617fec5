SPECIFICATION MCSpec
CONSTANT Parts = {"codec", "expr", "let", "aggregates", "containers", "split"}
INVARIANTS
    
    
    LetMeansSelectList
    AggregatesAgree
    ContainersComplete
    SplitsAgree
CHECK_DEADLOCK FALSE
