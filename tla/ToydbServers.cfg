SPECIFICATION MCSpec
CONSTANTS
    Parts = {"servers", "schemas"}
    Clients = {1, 2}
    Endpoints = {1, 2}
    Programs <- MCPrograms
    ValidDefs = {"d1", "d2"}
    Fits <- MCFits
    MaxConnects = 1
INVARIANTS
    ListedIdsDistinct
    
    SchemaLives
PROPERTIES
    ImplementsTableService
    EveryStatementReturns
    LockReleased
CHECK_DEADLOCK FALSE
