SPECIFICATION MCSpec
CONSTANTS
  Parts = {"plans", "merges"}
  Queries <- MCQueries
  BatchQueries <- MCBatchQueries
  Catalogs <- MCCatalogs
  Modes <- MCModes
  Databases <- MCDatabases
  Fresh <- MCFresh
  Commons <- MCCommons
  LogicalPlan <- MCLogicalPlan
  PhysicalPlan <- MCPhysicalPlan
  ApplyPass <- MCApplyPass
  SplitCommon <- MCSplitCommon
  Compiles <- MCCompiles
  OutputRows <- MCOutputRows
  QueryRows <- MCQueryRows
INVARIANTS
  PlanMeansQuery
  PassesKeepPlanCompilable
  
  CommonNodesAreCommon
  ReadsOwnFrame
CHECK_DEADLOCK FALSE
