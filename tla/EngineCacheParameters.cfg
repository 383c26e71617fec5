SPECIFICATION MCSpec
SYMMETRY ThreadSymmetry
CONSTANTS
    Parts = {"catalogs"}
    t1 = t1
    t2 = t2
    Threads = {t1, t2}
    Dbs = {"db"}
    Sqls = {"q1"}
    Modes = {"kRequestMode"}
    Schemas <- OneParameter
    CommonColumns = {{}}
    max_sql_cache_size = 1
    MaxCatalogs = 0
INVARIANT
    ParameterTypesMatch
CHECK_DEADLOCK FALSE
