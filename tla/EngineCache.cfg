SPECIFICATION MCSpec
SYMMETRY ThreadSymmetry
CONSTANTS
    Parts = {"catalogs", "sessions"}
    t1 = t1
    t2 = t2
    Threads = {t1, t2}
    Dbs = {"db"}
    Sqls = {"q1", "q2"}
    Modes = {"kRequestMode", "kBatchRequestMode"}
    Schemas <- NoParameter
    CommonColumns = {{}}
    max_sql_cache_size = 1
    MaxCatalogs = 1
INVARIANTS
    ClearForgets
    AnswerNotOlderThanClear
    AnswersTheCall
PROPERTIES
    CompileResultStable
CHECK_DEADLOCK FALSE
