---------------------------- MODULE EngineCache ----------------------------
(***************************************************************************)
(* Engine::Get and the cache of compiled statements (src/vm/engine.cc),    *)
(* called by several threads, each with a session of its own, while the    *)
(* catalog is replaced and the cache cleared.                              *)
(*                                                                         *)
(* mu_ is a spin lock held in GetCacheLocked, SetCacheLocked and           *)
(* ClearCacheLocked only: each is one step, and a Get that compiles is     *)
(* several.  Explain and GetDependentTables leave engine and sessions      *)
(* alone.                                                                  *)
(***************************************************************************)
EXTENDS Integers, Sequences, FiniteSets

CONSTANTS Threads, Dbs, Sqls,
          Modes,              \* engine modes; "kBatchRequestMode" is special
          Schemas,            \* parameter schemas: sequences of types
          CommonColumns,      \* sets of common column indices
          max_sql_cache_size,
          MaxCatalogs         \* bound on the catalogs installed by UpdateCatalog

ASSUME EngineAssumption ==
    /\ max_sql_cache_size \in Nat \ {0} /\ MaxCatalogs \in Nat
    /\ \A s \in Schemas : Len(s) \in Nat
    /\ {} \in CommonColumns /\ << >> \in Schemas

VARIABLES
    cl,         \* number of the current catalog
    lru_cache,  \* per mode and db: the cached (sql, info), most recently used first
    session,    \* per thread; compile_info is empty or holds one CompileInfo
    pc,         \* "idle", "miss", "compile" or "undefined"
    call,       \* db and sql of a Get under way, and the catalog it compiles with
    answer,     \* ghost: the call that last succeeded in the session, and what was
                \* cleared when it began
    cleared     \* ghost: per db the catalog of the last ClearCacheLocked

vars == <<cl, lru_cache, session, pc, call, answer, cleared>>

CompileInfo ==
    [sql: Sqls, db: Dbs, engine_mode: Modes, parameter_types: Schemas,
     common_column_indices: SUBSET UNION CommonColumns, catalog: 0..MaxCatalogs,
     overtaken: BOOLEAN]   \* ghost: the cache was cleared while it was compiled

Call == [db: Dbs, sql: Sqls, catalog: 0..MaxCatalogs, overtaken: BOOLEAN,
         cleared: 0..MaxCatalogs]   \* ghost: cleared[db] when the Get began

NewSession(mode, columns) ==
    [engine_mode |-> mode, parameter_schema |-> << >>, common_column_indices |-> columns,
     compile_info |-> << >>]

----------------------------------------------------------------------------
(* boost::compute::detail::lru_cache *)

Places(lru, sql) == {n \in 1..Len(lru) : lru[n].sql = sql}

ToFront(lru, n) == <<lru[n]>> \o SubSeq(lru, 1, n - 1) \o SubSeq(lru, n + 1, Len(lru))

\* get() makes a cached sql the most recently used one.
Touch(lru, sql) ==
    IF Places(lru, sql) = {} THEN lru ELSE ToFront(lru, CHOOSE n \in Places(lru, sql) : TRUE)

\* insert() evicts the least recently used sql of a full cache.  Whether it
\* replaces the value of a cached sql, the engine does not rely on: both are
\* possible results.
Insert(lru, sql, info) ==
    LET new == <<[sql |-> sql, info |-> info]>> IN
    IF Places(lru, sql) # {}
    THEN {lru, new \o Tail(Touch(lru, sql))}
    ELSE {new \o SubSeq(lru, 1, IF Len(lru) < max_sql_cache_size THEN Len(lru)
                                ELSE max_sql_cache_size - 1)}

----------------------------------------------------------------------------
Init ==
    /\ cl = 0
    /\ lru_cache = [mode \in Modes |-> [db \in Dbs |-> << >>]]
    /\ session \in [Threads -> {NewSession(mode, {}) : mode \in Modes}]
    /\ pc = [t \in Threads |-> "idle"]
    /\ call = [t \in Threads |-> << >>]
    /\ answer = [t \in Threads |-> << >>]
    /\ cleared = [db \in Dbs |-> 0]

\* The thread drops its session for a new one.
CreateSession(t, mode) ==
    /\ pc[t] = "idle"
    /\ session' = [session EXCEPT ![t] = NewSession(mode, {})]
    /\ answer' = [answer EXCEPT ![t] = << >>]
    /\ UNCHANGED <<cl, lru_cache, pc, call, cleared>>

SetParameterSchema(t, schema) ==
    /\ pc[t] = "idle"
    /\ session' = [session EXCEPT ![t].parameter_schema = schema]
    /\ answer' = [answer EXCEPT ![t] = << >>]
    /\ UNCHANGED <<cl, lru_cache, pc, call, cleared>>

AddCommonColumnIdx(t, idx) ==
    /\ pc[t] = "idle" /\ session[t].engine_mode = "kBatchRequestMode"
    /\ session' = [session EXCEPT ![t].common_column_indices = @ \cup {idx}]
    /\ answer' = [answer EXCEPT ![t] = << >>]
    /\ UNCHANGED <<cl, lru_cache, pc, call, cleared>>

----------------------------------------------------------------------------
(* IsCompatibleCache.  It compares the cached parameter types with the     *)
(* session's GetParameterSchema(), the one of its last compile_info_.      *)

GetParameterSchema(s) ==
    IF s.compile_info = << >> THEN << >> ELSE s.compile_info[1].parameter_types

SameSize(s, info) == Len(info.parameter_types) = Len(s.parameter_schema)

SameType(s, info, i) ==
    i <= Len(GetParameterSchema(s)) /\ info.parameter_types[i] = GetParameterSchema(s)[i]

\* The loop reads a type that is not there: compile_info_ is null, or its schema
\* is shorter.
ReadsBeyondSchema(s, info) ==
    /\ SameSize(s, info)
    /\ \E i \in 1..Len(s.parameter_schema) :
          i > Len(GetParameterSchema(s)) /\ \A j \in 1..(i - 1) : SameType(s, info, j)

\* mutant: the common columns of a batch request are not compared
IsCompatibleWithAnyColumns(s, info) ==
    /\ info.engine_mode = s.engine_mode
    /\ SameSize(s, info)
    /\ \A i \in 1..Len(s.parameter_schema) : SameType(s, info, i)

IsCompatibleCache(s, info) ==
    /\ info.engine_mode = s.engine_mode
    /\ SameSize(s, info)
    /\ \A i \in 1..Len(s.parameter_schema) : SameType(s, info, i)
    /\ s.engine_mode = "kBatchRequestMode" =>
          info.common_column_indices = s.common_column_indices

----------------------------------------------------------------------------
(* Engine::Get *)

Lru(t, db) == lru_cache[session[t].engine_mode][db]

Answers(t, db, sql, info, since) ==
    /\ session' = [session EXCEPT ![t].compile_info = <<info>>]
    /\ answer' = [answer EXCEPT ![t] = <<[db |-> db, sql |-> sql, cleared |-> since]>>]

\* GetCacheLocked finds sql, which it moves to the front.
Finds(t, db, sql) ==
    /\ pc[t] = "idle"
    /\ Places(Lru(t, db), sql) # {}
    /\ lru_cache' = [lru_cache EXCEPT ![session[t].engine_mode][db] = Touch(@, sql)]
    /\ UNCHANGED <<cl, cleared>>

Found(t, db, sql) == Touch(Lru(t, db), sql)[1].info

GetHit(t, db, sql) ==
    /\ Finds(t, db, sql)
    /\ IsCompatibleCache(session[t], Found(t, db, sql))
    /\ Answers(t, db, sql, Found(t, db, sql), cleared[db])
    /\ UNCHANGED <<pc, call>>

\* Undefined behaviour: the call does not come back.
GetUndefined(t, db, sql) ==
    /\ Finds(t, db, sql)
    /\ ReadsBeyondSchema(session[t], Found(t, db, sql))
    /\ pc' = [pc EXCEPT ![t] = "undefined"]
    /\ UNCHANGED <<session, call, answer>>

Begins(t, db, sql) ==
    /\ pc' = [pc EXCEPT ![t] = "miss"]
    /\ call' = [call EXCEPT ![t] = <<[db |-> db, sql |-> sql, catalog |-> 0,
                                      overtaken |-> FALSE, cleared |-> cleared[db]]>>]
    /\ UNCHANGED <<session, answer>>

GetIncompatible(t, db, sql) ==
    /\ Finds(t, db, sql)
    /\ ~IsCompatibleCache(session[t], Found(t, db, sql))
    /\ ~ReadsBeyondSchema(session[t], Found(t, db, sql))
    /\ Begins(t, db, sql)

GetMiss(t, db, sql) ==
    /\ pc[t] = "idle"
    /\ Places(Lru(t, db), sql) = {}
    /\ Begins(t, db, sql)
    /\ UNCHANGED <<cl, lru_cache, cleared>>

\* mutant: the compiler keeps the catalog the engine was made with
LoadFirstCatalog(t) ==
    /\ pc[t] = "miss"
    /\ pc' = [pc EXCEPT ![t] = "compile"]
    /\ UNCHANGED <<cl, lru_cache, session, call, answer, cleared>>

\* The compiler takes the catalog of the moment.
LoadCatalog(t) ==
    /\ pc[t] = "miss"
    /\ pc' = [pc EXCEPT ![t] = "compile"]
    /\ call' = [call EXCEPT ![t][1].catalog = cl]
    /\ UNCHANGED <<cl, lru_cache, session, answer, cleared>>

\* Compile or BuildClusterJob fails: the session keeps what it had.
CompileFails(t) ==
    /\ pc[t] = "compile"
    /\ pc' = [pc EXCEPT ![t] = "idle"]
    /\ call' = [call EXCEPT ![t] = << >>]
    /\ answer' = [answer EXCEPT ![t] = << >>]
    /\ UNCHANGED <<cl, lru_cache, session, cleared>>

Compiled(t) ==
    [sql |-> call[t][1].sql, db |-> call[t][1].db, engine_mode |-> session[t].engine_mode,
     parameter_types |-> session[t].parameter_schema,
     common_column_indices |-> session[t].common_column_indices,
     catalog |-> call[t][1].catalog, overtaken |-> call[t][1].overtaken]

\* mutant: the sql is inserted although another thread has cached it
SetCacheUnchecked(mode, lru, sql, info) == Insert(Touch(lru, sql), sql, info)

\* SetCacheLocked: the possible caches after it
SetCacheLocked(mode, lru, sql, info) ==
    IF Places(lru, sql) = {} \/ mode = "kBatchRequestMode"
    THEN Insert(Touch(lru, sql), sql, info)
    ELSE {Touch(lru, sql)}

GetCompiled(t) ==
    LET info == Compiled(t)
        mode == info.engine_mode
        db   == info.db
    IN /\ pc[t] = "compile"
       /\ \E lru \in SetCacheLocked(mode, lru_cache[mode][db], info.sql, info) :
             lru_cache' = [lru_cache EXCEPT ![mode][db] = lru]
       /\ Answers(t, db, info.sql, info, call[t][1].cleared)
       /\ pc' = [pc EXCEPT ![t] = "idle"]
       /\ call' = [call EXCEPT ![t] = << >>]
       /\ UNCHANGED <<cl, cleared>>

----------------------------------------------------------------------------
UpdateCatalog ==
    /\ cl < MaxCatalogs
    /\ cl' = cl + 1
    /\ UNCHANGED <<lru_cache, session, pc, call, answer, cleared>>

Overtaken(db) == {t \in Threads : pc[t] = "compile" /\ call[t][1].db = db}

\* mutant: only the cache of one mode is cleared
WithoutDbInOneMode(db) == [lru_cache EXCEPT !["kRequestMode"][db] = << >>]

WithoutDb(db) == [mode \in Modes |-> [lru_cache[mode] EXCEPT ![db] = << >>]]

ClearCacheLocked(db) ==
    /\ lru_cache' = WithoutDb(db)
    /\ cleared' = [cleared EXCEPT ![db] = cl]
    /\ call' = [t \in Threads |->
                   IF t \in Overtaken(db) THEN <<[call[t][1] EXCEPT !.overtaken = TRUE]>>
                   ELSE call[t]]
    /\ UNCHANGED <<cl, session, pc, answer>>

Next ==
    \/ \E t \in Threads :
          \/ \E mode \in Modes : CreateSession(t, mode)
          \/ \E schema \in Schemas : SetParameterSchema(t, schema)
          \/ \E idx \in UNION CommonColumns : AddCommonColumnIdx(t, idx)
          \/ \E db \in Dbs, sql \in Sqls : \/ GetHit(t, db, sql)
                                           \/ GetUndefined(t, db, sql)
                                           \/ GetIncompatible(t, db, sql)
                                           \/ GetMiss(t, db, sql)
          \/ LoadCatalog(t) \/ CompileFails(t) \/ GetCompiled(t)
    \/ UpdateCatalog
    \/ \E db \in Dbs : ClearCacheLocked(db)

Spec == Init /\ [][Next]_vars

----------------------------------------------------------------------------
Entry == [sql: Sqls, info: CompileInfo]

TypeOK ==
    /\ cl \in 0..MaxCatalogs
    /\ \A mode \in Modes, db \in Dbs : \A n \in 1..Len(lru_cache[mode][db]) :
          lru_cache[mode][db][n] \in Entry
    /\ \A t \in Threads :
          /\ session[t].engine_mode \in Modes /\ session[t].parameter_schema \in Schemas
          /\ \A n \in 1..Len(session[t].compile_info) : session[t].compile_info[n] \in CompileInfo
          /\ pc[t] \in {"idle", "miss", "compile", "undefined"}
          /\ \A n \in 1..Len(call[t]) : call[t][n] \in Call
    /\ \A db \in Dbs : cleared[db] \in 0..MaxCatalogs

\* A Get that succeeded leaves in the session a plan of the statement asked for,
\* for the session's mode, number of parameters and common columns, whichever
\* thread compiled it (Get, IsCompatibleCache).
AnswersTheCall ==
    \A t \in Threads : \A n \in 1..Len(answer[t]) :
        LET info == session[t].compile_info[1] IN
        /\ info.sql = answer[t][n].sql /\ info.db = answer[t][n].db
        /\ info.engine_mode = session[t].engine_mode
        /\ Len(info.parameter_types) = Len(session[t].parameter_schema)
        /\ info.common_column_indices = session[t].common_column_indices

KeepsCompileResult ==
    \A mode \in Modes \ {"kBatchRequestMode"}, db \in Dbs :
        \A m \in DOMAIN lru_cache[mode][db], n \in DOMAIN lru_cache'[mode][db] :
            lru_cache[mode][db][m].sql = lru_cache'[mode][db][n].sql =>
                lru_cache[mode][db][m] = lru_cache'[mode][db][n]

\* "Ensure compile result is stable": the first plan cached for a statement is
\* the one all later sessions share, until it is evicted or cleared
\* (SetCacheLocked; batch request mode is the exception).
CompileResultStable == [][KeepsCompileResult]_vars

\* After ClearCacheLocked, a plan for an older catalog can only come from a Get
\* that was compiling when the cache was cleared.
ClearForgets ==
    \A mode \in Modes, db \in Dbs : \A n \in DOMAIN lru_cache[mode][db] :
        LET info == lru_cache[mode][db][n].info
        IN info.catalog < cleared[db] => info.overtaken

\* A Get that begins after ClearCacheLocked is not answered with a plan for a
\* catalog older than the one of the clear, neither from the cache nor by
\* compiling, while other threads compile and insert; the exception is a plan
\* some Get was compiling during a clear, which any later Get may be given
\* (Get, SetCacheLocked).
AnswerNotOlderThanClear ==
    \A t \in Threads : \A n \in 1..Len(answer[t]) :
        LET info == session[t].compile_info[1]
        IN info.catalog < answer[t][n].cleared => info.overtaken

\* "Inconsistent cache parameter type, expect ... but get ...": a Get that
\* succeeded gives a plan for the session's own parameter types
\* (IsCompatibleCache).
ParameterTypesMatch ==
    \A t \in Threads : answer[t] # << >> =>
        session[t].compile_info[1].parameter_types = session[t].parameter_schema
=============================================================================
