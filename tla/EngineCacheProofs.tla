------------------------- MODULE EngineCacheProofs -------------------------
(***************************************************************************)
(* Proofs about EngineCache, for every number of threads, dbs, statements  *)
(* and catalogs and every size of the cache.                               *)
(***************************************************************************)
EXTENDS EngineCache, SequenceTheorems, TLAPS

----------------------------------------------------------------------------
(* What the operations of the lru_cache return.  `Distinct` says that       *)
(* each statement is cached once.                                          *)

Distinct(lru) == \A m, n \in 1..Len(lru) : lru[m].sql = lru[n].sql => m = n

(* ToFront permutes a cache and puts entry n first. *)
LEMMA ToFrontProperties ==
    ASSUME NEW E, NEW lru \in Seq(E), NEW n \in 1..Len(lru)
    PROVE  /\ ToFront(lru, n) \in Seq(E)
           /\ Len(ToFront(lru, n)) = Len(lru)
           /\ \A i \in 1..Len(lru) :
                 ToFront(lru, n)[i] = lru[IF i = 1 THEN n ELSE IF i <= n THEN i - 1 ELSE i]
<1> DEFINE front == <<lru[n]>>
           before == SubSeq(lru, 1, n - 1)
           after == SubSeq(lru, n + 1, Len(lru))
<1>1. Len(lru) \in Nat /\ n \in Nat /\ n >= 1 /\ n <= Len(lru)
  BY LenProperties
<1>2. /\ front \in Seq(E) /\ Len(front) = 1 /\ front[1] = lru[n]
  BY <1>1, ElementOfSeq
<1>3. /\ before \in Seq(E) /\ Len(before) = n - 1
      /\ \A i \in 1..(n - 1) : before[i] = lru[i]
  <2>1. \A i \in 1..(n - 1) : lru[i] \in E
    BY <1>1, ElementOfSeq
  <2> QED
    BY <1>1, <2>1, SubSeqProperties
<1>4. /\ after \in Seq(E) /\ Len(after) = Len(lru) - n
      /\ \A i \in 1..(Len(lru) - n) : after[i] = lru[n + i]
  <2>1. \A i \in (n + 1)..Len(lru) : lru[i] \in E
    BY <1>1, ElementOfSeq
  <2> QED
    BY <1>1, <2>1, SubSeqProperties
<1> HIDE DEF front, before, after
<1>5. PICK start : start = front \o before
  BY Zenon
<1>6. /\ start \in Seq(E) /\ Len(start) = n
      /\ \A i \in 1..n : start[i] = IF i = 1 THEN lru[n] ELSE lru[i - 1]
  <2>1. /\ start \in Seq(E) /\ Len(start) = Len(front) + Len(before)
        /\ \A i \in 1..(Len(front) + Len(before)) :
              start[i] = IF i <= Len(front) THEN front[i] ELSE before[i - Len(front)]
    <3>1. front \in Seq(E) /\ before \in Seq(E)
      BY ONLY <1>2, <1>3
    <3> QED
      BY ONLY <3>1, <1>5, ConcatProperties, Zenon
  <2> QED
    BY <1>1, <1>2, <1>3, <2>1, SMTT(30)
<1>7. PICK all : all = start \o after
  BY Zenon
<1>8. /\ all \in Seq(E) /\ Len(all) = Len(lru)
      /\ \A i \in 1..Len(lru) : all[i] = IF i <= n THEN start[i] ELSE after[i - n]
  <2>1. /\ all \in Seq(E) /\ Len(all) = Len(start) + Len(after)
        /\ \A i \in 1..(Len(start) + Len(after)) :
              all[i] = IF i <= Len(start) THEN start[i] ELSE after[i - Len(start)]
    <3>1. start \in Seq(E) /\ after \in Seq(E)
      BY ONLY <1>4, <1>6
    <3> QED
      BY ONLY <3>1, <1>7, ConcatProperties, Zenon
  <2> QED
    BY <1>1, <1>4, <1>6, <2>1
<1>9. ToFront(lru, n) = all
  BY <1>5, <1>7 DEF ToFront, front, before, after
<1>10. ASSUME NEW i \in 1..Len(lru)
       PROVE  all[i] = lru[IF i = 1 THEN n ELSE IF i <= n THEN i - 1 ELSE i]
  <2>1. CASE i <= n
    BY <2>1, <1>1, <1>6, <1>8
  <2>2. CASE i > n
    <3>1. i - n \in 1..(Len(lru) - n) /\ n + (i - n) = i
      BY <2>2, <1>1
    <3>2. all[i] = after[i - n] /\ i # 1
      BY <2>2, <1>1, <1>8
    <3> QED
      BY <2>2, <3>1, <3>2, <1>1, <1>4
  <2> QED
    BY <2>1, <2>2, <1>1
<1> QED
  BY <1>8, <1>9, <1>10

(* A new first entry. *)
LEMMA ConsProperties ==
    ASSUME NEW E, NEW e \in E, NEW rest \in Seq(E)
    PROVE  /\ <<e>> \o rest \in Seq(E)
           /\ Len(<<e>> \o rest) = Len(rest) + 1
           /\ (<<e>> \o rest)[1] = e
           /\ \A i \in 1..Len(rest) : (<<e>> \o rest)[i + 1] = rest[i]
<1>1. PICK one : one = <<e>>
  BY Zenon
<1>2. one \in Seq(E) /\ Len(one) = 1 /\ one[1] = e
  BY <1>1
<1>3. PICK all : all = one \o rest
  BY Zenon
<1>4. /\ all \in Seq(E) /\ Len(all) = Len(one) + Len(rest)
      /\ \A i \in 1..(Len(one) + Len(rest)) :
            all[i] = IF i <= Len(one) THEN one[i] ELSE rest[i - Len(one)]
  BY <1>2, <1>3, ConcatProperties
<1>5. Len(rest) \in Nat
  BY LenProperties
<1>6. all[1] = e /\ \A i \in 1..Len(rest) : all[i + 1] = rest[i]
  BY <1>2, <1>4, <1>5
<1> QED
  BY <1>1, <1>2, <1>3, <1>4, <1>5, <1>6

(* Touch keeps the entries of a cache, none twice, and puts the entry asked *)
(* for first.                                                               *)
LEMMA TouchProperties ==
    ASSUME NEW E, NEW lru \in Seq(E), NEW sql
    PROVE  /\ Touch(lru, sql) \in Seq(E)
           /\ Len(Touch(lru, sql)) = Len(lru)
           /\ \A i \in 1..Len(lru) : \E m \in 1..Len(lru) : Touch(lru, sql)[i] = lru[m]
           /\ Distinct(lru) => Distinct(Touch(lru, sql))
           /\ Places(lru, sql) # {} => Len(lru) > 0 /\ Touch(lru, sql)[1].sql = sql
<1>1. Len(lru) \in Nat
  BY LenProperties
<1>2. CASE Places(lru, sql) = {}
  BY <1>1, <1>2 DEF Touch
<1>3. CASE Places(lru, sql) # {}
  <2> DEFINE n == CHOOSE n \in Places(lru, sql) : TRUE
             at(i) == IF i = 1 THEN n ELSE IF i <= n THEN i - 1 ELSE i
  <2>1. n \in 1..Len(lru) /\ lru[n].sql = sql
    BY <1>3 DEF Places
  <2>2. Touch(lru, sql) = ToFront(lru, n)
    BY <1>3 DEF Touch
  <2> HIDE DEF n
  <2>3. /\ ToFront(lru, n) \in Seq(E)
        /\ Len(ToFront(lru, n)) = Len(lru)
        /\ \A i \in 1..Len(lru) : ToFront(lru, n)[i] = lru[at(i)]
    BY <2>1, ToFrontProperties
  <2>4. \A i \in 1..Len(lru) : at(i) \in 1..Len(lru)
    BY <1>1, <2>1
  <2>5. \A i, j \in 1..Len(lru) : at(i) = at(j) => i = j
    BY <1>1, <2>1
  <2>6. 1 \in 1..Len(lru) /\ at(1) = n
    BY <1>1, <2>1
  <2> HIDE DEF at
  <2>7. ASSUME Distinct(lru) PROVE Distinct(ToFront(lru, n))
    <3> SUFFICES ASSUME NEW i \in 1..Len(lru), NEW j \in 1..Len(lru),
                        ToFront(lru, n)[i].sql = ToFront(lru, n)[j].sql
                 PROVE  i = j
      BY <2>3 DEF Distinct
    <3>1. lru[at(i)].sql = lru[at(j)].sql
      BY <2>3
    <3>2. at(i) = at(j)
      BY <2>4, <2>7, <3>1 DEF Distinct
    <3> QED
      BY <2>5, <3>2
  <2> QED
    BY <1>1, <2>1, <2>2, <2>3, <2>4, <2>6, <2>7
<1> QED
  BY <1>2, <1>3

(* Every cache Insert may leave has at most max_sql_cache_size entries, none *)
(* twice: the new one and entries the cache had.                             *)
LEMMA InsertProperties ==
    ASSUME NEW E, NEW lru \in Seq(E), NEW sql, NEW info, [sql |-> sql, info |-> info] \in E,
           Len(lru) <= max_sql_cache_size, Distinct(lru),
           NEW new \in Insert(lru, sql, info)
    PROVE  /\ new \in Seq(E)
           /\ Len(new) <= max_sql_cache_size
           /\ Distinct(new)
           /\ \A i \in 1..Len(new) : \/ new[i] = [sql |-> sql, info |-> info]
                                     \/ \E m \in 1..Len(lru) : new[i] = lru[m]
<1>1. Len(lru) \in Nat /\ max_sql_cache_size \in Nat /\ max_sql_cache_size >= 1
  BY LenProperties, EngineAssumption
<1>2. PICK entry : entry = [sql |-> sql, info |-> info]
  OBVIOUS
<1>3. entry.sql = sql /\ entry \in E
  BY <1>2
<1>4. CASE Places(lru, sql) # {}
  <2>1. PICK touched : touched = Touch(lru, sql)
    OBVIOUS
  <2>2. /\ touched \in Seq(E) /\ Len(touched) = Len(lru) /\ Len(lru) > 0
        /\ \A i \in 1..Len(lru) : \E m \in 1..Len(lru) : touched[i] = lru[m]
        /\ Distinct(touched) /\ touched[1].sql = sql
    <3>1. /\ Touch(lru, sql) \in Seq(E)
          /\ Len(Touch(lru, sql)) = Len(lru)
          /\ \A i \in 1..Len(lru) : \E m \in 1..Len(lru) : Touch(lru, sql)[i] = lru[m]
          /\ Distinct(lru) => Distinct(Touch(lru, sql))
          /\ Places(lru, sql) # {} => Len(lru) > 0 /\ Touch(lru, sql)[1].sql = sql
      BY ONLY TouchProperties, SMT
    <3> QED
      BY ONLY <1>4, <2>1, <3>1, Distinct(lru)
  <2>3. PICK rest : rest = Tail(touched)
    BY Zenon
  <2>4. /\ rest \in Seq(E) /\ Len(rest) = Len(lru) - 1
        /\ \A i \in 1..(Len(lru) - 1) : rest[i] = touched[i + 1]
    <3>1. touched # << >>
      BY <2>2, <1>1
    <3> QED
      BY <2>2, <2>3, <3>1, HeadTailProperties
  <2>5. PICK all : all = <<entry>> \o rest
    BY Zenon
  <2>6. /\ all \in Seq(E) /\ Len(all) = Len(rest) + 1 /\ all[1] = entry
        /\ \A i \in 1..Len(rest) : all[i + 1] = rest[i]
    BY <1>3, <2>4, <2>5, ConsProperties
  <2>7. Len(all) = Len(lru)
    BY <1>1, <2>2, <2>4, <2>6
  <2>8. ASSUME NEW i \in 1..Len(lru) PROVE all[i] = IF i = 1 THEN entry ELSE touched[i]
    <3>1. CASE i = 1
      BY <3>1, <2>6
    <3>2. CASE i # 1
      <4>1. i - 1 \in 1..(Len(lru) - 1) /\ (i - 1) + 1 = i
        BY <3>2, <1>1
      <4>2. all[(i - 1) + 1] = rest[i - 1] /\ rest[i - 1] = touched[(i - 1) + 1]
        BY <4>1, <2>4, <2>6
      <4> QED
        BY <3>2, <4>1, <4>2
    <3> QED
      BY <3>1, <3>2
  <2>9. Distinct(all)
    <3>1. \A i \in 1..Len(lru) : all[i].sql = touched[i].sql
      BY <1>3, <2>2, <2>8
    <3> QED
      BY <2>2, <2>7, <3>1 DEF Distinct
  <2>10. \A i \in 1..Len(lru) : \/ all[i] = entry
                                \/ \E m \in 1..Len(lru) : all[i] = lru[m]
    BY <2>2, <2>8
  <2>11. new = lru \/ new = all
    BY <1>2, <1>4, <2>1, <2>3, <2>5 DEF Insert
  <2>12. CASE new = lru
    BY <2>12
  <2>13. CASE new = all
    BY <1>2, <2>6, <2>7, <2>9, <2>10, <2>13
  <2> QED
    BY <2>11, <2>12, <2>13
<1>5. CASE Places(lru, sql) = {}
  <2>1. PICK k : k = IF Len(lru) < max_sql_cache_size THEN Len(lru)
                     ELSE max_sql_cache_size - 1
    OBVIOUS
  <2>2. k \in 0..Len(lru) /\ k \in Nat /\ k + 1 <= max_sql_cache_size
    BY <1>1, <2>1
  <2>3. PICK rest : rest = SubSeq(lru, 1, k)
    BY Zenon
  <2>4. rest \in Seq(E) /\ Len(rest) = k /\ \A i \in 1..k : rest[i] = lru[i]
    <3>1. \A i \in 1..k : lru[i] \in E
      BY <1>1, <2>2, ElementOfSeq
    <3>2. /\ rest \in Seq(E) /\ Len(rest) = IF 1 <= k THEN k - 1 + 1 ELSE 0
          /\ \A i \in 1..(k - 1 + 1) : rest[i] = lru[1 + i - 1]
      BY <2>2, <2>3, <3>1, SubSeqProperties
    <3> QED
      BY <2>2, <3>2
  <2>5. PICK all : all = <<entry>> \o rest
    BY Zenon
  <2>6. /\ all \in Seq(E) /\ Len(all) = k + 1 /\ all[1] = entry
        /\ \A i \in 1..k : all[i + 1] = rest[i]
    BY <1>3, <2>4, <2>5, ConsProperties
  <2>7. ASSUME NEW i \in 1..(k + 1), i # 1
        PROVE  all[i] = lru[i - 1] /\ i - 1 \in 1..Len(lru)
    <3>1. i - 1 \in 1..k /\ (i - 1) + 1 = i
      BY <2>2, <2>7
    <3>2. all[(i - 1) + 1] = rest[i - 1] /\ rest[i - 1] = lru[i - 1]
      BY <3>1, <2>4, <2>6
    <3> QED
      BY <1>1, <2>2, <3>1, <3>2
  <2>8. \A m \in 1..Len(lru) : lru[m].sql # sql
    BY <1>5 DEF Places
  <2>9. Distinct(all)
    <3> SUFFICES ASSUME NEW i \in 1..(k + 1), NEW j \in 1..(k + 1), all[i].sql = all[j].sql
                 PROVE  i = j
      BY <2>6 DEF Distinct
    <3>1. CASE i = 1 /\ j # 1
      BY <3>1, <1>3, <2>6, <2>7, <2>8
    <3>2. CASE i # 1 /\ j = 1
      BY <3>2, <1>3, <2>6, <2>7, <2>8
    <3>3. CASE i # 1 /\ j # 1
      <4>1. /\ all[i] = lru[i - 1] /\ i - 1 \in 1..Len(lru)
            /\ all[j] = lru[j - 1] /\ j - 1 \in 1..Len(lru)
        BY <3>3, <2>7
      <4>2. i - 1 = j - 1
        BY <4>1 DEF Distinct
      <4> QED
        BY <4>2, <2>2
    <3> QED
      BY <3>1, <3>2, <3>3
  <2>10. \A i \in 1..(k + 1) : \/ all[i] = entry
                               \/ \E m \in 1..Len(lru) : all[i] = lru[m]
    BY <2>6, <2>7
  <2>11. new = all
    BY <1>2, <1>5, <2>1, <2>3, <2>5, Zenon DEF Insert
  <2> QED
    BY <1>2, <2>2, <2>6, <2>9, <2>10, <2>11
<1> QED
  BY <1>4, <1>5

----------------------------------------------------------------------------
(* The inductive invariant.  Every entry of the cache of a mode and db     *)
(* holds a plan of the statement it is cached under, for that mode and db, *)
(* and obeys ClearForgets; a Get that compiles carries what its plan will  *)
(* need to obey it, and began at a catalog not later than cl; outside      *)
(* batch request mode no session has common columns, so that               *)
(* IsCompatibleCache need not compare them.                                *)

Session ==
    [engine_mode: Modes, parameter_schema: Schemas,
     common_column_indices: SUBSET UNION CommonColumns, compile_info: Seq(CompileInfo)]

Answer == [db: Dbs, sql: Sqls, cleared: 0..MaxCatalogs]

PlanFor(mode, db, clear, entry) ==
    /\ entry.info.sql = entry.sql /\ entry.info.db = db /\ entry.info.engine_mode = mode
    /\ mode # "kBatchRequestMode" => entry.info.common_column_indices = {}
    /\ entry.info.catalog < clear => entry.info.overtaken

Good(mode, db, clear, lru) ==
    /\ lru \in Seq(Entry) /\ Len(lru) <= max_sql_cache_size /\ Distinct(lru)
    /\ \A i \in 1..Len(lru) : PlanFor(mode, db, clear, lru[i])

TypeInv ==
    /\ cl \in 0..MaxCatalogs
    /\ lru_cache \in [Modes -> [Dbs -> Seq(Entry)]]
    /\ session \in [Threads -> Session]
    /\ pc \in [Threads -> {"idle", "miss", "compile", "undefined"}]
    /\ call \in [Threads -> Seq(Call)]
    /\ answer \in [Threads -> Seq(Answer)]
    /\ cleared \in [Dbs -> 0..MaxCatalogs]

CacheInv ==
    \A mode \in Modes, db \in Dbs : Good(mode, db, cleared[db], lru_cache[mode][db])

SessionInv ==
    \A t \in Threads :
        session[t].engine_mode # "kBatchRequestMode" => session[t].common_column_indices = {}

CallInv ==
    /\ \A db \in Dbs : cleared[db] <= cl
    /\ \A t \in Threads :
          /\ pc[t] \in {"miss", "compile"} => Len(call[t]) = 1 /\ call[t][1].cleared <= cl
          /\ pc[t] = "compile" =>
                /\ call[t][1].catalog < cleared[call[t][1].db] => call[t][1].overtaken
                /\ call[t][1].catalog < call[t][1].cleared => call[t][1].overtaken

IInv ==
    /\ TypeInv /\ CacheInv /\ SessionInv /\ CallInv
    /\ AnswersTheCall /\ AnswerNotOlderThanClear

(* GetCacheLocked keeps a good cache good. *)
LEMMA TouchGood ==
    ASSUME NEW mode, NEW db, NEW clear, NEW lru, NEW sql, Good(mode, db, clear, lru)
    PROVE  Good(mode, db, clear, Touch(lru, sql))
<1>1. PICK new : new = Touch(lru, sql)
  OBVIOUS
<1>2. /\ new \in Seq(Entry) /\ Len(new) = Len(lru) /\ Distinct(new)
      /\ \A i \in 1..Len(lru) : \E m \in 1..Len(lru) : new[i] = lru[m]
  BY <1>1, TouchProperties DEF Good
<1>3. Good(mode, db, clear, new)
  BY <1>2 DEF Good
<1> QED
  BY <1>1, <1>3

(* SetCacheLocked keeps a good cache good. *)
LEMMA SetCacheGood ==
    ASSUME NEW mode, NEW db, NEW clear, NEW lru, NEW sql \in Sqls, NEW info \in CompileInfo,
           Good(mode, db, clear, lru),
           PlanFor(mode, db, clear, [sql |-> sql, info |-> info]),
           NEW new \in SetCacheLocked(mode, lru, sql, info)
    PROVE  Good(mode, db, clear, new)
<1>1. PICK touched : touched = Touch(lru, sql)
  OBVIOUS
<1>2. Good(mode, db, clear, touched)
  BY <1>1, TouchGood
<1>3. PICK entry : entry = [sql |-> sql, info |-> info]
  OBVIOUS
<1>4. entry \in Entry /\ PlanFor(mode, db, clear, entry)
  BY <1>3 DEF Entry
<1>5. new = touched \/ new \in Insert(touched, sql, info)
  BY <1>1 DEF SetCacheLocked
<1>6. CASE new \in Insert(touched, sql, info)
  <2>1. /\ new \in Seq(Entry) /\ Len(new) <= max_sql_cache_size /\ Distinct(new)
        /\ \A i \in 1..Len(new) : \/ new[i] = [sql |-> sql, info |-> info]
                                  \/ \E m \in 1..Len(touched) : new[i] = touched[m]
    BY <1>2, <1>3, <1>4, <1>6, InsertProperties DEF Good
  <2>2. \A i \in 1..Len(new) : \/ new[i] = entry
                               \/ \E m \in 1..Len(touched) : new[i] = touched[m]
    BY <1>3, <2>1
  <2> QED
    BY <1>2, <1>4, <2>1, <2>2 DEF Good
<1> QED
  BY <1>2, <1>5, <1>6

(* What a Get finds is a plan of the statement asked for, and the cache it *)
(* leaves is good.                                                         *)
LEMMA FoundProperties ==
    ASSUME IInv, NEW t \in Threads, NEW db \in Dbs, NEW sql \in Sqls, Finds(t, db, sql)
    PROVE  /\ Found(t, db, sql) \in CompileInfo
           /\ Found(t, db, sql).sql = sql /\ Found(t, db, sql).db = db
           /\ Found(t, db, sql).engine_mode = session[t].engine_mode
           /\ session[t].engine_mode # "kBatchRequestMode" =>
                 Found(t, db, sql).common_column_indices = {}
           /\ Found(t, db, sql).catalog < cleared[db] => Found(t, db, sql).overtaken
           /\ lru_cache' \in [Modes -> [Dbs -> Seq(Entry)]]
           /\ CacheInv'
<1>1. PICK mode : mode = session[t].engine_mode
  OBVIOUS
<1>2. mode \in Modes
  BY <1>1 DEF IInv, TypeInv, Session
<1>3. PICK lru : lru = lru_cache[mode][db]
  OBVIOUS
<1>4. Good(mode, db, cleared[db], lru)
  BY <1>2, <1>3 DEF IInv, CacheInv
<1>5. PICK new : new = Touch(lru, sql)
  OBVIOUS
<1>6. Good(mode, db, cleared[db], new)
  BY <1>4, <1>5, TouchGood
<1>7. Places(lru, sql) # {}
  BY <1>1, <1>3 DEF Finds, Lru
<1>8. Len(new) > 0 /\ Len(new) \in Nat /\ new[1].sql = sql
  BY <1>4, <1>5, <1>7, TouchProperties DEF Good
<1>9. new[1] \in Entry /\ PlanFor(mode, db, cleared[db], new[1])
  BY <1>6, <1>8 DEF Good
<1>10. Found(t, db, sql) = new[1].info
  BY <1>1, <1>3, <1>5 DEF Found, Lru
<1>11. lru_cache' = [lru_cache EXCEPT ![mode][db] = new] /\ cleared' = cleared
  BY <1>1, <1>3, <1>5 DEF Finds
<1>12. lru_cache' \in [Modes -> [Dbs -> Seq(Entry)]] /\ CacheInv'
  BY <1>2, <1>6, <1>11 DEF IInv, TypeInv, CacheInv, Good
<1> QED
  BY <1>1, <1>8, <1>9, <1>10, <1>12, Zenon DEF PlanFor, Entry

LEMMA InitIInv == Init => IInv
<1> SUFFICES ASSUME Init PROVE IInv
  OBVIOUS
<1>1. TypeInv
  <2>1. cl \in 0..MaxCatalogs /\ cleared \in [Dbs -> 0..MaxCatalogs]
    BY EngineAssumption DEF Init
  <2>2. lru_cache \in [Modes -> [Dbs -> Seq(Entry)]]
    BY DEF Init
  <2>3. session \in [Threads -> Session]
    <3>1. \A mode \in Modes : NewSession(mode, {}) \in Session
      BY EngineAssumption DEF NewSession, Session
    <3> QED
      BY <3>1 DEF Init
  <2>4. /\ pc \in [Threads -> {"idle", "miss", "compile", "undefined"}]
        /\ call \in [Threads -> Seq(Call)]
        /\ answer \in [Threads -> Seq(Answer)]
    BY DEF Init
  <2> QED
    BY <2>1, <2>2, <2>3, <2>4, Zenon DEF TypeInv
<1>2. CacheInv
  BY EngineAssumption DEF Init, CacheInv, Good, Distinct
<1>3. SessionInv /\ CallInv
  BY EngineAssumption DEF Init, NewSession, SessionInv, CallInv
<1>4. AnswersTheCall /\ AnswerNotOlderThanClear
  BY DEF Init, AnswersTheCall, AnswerNotOlderThanClear
<1> QED
  BY <1>1, <1>2, <1>3, <1>4 DEF IInv

(* A step in which a thread gets another session and forgets its answer. *)
LEMMA SessionReplaced ==
    ASSUME IInv, NEW t \in Threads, NEW new \in Session,
           new.engine_mode # "kBatchRequestMode" => new.common_column_indices = {},
           session' = [session EXCEPT ![t] = new],
           answer' = [answer EXCEPT ![t] = << >>],
           UNCHANGED <<cl, lru_cache, pc, call, cleared>>
    PROVE  IInv'
<1>1. TypeInv'
  <2>1. << >> \in Seq(Answer)
    OBVIOUS
  <2> QED
    BY <2>1, Zenon DEF IInv, TypeInv
<1>2. CacheInv' /\ CallInv'
  BY DEF IInv, CacheInv, CallInv
<1>3. /\ session'[t] = new /\ answer'[t] = << >>
      /\ \A u \in Threads : u # t => session'[u] = session[u] /\ answer'[u] = answer[u]
  BY DEF IInv, TypeInv
<1>4. SessionInv'
  BY <1>3 DEF IInv, SessionInv
<1>5. AnswersTheCall' /\ AnswerNotOlderThanClear'
  BY <1>3 DEF IInv, AnswersTheCall, AnswerNotOlderThanClear
<1> QED
  BY <1>1, <1>2, <1>4, <1>5 DEF IInv

(* The calls of a thread on its own session. *)
LEMMA SessionSteps ==
    ASSUME IInv, NEW t \in Threads,
           \/ \E mode \in Modes : CreateSession(t, mode)
           \/ \E schema \in Schemas : SetParameterSchema(t, schema)
           \/ \E idx \in UNION CommonColumns : AddCommonColumnIdx(t, idx)
    PROVE  IInv'
<1>1. PICK old : old = session[t]
  OBVIOUS
<1>2. /\ old \in Session
      /\ old.engine_mode # "kBatchRequestMode" => old.common_column_indices = {}
  BY <1>1 DEF IInv, TypeInv, SessionInv
<1>3. ASSUME NEW mode \in Modes, CreateSession(t, mode)
      PROVE  IInv'
  <2>1. PICK new : new = NewSession(mode, {})
    OBVIOUS
  <2>2. new \in Session /\ new.common_column_indices = {}
    BY <2>1, EngineAssumption DEF NewSession, Session
  <2> QED
    BY <1>3, <2>1, <2>2, SessionReplaced, Zenon DEF CreateSession
<1>4. ASSUME NEW schema \in Schemas, SetParameterSchema(t, schema)
      PROVE  IInv'
  <2>1. PICK new : new = [old EXCEPT !.parameter_schema = schema]
    BY Zenon
  <2>2. /\ new \in Session
        /\ new.engine_mode # "kBatchRequestMode" => new.common_column_indices = {}
    BY <1>2, <2>1 DEF Session
  <2>3. session' = [session EXCEPT ![t] = new]
    BY <1>1, <1>4, <2>1 DEF SetParameterSchema
  <2> QED
    BY <1>4, <2>2, <2>3, SessionReplaced, Zenon DEF SetParameterSchema
<1>5. ASSUME NEW idx \in UNION CommonColumns, AddCommonColumnIdx(t, idx)
      PROVE  IInv'
  <2>1. PICK new : new = [old EXCEPT !.common_column_indices = @ \cup {idx}]
    BY Zenon
  <2>2. /\ new \in Session /\ new.engine_mode = "kBatchRequestMode"
    BY <1>1, <1>2, <1>5, <2>1, Zenon DEF Session, AddCommonColumnIdx
  <2>3. session' = [session EXCEPT ![t] = new]
    BY <1>1, <1>5, <2>1 DEF AddCommonColumnIdx
  <2> QED
    BY <1>5, <2>2, <2>3, SessionReplaced, Zenon DEF AddCommonColumnIdx
<1> QED
  BY <1>3, <1>4, <1>5

(* A Get that succeeds with a plan of the statement asked for. *)
LEMMA AnswersProperties ==
    ASSUME IInv, NEW t \in Threads, NEW db \in Dbs, NEW sql \in Sqls, NEW info \in CompileInfo,
           info.sql = sql, info.db = db, info.engine_mode = session[t].engine_mode,
           Len(info.parameter_types) = Len(session[t].parameter_schema),
           info.common_column_indices = session[t].common_column_indices,
           NEW since \in 0..MaxCatalogs, info.catalog < since => info.overtaken,
           Answers(t, db, sql, info, since)
    PROVE  /\ session' \in [Threads -> Session]
           /\ answer' \in [Threads -> Seq(Answer)]
           /\ SessionInv' /\ AnswersTheCall' /\ AnswerNotOlderThanClear'
<1>1. PICK old : old = session[t]
  OBVIOUS
<1>2. PICK new : new = [old EXCEPT !.compile_info = <<info>>]
  BY Zenon
<1>3. old \in Session
  BY <1>1 DEF IInv, TypeInv
<1>4. /\ new \in Session /\ new.compile_info = <<info>>
      /\ new.engine_mode = old.engine_mode /\ new.parameter_schema = old.parameter_schema
      /\ new.common_column_indices = old.common_column_indices
  <2>1. <<info>> \in Seq(CompileInfo)
    OBVIOUS
  <2> QED
    BY <1>2, <1>3, <2>1, Zenon DEF Session
<1>5. session' = [session EXCEPT ![t] = new]
  BY <1>1, <1>2 DEF Answers
<1>6. session' \in [Threads -> Session]
  BY <1>4, <1>5 DEF IInv, TypeInv
<1>7. PICK said : said = <<[db |-> db, sql |-> sql, cleared |-> since]>>
  BY Zenon
<1>8. /\ said \in Seq(Answer) /\ Len(said) = 1
      /\ said[1].db = db /\ said[1].sql = sql /\ said[1].cleared = since
  BY <1>7 DEF Answer
<1>9. answer' = [answer EXCEPT ![t] = said]
  BY <1>7 DEF Answers
<1>10. answer' \in [Threads -> Seq(Answer)]
  BY <1>8, <1>9, Zenon DEF IInv, TypeInv
<1>11. /\ session'[t] = new /\ answer'[t] = said
       /\ \A u \in Threads : u # t => session'[u] = session[u] /\ answer'[u] = answer[u]
  BY <1>5, <1>9 DEF IInv, TypeInv
<1>12. SessionInv'
  BY <1>1, <1>4, <1>11 DEF IInv, SessionInv
<1>13. AnswersTheCall'
  <2> SUFFICES ASSUME NEW u \in Threads, NEW n \in 1..Len(answer'[u])
               PROVE  LET i == session'[u].compile_info[1] IN
                      /\ i.sql = answer'[u][n].sql /\ i.db = answer'[u][n].db
                      /\ i.engine_mode = session'[u].engine_mode
                      /\ Len(i.parameter_types) = Len(session'[u].parameter_schema)
                      /\ i.common_column_indices = session'[u].common_column_indices
    BY DEF AnswersTheCall
  <2>1. CASE u # t
    <3>1. answer'[u] = answer[u] /\ session'[u] = session[u]
      BY <2>1, <1>11
    <3>2. n \in 1..Len(answer[u])
      BY ONLY <3>1, n \in 1..Len(answer'[u])
    <3> QED
      BY <3>1, <3>2 DEF IInv, AnswersTheCall
  <2>2. CASE u = t
    <3>1. n = 1 /\ new.compile_info[1] = info
      <4>1. Len(answer'[u]) = 1
        BY ONLY <2>2, <1>8, <1>11
      <4>2. n = 1
        BY ONLY <4>1, n \in 1..Len(answer'[u])
      <4> QED
        BY ONLY <4>2, <1>4
    <3>2. answer'[u][n] = said[1] /\ session'[u] = new
      BY ONLY <2>2, <3>1, <1>11
    <3>3. /\ said[1].db = db /\ said[1].sql = sql
          /\ new.engine_mode = old.engine_mode /\ new.parameter_schema = old.parameter_schema
          /\ new.common_column_indices = old.common_column_indices
      BY ONLY <1>4, <1>8
    <3> QED
      BY ONLY <3>1, <3>2, <3>3, <1>1, info.sql = sql, info.db = db,
              info.engine_mode = session[t].engine_mode,
              Len(info.parameter_types) = Len(session[t].parameter_schema),
              info.common_column_indices = session[t].common_column_indices
  <2> QED
    BY <2>1, <2>2
<1>14. AnswerNotOlderThanClear'
  <2> SUFFICES ASSUME NEW u \in Threads, NEW n \in 1..Len(answer'[u]),
                      session'[u].compile_info[1].catalog < answer'[u][n].cleared
               PROVE  session'[u].compile_info[1].overtaken
    BY DEF AnswerNotOlderThanClear
  <2>1. CASE u # t
    <3>1. answer'[u] = answer[u] /\ session'[u] = session[u]
      BY <2>1, <1>11
    <3>2. n \in 1..Len(answer[u])
      BY ONLY <3>1, n \in 1..Len(answer'[u])
    <3> QED
      BY <3>1, <3>2 DEF IInv, AnswerNotOlderThanClear
  <2>2. CASE u = t
    <3>1. Len(answer'[u]) = 1
      BY ONLY <2>2, <1>8, <1>11
    <3>2. n = 1
      BY ONLY <3>1, n \in 1..Len(answer'[u])
    <3>3. new.compile_info[1] = info
      BY ONLY <1>4
    <3>4. session'[u].compile_info[1] = info /\ answer'[u][n].cleared = since
      BY ONLY <2>2, <3>2, <3>3, <1>8, <1>11
    <3> QED
      BY ONLY <3>4, info.catalog < since => info.overtaken,
              session'[u].compile_info[1].catalog < answer'[u][n].cleared
  <2> QED
    BY <2>1, <2>2
<1> QED
  BY <1>6, <1>10, <1>12, <1>13, <1>14, Zenon

LEMMA GetHitStep ==
    ASSUME IInv, NEW t \in Threads, NEW db \in Dbs, NEW sql \in Sqls, GetHit(t, db, sql)
    PROVE  IInv'
<1>1. PICK info : info = Found(t, db, sql)
  OBVIOUS
<1>2. /\ info \in CompileInfo /\ info.sql = sql /\ info.db = db
      /\ info.engine_mode = session[t].engine_mode
      /\ session[t].engine_mode # "kBatchRequestMode" => info.common_column_indices = {}
      /\ info.catalog < cleared[db] => info.overtaken
      /\ lru_cache' \in [Modes -> [Dbs -> Seq(Entry)]]
      /\ CacheInv'
  BY <1>1, FoundProperties DEF GetHit
<1>3. /\ Len(info.parameter_types) = Len(session[t].parameter_schema)
      /\ info.common_column_indices = session[t].common_column_indices
  BY <1>1, <1>2, Zenon DEF GetHit, IsCompatibleCache, SameSize, IInv, SessionInv
<1>4. /\ session' \in [Threads -> Session]
      /\ answer' \in [Threads -> Seq(Answer)]
      /\ SessionInv' /\ AnswersTheCall' /\ AnswerNotOlderThanClear'
  <2>1. cleared[db] \in 0..MaxCatalogs
    BY DEF IInv, TypeInv
  <2>2. Answers(t, db, sql, info, cleared[db])
    BY <1>1 DEF GetHit
  <2> QED
    BY <1>2, <1>3, <2>1, <2>2, AnswersProperties, Zenon
<1>5. UNCHANGED <<cl, cleared, pc, call>>
  BY DEF GetHit, Finds
<1>6. TypeInv' /\ CallInv'
  BY <1>2, <1>4, <1>5, Zenon DEF IInv, TypeInv, CallInv
<1> QED
  BY <1>2, <1>4, <1>6 DEF IInv

(* A Get that does not come back. *)
LEMMA GetUndefinedStep ==
    ASSUME IInv, NEW t \in Threads, NEW db \in Dbs, NEW sql \in Sqls, GetUndefined(t, db, sql)
    PROVE  IInv'
<1>1. lru_cache' \in [Modes -> [Dbs -> Seq(Entry)]] /\ CacheInv'
  BY FoundProperties DEF GetUndefined
<1>2. /\ UNCHANGED <<cl, cleared, session, call, answer>>
      /\ pc' = [pc EXCEPT ![t] = "undefined"]
  BY DEF GetUndefined, Finds
<1>3. TypeInv'
  BY <1>1, <1>2, Zenon DEF IInv, TypeInv
<1>4. SessionInv' /\ AnswersTheCall' /\ AnswerNotOlderThanClear'
  BY <1>2 DEF IInv, SessionInv, AnswersTheCall, AnswerNotOlderThanClear
<1>5. CallInv'
  BY <1>2 DEF IInv, TypeInv, CallInv
<1> QED
  BY <1>1, <1>3, <1>4, <1>5 DEF IInv

(* A Get that has to compile. *)
LEMMA BeginsStep ==
    ASSUME IInv, NEW t \in Threads, NEW db \in Dbs, NEW sql \in Sqls, Begins(t, db, sql),
           UNCHANGED <<cl, cleared>>,
           lru_cache' \in [Modes -> [Dbs -> Seq(Entry)]], CacheInv'
    PROVE  IInv'
<1>1. PICK new : new = <<[db |-> db, sql |-> sql, catalog |-> 0, overtaken |-> FALSE,
                          cleared |-> cleared[db]]>>
  BY Zenon
<1>2. new \in Seq(Call) /\ Len(new) = 1 /\ new[1].cleared = cleared[db]
  <2>1. cleared[db] \in 0..MaxCatalogs
    BY DEF IInv, TypeInv
  <2>2. [db |-> db, sql |-> sql, catalog |-> 0, overtaken |-> FALSE,
         cleared |-> cleared[db]] \in Call
    BY <2>1, EngineAssumption DEF Call
  <2> QED
    BY <1>1, <2>2
<1>3. call' = [call EXCEPT ![t] = new] /\ pc' = [pc EXCEPT ![t] = "miss"]
  BY <1>1 DEF Begins
<1>4. TypeInv'
  BY <1>2, <1>3, Zenon DEF IInv, TypeInv, Begins
<1>5. SessionInv' /\ AnswersTheCall' /\ AnswerNotOlderThanClear'
  BY Zenon DEF IInv, SessionInv, AnswersTheCall, AnswerNotOlderThanClear, Begins
<1>6. CallInv'
  BY <1>2, <1>3 DEF IInv, TypeInv, CallInv
<1> QED
  BY <1>4, <1>5, <1>6 DEF IInv

LEMMA LoadCatalogStep ==
    ASSUME IInv, NEW t \in Threads, LoadCatalog(t)
    PROVE  IInv'
<1>1. PICK old : old = call[t]
  OBVIOUS
<1>2. old \in Seq(Call) /\ Len(old) = 1
  BY <1>1 DEF IInv, TypeInv, CallInv, LoadCatalog
<1>3. old[1] \in Call
  BY <1>2, ElementOfSeq
<1>4. PICK new : new = [old EXCEPT ![1].catalog = cl]
  BY Zenon
<1>5. /\ new \in Seq(Call) /\ Len(new) = 1 /\ new[1].catalog = cl /\ new[1].db = old[1].db
      /\ new[1].cleared = old[1].cleared
  <2>1. [old[1] EXCEPT !.catalog = cl] \in Call
    BY <1>3, Zenon DEF Call, IInv, TypeInv
  <2>2. new = [old EXCEPT ![1] = [old[1] EXCEPT !.catalog = cl]]
    BY <1>4
  <2>3. new \in Seq(Call) /\ Len(new) = 1 /\ new[1] = [old[1] EXCEPT !.catalog = cl]
    BY <1>2, <2>1, <2>2, ExceptSeq
  <2> QED
    BY <1>3, <2>3 DEF Call
<1>6. call' = [call EXCEPT ![t] = new] /\ pc' = [pc EXCEPT ![t] = "compile"]
  BY <1>1, <1>4 DEF LoadCatalog
<1>7. TypeInv'
  <2>1. UNCHANGED <<cl, lru_cache, session, answer, cleared>>
    BY DEF LoadCatalog
  <2> QED
    BY <1>5, <1>6, <2>1, Zenon DEF IInv, TypeInv
<1>8. CacheInv' /\ SessionInv' /\ AnswersTheCall' /\ AnswerNotOlderThanClear'
  BY DEF IInv, CacheInv, SessionInv, AnswersTheCall, AnswerNotOlderThanClear, LoadCatalog
<1>9. CallInv'
  <2>1. \A db \in Dbs : cleared'[db] <= cl'
    BY DEF IInv, CallInv, LoadCatalog
  <2>2. new[1].db \in Dbs
    BY <1>3, <1>5 DEF Call
  <2>3. ~(new[1].catalog < cleared'[new[1].db])
    BY <1>5, <2>1, <2>2 DEF IInv, TypeInv, LoadCatalog
  <2>4. /\ call'[t] = new /\ pc'[t] = "compile"
        /\ \A u \in Threads : u # t => call'[u] = call[u] /\ pc'[u] = pc[u]
    BY <1>6 DEF IInv, TypeInv
  <2>5. new[1].cleared <= cl'
    BY <1>1, <1>5 DEF IInv, CallInv, LoadCatalog
  <2>6. ~(new[1].catalog < new[1].cleared)
    <3>1. new[1].cleared \in Int /\ cl \in Int /\ cl' = cl
      BY <1>3, <1>5, EngineAssumption DEF Call, IInv, TypeInv, LoadCatalog
    <3> QED
      BY <1>5, <2>5, <3>1
  <2> QED
    BY <1>5, <2>1, <2>3, <2>4, <2>5, <2>6, Zenon DEF IInv, CallInv, LoadCatalog
<1> QED
  BY <1>7, <1>8, <1>9 DEF IInv

LEMMA CompileFailsStep ==
    ASSUME IInv, NEW t \in Threads, CompileFails(t)
    PROVE  IInv'
<1>1. << >> \in Seq(Call) /\ << >> \in Seq(Answer)
  OBVIOUS
<1>2. TypeInv'
  BY <1>1, Zenon DEF IInv, TypeInv, CompileFails
<1>3. CacheInv' /\ SessionInv'
  BY DEF IInv, CacheInv, SessionInv, CompileFails
<1>4. /\ pc'[t] = "idle" /\ answer'[t] = << >>
      /\ \A u \in Threads : u # t => /\ pc'[u] = pc[u] /\ call'[u] = call[u]
                                    /\ answer'[u] = answer[u]
  BY DEF IInv, TypeInv, CompileFails
<1>5. CallInv'
  BY <1>4 DEF IInv, CallInv, CompileFails
<1>6. AnswersTheCall' /\ AnswerNotOlderThanClear'
  BY <1>4 DEF IInv, AnswersTheCall, AnswerNotOlderThanClear, CompileFails
<1> QED
  BY <1>2, <1>3, <1>5, <1>6 DEF IInv

(* The plan a Get compiles is one for its call. *)
LEMMA CompiledProperties ==
    ASSUME IInv, NEW t \in Threads, pc[t] = "compile"
    PROVE  /\ Compiled(t) \in CompileInfo
           /\ Compiled(t).engine_mode = session[t].engine_mode
           /\ Compiled(t).parameter_types = session[t].parameter_schema
           /\ Compiled(t).common_column_indices = session[t].common_column_indices
           /\ PlanFor(Compiled(t).engine_mode, Compiled(t).db, cleared[Compiled(t).db],
                      [sql |-> Compiled(t).sql, info |-> Compiled(t)])
           /\ call[t][1].cleared \in 0..MaxCatalogs
           /\ Compiled(t).catalog < call[t][1].cleared => Compiled(t).overtaken
<1>1. PICK c : c = call[t][1]
  OBVIOUS
<1>2. c \in Call
  <2>1. call[t] \in Seq(Call) /\ Len(call[t]) = 1
    BY DEF IInv, TypeInv, CallInv
  <2> QED
    BY <1>1, <2>1, ElementOfSeq
<1>3. PICK s : s = session[t]
  OBVIOUS
<1>4. /\ s \in Session
      /\ s.engine_mode # "kBatchRequestMode" => s.common_column_indices = {}
  BY <1>3 DEF IInv, TypeInv, SessionInv
<1>5. PICK info : info = Compiled(t)
  OBVIOUS
<1>6. info = [sql |-> c.sql, db |-> c.db, engine_mode |-> s.engine_mode,
              parameter_types |-> s.parameter_schema,
              common_column_indices |-> s.common_column_indices,
              catalog |-> c.catalog, overtaken |-> c.overtaken]
  BY <1>1, <1>3, <1>5 DEF Compiled
<1>7. info \in CompileInfo
  BY <1>2, <1>4, <1>6 DEF Call, Session, CompileInfo
<1>8. /\ c.catalog < cleared[c.db] => c.overtaken
      /\ c.catalog < c.cleared => c.overtaken
  BY <1>1 DEF IInv, CallInv
<1>9. PlanFor(info.engine_mode, info.db, cleared[info.db], [sql |-> info.sql, info |-> info])
  BY <1>4, <1>6, <1>8 DEF PlanFor
<1>10. /\ info.engine_mode = s.engine_mode /\ info.parameter_types = s.parameter_schema
       /\ info.common_column_indices = s.common_column_indices
  BY <1>6
<1>11. c.cleared \in 0..MaxCatalogs /\ (info.catalog < c.cleared => info.overtaken)
  BY <1>2, <1>6, <1>8 DEF Call
<1> QED
  BY <1>1, <1>3, <1>5, <1>7, <1>9, <1>10, <1>11

LEMMA GetCompiledStep ==
    ASSUME IInv, NEW t \in Threads, GetCompiled(t)
    PROVE  IInv'
<1>1. PICK info : info = Compiled(t)
  OBVIOUS
<1>2. /\ info \in CompileInfo
      /\ info.engine_mode = session[t].engine_mode
      /\ info.parameter_types = session[t].parameter_schema
      /\ info.common_column_indices = session[t].common_column_indices
      /\ PlanFor(info.engine_mode, info.db, cleared[info.db],
                 [sql |-> info.sql, info |-> info])
      /\ call[t][1].cleared \in 0..MaxCatalogs
      /\ info.catalog < call[t][1].cleared => info.overtaken
  BY <1>1, CompiledProperties DEF GetCompiled
<1>3. info.engine_mode \in Modes /\ info.db \in Dbs /\ info.sql \in Sqls
  BY <1>2 DEF CompileInfo
<1>4. PICK lru \in SetCacheLocked(info.engine_mode, lru_cache[info.engine_mode][info.db],
                                  info.sql, info) :
         lru_cache' = [lru_cache EXCEPT ![info.engine_mode][info.db] = lru]
  BY <1>1, Zenon DEF GetCompiled
<1>5. Good(info.engine_mode, info.db, cleared[info.db], lru)
  BY <1>2, <1>3, <1>4, SetCacheGood DEF IInv, CacheInv
<1>6. /\ UNCHANGED <<cl, cleared>> /\ Answers(t, info.db, info.sql, info, call[t][1].cleared)
      /\ pc' = [pc EXCEPT ![t] = "idle"] /\ call' = [call EXCEPT ![t] = << >>]
  BY <1>1 DEF GetCompiled
<1>7. lru_cache' \in [Modes -> [Dbs -> Seq(Entry)]] /\ CacheInv'
  BY <1>3, <1>4, <1>5, <1>6 DEF IInv, TypeInv, CacheInv, Good
<1>8. /\ session' \in [Threads -> Session]
      /\ answer' \in [Threads -> Seq(Answer)]
      /\ SessionInv' /\ AnswersTheCall' /\ AnswerNotOlderThanClear'
  BY <1>2, <1>3, <1>6, AnswersProperties, Zenon
<1>9. << >> \in Seq(Call)
  OBVIOUS
<1>10. TypeInv'
  BY <1>6, <1>7, <1>8, <1>9, Zenon DEF IInv, TypeInv
<1>11. /\ pc'[t] = "idle"
       /\ \A u \in Threads : u # t => pc'[u] = pc[u] /\ call'[u] = call[u]
  BY <1>6 DEF IInv, TypeInv
<1>12. CallInv'
  BY <1>6, <1>11 DEF IInv, CallInv
<1> QED
  BY <1>7, <1>8, <1>10, <1>12 DEF IInv

LEMMA UpdateCatalogStep ==
    ASSUME IInv, UpdateCatalog
    PROVE  IInv'
<1>1. TypeInv'
  <2>1. cl' \in 0..MaxCatalogs
    BY EngineAssumption DEF IInv, TypeInv, UpdateCatalog
  <2> QED
    BY <2>1, Zenon DEF IInv, TypeInv, UpdateCatalog
<1>2. CacheInv' /\ SessionInv' /\ AnswersTheCall' /\ AnswerNotOlderThanClear'
  BY DEF IInv, CacheInv, SessionInv, AnswersTheCall, AnswerNotOlderThanClear, UpdateCatalog
<1>3. CallInv'
  <2>1. cl \in Int /\ cl' = cl + 1 /\ UNCHANGED <<pc, call, cleared>>
    BY DEF IInv, TypeInv, UpdateCatalog
  <2>2. \A db \in Dbs : cleared'[db] <= cl'
    BY <2>1 DEF IInv, TypeInv, CallInv
  <2>3. ASSUME NEW t \in Threads, pc[t] \in {"miss", "compile"}
        PROVE  Len(call[t]) = 1 /\ call[t][1].cleared <= cl'
    <3>1. call[t] \in Seq(Call) /\ Len(call[t]) = 1 /\ call[t][1].cleared <= cl
      BY <2>3 DEF IInv, TypeInv, CallInv
    <3>2. PICK c : c = call[t][1]
      OBVIOUS
    <3>3. c \in Call
      BY <3>1, <3>2, ElementOfSeq
    <3>4. c.cleared \in Int
      BY <3>3 DEF Call
    <3> QED
      BY <2>1, <3>1, <3>2, <3>4
  <2> QED
    BY <2>1, <2>2, <2>3, Zenon DEF IInv, CallInv
<1> QED
  BY <1>1, <1>2, <1>3 DEF IInv

LEMMA ClearCacheStep ==
    ASSUME IInv, NEW db \in Dbs, ClearCacheLocked(db)
    PROVE  IInv'
<1>1. \A t \in Threads :
         /\ call'[t] \in Seq(Call) /\ Len(call'[t]) = Len(call[t])
         /\ pc[t] = "compile" =>
               /\ call'[t][1].catalog = call[t][1].catalog /\ call'[t][1].db = call[t][1].db
               /\ call'[t][1].overtaken = (call[t][1].overtaken \/ call[t][1].db = db)
         /\ pc[t] \in {"miss", "compile"} => call'[t][1].cleared = call[t][1].cleared
  <2> SUFFICES ASSUME NEW t \in Threads
               PROVE  /\ call'[t] \in Seq(Call) /\ Len(call'[t]) = Len(call[t])
                      /\ pc[t] = "compile" =>
                            /\ call'[t][1].catalog = call[t][1].catalog
                            /\ call'[t][1].db = call[t][1].db
                            /\ call'[t][1].overtaken = (call[t][1].overtaken \/ call[t][1].db = db)
                      /\ pc[t] \in {"miss", "compile"} => call'[t][1].cleared = call[t][1].cleared
    OBVIOUS
  <2>1. call[t] \in Seq(Call) /\ (pc[t] = "compile" => Len(call[t]) = 1)
    BY DEF IInv, TypeInv, CallInv
  <2>2. CASE t \in Overtaken(db)
    <3>1. pc[t] = "compile" /\ call[t][1].db = db
      BY <2>2 DEF Overtaken
    <3>2. PICK old : old = call[t][1]
      OBVIOUS
    <3>3. old \in Call
      BY <2>1, <3>1, <3>2, ElementOfSeq
    <3>4. PICK new : new = [old EXCEPT !.overtaken = TRUE]
      BY Zenon
    <3>5. /\ new \in Call /\ new.overtaken = TRUE /\ new.catalog = old.catalog /\ new.db = old.db
          /\ new.cleared = old.cleared
      BY <3>3, <3>4, Zenon DEF Call
    <3>6. call'[t] = <<new>>
      BY <2>2, <3>2, <3>4, Zenon DEF ClearCacheLocked
    <3> QED
      BY <2>1, <3>1, <3>2, <3>3, <3>5, <3>6 DEF Call
  <2>3. CASE t \notin Overtaken(db)
    <3>1. call'[t] = call[t]
      BY <2>3 DEF ClearCacheLocked
    <3>2. pc[t] = "compile" => call[t][1].db # db
      BY <2>3 DEF Overtaken
    <3>3. pc[t] = "compile" => call[t][1] \in Call
      BY <2>1, ElementOfSeq
    <3> QED
      BY <2>1, <3>1, <3>2, <3>3 DEF Call
  <2> QED
    BY <2>2, <2>3
<1>2. lru_cache' \in [Modes -> [Dbs -> Seq(Entry)]]
  <2>1. << >> \in Seq(Entry)
    OBVIOUS
  <2> QED
    BY <2>1 DEF IInv, TypeInv, ClearCacheLocked, WithoutDb
<1>3. TypeInv'
  <2>1. call' \in [Threads -> Seq(Call)]
    BY <1>1, Zenon DEF ClearCacheLocked
  <2> QED
    BY <1>2, <2>1, Zenon DEF IInv, TypeInv, ClearCacheLocked
<1>4. SessionInv' /\ AnswersTheCall' /\ AnswerNotOlderThanClear'
  BY DEF IInv, SessionInv, AnswersTheCall, AnswerNotOlderThanClear, ClearCacheLocked
<1>5. cleared'[db] = cl /\ \A d \in Dbs : d # db => cleared'[d] = cleared[d]
  BY DEF IInv, TypeInv, ClearCacheLocked
<1>6. CacheInv'
  <2> SUFFICES ASSUME NEW mode \in Modes, NEW d \in Dbs
               PROVE  Good(mode, d, cleared'[d], lru_cache'[mode][d])
    BY DEF CacheInv
  <2>1. CASE d = db
    <3>1. lru_cache'[mode][d] = << >>
      BY <2>1 DEF IInv, TypeInv, ClearCacheLocked, WithoutDb
    <3>2. Good(mode, d, cleared'[d], << >>)
      BY EngineAssumption, SMTT(30) DEF Good, Distinct
    <3> QED
      BY <3>1, <3>2
  <2>2. CASE d # db
    <3>1. lru_cache'[mode][d] = lru_cache[mode][d]
      BY <2>2 DEF IInv, TypeInv, ClearCacheLocked, WithoutDb
    <3> QED
      BY <2>2, <3>1, <1>5 DEF IInv, CacheInv
  <2> QED
    BY <2>1, <2>2
<1>7. CallInv'
  <2>1. \A d \in Dbs : cleared'[d] <= cl'
    BY <1>5 DEF IInv, TypeInv, CallInv, ClearCacheLocked
  <2>2. ASSUME NEW t \in Threads, pc[t] = "compile",
               call'[t][1].catalog < cleared'[call'[t][1].db]
        PROVE  call'[t][1].overtaken
    <3>1. call[t][1] \in Call
      BY <2>2, ElementOfSeq DEF IInv, TypeInv, CallInv
    <3>2. CASE call[t][1].db = db
      BY <1>1, <2>2, <3>2, Zenon
    <3>3. CASE call[t][1].db # db
      <4>1. cleared'[call[t][1].db] = cleared[call[t][1].db]
        BY <1>5, <3>1, <3>3 DEF Call
      <4> QED
        BY <1>1, <2>2, <4>1, Zenon DEF IInv, CallInv
    <3> QED
      BY <3>2, <3>3
  <2>3. ASSUME NEW t \in Threads, pc[t] = "compile", call'[t][1].catalog < call'[t][1].cleared
        PROVE  call'[t][1].overtaken
    <3>1. call[t][1].catalog < call[t][1].cleared
      BY <1>1, <2>3, Zenon
    <3>2. call[t][1].overtaken
      BY <2>3, <3>1, Zenon DEF IInv, CallInv
    <3> QED
      BY <1>1, <2>3, <3>2, Zenon
  <2>4. ASSUME NEW t \in Threads, pc[t] \in {"miss", "compile"}
        PROVE  Len(call'[t]) = 1 /\ call'[t][1].cleared <= cl'
    BY <1>1, <2>4, Zenon DEF IInv, CallInv, ClearCacheLocked
  <2>5. pc' = pc
    BY DEF ClearCacheLocked
  <2> QED
    BY <2>1, <2>2, <2>3, <2>4, <2>5, Zenon DEF CallInv
<1> QED
  BY <1>3, <1>4, <1>6, <1>7 DEF IInv

LEMMA NextIInv == IInv /\ [Next]_vars => IInv'
<1> SUFFICES ASSUME IInv, [Next]_vars PROVE IInv'
  OBVIOUS
<1>1. ASSUME NEW t \in Threads,
             \/ \E mode \in Modes : CreateSession(t, mode)
             \/ \E schema \in Schemas : SetParameterSchema(t, schema)
             \/ \E idx \in UNION CommonColumns : AddCommonColumnIdx(t, idx)
      PROVE  IInv'
  BY <1>1, SessionSteps
<1>2. ASSUME NEW t \in Threads, NEW db \in Dbs, NEW sql \in Sqls, GetHit(t, db, sql)
      PROVE  IInv'
  BY <1>2, GetHitStep
<1>3. ASSUME NEW t \in Threads, NEW db \in Dbs, NEW sql \in Sqls, GetUndefined(t, db, sql)
      PROVE  IInv'
  BY <1>3, GetUndefinedStep
<1>4. ASSUME NEW t \in Threads, NEW db \in Dbs, NEW sql \in Sqls, GetIncompatible(t, db, sql)
      PROVE  IInv'
  <2>1. Finds(t, db, sql) /\ Begins(t, db, sql)
    BY <1>4 DEF GetIncompatible
  <2>2. lru_cache' \in [Modes -> [Dbs -> Seq(Entry)]] /\ CacheInv'
    BY <2>1, FoundProperties
  <2> QED
    BY <2>1, <2>2, BeginsStep DEF Finds
<1>5. ASSUME NEW t \in Threads, NEW db \in Dbs, NEW sql \in Sqls, GetMiss(t, db, sql)
      PROVE  IInv'
  <2>1. lru_cache' \in [Modes -> [Dbs -> Seq(Entry)]] /\ CacheInv'
    BY <1>5 DEF GetMiss, IInv, TypeInv, CacheInv
  <2> QED
    BY <1>5, <2>1, BeginsStep DEF GetMiss
<1>6. ASSUME NEW t \in Threads, LoadCatalog(t) PROVE IInv'
  BY <1>6, LoadCatalogStep
<1>7. ASSUME NEW t \in Threads, CompileFails(t) PROVE IInv'
  BY <1>7, CompileFailsStep
<1>8. ASSUME NEW t \in Threads, GetCompiled(t) PROVE IInv'
  BY <1>8, GetCompiledStep
<1>9. CASE UpdateCatalog
  BY <1>9, UpdateCatalogStep
<1>10. ASSUME NEW db \in Dbs, ClearCacheLocked(db) PROVE IInv'
  BY <1>10, ClearCacheStep
<1>11. CASE UNCHANGED vars
  BY <1>11, Zenon DEF vars, IInv, TypeInv, CacheInv, SessionInv, CallInv, AnswersTheCall,
                    AnswerNotOlderThanClear
<1> QED
  BY <1>1, <1>2, <1>3, <1>4, <1>5, <1>6, <1>7, <1>8, <1>9, <1>10, <1>11 DEF Next

LEMMA Invariance == Spec => []IInv
  BY InitIInv, NextIInv, PTL DEF Spec

----------------------------------------------------------------------------
(* The state of the engine, its sessions and its calls keeps its type. *)
THEOREM TypeCorrect == Spec => []TypeOK
<1>1. IInv => TypeOK
  <2> SUFFICES ASSUME IInv PROVE TypeOK
    OBVIOUS
  <2>1. \A mode \in Modes, db \in Dbs : \A n \in 1..Len(lru_cache[mode][db]) :
           lru_cache[mode][db][n] \in Entry
    BY ElementOfSeq DEF IInv, TypeInv
  <2>2. \A t \in Threads :
           /\ session[t].engine_mode \in Modes /\ session[t].parameter_schema \in Schemas
           /\ session[t].compile_info \in Seq(CompileInfo)
    BY DEF IInv, TypeInv, Session
  <2>3. \A t \in Threads : \A n \in 1..Len(session[t].compile_info) :
           session[t].compile_info[n] \in CompileInfo
    BY <2>2, ElementOfSeq
  <2>4. \A t \in Threads : /\ pc[t] \in {"idle", "miss", "compile", "undefined"}
                           /\ \A n \in 1..Len(call[t]) : call[t][n] \in Call
    BY ElementOfSeq DEF IInv, TypeInv
  <2>5. cl \in 0..MaxCatalogs /\ \A db \in Dbs : cleared[db] \in 0..MaxCatalogs
    BY DEF IInv, TypeInv
  <2> QED
    BY <2>1, <2>2, <2>3, <2>4, <2>5 DEF TypeOK
<1> QED
  BY <1>1, Invariance, PTL

(* Get answers with a plan of the statement asked for and for the session,   *)
(* also when another session's plan is found in the cache.                   *)
THEOREM GetAnswersTheCall == Spec => []AnswersTheCall
<1>1. IInv => AnswersTheCall
  BY DEF IInv
<1> QED
  BY <1>1, Invariance, PTL

(* A Get that begins after ClearCacheLocked gives no plan for a catalog      *)
(* older than that clear, but for one that was being compiled during a clear. *)
THEOREM AnswersAreNotOlder == Spec => []AnswerNotOlderThanClear
<1>1. IInv => AnswerNotOlderThanClear
  BY DEF IInv
<1> QED
  BY <1>1, Invariance, PTL

(* After ClearCacheLocked only a Get that was compiling meanwhile brings a   *)
(* plan of an older catalog back into the cache.                             *)
THEOREM ClearCacheForgets == Spec => []ClearForgets
<1>1. IInv => ClearForgets
  <2> SUFFICES ASSUME IInv, NEW mode \in Modes, NEW db \in Dbs,
                      NEW n \in DOMAIN lru_cache[mode][db],
                      lru_cache[mode][db][n].info.catalog < cleared[db]
               PROVE  lru_cache[mode][db][n].info.overtaken
    BY DEF ClearForgets
  <2>1. Good(mode, db, cleared[db], lru_cache[mode][db])
    BY DEF IInv, CacheInv
  <2>2. n \in 1..Len(lru_cache[mode][db])
    BY <2>1, LenProperties DEF Good
  <2> QED
    BY <2>1, <2>2 DEF Good, PlanFor
<1> QED
  BY <1>1, Invariance, PTL

----------------------------------------------------------------------------
(* Steps keep the plans that are cached.  Kept says so of one cache. *)

Kept(lru, new) ==
    \A m \in 1..Len(lru), n \in 1..Len(new) : lru[m].sql = new[n].sql => lru[m] = new[n]

(* An entry found in a cache again is the one that was there. *)
LEMMA SameEntries ==
    ASSUME NEW lru, NEW new, Distinct(lru),
           \A n \in 1..Len(new) : \/ \E m \in 1..Len(lru) : new[n] = lru[m]
                                  \/ \A m \in 1..Len(lru) : new[n].sql # lru[m].sql
    PROVE  Kept(lru, new)
<1> SUFFICES ASSUME NEW m \in 1..Len(lru), NEW n \in 1..Len(new), lru[m].sql = new[n].sql
             PROVE  lru[m] = new[n]
  BY DEF Kept
<1>1. PICK k \in 1..Len(lru) : new[n] = lru[k]
  OBVIOUS
<1>2. k = m
  BY <1>1 DEF Distinct
<1> QED
  BY <1>1, <1>2

LEMMA TouchKeeps ==
    ASSUME NEW E, NEW lru \in Seq(E), Distinct(lru), NEW sql
    PROVE  Kept(lru, Touch(lru, sql))
<1>1. PICK new : new = Touch(lru, sql)
  OBVIOUS
<1>2. \A n \in 1..Len(new) : \E m \in 1..Len(lru) : new[n] = lru[m]
  BY <1>1, TouchProperties
<1> QED
  BY <1>1, <1>2, SameEntries, SMTT(30)

(* SetCacheLocked does not replace a plan, but in batch request mode. *)
LEMMA SetCacheKeeps ==
    ASSUME NEW mode, mode # "kBatchRequestMode", NEW lru \in Seq(Entry), Distinct(lru),
           Len(lru) <= max_sql_cache_size, NEW sql \in Sqls, NEW info \in CompileInfo,
           NEW new \in SetCacheLocked(mode, lru, sql, info)
    PROVE  Kept(lru, new)
<1>1. CASE Places(lru, sql) # {}
  <2>1. new = Touch(lru, sql)
    BY <1>1 DEF SetCacheLocked
  <2> QED
    BY <2>1, TouchKeeps
<1>2. CASE Places(lru, sql) = {}
  <2>1. new \in Insert(lru, sql, info)
    BY <1>2 DEF SetCacheLocked, Touch
  <2>2. PICK entry : entry = [sql |-> sql, info |-> info]
    BY Zenon
  <2>3. entry \in Entry /\ entry.sql = sql
    BY <2>2 DEF Entry
  <2>4. \A i \in 1..Len(new) : \/ new[i] = entry
                               \/ \E m \in 1..Len(lru) : new[i] = lru[m]
    BY <2>1, <2>2, <2>3, InsertProperties
  <2>5. \A m \in 1..Len(lru) : lru[m].sql # sql
    BY <1>2 DEF Places
  <2>6. \A n \in 1..Len(new) : \/ \E m \in 1..Len(lru) : new[n] = lru[m]
                               \/ \A m \in 1..Len(lru) : new[n].sql # lru[m].sql
    BY <2>3, <2>4, <2>5
  <2> QED
    BY <2>6, SameEntries
<1> QED
  BY <1>1, <1>2

(* A step that changes the cache of one mode and db only, and keeps the plans *)
(* there.                                                                     *)
LEMMA OneCacheChanges ==
    ASSUME IInv, IInv', NEW mode \in Modes, NEW db \in Dbs, NEW new,
           lru_cache' = [lru_cache EXCEPT ![mode][db] = new],
           mode # "kBatchRequestMode" => Kept(lru_cache[mode][db], new)
    PROVE  KeepsCompileResult
<1> SUFFICES ASSUME NEW md \in Modes, md # "kBatchRequestMode", NEW d \in Dbs,
                    NEW m \in DOMAIN lru_cache[md][d], NEW n \in DOMAIN lru_cache'[md][d],
                    lru_cache[md][d][m].sql = lru_cache'[md][d][n].sql
             PROVE  lru_cache[md][d][m] = lru_cache'[md][d][n]
  BY DEF KeepsCompileResult
<1>1. /\ Good(md, d, cleared[d], lru_cache[md][d])
      /\ Good(md, d, cleared'[d], lru_cache'[md][d])
  BY DEF IInv, CacheInv
<1>2. m \in 1..Len(lru_cache[md][d]) /\ n \in 1..Len(lru_cache'[md][d])
  BY <1>1, LenProperties DEF Good
<1>3. CASE md = mode /\ d = db
  <2>1. lru_cache'[md][d] = new
    BY <1>3 DEF IInv, TypeInv
  <2> QED
    BY <1>2, <1>3, <2>1 DEF Kept
<1>4. CASE ~(md = mode /\ d = db)
  <2>1. lru_cache'[md][d] = lru_cache[md][d]
    BY <1>4 DEF IInv, TypeInv
  <2> QED
    BY <1>1, <1>2, <2>1 DEF Good, Distinct
<1> QED
  BY <1>3, <1>4

(* A step that leaves the caches alone. *)
LEMMA NoCacheChanges ==
    ASSUME IInv, lru_cache' = lru_cache
    PROVE  KeepsCompileResult
<1> SUFFICES ASSUME NEW md \in Modes, NEW d \in Dbs,
                    NEW m \in DOMAIN lru_cache[md][d], NEW n \in DOMAIN lru_cache[md][d],
                    lru_cache[md][d][m].sql = lru_cache[md][d][n].sql
             PROVE  lru_cache[md][d][m] = lru_cache[md][d][n]
  BY DEF KeepsCompileResult
<1>1. Good(md, d, cleared[d], lru_cache[md][d])
  BY DEF IInv, CacheInv
<1>2. m \in 1..Len(lru_cache[md][d]) /\ n \in 1..Len(lru_cache[md][d])
  BY <1>1, LenProperties DEF Good
<1> QED
  BY <1>1, <1>2 DEF Good, Distinct

LEMMA FindsKeeps ==
    ASSUME IInv, IInv', NEW t \in Threads, NEW db \in Dbs, NEW sql \in Sqls, Finds(t, db, sql)
    PROVE  KeepsCompileResult
<1>1. PICK mode : mode = session[t].engine_mode
  OBVIOUS
<1>2. mode \in Modes
  BY <1>1 DEF IInv, TypeInv, Session
<1>3. Good(mode, db, cleared[db], lru_cache[mode][db])
  BY <1>2 DEF IInv, CacheInv
<1>4. PICK new : new = Touch(lru_cache[mode][db], sql)
  OBVIOUS
<1>5. Kept(lru_cache[mode][db], new)
  BY <1>3, <1>4, TouchKeeps DEF Good
<1>6. lru_cache' = [lru_cache EXCEPT ![mode][db] = new]
  BY <1>1, <1>4 DEF Finds
<1> QED
  BY <1>2, <1>5, <1>6, OneCacheChanges, Zenon

LEMMA GetCompiledKeeps ==
    ASSUME IInv, IInv', NEW t \in Threads, GetCompiled(t)
    PROVE  KeepsCompileResult
<1>1. PICK info : info = Compiled(t)
  OBVIOUS
<1>2. info \in CompileInfo
  BY <1>1, CompiledProperties, Zenon DEF GetCompiled
<1>3. info.engine_mode \in Modes /\ info.db \in Dbs /\ info.sql \in Sqls
  BY <1>2 DEF CompileInfo
<1>4. PICK lru \in SetCacheLocked(info.engine_mode, lru_cache[info.engine_mode][info.db],
                                  info.sql, info) :
         lru_cache' = [lru_cache EXCEPT ![info.engine_mode][info.db] = lru]
  BY <1>1, Zenon DEF GetCompiled
<1>5. Good(info.engine_mode, info.db, cleared[info.db], lru_cache[info.engine_mode][info.db])
  BY <1>3 DEF IInv, CacheInv
<1>6. info.engine_mode # "kBatchRequestMode" =>
         Kept(lru_cache[info.engine_mode][info.db], lru)
  BY <1>2, <1>3, <1>4, <1>5, SetCacheKeeps DEF Good
<1> QED
  BY <1>3, <1>4, <1>6, OneCacheChanges, Zenon

LEMMA ClearCacheKeeps ==
    ASSUME IInv, NEW db \in Dbs, ClearCacheLocked(db)
    PROVE  KeepsCompileResult
<1> SUFFICES ASSUME NEW md \in Modes, NEW d \in Dbs,
                    NEW m \in DOMAIN lru_cache[md][d], NEW n \in DOMAIN lru_cache'[md][d],
                    lru_cache[md][d][m].sql = lru_cache'[md][d][n].sql
             PROVE  lru_cache[md][d][m] = lru_cache'[md][d][n]
  BY DEF KeepsCompileResult
<1>1. Good(md, d, cleared[d], lru_cache[md][d])
  BY DEF IInv, CacheInv
<1>2. lru_cache'[md][d] = IF d = db THEN << >> ELSE lru_cache[md][d]
  BY DEF IInv, TypeInv, ClearCacheLocked, WithoutDb
<1>3. d # db
  BY <1>2
<1>4. m \in 1..Len(lru_cache[md][d]) /\ n \in 1..Len(lru_cache[md][d])
  BY <1>1, <1>2, <1>3, LenProperties DEF Good
<1> QED
  BY <1>1, <1>2, <1>3, <1>4, Zenon DEF Good, Distinct

(* No step gives a cached statement another plan, but in batch request mode:  *)
(* two threads that compile one statement at the same time share one plan.    *)
THEOREM CompileResultKept == Spec => CompileResultStable
<1>1. IInv /\ IInv' /\ [Next]_vars => [KeepsCompileResult]_vars
  <2> SUFFICES ASSUME IInv, IInv', Next PROVE KeepsCompileResult
    OBVIOUS
  <2>1. ASSUME NEW t \in Threads,
               \/ \E mode \in Modes : CreateSession(t, mode)
               \/ \E schema \in Schemas : SetParameterSchema(t, schema)
               \/ \E idx \in UNION CommonColumns : AddCommonColumnIdx(t, idx)
               \/ \E db \in Dbs, sql \in Sqls : GetMiss(t, db, sql)
               \/ LoadCatalog(t) \/ CompileFails(t)
        PROVE  KeepsCompileResult
    <3>1. lru_cache' = lru_cache
      BY <2>1 DEF CreateSession, SetParameterSchema, AddCommonColumnIdx, GetMiss,
                  LoadCatalog, CompileFails
    <3> QED
      BY <3>1, NoCacheChanges
  <2>2. ASSUME NEW t \in Threads, NEW db \in Dbs, NEW sql \in Sqls,
               GetHit(t, db, sql) \/ GetUndefined(t, db, sql) \/ GetIncompatible(t, db, sql)
        PROVE  KeepsCompileResult
    BY <2>2, FindsKeeps DEF GetHit, GetUndefined, GetIncompatible
  <2>3. ASSUME NEW t \in Threads, GetCompiled(t) PROVE KeepsCompileResult
    BY <2>3, GetCompiledKeeps
  <2>4. CASE UpdateCatalog
    BY <2>4, NoCacheChanges DEF UpdateCatalog
  <2>5. ASSUME NEW db \in Dbs, ClearCacheLocked(db) PROVE KeepsCompileResult
    BY <2>5, ClearCacheKeeps
  <2> QED
    BY <2>1, <2>2, <2>3, <2>4, <2>5 DEF Next
<1> QED
  BY <1>1, Invariance, PTL DEF Spec, CompileResultStable
=============================================================================
