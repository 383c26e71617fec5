---------------------------- MODULE SchemaCache ----------------------------
(***************************************************************************)
(* The input schemas that a DBMSSdkImpl keeps for its threads              *)
(* (examples/toydb/src/sdk/dbms_sdk.cc): GetInputSchema looks a statement  *)
(* up under spin_mutex_, asks the tablet without the lock, and inserts the *)
(* answer under the lock.  GetRequestRow keeps a pointer into the map.     *)
(*                                                                         *)
(* An answer of Explain is an object of its own: a number.                 *)
(***************************************************************************)
EXTENDS Integers, FiniteSets, TLAPS

CONSTANTS Threads,
          Sqls,        \* statements, with their catalog
          MaxExplain   \* bound on the answers of Explain

None == 0

VARIABLES input_schema_map_,   \* the answer kept for a statement, or None
          explained,           \* number of answers so far
          thread,              \* per thread: pc, the statement, its answer
          requestRows          \* ghost: statement and schema object of every RequestRow made

vars == <<input_schema_map_, explained, thread, requestRows>>

Idle == [pc |-> "idle", sql |-> None, info |-> None]

Init ==
    /\ input_schema_map_ = [s \in Sqls |-> None]
    /\ explained = 0
    /\ thread = [t \in Threads |-> Idle]
    /\ requestRows = {}

GetRequestRow(t, s) == requestRows' = requestRows \cup {[sql |-> s, schema |-> input_schema_map_'[s]]}

Lookup(t, s) ==
    /\ thread[t].pc = "idle"
    /\ IF input_schema_map_[s] # None
         THEN UNCHANGED <<input_schema_map_, thread>> /\ GetRequestRow(t, s)
         ELSE /\ thread' = [thread EXCEPT ![t] = [pc |-> "explain", sql |-> s, info |-> None]]
              /\ UNCHANGED <<input_schema_map_, requestRows>>
    /\ UNCHANGED explained

\* Explain fails, and there is no RequestRow.
ExplainFails(t) ==
    /\ thread[t].pc = "explain"
    /\ thread' = [thread EXCEPT ![t] = Idle]
    /\ UNCHANGED <<input_schema_map_, explained, requestRows>>

Explain(t) ==
    /\ thread[t].pc = "explain" /\ explained < MaxExplain
    /\ explained' = explained + 1
    /\ thread' = [thread EXCEPT ![t].pc = "insert", ![t].info = explained + 1]
    /\ UNCHANGED <<input_schema_map_, requestRows>>

\* mutant: the newer answer replaces the older one
InsertReplaces(t) ==
    /\ thread[t].pc = "insert"
    /\ input_schema_map_' = [input_schema_map_ EXCEPT ![thread[t].sql] = thread[t].info]
    /\ GetRequestRow(t, thread[t].sql)
    /\ thread' = [thread EXCEPT ![t] = Idle]
    /\ UNCHANGED explained

\* std::map::insert leaves an entry that is there alone; the entry of the map is used.
Insert(t) ==
    /\ thread[t].pc = "insert"
    /\ input_schema_map_' = [input_schema_map_ EXCEPT ![thread[t].sql] = IF @ = None THEN thread[t].info ELSE @]
    /\ GetRequestRow(t, thread[t].sql)
    /\ thread' = [thread EXCEPT ![t] = Idle]
    /\ UNCHANGED explained

Next == \E t \in Threads : \/ \E s \in Sqls : Lookup(t, s)
                           \/ Explain(t) \/ ExplainFails(t) \/ Insert(t)

Spec == Init /\ [][Next]_vars

----------------------------------------------------------------------------
(* Properties *)

\* The schema that a RequestRow points to is still in the map, however the calls of
\* GetInputSchema interleave: the pointer does not dangle.
SchemaLives == \A r \in requestRows : input_schema_map_[r.sql] = r.schema

----------------------------------------------------------------------------
(* Proof that SchemaLives holds, for any number of threads, statements and answers *)

\* A RequestRow points to an entry that has been inserted, and entries are inserted
\* from answers only.
IInv ==
    /\ input_schema_map_ \in [Sqls -> Nat]
    /\ explained \in Nat
    /\ thread \in [Threads -> [pc: {"idle", "explain", "insert"}, sql: Sqls \cup {None}, info: Nat]]
    /\ \A t \in Threads : thread[t].pc # "idle" => thread[t].sql \in Sqls
    /\ \A t \in Threads : thread[t].pc = "insert" => thread[t].info # None
    /\ \A r \in requestRows : r.sql \in Sqls /\ r.schema # None /\ input_schema_map_[r.sql] = r.schema

LEMMA InitIInv == Init => IInv
    BY DEF Init, IInv, Idle, None

\* Entries stay, and a new RequestRow is given one.
LEMMA RowsKept ==
    ASSUME IInv, NEW s \in Sqls, NEW t, GetRequestRow(t, s), input_schema_map_'[s] # None,
           \A x \in Sqls : input_schema_map_[x] # None => input_schema_map_'[x] = input_schema_map_[x]
    PROVE  \A r \in requestRows' : r.sql \in Sqls /\ r.schema # None /\ input_schema_map_'[r.sql] = r.schema
    BY DEF IInv, GetRequestRow

LEMMA NextIInv ==
    ASSUME IInv, [Next]_vars
    PROVE  IInv'
<1>1. ASSUME NEW t \in Threads, NEW s \in Sqls, Lookup(t, s) PROVE IInv'
  <2>1. CASE input_schema_map_[s] # None
    <3>1. UNCHANGED <<input_schema_map_, thread, explained>> /\ GetRequestRow(t, s)
        BY <2>1, <1>1 DEF Lookup
    <3>2. \A r \in requestRows' : r.sql \in Sqls /\ r.schema # None /\ input_schema_map_'[r.sql] = r.schema
        BY <3>1, <2>1, RowsKept
    <3> QED
        BY <3>1, <3>2 DEF IInv
  <2>2. CASE input_schema_map_[s] = None
      BY <2>2, <1>1 DEF Lookup, IInv, None
  <2> QED
      BY <2>1, <2>2
<1>2. ASSUME NEW t \in Threads, Explain(t) PROVE IInv'
  <2> DEFINE Thread == [pc: {"idle", "explain", "insert"}, sql: Sqls \cup {None}, info: Nat]
  <2> PICK old : old = thread[t]
      OBVIOUS
  <2> PICK k : k = explained + 1
      OBVIOUS
  <2>n. PICK new : new = [old EXCEPT !.pc = "insert", !.info = k]
      OBVIOUS
  <2>1. old \in Thread /\ old.pc = "explain" /\ old.sql \in Sqls /\ thread \in [Threads -> Thread]
      BY <1>2 DEF Explain, IInv
  <2>2. k \in Nat /\ k # None
      BY DEF IInv, None
  <2>3. new \in Thread /\ new.pc = "insert" /\ new.info = k /\ new.sql = old.sql
      BY <2>n, <2>1, <2>2
  <2>4. thread' = [thread EXCEPT ![t] = new] /\ explained' = k /\ UNCHANGED <<input_schema_map_, requestRows>>
      BY <2>n, <1>2 DEF Explain
  <2> HIDE DEF Thread
  <2>5. /\ thread' \in [Threads -> Thread] /\ thread'[t] = new
        /\ \A x \in Threads : x # t => thread'[x] = thread[x]
      BY <2>1, <2>3, <2>4
  <2> QED
      BY <2>1, <2>2, <2>3, <2>4, <2>5 DEF IInv, Thread
<1>3. ASSUME NEW t \in Threads, ExplainFails(t) PROVE IInv'
    BY <1>3 DEF ExplainFails, Idle, IInv, None
<1>4. ASSUME NEW t \in Threads, Insert(t) PROVE IInv'
  <2> PICK s : s = thread[t].sql
      OBVIOUS
  <2> PICK info : info = thread[t].info
      OBVIOUS
  <2>1. s \in Sqls /\ info \in Nat /\ info # None
      BY <1>4 DEF Insert, IInv
  <2>2. /\ input_schema_map_' = [input_schema_map_ EXCEPT ![s] = IF input_schema_map_[s] = None THEN info ELSE input_schema_map_[s]]
        /\ thread' = [thread EXCEPT ![t] = Idle] /\ UNCHANGED explained /\ GetRequestRow(t, s)
      BY <1>4 DEF Insert
  <2>3. /\ input_schema_map_' \in [Sqls -> Nat] /\ input_schema_map_'[s] # None
        /\ \A x \in Sqls : input_schema_map_[x] # None => input_schema_map_'[x] = input_schema_map_[x]
    <3> PICK f : f = input_schema_map_
        OBVIOUS
    <3> PICK g : g = input_schema_map_'
        OBVIOUS
    <3> PICK v : v = IF f[s] = None THEN info ELSE f[s]
        OBVIOUS
    <3>1. f \in [Sqls -> Nat] /\ g = [f EXCEPT ![s] = v]
        BY <2>2 DEF IInv
    <3>2. v \in Nat /\ v # None /\ (f[s] # None => v = f[s])
        BY <3>1, <2>1
    <3>3. g \in [Sqls -> Nat] /\ g[s] = v /\ \A x \in Sqls : x # s => g[x] = f[x]
        BY <3>1, <3>2, <2>1
    <3> QED
        BY <3>2, <3>3
  <2>4. \A r \in requestRows' : r.sql \in Sqls /\ r.schema # None /\ input_schema_map_'[r.sql] = r.schema
      BY <2>1, <2>2, <2>3, RowsKept
  <2> QED
      BY <2>2, <2>3, <2>4 DEF IInv, Idle, None
<1>5. CASE UNCHANGED vars
    BY <1>5 DEF vars, IInv
<1> QED
    BY <1>1, <1>2, <1>3, <1>4, <1>5 DEF Next

\* No pointer that GetRequestRow took into input_schema_map_ dangles, whatever the
\* number of threads: insert leaves the entry of a faster thread alone.
THEOREM SchemasLive == Spec => []SchemaLives
<1>1. IInv => SchemaLives
    BY DEF IInv, SchemaLives
<1> QED
    BY <1>1, InitIInv, NextIInv, PTL DEF Spec
============================================================================
