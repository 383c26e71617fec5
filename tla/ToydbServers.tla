--------------------------- MODULE ToydbServers ---------------------------
(***************************************************************************)
(* The toydb servers and their clients (examples/toydb/src/{dbms,tablet,   *)
(* sdk}): DBMSServerImpl keeps databases and tables, creates a table on    *)
(* its tablet while it holds mu_, and learns of tablets by KeepAlive;      *)
(* TabletServerImpl keeps the catalog of tables with their rows; a client  *)
(* runs the statements of DBMSSdkImpl and TabletSdkImpl one at a time.     *)
(*                                                                         *)
(* A remote call is a message to a server, executed at any time or never,  *)
(* and an answer to the caller unless the caller has stopped waiting.  A   *)
(* caller may stop waiting at any time (cntl.Failed()); the call may be    *)
(* executed afterwards all the same.                                       *)
(*                                                                         *)
(* A table definition is valid or not, and a value fits a definition or    *)
(* does not: columns and rows are the subject of RowCodec.                 *)
(***************************************************************************)
EXTENDS Integers, Sequences, FiniteSets, FiniteSetsExt

CONSTANTS Clients,
          Endpoints,      \* of tablets; numbers, in the order of std::set
          Programs,       \* statements that the clients execute
          ValidDefs,      \* definitions Table::Init and TabletTableHandler::Init accept
          Fits(_, _),     \* Fits(d, v): BuildInsertRequest can encode value v for d
          MaxConnects     \* bound on the times a client asks for tablets

None == 0

Statements == UNION {UNION {{p[c][i] : i \in DOMAIN p[c]} : c \in Clients} : p \in Programs}
TableKeys == {<<st.db, st.table>> : st \in Statements}
Values == UNION {{st.values[i] : i \in DOMAIN st.values} : st \in Statements}

ASSUME EndpointsAssumption == Endpoints \subseteq Nat \ {0} /\ MaxConnects \in Nat /\ None \notin Clients

\* The parser gives every INSERT a row.
ASSUME ProgramsAssumption ==
    /\ \A p \in Programs : \A c \in Clients : p[c] \in Seq(Statements)
    /\ \A st \in Statements :
          /\ st.op \in {"CreateDatabase", "CreateTable", "GetTables", "Insert", "Query"}
          /\ st.values \in Seq(Values)
          /\ st.op = "Insert" => st.values # << >>

NoStatement == [op |-> "none", db |-> "", table |-> "", def |-> "", values |-> << >>]
Connecting == [NoStatement EXCEPT !.op = "connect"]

VARIABLES
    \* dbms
    databases,    \* databases_: the tables of every database, in order
    tid_, tablets_,
    tablet_sdk,   \* endpoint, or None
    locked,       \* mu_ is held
    handlers,     \* calls of AddTable in progress
    \* tablets
    up,           \* per endpoint: down, init (calling KeepAlive) or up
    catalog,      \* per endpoint: tables by database and name
    \* clients and network
    client, network

dbms == <<databases, tid_, tablets_, tablet_sdk, locked, handlers>>
vars == <<databases, tid_, tablets_, tablet_sdk, locked, handlers, up, catalog, client, network>>

NewClient(todo) ==
    [sdk |-> None, st |-> NoStatement, at |-> 0, sent |-> FALSE, calls |-> 0, waiting |-> FALSE,
     code |-> "none", connects |-> 0, todo |-> todo]
\* at: rows of the statement sent; sent: Insert is called, rather than GetTableSchema

Init ==
    /\ databases = << >> /\ tid_ = 0 /\ tablets_ = {} /\ tablet_sdk = None
    /\ locked = FALSE /\ handlers = {}
    /\ up = [e \in Endpoints |-> "down"] /\ catalog = [e \in Endpoints |-> << >>]
    /\ \E program \in Programs : client = [c \in Clients |-> NewClient(program[c])]
    /\ network = {}

----------------------------------------------------------------------------
(* Remote calls *)

\* The dbms calls a tablet on behalf of the client whose AddTable it executes; a
\* tablet calls as client None.
Id(c, n, nested) == [client |-> c, n |-> n, nested |-> nested]

Message(id, to, op, st, value, tid) ==
    [id |-> id, to |-> to, op |-> op, st |-> st, value |-> value, tid |-> tid]

With(f, x, v) == [y \in DOMAIN f \cup {x} |-> IF y = x THEN v ELSE f[y]]

\* The message that the next call of client c sends.
Sent(c, to, op, st, value) == Message(Id(c, client[c].calls + 1, FALSE), to, op, st, value, 0)

Finished(c, code) == [client[c] EXCEPT !.st = NoStatement, !.waiting = FALSE, !.code = code, !.at = 0, !.sent = FALSE]

\* What client c does with the outcome of the call it waits for: its new state and the
\* messages it sends.
Outcome(cl, out) == [client |-> cl, out |-> out]

\* DBMSSdkImpl::InitTabletSdk: the first endpoint is used from now on.
Connected(c, code, read) ==
    Outcome([Finished(c, code) EXCEPT !.sdk = IF read = << >> THEN None ELSE read[1]], {})

\* BuildInsertRequest: with the schema the next row is encoded, and sent.
BuildInsertRequest(c, code, read) ==
    LET k == client[c].at + 1
        v == client[c].st.values[k]
    IN IF code # "Ok" THEN Outcome(Finished(c, code), {})
       ELSE IF ~Fits(read[1], v) THEN Outcome(Finished(c, "TypeError"), {})
       ELSE Outcome([client[c] EXCEPT !.calls = @ + 1, !.at = k, !.sent = TRUE],
                    {Sent(c, client[c].sdk, "Insert", client[c].st, v)})

\* mutant: a call that failed is made again
InsertAgain(c, code, read) ==
    IF code = "ConnError" /\ client[c].calls < 5
      THEN Outcome([client[c] EXCEPT !.calls = @ + 1],
                   {Sent(c, client[c].sdk, "Insert", client[c].st, client[c].st.values[client[c].at])})
      ELSE Outcome(Finished(c, "Ok"), {})

\* mutant: a call that failed is not noticed
InsertWaits(c, code, read) ==
    IF code = "ConnError" THEN Outcome(client[c], {}) ELSE Outcome(Finished(c, "Ok"), {})

\* Insert sets the status to 0 whether the call failed or not, and does not look at its
\* answer.  The schema is asked for again for the next row.
InsertReturns(c, code, read) ==
    IF client[c].at < Len(client[c].st.values)
      THEN Outcome([client[c] EXCEPT !.calls = @ + 1, !.sent = FALSE],
                   {Sent(c, client[c].sdk, "GetTableSchema", client[c].st, None)})
      ELSE Outcome(Finished(c, "Ok"), {})

Continue(c, code, read) ==
    CASE client[c].st.op = "connect" -> Connected(c, code, read)
      [] client[c].st.op = "Insert" /\ ~client[c].sent -> BuildInsertRequest(c, code, read)
      [] client[c].st.op = "Insert" /\ client[c].sent -> InsertReturns(c, code, read)
      [] OTHER -> Outcome(Finished(c, code), {})

\* Call m is done.  The answer reaches its caller, if it still waits for it.
Answered(m, code, read) ==
    LET c == m.id.client IN
    IF c \in Clients /\ client[c].calls = m.id.n /\ client[c].waiting
      THEN /\ client' = [client EXCEPT ![c] = Continue(c, code, read).client]
           /\ network' = (network \ {m}) \cup Continue(c, code, read).out
      ELSE network' = network \ {m} /\ UNCHANGED client

\* The caller stops waiting.
Timeout(c) ==
    /\ client[c].waiting
    /\ client' = [client EXCEPT ![c] = Continue(c, "ConnError", << >>).client]
    /\ network' = network \cup Continue(c, "ConnError", << >>).out
    /\ UNCHANGED <<dbms, up, catalog>>

Received(m, to, op) == m \in network /\ m.to = to /\ m.op = op

----------------------------------------------------------------------------
(* DBMSServerImpl *)

AddDatabase(m) ==
    LET name == m.st.db
        code == IF name = "" THEN "BadRequest" ELSE IF name \in DOMAIN databases THEN "NameExists" ELSE "Ok"
    IN /\ Received(m, None, "AddDatabase")
       /\ name = "" \/ ~locked
       /\ databases' = IF code = "Ok" THEN With(databases, name, << >>) ELSE databases
       /\ Answered(m, code, << >>)
       /\ UNCHANGED <<tid_, tablets_, tablet_sdk, locked, handlers, up, catalog>>

GetDatabase(db) ==
    IF db = "" THEN "NoDatabase" ELSE IF db \notin DOMAIN databases THEN "NameExists" ELSE "Ok"

GetTables(m) ==
    LET code == GetDatabase(m.st.db)
    IN /\ Received(m, None, "GetTables")
       /\ m.st.db = "" \/ ~locked
       /\ Answered(m, code, IF code = "Ok" THEN databases[m.st.db] ELSE << >>)
       /\ UNCHANGED <<dbms, up, catalog>>

KeepAlive(m) ==
    /\ Received(m, None, "KeepAlive")
    /\ ~locked
    /\ tablets_' = tablets_ \cup {m.value}
    /\ network' = network \ {m}
    /\ UNCHANGED <<databases, tid_, tablet_sdk, locked, handlers, up, catalog, client>>

\* The endpoints, in the order of the set.
GetTablet(m) ==
    /\ Received(m, None, "GetTablet")
    /\ ~locked
    /\ Answered(m, "Ok", IF tablets_ = {} THEN << >> ELSE <<Min(tablets_)>>)
    /\ UNCHANGED <<dbms, up, catalog>>

\* AddTable first looks the database up, under a lock it then releases.
AddTable(m) ==
    LET code == IF m.st.table = "" THEN "BadRequest" ELSE GetDatabase(m.st.db)
    IN /\ Received(m, None, "AddTable")
       /\ m.st.table = "" \/ m.st.db = "" \/ ~locked
       /\ IF code # "Ok"
            THEN Answered(m, code, << >>) /\ UNCHANGED handlers
            ELSE /\ handlers' = handlers \cup {[m |-> m, pc |-> "lock", code |-> "none"]}
                 /\ network' = network \ {m} /\ UNCHANGED client
       /\ UNCHANGED <<databases, tid_, tablets_, tablet_sdk, locked, up, catalog>>

Listed(db, name) == \E i \in DOMAIN databases[db] : databases[db][i].name = name

\* The call to the tablet that creates the table.
CreateTableMessage(m, endpoint) ==
    Message([m.id EXCEPT !.nested = TRUE], endpoint, "CreateTable", m.st, None, tid_ + 1)

\* mutant: mu_ is released while the tablet is called
AddTableUnlocked(h) ==
    /\ h \in handlers /\ h.pc = "lock" /\ ~locked
    /\ ~Listed(h.m.st.db, h.m.st.table) /\ (tablet_sdk # None \/ tablets_ # {})
    /\ tablet_sdk' = IF tablet_sdk = None THEN Min(tablets_) ELSE tablet_sdk
    /\ network' = network \cup {CreateTableMessage(h.m, tablet_sdk')}
    /\ handlers' = (handlers \ {h}) \cup {[h EXCEPT !.pc = "create"]}
    /\ UNCHANGED <<databases, tid_, tablets_, locked, up, catalog, client>>

\* Then, with mu_: the table is new, and a tablet is known.  The tablet chosen first
\* is kept for ever.
AddTableLocked(h) ==
    LET refused == IF Listed(h.m.st.db, h.m.st.table) THEN "TableExists"
                   ELSE IF tablet_sdk = None /\ tablets_ = {} THEN "ConnError" ELSE "no"
    IN /\ h \in handlers /\ h.pc = "lock" /\ ~locked
       /\ IF refused # "no"
            THEN /\ handlers' = handlers \ {h} /\ Answered(h.m, refused, << >>)
                 /\ UNCHANGED <<locked, tablet_sdk>>
            ELSE /\ locked' = TRUE
                 /\ tablet_sdk' = IF tablet_sdk = None THEN Min(tablets_) ELSE tablet_sdk
                 /\ network' = network \cup {CreateTableMessage(h.m, tablet_sdk')}
                 /\ handlers' = (handlers \ {h}) \cup {[h EXCEPT !.pc = "create"]}
                 /\ UNCHANGED client
       /\ UNCHANGED <<databases, tid_, tablets_, up, catalog>>

\* TabletInternalSDK::CreateTable stops waiting.
CreateTableFails(h) ==
    /\ h \in handlers /\ h.pc = "create"
    /\ handlers' = (handlers \ {h}) \cup {[h EXCEPT !.pc = "created", !.code = "ConnError"]}
    /\ UNCHANGED <<databases, tid_, tablets_, tablet_sdk, locked, up, catalog, client, network>>

\* mutant: the status of the tablet is not looked at
AddTableAnyway(h) ==
    /\ h \in handlers /\ h.pc = "created"
    /\ databases' = [databases EXCEPT ![h.m.st.db] = Append(@, [name |-> h.m.st.table, def |-> h.m.st.def])]
    /\ tid_' = tid_ + 1
    /\ locked' = FALSE /\ handlers' = handlers \ {h} /\ Answered(h.m, h.code, << >>)
    /\ UNCHANGED <<tablets_, tablet_sdk, up, catalog>>

\* mutant: mu_ stays locked when the tablet failed
AddTableReturnsLocked(h) ==
    /\ h \in handlers /\ h.pc = "created"
    /\ IF h.code = "Ok"
         THEN /\ databases' = [databases EXCEPT ![h.m.st.db] = Append(@, [name |-> h.m.st.table, def |-> h.m.st.def])]
              /\ tid_' = tid_ + 1 /\ locked' = FALSE
         ELSE UNCHANGED <<databases, tid_, locked>>
    /\ handlers' = handlers \ {h} /\ Answered(h.m, h.code, << >>)
    /\ UNCHANGED <<tablets_, tablet_sdk, up, catalog>>

\* The table is listed and the table id used up only if the tablet said it has the table.
AddTableDone(h) ==
    /\ h \in handlers /\ h.pc = "created"
    /\ IF h.code = "Ok"
         THEN /\ databases' = [databases EXCEPT ![h.m.st.db] = Append(@, [name |-> h.m.st.table, def |-> h.m.st.def])]
              /\ tid_' = tid_ + 1
         ELSE UNCHANGED <<databases, tid_>>
    /\ locked' = FALSE /\ handlers' = handlers \ {h} /\ Answered(h.m, h.code, << >>)
    /\ UNCHANGED <<tablets_, tablet_sdk, up, catalog>>

----------------------------------------------------------------------------
(* TabletServerImpl *)

\* Init registers the tablet before the server starts.
TabletInit(e) ==
    /\ up[e] = "down"
    /\ up' = [up EXCEPT ![e] = "init"]
    /\ network' = network \cup {Message(Id(None, e, FALSE), None, "KeepAlive", NoStatement, e, 0)}
    /\ UNCHANGED <<dbms, catalog, client>>

\* Whether KeepAlive was answered or not is not looked at.
StartTablet(e) ==
    /\ up[e] = "init"
    /\ up' = [up EXCEPT ![e] = "up"]
    /\ UNCHANGED <<dbms, catalog, client, network>>

\* AddTableLocked: Table::Init, TabletTableHandler::Init and TabletCatalog::AddTable.
CreateTable(m) ==
    LET t    == <<m.st.db, m.st.table>>
        code == IF m.st.def \notin ValidDefs THEN "BadRequest"
                ELSE IF t \in DOMAIN catalog[m.to] THEN "TableExists" ELSE "Ok"
    IN /\ \E e \in Endpoints : Received(m, e, "CreateTable") /\ up[e] = "up"
       /\ network' = network \ {m}
       /\ catalog' = IF code = "Ok"
                      THEN [catalog EXCEPT ![m.to] = With(@, t, [def |-> m.st.def, tid |-> m.tid, rows |-> << >>])]
                      ELSE catalog
       /\ handlers' = {IF h.m.id = [m.id EXCEPT !.nested = FALSE] /\ h.pc = "create"
                        THEN [h EXCEPT !.pc = "created", !.code = code] ELSE h : h \in handlers}
       /\ UNCHANGED <<databases, tid_, tablets_, tablet_sdk, locked, up, client>>

GetTableLocked(m) == <<m.st.db, m.st.table>> \in DOMAIN catalog[m.to]

GetTableSchema(m) ==
    /\ \E e \in Endpoints : Received(m, e, "GetTableSchema") /\ up[e] = "up"
    /\ IF GetTableLocked(m)
         THEN Answered(m, "Ok", <<catalog[m.to][<<m.st.db, m.st.table>>].def>>)
         ELSE Answered(m, "TableNotFound", << >>)
    /\ UNCHANGED <<dbms, up, catalog>>

Insert(m) ==
    /\ \E e \in Endpoints : Received(m, e, "Insert") /\ up[e] = "up"
    /\ IF GetTableLocked(m)
         THEN /\ catalog' = [catalog EXCEPT ![m.to][<<m.st.db, m.st.table>>].rows = Append(@, m.value)]
              /\ Answered(m, "Ok", << >>)
         ELSE /\ Answered(m, "TableNotFound", << >>)
              /\ UNCHANGED catalog
    /\ UNCHANGED <<dbms, up>>

\* A query compiles only if its table is in the catalog.
Query(m) ==
    /\ \E e \in Endpoints : Received(m, e, "Query") /\ up[e] = "up"
    /\ IF GetTableLocked(m)
         THEN Answered(m, "Ok", catalog[m.to][<<m.st.db, m.st.table>>].rows)
         ELSE Answered(m, "SqlError", << >>)
    /\ UNCHANGED <<dbms, up, catalog>>

----------------------------------------------------------------------------
(* DBMSSdkImpl, TabletSdkImpl *)

Idle(c) == client[c].st.op = "none"
Calling(c, st) == [client[c] EXCEPT !.calls = @ + 1, !.waiting = TRUE, !.st = st]

\* DBMSSdkImpl::Init asks for the tablets.
InitTabletSdk(c) ==
    /\ Idle(c) /\ client[c].sdk = None /\ client[c].connects < MaxConnects
    /\ network' = network \cup {Sent(c, None, "GetTablet", NoStatement, None)}
    /\ client' = [client EXCEPT ![c] = [Calling(c, Connecting) EXCEPT !.connects = @ + 1]]
    /\ UNCHANGED <<dbms, up, catalog>>

FirstCall == [CreateDatabase |-> "AddDatabase", CreateTable |-> "AddTable", GetTables |-> "GetTables",
              Insert |-> "GetTableSchema", Query |-> "Query"]

\* The dbms or, for rows, the tablet is called.
ExecuteQuery(c) ==
    LET st == Head(client[c].todo)
        to == IF st.op \in {"Insert", "Query"} THEN client[c].sdk ELSE None
    IN /\ Idle(c) /\ client[c].sdk # None /\ client[c].todo # << >>
       /\ network' = network \cup {Sent(c, to, FirstCall[st.op], st, None)}
       /\ client' = [client EXCEPT ![c] = [Calling(c, st) EXCEPT !.todo = Tail(@)]]
       /\ UNCHANGED <<dbms, up, catalog>>

Next ==
    \/ \E m \in network : \/ AddDatabase(m) \/ AddTable(m) \/ GetTables(m) \/ KeepAlive(m) \/ GetTablet(m)
                          \/ CreateTable(m) \/ GetTableSchema(m) \/ Insert(m) \/ Query(m)
    \/ \E h \in handlers : AddTableLocked(h) \/ CreateTableFails(h) \/ AddTableDone(h)
    \/ \E e \in Endpoints : TabletInit(e) \/ StartTablet(e)
    \/ \E c \in Clients : Timeout(c) \/ InitTabletSdk(c) \/ ExecuteQuery(c)

\* A waiting caller times out in the end.  Nothing makes a message arrive or a lock
\* be obtained.
Fairness ==
    /\ \A c \in Clients : WF_vars(Timeout(c))
    /\ WF_vars(\E h \in handlers : CreateTableFails(h))
    /\ WF_vars(\E h \in handlers : AddTableDone(h))

Spec == Init /\ [][Next]_vars /\ Fairness

----------------------------------------------------------------------------
(* Properties *)

Codes == {"none", "Ok", "BadRequest", "NameExists", "NoDatabase", "TableExists", "ConnError",
          "TableNotFound", "SqlError", "TypeError"}

\* The state of the servers and clients: DBMSServerImpl, TabletServerImpl, the sdks.
TypeOK ==
    /\ \A db \in DOMAIN databases : \A i \in DOMAIN databases[db] : databases[db][i].def \in ValidDefs
    /\ tablets_ \subseteq Endpoints /\ tablet_sdk \in tablets_ \cup {None}
    /\ \A h \in handlers : h.pc \in {"lock", "create", "created"} /\ h.code \in Codes
    /\ locked <=> \E h \in handlers : h.pc # "lock"
    /\ \A e \in Endpoints : DOMAIN catalog[e] \subseteq TableKeys
    /\ \A c \in Clients : client[c].code \in Codes /\ client[c].sdk \in tablets_ \cup {None}

ListedTables == UNION {{<<db, databases[db][i].name>> : i \in DOMAIN databases[db]} : db \in DOMAIN databases}
Stored == UNION {DOMAIN catalog[e] : e \in Endpoints}
TabletOf(t) == CHOOSE e \in Endpoints : t \in DOMAIN catalog[e]

\* A table that DBMSServerImpl lists has an id of its own on the tablet: AddTable calls
\* the tablet with tid_ + 1 and counts on under the same lock.
ListedIdsDistinct ==
    \A t, u \in ListedTables :
        t # u => catalog[TabletOf(t)][t].tid # catalog[TabletOf(u)][u].tid

\* A value that a program inserts once is in a table at most once: Insert is never
\* repeated by itself, even if an answer is lost or late.
RowsStoredOnce ==
    \A e \in Endpoints : \A t \in DOMAIN catalog[e] :
        \A i, j \in DOMAIN catalog[e][t].rows : i # j => catalog[e][t].rows[i] # catalog[e][t].rows[j]

\* The tables that exist, with their rows, and those of them that are listed
DefOf == [t \in Stored |-> catalog[TabletOf(t)][t].def]
RowsOf == [t \in Stored |-> catalog[TabletOf(t)][t].rows]
ListedOf == {t \in Stored : \E i \in DOMAIN databases[t[1]] :
                databases[t[1]][i] = [name |-> t[2], def |-> catalog[TabletOf(t)][t].def]}

\* Seen from outside, the servers are a TableService: a table exists from the moment
\* its tablet has it, and is listed with the definition it has there.  Lost answers,
\* late calls and concurrent AddTable handlers do not show.
Service == INSTANCE TableService
    WITH Tables <- TableKeys, Defs <- ValidDefs, Rows <- Values,
         defOf <- DefOf, rowsOf <- RowsOf, listed <- ListedOf
ImplementsTableService == Service!Spec

\* Every statement of a client comes back, whatever is lost.
EveryStatementReturns == \A c \in Clients : ~Idle(c) ~> Idle(c)

\* AddTable gives mu_ back, even if the tablet does not answer: the dbms does not hang.
LockReleased == locked ~> ~locked
============================================================================
