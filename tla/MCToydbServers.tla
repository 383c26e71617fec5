-------------------------- MODULE MCToydbServers --------------------------
(***************************************************************************)
(* Small instances of ToydbServers and, as another part, of SchemaCache:   *)
(* two threads of one client.  A behaviour belongs to one part, the        *)
(* variables of the other keep their initial values.                       *)
(***************************************************************************)
EXTENDS ToydbServers, TLC

CONSTANT Parts

VARIABLES part, input_schema_map_, explained, thread, requestRows

Schemas == INSTANCE SchemaCache WITH Threads <- {1, 2}, Sqls <- {1, 2}, MaxExplain <- 4

St(op, table, def, values) == [op |-> op, db |-> "db", table |-> table, def |-> def, values |-> values]

CreateDb == St("CreateDatabase", "", "", << >>)
Create(t, d) == St("CreateTable", t, d, << >>)

\* Two clients create the same table with different definitions and insert into it; two
\* clients create two tables, one with a definition that no tablet accepts first; value 2
\* fits only d2.
MCPrograms ==
    {<< <<CreateDb, Create("t1", "d1")>>,
        <<Create("t1", "d2"), St("Insert", "t1", "", <<1, 2>>)>> >>,
     << <<CreateDb, Create("t1", "d1"), Create("t1", "d1")>>,
        <<Create("t2", "d2")>> >>,
     << <<CreateDb, Create("t1", "bad"), St("Query", "t1", "", << >>)>>,
        <<Create("", "d1"), St("GetTables", "", "", << >>)>> >>}
MCFits(d, v) == v # 2 \/ d = "d2"

cachevars == <<input_schema_map_, explained, thread, requestRows>>

MCInit == part \in Parts /\ Init /\ Schemas!Init

ServersStep == part = "servers" /\ Next /\ UNCHANGED <<part, cachevars>>
SchemasStep == part = "schemas" /\ Schemas!Next /\ UNCHANGED <<part, vars>>

MCNext == ServersStep \/ SchemasStep

MCSpec == MCInit /\ [][MCNext]_<<part, vars, cachevars>> /\ Fairness

\* The schema that a RequestRow points to stays in the map of its client, however
\* the calls of DBMSSdkImpl::GetInputSchema interleave: the pointer does not dangle.
SchemaLives == Schemas!SchemaLives
============================================================================
