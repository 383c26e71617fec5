--------------------------- MODULE MCEngineCache ---------------------------
(***************************************************************************)
(* Small instances of EngineCache.  A behaviour belongs to one part:       *)
(*   "catalogs"  catalogs are replaced and the cache is cleared, in the    *)
(*               modes and with the schemas of the configuration;          *)
(*   "sessions"  batch request sessions are reused with other parameter    *)
(*               schemas and common columns.                               *)
(***************************************************************************)
EXTENDS EngineCache, TLC

CONSTANTS t1, t2, Parts

VARIABLE part

ThreadSymmetry == Permutations(Threads)

NoParameter == {<< >>}

OneType == {<< >>, <<"int32">>}

OneParameter == {<< >>, <<"int32">>, <<"string">>}

Sessions == INSTANCE EngineCache WITH
               Sqls <- {"q1"}, Schemas <- OneType, CommonColumns <- {{}, {1}}, MaxCatalogs <- 0

BatchRequestSessions == \A t \in Threads : session[t].engine_mode = "kBatchRequestMode"

MCInit ==
    /\ part \in Parts
    /\ Init
    /\ part = "sessions" => BatchRequestSessions

CatalogsStep == part = "catalogs" /\ Next /\ UNCHANGED part

SessionsStep ==
    part = "sessions" /\ Sessions!Next /\ BatchRequestSessions' /\ UNCHANGED part

MCNext == CatalogsStep \/ SessionsStep

MCSpec == MCInit /\ [][MCNext]_<<vars, part>>
=============================================================================
