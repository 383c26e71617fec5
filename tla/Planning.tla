------------------------------ MODULE Planning ------------------------------
(***************************************************************************)
(* From the syntax tree of a query to a plan that can be run, step by step: *)
(* the planner, the transformer of the mode, each pass of ApplyPasses,      *)
(* the validation and the generation of functions.  The steps are operator *)
(* constants, whose values are the operators of PlanTransform,             *)
(* PhysicalPasses and CommonColumns; PlanMeaning gives the values of the   *)
(* two the properties compare.                                             *)
(***************************************************************************)
EXTENDS PlanMeaning, CommonColumns

CONSTANTS Queries,     \* queries for every mode
          BatchQueries, \* queries that only run in batch mode
          Catalogs,    \* tables with their columns and indexes
          Modes,       \* [request, parallel, cluster]
          Databases,   \* the rows of the tables and the request
          Fresh,       \* where the allocator puts new nodes
          Commons      \* sets of common columns of the requests of a batch

CONSTANTS LogicalPlan(_, _, _),   \* CreatePlanTree(mode, fresh, query)
          PhysicalPlan(_, _, _),  \* TransformQueryPlan(c, mode, logical)
          ApplyPass(_, _, _),     \* a pass, by its name, on (c, root)
          SplitCommon(_, _, _),   \* CommonColumnOptimize(c, root, common)
          Compiles(_, _),         \* InitFnInfo(c, root)
          OutputRows(_, _, _),    \* the rows node n of a plan outputs on a database
          QueryRows(_, _, _)      \* the rows a query asks for

VARIABLES stage,       \* what has been done
          query, catalog, mode, db, fresh,
          sensitive,   \* performance_sensitive_mode_
          logical,     \* the logical plan
          c,           \* the plan context
          root,        \* the physical plan
          batch        \* batch_request_info_: the common columns of the request
                       \* and of the output, and the nodes to run once per batch

vars == <<stage, query, catalog, mode, db, fresh, sensitive, logical, c, root, batch>>
input == <<query, catalog, mode, db, fresh>>

Init ==
    /\ stage = "query"
    /\ mode \in Modes /\ catalog \in Catalogs
    /\ query \in IF mode.request THEN Queries ELSE Queries \cup BatchQueries
    /\ db \in Databases /\ fresh \in Fresh
    /\ (db.request # <<>>) = mode.request
    /\ sensitive = FALSE
    /\ logical = LTable("")
    /\ c = PlanContext(catalog)
    /\ root = 0
    /\ batch = [common |-> {}, idx |-> {}, nodes |-> {}]

Plan ==
    /\ stage = "query"
    /\ LET r == LogicalPlan(mode, fresh, query)
       IN /\ logical' = r.plan
          /\ stage' = IF r.ok THEN "logical" ELSE "failed"
    /\ UNCHANGED <<input, sensitive, c, root, batch>>

Transform ==
    /\ stage = "logical"
    /\ LET r == PhysicalPlan(c, mode, logical)
       IN /\ c' = r.c /\ root' = r.n
          /\ stage' = IF r.ok THEN "physical" ELSE "failed"
    /\ UNCHANGED <<input, sensitive, logical, batch>>

(* One pass of ApplyPasses *)
Pass(from, to, r) ==
    /\ stage = from
    /\ stage' = to
    /\ c' = r.c /\ root' = r.n
    /\ UNCHANGED <<input, sensitive, logical, batch>>

PassColumnProjectsOptimized == Pass("physical", "projects", ApplyPass("SimpleProjectOptimized", c, root))
PassFilterOptimized == Pass("projects", "conditions", ApplyPass("ConditionOptimized", c, root))
PassLeftJoinOptimized == Pass("conditions", "leftjoin", ApplyPass("LeftJoinOptimized", c, root))
PassGroupAndSortOptimized == Pass("leftjoin", "indexed", ApplyPass("GroupAndSortOptimized", c, root))
PassLimitOptimized == Pass("indexed", "limited", ApplyPass("LimitOptimized", c, root))
PassWindowColumnPruning ==
    Pass("limited", "pruned", IF mode.parallel THEN ApplyPass("WindowColumnPruning", c, root) ELSE Done(c, root))

(* RequestModeTransformer::ApplyPasses; the plan is kept if it cannot be    *)
(* split                                                                   *)
PassCommonColumnOptimize ==
    /\ stage = "pruned"
    /\ stage' = "optimized"
    /\ \E common \in IF mode.request THEN Commons ELSE {{}} :
           LET r == SplitCommon(c, root, common)
           IN IF common = {} THEN UNCHANGED <<c, root, batch>>
              ELSE /\ c' = r.c /\ root' = r.n
                   /\ batch' = [common |-> common, idx |-> r.idx, nodes |-> r.nodes]
    /\ UNCHANGED <<input, sensitive, logical>>

Validate ==
    /\ stage = "optimized"
    /\ sensitive' \in BOOLEAN
    /\ stage' = IF ValidatePlan(c, mode, sensitive', root) THEN "valid" ELSE "failed"
    /\ UNCHANGED <<input, logical, c, root, batch>>

(* BuildBatchRequestModePhysicalPlan: the output of a split plan has a      *)
(* slice for its common columns and one for the others                     *)
OutputFits ==
    LET slices == c.ops[root].ctx.sources
    IN \/ batch.idx = {}
       \/ Cardinality(batch.idx) >= GetColumnNum(c.ops[root].ctx)
       \/ Len(slices) = 2 /\ Len(slices[1].cols) = Cardinality(batch.idx)

Generate ==
    /\ stage = "valid"
    /\ stage' = IF Compiles(c, root) /\ OutputFits THEN "ready" ELSE "failed"
    /\ UNCHANGED <<input, sensitive, logical, c, root, batch>>

Next ==
    \/ Plan \/ Transform
    \/ PassColumnProjectsOptimized \/ PassFilterOptimized \/ PassLeftJoinOptimized
    \/ PassGroupAndSortOptimized \/ PassLimitOptimized \/ PassWindowColumnPruning
    \/ PassCommonColumnOptimize
    \/ Validate \/ Generate

Spec == Init /\ [][Next]_vars

-----------------------------------------------------------------------------

(* The last step made or rewrote a plan; validation and generation do not   *)
HasPlan == stage \notin {"query", "logical", "failed", "valid", "ready"}

(* The smallest LIMIT of a query and the sub query it selects from *)
RECURSIVE LimitOf(_)
LimitOf(q) ==
    LET inner == IF q.from # <<>> /\ q.from[1].t = "query" THEN LimitOf(q.from[1].query) ELSE 0
    IN IF q.limit = 0 \/ inner = 0 THEN q.limit + inner ELSE Min({inner, q.limit})

(* The plan outputs the rows the query asks for, up to order; with a LIMIT  *)
(* as many of them as it allows                                            *)
Answers(out, ref) ==
    LET count(s, r) == Cardinality({i \in DOMAIN s : s[i] = r})
        limit == LimitOf(query)
    IN /\ Len(out) = IF limit = 0 THEN Len(ref) ELSE Min({Len(ref), limit})
       /\ \A r \in ToSet(out) : count(out, r) <= count(ref, r)

(* The columns of a split plan in the order of the query (the output schema *)
(* of BuildBatchRequestModePhysicalPlan)                                    *)
InOrder(row) ==
    LET common == Cardinality(batch.idx)
        at(i) == IF i \in batch.idx THEN Cardinality({k \in batch.idx : k <= i})
                 ELSE common + Cardinality({k \in 1 .. i : k \notin batch.idx})
    IN [i \in DOMAIN row |-> row[at(i)]]
InOrderAll(rows) == [i \in DOMAIN rows |-> InOrder(rows[i])]

(* The nodes reached from a node *)
RECURSIVE Reach(_)
Reach(n) ==
    {n} \cup UNION {Reach(m) : m \in ToSet(Inputs(c.ops[n]))}

(* The order of a last join that was moved into a window is only kept by an *)
(* index: GenWindowJoinList generates no function to sort by                *)
UnsortedWindowJoin ==
    \E n \in Reach(root) : /\ "joins" \in DOMAIN c.ops[n]
                           /\ \E j \in ToSet(c.ops[n].joins) : j.join.sort.by # <<>>

(* WindowColumnPruning gives the union tables the window of the main table: *)
(* their rows are then partitioned twice, or not at all, if only one of     *)
(* them had a fitting index                                                *)
RECURSIVE Partitioned(_)
Partitioned(n) ==
    LET node == c.ops[n]
    IN node.op \in {"partition", "group"} \/ (node.prods # <<>> /\ Partitioned(node.prods[1]))
MisgroupedUnion ==
    \E n \in Reach(root) : /\ c.ops[n].op = "project" /\ "unions" \in DOMAIN c.ops[n]
                           /\ \E u \in ToSet(c.ops[n].unions) : Partitioned(u.n) = (u.win.part # <<>>)

(* GenRequestWindow compiles the functions that filter and sort the rows of *)
(* a window for the columns of the request.  Over the common part of a      *)
(* request these are not the columns of the table: only a window that needs *)
(* neither, because an index gives both, reads the right ones               *)
MisreadWindow ==
    \E n \in Reach(root) :
        LET node == c.ops[n]
            used(w) == w.part # <<>> \/ ~(Unordered(w.sort) \/ w.sort.by[1] = NoExpr)
            schema(m) == OutputSchema(c.ops[m].ctx)
            misread(m, w) == used(w) /\ schema(m) # schema(node.prods[1])
        IN /\ node.op = "requestunion"
           /\ \/ ~node.notin /\ misread(node.prods[2], node.win)
              \/ \E u \in ToSet(node.unions) : misread(u.n, u.win)

(* RunnerBuilder::Build knows the operators *)
HasRunner == \A n \in Reach(root) : c.ops[n].op \notin {"sort", "distinct", "union"}

(* At every stage of planning, in every mode and with every set of indexes, *)
(* the physical plan computes what the query means (Transform*, the passes  *)
(* and the generated functions together).  Of a UNION at the top            *)
(* TransformQueryPlan takes the left query only.                           *)
PlanMeansQuery ==
    HasPlan /\ query.t = "select" /\ HasRunner /\ ~UnsortedWindowJoin /\ ~MisgroupedUnion /\ ~MisreadWindow =>
        Answers(InOrderAll(OutputRows(c, db, root)), QueryRows(catalog, db, query))

(* No pass takes from a plan what generation needs: a plan that was         *)
(* transformed can be compiled at every later stage, whatever columns,      *)
(* orders and sides were moved or replaced; a split plan has the slices     *)
(* the compiler checks for.                                                *)
PassesKeepPlanCompilable == HasPlan => Compiles(c, root) /\ OutputFits

(* A request plan that passed the validation of the performance sensitive   *)
(* mode reads no table in full: every table provider it reaches is an       *)
(* index, except the main table of a window whose instances are not in it.  *)
RequestReadsIndexes ==
    /\ mode.request /\ sensitive /\ stage \in {"valid", "ready"}
    => \A n \in Reach(root) : c.ops[n].op = "data" =>
           \A m \in Reach(root) : n \in ToSet(c.ops[m].prods) => c.ops[m].op = "requestunion" /\ c.ops[m].notin

(* A node that is run once per batch gives the same rows for two requests   *)
(* that agree on the common columns (common_node_set of                    *)
(* CommonColumnOptimize and the batch cache of the runners).               *)
CommonNodesAreCommon ==
    HasPlan /\ HasRunner => \A n \in batch.nodes, d1, d2 \in Databases :
        /\ d1.tables = db.tables /\ d1.request = db.request
        /\ d2.tables = db.tables /\ d2.request # <<>>
        /\ \A i \in batch.common : d1.request[i] = d2.request[i]
        => OutputRows(c, d1, n) = OutputRows(c, d2, n)
=============================================================================
