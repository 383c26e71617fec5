---------------------------- MODULE PlanTransform ----------------------------
(***************************************************************************)
(* Planner (src/plan/planner.cc): from the syntax tree of a query to its   *)
(* logical plan.                                                           *)
(*                                                                         *)
(* A query is a record: a SELECT or a UNION of two.  Windows are           *)
(* WindowDefs; an aggregate call names the window it is over in its name   *)
(* field.  m = [request, parallel, cluster] are the options of the         *)
(* planner, fresh says where the allocator puts new nodes.                 *)
(*                                                                         *)
(* BatchModeTransformer and RequestModeTransformer (src/vm/transform.cc):  *)
(* from a logical plan to a physical one, before the passes.               *)
(*                                                                         *)
(* A logical plan is a tree of records; m = [request, parallel, cluster]   *)
(* is the transformer: request mode, or batch mode with or without         *)
(* parallel windows.  Every operation takes the plan context and returns   *)
(* it with the node it made, or fails.                                     *)
(***************************************************************************)
EXTENDS PhysicalOp, WindowMerge

LTable(name) == [t |-> "table", kids |-> <<>>, name |-> name, primary |-> FALSE]
LRename(k, name) == [t |-> "rename", kids |-> <<k>>, name |-> name]
LProject(kids, lists, pos) == [t |-> "project", kids |-> kids, lists |-> lists, pos |-> pos]
LJoin(l, r, type, orders, cond) ==
    [t |-> "join", kids |-> <<l, r>>, type |-> type, orders |-> orders, cond |-> cond]
LFilter(k, cond) == [t |-> "filter", kids |-> <<k>>, cond |-> cond]
LGroup(k, by) == [t |-> "group", kids |-> <<k>>, by |-> by]
LSort(k, orders) == [t |-> "sort", kids |-> <<k>>, orders |-> orders]
LLimit(k, cnt) == [t |-> "limit", kids |-> <<k>>, cnt |-> cnt]
LDistinct(k) == [t |-> "distinct", kids |-> <<k>>]
LUnion(l, r, all) == [t |-> "union", kids |-> <<l, r>>, all |-> all]
LQuery(k) == [t |-> "query", kids |-> <<k>>]

WindowPlan(name, keys, orders, frame, unions, notin, exclude) ==
    [name |-> name, keys |-> keys, orders |-> orders, frame |-> frame,
     unions |-> unions, notin |-> notin, exclude |-> exclude]
NoWindow == WindowPlan("", <<>>, NoOrder, NoFrame, <<>>, FALSE, FALSE)

ProjectList(win, agg, projects) == [win |-> win, agg |-> agg, projects |-> projects]

-----------------------------------------------------------------------------
(* Checks *)

(* ExprListNullOrEmpty of orders *)
Unordered(orders) == orders.by = <<>>

(* At most one order expression, and that a column of the context *)
CheckTimeOrIntegerOrderColumn(c, n, ctx, orders) ==
    Unordered(orders) \/ (Len(orders.by) = 1 /\ orders.by[1].t = "ref"
                          /\ Resolve(c.ops, n, ctx, orders.by[1]) # {})

(* The offsets asked for are clamped at CURRENT: only the type can fail *)
CheckHistoryWindowFrame(frame) == frame.type # "range"

CheckWindow(c, n, win) ==
    /\ win.keys # <<>>
    /\ ~Unordered(win.orders)
    /\ CheckHistoryWindowFrame(win.frame)
    /\ CheckTimeOrIntegerOrderColumn(c, n, c.ops[n].ctx, win.orders)

(* The slices of two outputs have the same number of columns *)
CheckUnionAvailable(c, l, r) ==
    LET size(n) == [i \in DOMAIN c.ops[n].ctx.sources |-> Len(c.ops[n].ctx.sources[i].cols)]
    IN size(l) = size(r)

CheckExprDependOnChildOnly(c, n, exprs) ==
    \A e \in ToSet(exprs) : DependsOnlyOn(c.ops, n, c.ops[n].ctx, e)

IsSimpleProjectExpr(e) == e.t \in {"ref", "const"}

IsSimpleProject(projects) == \A p \in ToSet(projects) : IsSimpleProjectExpr(p.expr)

-----------------------------------------------------------------------------
(* Projects *)

(* Expands * to the columns of every slice, whatever relation it names *)
ExtractProjectInfos(c, n, projects) ==
    LET ctx == IF n = 0 THEN NoContext ELSE c.ops[n].ctx
        all == FlattenSeq([i \in DOMAIN ctx.sources |->
                   [j \in DOMAIN ctx.sources[i].cols |->
                       LET name == ctx.sources[i].cols[j].name
                       IN Project(name, Ref(ctx.sources[i].name, name), NoFrame)]])
    IN FlattenSeq([i \in DOMAIN projects |->
           IF projects[i].expr.t = "all" THEN all ELSE <<projects[i]>>])

CreatePhysicalConstProjectNode(c, list) ==
    IF \E p \in ToSet(list.projects) : p.expr.t = "all" THEN Failed(c)
    ELSE CreateOp(c, ConstProject(ExtractProjectInfos(c, 0, list.projects)))

(* keys, orders and frame of a window *)
WindowOp(win) == Window(win.keys, win.orders, win.frame)

(* op_map_ compares logical plans with PlanEquals, which does not look at   *)
(* the primary flag of a table, at the positions of a project and at the    *)
(* ALL of a union.                                                         *)
RECURSIVE PlanKey(_)
PlanKey(l) ==
    [f \in (DOMAIN l) \ {"primary", "pos", "all"} |->
        IF f = "kids" THEN [i \in DOMAIN l.kids |-> PlanKey(l.kids[i])] ELSE l[f]]

(* Windows are compared by the addresses of their keys: a plan with one is  *)
(* equal to no other.                                                      *)
RECURSIVE HasWindow(_)
HasWindow(l) ==
    \/ l.t = "project" /\ \E list \in ToSet(l.lists) : list.win # NoWindow
    \/ \E k \in ToSet(l.kids) : HasWindow(k)

RECURSIVE TransformPlanOp(_, _, _)

(* The tables of UNION in a window, added in turn *)
AddUnionTables(c, m, n, unions) ==
    FoldLeft(LAMBDA acc, u :
        IF ~acc.ok THEN acc
        ELSE LET r == TransformPlanOp(acc.c, m, u)
             IN IF r.ok THEN AddWindowUnion(r.c, n, r.n) ELSE r,
        Done(c, n), unions)

CreatePhysicalProjectNode(c, m, type, n, list, append) ==
    LET node == c.ops[n]
        projects == ExtractProjectInfos(c, n, list.projects)
        agg == CreateOp(c, WindowAggNode(n, projects, WindowOp(list.win),
                                         list.win.notin, append, list.win.exclude))
    IN IF Len(list.projects) = 1 /\ list.projects[1].expr.t = "all" /\ Len(node.ctx.sources) = 1
       THEN Done(c, n)
       ELSE IF append /\ type # "window" THEN Failed(c)
       ELSE CASE type \in {"row", "table"} ->
                     CreateOp(c, IF IsSimpleProject(projects) THEN SimpleProject(c, n, projects)
                                 ELSE ProjectNode(type, n, projects))
              [] type = "agg" -> CreateOp(c, ProjectNode("agg", n, projects))
              [] type = "groupagg" ->
                     IF node.op # "group" THEN Failed(c)
                     ELSE CreateOp(c, GroupAggNode(n, projects, node.keys))
              [] type = "window" ->
                     IF agg.ok THEN AddUnionTables(agg.c, m, agg.n, list.win.unions) ELSE agg

-----------------------------------------------------------------------------
(* Windows in request mode *)

(* The request is brought to the columns of its table if it has others. *)
CreateRequestUnionNode(c, l, r, t, win, notin, exclude) ==
    LET schema == c.cat[TableNamed(c, t)].cols
        match == CreateOp(c, SimpleProject(c, l, [j \in DOMAIN schema |->
                                                     Project(schema[j], Ref(t, schema[j]), NoFrame)]))
        left == IF CheckUnionAvailable(c, l, r) THEN Done(c, l) ELSE match
    IN IF Len(c.ops[r].ctx.sources) # 1 \/ ~left.ok THEN Failed(c)
       ELSE CreateOp(left.c, RequestUnion(left.n, r, win, notin, exclude, TRUE))

(* A request union of n and the table of request provider p, over which the *)
(* projects of n are repeated, then the union tables                        *)
RequestWindow(c, m, n, p, win) ==
    LET t == c.ops[p].table
        right == CreateOp(c, TableProvider(t))
        same == IF n = p THEN right
                ELSE CreateOp(right.c, SimpleProject(right.c, right.n, c.ops[n].projects))
        union == CreateRequestUnionNode(same.c, n, same.n, t, WindowOp(win), win.notin, win.exclude)
    IN IF ~same.ok THEN same
       ELSE IF ~union.ok THEN union
       ELSE AddUnionTables(union.c, m, union.n, win.unions)

RECURSIVE TransformWindowOp(_, _, _, _)
TransformWindowOp(c, m, n, win) ==
    LET node == c.ops[n]
        first == c.ops[node.prods[1]]
        rename == TransformWindowOp(c, m, node.prods[1], win)
        union == RequestWindow(c, m, node.prods[1], node.prods[1], win)
    IN IF ~CheckWindow(c, n, win) THEN Failed(c)
       ELSE CASE node.op = "rename" ->
                     IF rename.ok THEN CreateOp(rename.c, RenameNode(rename.c, rename.n, node.name))
                     ELSE rename
              [] node.op = "request" -> RequestWindow(c, m, n, n, win)
              [] node.op = "requestjoin" ->
                     IF /\ node.join.type \in {"left", "last"}
                        /\ CheckExprDependOnChildOnly(c, node.prods[1], win.keys)
                        /\ IsDataProvider(first)
                     THEN IF union.ok
                          THEN CreateOp(union.c, JoinNode(union.c, union.n, node.prods[2], node.join, FALSE))
                          ELSE union
                     ELSE Failed(c)
              [] node.op = "simple" ->
                     IF first.op = "request" THEN RequestWindow(c, m, n, node.prods[1], win) ELSE Failed(c)
              [] OTHER -> Failed(c)

(* TransformProjectOp in batch and in request mode *)
TransformProjectOp(c, m, list, n, append) ==
    LET win == IF m.request /\ list.win # NoWindow THEN TransformWindowOp(c, m, n, list.win) ELSE Done(c, n)
        create(type) == CreatePhysicalProjectNode(win.c, m, type, win.n, list, append)
        out == win.c.ops[win.n].out
    IN IF n = 0 THEN CreatePhysicalConstProjectNode(c, list)
       ELSE IF ~win.ok THEN win
       ELSE CASE out = "row" -> create("row")
              [] out = "group" -> create("groupagg")
              [] out = "table" ->
                     IF ~list.agg THEN create("table")
                     ELSE IF m.request THEN create("agg")
                     ELSE IF CheckWindow(c, n, list.win) THEN create("window") ELSE Failed(c)

-----------------------------------------------------------------------------
(* Project plans: a list of projects for each window *)

(* The project at a position of the output *)
ProjectAt(l, i) == l.lists[l.pos[i][1]].projects[l.pos[i][2]]

(* The output columns picked from the joined lists by their names *)
PickByName(p) == Project(p.name, IF p.expr.t = "all" THEN p.expr ELSE Ref("", p.name), NoFrame)

TransformLists(c, m, l, n) ==
    FoldLeft(LAMBDA acc, list :
        IF ~acc.ok THEN acc
        ELSE LET r == TransformProjectOp(acc.c, m, list, n, FALSE)
             IN [ok |-> r.ok, c |-> r.c, ns |-> Append(acc.ns, r.n)],
        [ok |-> TRUE, c |-> c, ns |-> <<>>], l.lists)

(* The concat join of a list of nodes *)
ConcatJoins(c, m, ns) ==
    FoldLeft(LAMBDA acc, n :
        IF ~acc.ok THEN acc
        ELSE CreateOp(acc.c, IF m.request THEN RequestJoin(acc.n, n, Join("concat", NoExpr, NoOrder), FALSE)
                             ELSE JoinNode(acc.c, acc.n, n, Join("concat", NoExpr, NoOrder), FALSE)),
        Done(c, ns[1]), Tail(ns))

(* TransformProjectPlanOp in request mode and                               *)
(* TransformProjectPlanOpWithWindowParallel in batch mode                   *)
TransformProjectPlanOpWithWindowParallel(c, m, l, n) ==
    LET lists == TransformLists(c, m, l, n)
        join == ConcatJoins(lists.c, m, lists.ns)
        picked == ProjectList(NoWindow, FALSE, [i \in DOMAIN l.pos |-> PickByName(ProjectAt(l, i))])
    IN IF ~lists.ok THEN Failed(lists.c)
       ELSE IF Len(l.lists) = 1 THEN Done(lists.c, lists.ns[1])
       ELSE IF ~join.ok THEN join
       ELSE CreatePhysicalProjectNode(join.c, m, IF m.request THEN "row" ELSE "table", join.n, picked, FALSE)

(* Each window appends its columns to its input; the first list comes last  *)
(* and picks the columns of the others by name                             *)
TransformProjectPlanOpWindowSerial(c, m, l, n) ==
    LET chain == FoldRight(LAMBDA list, acc :
                     IF acc.ok THEN TransformProjectOp(acc.c, m, list, acc.n, TRUE) ELSE acc,
                     Tail(l.lists), Done(c, n))
        picked == [l.lists[1] EXCEPT !.projects = [i \in DOMAIN l.pos |->
                      IF l.pos[i][1] = 1 THEN ProjectAt(l, i) ELSE PickByName(ProjectAt(l, i))]]
    IN IF Len(l.lists) = 1 THEN TransformProjectOp(c, m, l.lists[1], n, FALSE)
       ELSE IF ~chain.ok THEN chain
       ELSE TransformProjectOp(chain.c, m, picked, chain.n, FALSE)

TransformProjectPlanOp(c, m, l) ==
    LET depend == IF l.kids = <<>> THEN Done(c, 0) ELSE TransformPlanOp(c, m, l.kids[1])
    IN IF ~depend.ok THEN depend
       ELSE IF m.request \/ m.parallel
       THEN TransformProjectPlanOpWithWindowParallel(depend.c, m, l, depend.n)
       ELSE TransformProjectPlanOpWindowSerial(depend.c, m, l, depend.n)

-----------------------------------------------------------------------------
(* The other plans *)

TransformJoinOp(c, m, l, a, b) ==
    LET join == Join(l.type, l.cond, l.orders)
        r == CreateOp(c, IF m.request THEN RequestJoin(a, b, join, FALSE) ELSE JoinNode(c, a, b, join, FALSE))
    IN IF r.ok /\ CheckTimeOrIntegerOrderColumn(r.c, r.n, r.c.ops[r.n].ctx, l.orders) THEN r ELSE Failed(r.c)

TransformUnionOp(c, l, a, b) ==
    IF CheckUnionAvailable(c, a, b) THEN CreateOp(c, UnionNode(a, b, l.all)) ELSE Failed(c)

(* In request mode the rows of the request's group, the request included *)
TransformGroupOp(c, l, n) ==
    LET right == CreateOp(c, TableProvider(c.ops[n].table))
    IN IF c.ops[n].op = "request"
       THEN CreateRequestUnionNode(right.c, n, right.n, c.ops[n].table,
                                   Window(l.by, NoOrder, NoFrame), FALSE, FALSE)
       ELSE CreateOp(c, GroupNode(n, l.by))

TransformSortOp(c, l, n) ==
    IF Unordered(l.orders) THEN Done(c, n)
    ELSE IF CheckTimeOrIntegerOrderColumn(c, n, c.ops[n].ctx, l.orders) THEN CreateOp(c, SortNode(c, n, l.orders))
    ELSE Failed(c)

TransformFilterOp(c, l, n) == CreateOp(c, FilterNode(c, n, l.cond))
TransformLimitOp(c, l, n) == CreateOp(c, LimitNode(c, n, l.cnt))
TransformRenameOp(c, l, n) == CreateOp(c, RenameNode(c, n, l.name))
TransformDistinctOp(c, n) == CreateOp(c, DistinctNode(c, n))

TransformScanOp(c, m, l) ==
    IF \A t \in ToSet(c.cat) : t.name # l.name THEN Failed(c)
    ELSE CreateOp(c, IF m.request /\ l.primary THEN RequestProvider(l.name) ELSE TableProvider(l.name))

(* The children first, then the plan; a plan met before is not transformed  *)
(* again                                                                   *)
TransformPlanOp(c, m, l) ==
    LET key == PlanKey(l)
        hits == SelectSeq(c.map, LAMBDA e : e.key = key)
        a == TransformPlanOp(c, m, l.kids[1])
        b == TransformPlanOp(a.c, m, l.kids[2])
        r == CASE l.t = "table" -> TransformScanOp(c, m, l)
               [] l.t = "project" -> TransformProjectPlanOp(c, m, l)
               [] ~a.ok -> a
               [] l.t = "query" -> a
               [] l.t = "limit" -> TransformLimitOp(a.c, l, a.n)
               [] l.t = "group" -> TransformGroupOp(a.c, l, a.n)
               [] l.t = "sort" -> TransformSortOp(a.c, l, a.n)
               [] l.t = "filter" -> TransformFilterOp(a.c, l, a.n)
               [] l.t = "rename" -> TransformRenameOp(a.c, l, a.n)
               [] l.t = "distinct" -> TransformDistinctOp(a.c, a.n)
               [] ~b.ok -> b
               [] l.t = "join" -> TransformJoinOp(b.c, m, l, a.n, b.n)
               [] l.t = "union" -> TransformUnionOp(b.c, l, a.n, b.n)
    IN IF hits # <<>> /\ ~HasWindow(l) THEN Done(c, hits[1].n)
       ELSE IF r.ok THEN Done([r.c EXCEPT !.map = Append(@, [key |-> key, n |-> r.n])], r.n)
       ELSE r

TransformQueryPlan(c, m, l) == TransformPlanOp(c, m, l.kids[1])

-----------------------------------------------------------------------------
(* Planner *)


Target(name, expr) == [name |-> name, expr |-> expr]

Select(list, from) ==
    [t |-> "select", list |-> list, from |-> from, where |-> NoExpr, group |-> <<>>, windows |-> <<>>,
     having |-> NoExpr, order |-> NoOrder, limit |-> 0, distinct |-> FALSE]

UnionQuery(l, r, all) == [t |-> "union", left |-> l, right |-> r, all |-> all]

TableRef(name, alias) == [t |-> "table", name |-> name, alias |-> alias]
JoinRef(l, r, type, orders, cond) ==
    [t |-> "join", left |-> l, right |-> r, type |-> type, orders |-> orders, cond |-> cond, alias |-> ""]
QueryRef(q, alias) == [t |-> "query", query |-> q, alias |-> alias]

Good(l) == [ok |-> TRUE, plan |-> l]
PlanError == [ok |-> FALSE, plan |-> LTable("")]

(* The calls of an expression that have an OVER *)
RECURSIVE OverCalls(_)
OverCalls(e) ==
    (IF e.t = "agg" /\ e.name # "" THEN {e.name} ELSE {})
        \cup UNION {OverCalls(a) : a \in ToSet(e.args)}

(* WindowOfExpression: the window of the calls of an expression, which must *)
(* be one and the same                                                     *)
WindowOfExpression(windows, e) ==
    LET defs == {w \in ToSet(windows) : w.name \in OverCalls(e)}
    IN IF OverCalls(e) = {} THEN [ok |-> TRUE, w |-> NullWindow]
       ELSE IF Cardinality(OverCalls(e)) = Cardinality(defs) /\ \A v, w \in defs : WindowEquals(v, w)
       THEN [ok |-> TRUE, w |-> CHOOSE w \in defs : TRUE]
       ELSE [ok |-> FALSE, w |-> NullWindow]

(* Rows with a MAXSIZE are refused *)
CheckWindowFrame(w) == w.frame # NullFrame /\ (w.frame.type = "rows" => w.frame.max = 0)

RECURSIVE CreateQueryPlan(_, _, _)

RECURSIVE CreateTableReferencePlanNode(_, _, _)
CreateTableReferencePlanNode(m, fresh, ref) ==
    LET l == CreateTableReferencePlanNode(m, fresh, ref.left)
        r == CreateTableReferencePlanNode(m, fresh, ref.right)
        plan == CASE ref.t = "table" -> Good(LTable(ref.name))
                  [] ref.t = "join" -> IF l.ok /\ r.ok
                                       THEN Good(LJoin(l.plan, r.plan, ref.type, ref.orders, ref.cond))
                                       ELSE PlanError
                  [] ref.t = "query" -> CreateQueryPlan(m, fresh, ref.query)
    IN IF plan.ok /\ ref.alias # "" THEN Good(LRename(plan.plan, ref.alias)) ELSE plan

(* The window of a project list, with the plans of its union tables *)
CreateWindowPlanNode(m, fresh, w) ==
    LET unions == [i \in DOMAIN w.unions |-> CreateTableReferencePlanNode(m, fresh, w.unions[i])]
    IN [ok |-> CheckWindowFrame(w) /\ \A i \in DOMAIN unions : unions[i].ok,
        win |-> WindowPlan(w.name, w.keys, w.orders, w.frame, [i \in DOMAIN unions |-> unions[i].plan],
                           w.notin, w.exclude)]

(* One row or aggregate project for each target, with its position and the  *)
(* frame of its own window                                                 *)
TargetProject(q, pos, w) ==
    Project(q.list[pos].name, q.list[pos].expr, w.frame) @@ [pos |-> pos]

(* mutant: the other list goes first whatever the positions are *)
MergeProjectListMutant(l1, l2) == l2 \o l1

(* ProjectListNode::MergeProjectList: by position *)
MergeProjectList(l1, l2) == SortSeq(l1 \o l2, LAMBDA p, q : p.pos < q.pos)

(* The project lists of a SELECT: one for the targets without a window, one *)
(* for each window that is left after merging, in the order of the ids      *)
ProjectLists(m, fresh, q) ==
    LET of == [pos \in DOMAIN q.list |-> WindowOfExpression(q.windows, q.list[pos].expr)]
        used == {of[pos].w : pos \in DOMAIN q.list}
        first(w) == Min({pos \in DOMAIN q.list : of[pos].w = w})
        ids == (IF NullWindow \in used THEN <<NullWindow>> ELSE <<>>)
                   \o SetToSortSeq(used \ {NullWindow}, LAMBDA v, w : first(v) < first(w))
        merge == MergeProjectMap(ids, fresh)
        home(pos) == merge.home[CHOOSE i \in DOMAIN ids : ids[i] = of[pos].w]
        projects(w) == SelectSeq([pos \in DOMAIN q.list |-> TargetProject(q, pos, of[pos].w)],
                                 LAMBDA p : home(p.pos) = w)
        plan == [i \in DOMAIN merge.windows |-> CreateWindowPlanNode(m, fresh, merge.windows[i])]
        list(i) == LET w == merge.windows[i]
                   IN IF w = NullWindow THEN ProjectList(NoWindow, q.group # <<>> /\ ~merge.merged, projects(w))
                      ELSE ProjectList(plan[i].win, TRUE, projects(w))
    IN [ok |-> /\ \A pos \in DOMAIN q.list : of[pos].ok
               /\ \A v, w \in ToSet(q.windows) : v.name = w.name => v = w
               /\ \A w \in ToSet(q.windows) : CheckWindowFrame(w)
               /\ merge.ok
               /\ \A i \in DOMAIN merge.windows : merge.windows[i] # NullWindow => plan[i].ok,
        lists |-> [i \in DOMAIN merge.windows |-> list(i)]]

(* The list without a window is put into that of the first window *)
WithFirstWindow(m, lists) ==
    IF Len(lists) > 1 /\ lists[1].win = NoWindow /\ ~m.cluster /\ ~m.parallel
    THEN <<[lists[2] EXCEPT !.projects = MergeProjectList(lists[1].projects, @)]>>
             \o SubSeq(lists, 3, Len(lists))
    ELSE lists

(* pos_mapping: the list and the place in it of each target *)
PosMapping(q, lists) ==
    [pos \in DOMAIN q.list |->
        CHOOSE p \in UNION {{<<i, j>> : j \in DOMAIN lists[i].projects} : i \in DOMAIN lists} :
            lists[p[1]].projects[p[2]].pos = pos]

(* FROM, WHERE, GROUP BY, the projects, DISTINCT, HAVING, ORDER BY, LIMIT *)
CreateSelectQueryPlan(m, fresh, q) ==
    LET refs == [i \in DOMAIN q.from |-> CreateTableReferencePlanNode(m, fresh, q.from[i])]
        from == FoldLeft(LAMBDA l, r : LJoin(l, r.plan, "full", NoOrder, NoExpr), refs[1].plan, Tail(refs))
        where == IF q.where = NoExpr THEN from ELSE LFilter(from, q.where)
        group == IF q.group = <<>> THEN where ELSE LGroup(where, q.group)
        p == ProjectLists(m, fresh, q)
        lists == WithFirstWindow(m, p.lists)
        project == LProject(IF refs = <<>> THEN <<>> ELSE <<group>>, lists, PosMapping(q, lists))
        distinct == IF q.distinct THEN LDistinct(project) ELSE project
        having == IF q.having = NoExpr THEN distinct ELSE LFilter(distinct, q.having)
        order == IF Unordered(q.order) THEN having ELSE LSort(having, q.order)
        limit == IF q.limit = 0 THEN order ELSE LLimit(order, q.limit)
    IN IF (\A i \in DOMAIN refs : refs[i].ok) /\ q.list # <<>> /\ p.ok THEN Good(LQuery(limit)) ELSE PlanError

CreateUnionQueryPlan(m, fresh, q) ==
    LET l == CreateQueryPlan(m, fresh, q.left)
        r == CreateQueryPlan(m, fresh, q.right)
    IN IF l.ok /\ r.ok THEN Good(LUnion(l.plan, r.plan, q.all)) ELSE PlanError

CreateQueryPlan(m, fresh, q) ==
    IF q.t = "select" THEN CreateSelectQueryPlan(m, fresh, q) ELSE CreateUnionQueryPlan(m, fresh, q)

-----------------------------------------------------------------------------
(* The request table *)

IsSimpleProjectPlan(l) ==
    \A list \in ToSet(l.lists) : \A p \in ToSet(list.projects) : p.expr.t \in {"ref", "const"}

RECURSIVE IsTable(_)
IsTable(l) ==
    \/ l.t = "table"
    \/ l.t \in {"rename", "query"} /\ IsTable(l.kids[1])
    \/ l.t = "project" /\ IsSimpleProjectPlan(l) /\ l.kids # <<>> /\ IsTable(l.kids[1])

(* ValidatePrimaryPath of the logical plan: the tables a plan may have as  *)
(* its primary one, none if the path is not valid                          *)
RECURSIVE PrimaryTable(_)
PrimaryTable(l) ==
    CASE l.t = "table" -> {l.name}
      [] l.t \in {"join", "union"} ->
             IF IsTable(l.kids[2]) \/ PrimaryTable(l.kids[1]) = PrimaryTable(l.kids[2])
             THEN PrimaryTable(l.kids[1]) ELSE {}
      [] OTHER -> IF l.kids = <<>> THEN {} ELSE PrimaryTable(l.kids[1])

(* SetIsPrimary of the table at the end of the path *)
RECURSIVE SetIsPrimary(_)
SetIsPrimary(l) ==
    IF l.t = "table" THEN [l EXCEPT !.primary = TRUE]
    ELSE [l EXCEPT !.kids[1] = SetIsPrimary(@)]

CreatePlanTree(m, fresh, q) ==
    LET r == CreateQueryPlan(m, fresh, q)
    IN IF ~r.ok \/ ~m.request THEN r
       ELSE IF PrimaryTable(r.plan) = {} THEN PlanError
       ELSE Good(SetIsPrimary(r.plan))
=============================================================================
