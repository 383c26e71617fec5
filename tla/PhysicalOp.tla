----------------------------- MODULE PhysicalOp -----------------------------
(***************************************************************************)
(* The schema context of a physical node (src/vm/schemas_context.cc): the  *)
(* slices of the rows the node outputs and, for every column, its name,    *)
(* its unique id and the column of a producer it comes from; and how a     *)
(* column is found in it by name or by id.                                 *)
(*                                                                         *)
(* A plan is a heap: ops[n] is the physical node n.  A context holds the   *)
(* producers of the node it belongs to.  child = 0 is the code's -1.       *)
(* Column types are left out: every column has the type of the others.     *)
(*                                                                         *)
(* Physical plan nodes (src/vm/physical_op.cc, include/vm/physical_op.h)   *)
(* and the plan context that creates them (src/vm/physical_plan_context).  *)
(*                                                                         *)
(* A plan context is a record: cat, the catalog; ops, the nodes created    *)
(* so far; ids, the last column id given out; map, what has been           *)
(* transformed.  Operations return it changed.  A node is rewritten in     *)
(* place as in the code: nodes that share a producer see the change.       *)
(*                                                                         *)
(* Expressions are values.  ExprReplacer rewrites nested operands that two *)
(* nodes may share in place; here each node has its own.                   *)
(***************************************************************************)
EXTENDS Integers, Sequences, FiniteSets, SequencesExt, FiniteSetsExt, Functions, TLC

(* Expressions, all of one shape so that they can be compared.             *)
(* An aggregate call has the name of its window; over holds the partition   *)
(* columns of a window that is written in the call itself.                 *)
Expr(t, rel, name, num, args, over) ==
    [t |-> t, rel |-> rel, name |-> name, num |-> num, args |-> args, over |-> over]

NoExpr == Expr("none", "", "", 0, <<>>, <<>>)
Ref(rel, name) == Expr("ref", rel, name, 0, <<>>, <<>>)
ColumnId(i) == Expr("id", "", "", i, <<>>, <<>>)
Const(v) == Expr("const", "", "", v, <<>>, <<>>)
Binary(op, a, b) == Expr(op, "", "", 0, <<a, b>>, <<>>)
AggOver(a, w) == Expr("agg", "", w, 0, <<a>>, <<>>)
AllOf(rel) == Expr("all", rel, "", 0, <<>>, <<>>)

(* struct SchemaSource: one slice *)
Column(name, id, child, childid) ==
    [name |-> name, id |-> id, child |-> child, cid |-> childid]

Slice(name, cols) == [name |-> name, cols |-> cols]

Context(name, prods, sources) == [name |-> name, prods |-> prods, sources |-> sources]

NoContext == Context("", <<>>, <<>>)

Positions(ctx) ==
    UNION {{<<i, j>> : j \in DOMAIN ctx.sources[i].cols} : i \in DOMAIN ctx.sources}

ColumnAt(ctx, p) == ctx.sources[p[1]].cols[p[2]]

Before(p, q) == p[1] < q[1] \/ (p[1] = q[1] /\ p[2] < q[2])

(* column_name_map_[name], a list in the order of the columns *)
Named(ctx, name) == {p \in Positions(ctx) : ColumnAt(ctx, p).name = name}

(* column_id_map_: the last column with the id *)
WithId(ctx, id) == {p \in Positions(ctx) : ColumnAt(ctx, p).id = id}

FirstOf(ps) == CHOOSE p \in ps : \A q \in ps \ {p} : Before(p, q)
LastOf(ps) == CHOOSE p \in ps : \A q \in ps \ {p} : Before(q, p)

GetColumnNum(ctx) == Cardinality(Positions(ctx))

OutputSchema(ctx) ==
    FlattenSeq([i \in DOMAIN ctx.sources |->
        [j \in DOMAIN ctx.sources[i].cols |-> ctx.sources[i].cols[j].name]])

(* Merge: the slices of a producer, with its ids *)
Merge(child, ctx) ==
    [i \in DOMAIN ctx.sources |->
        Slice(ctx.name, [j \in DOMAIN ctx.sources[i].cols |->
            LET col == ctx.sources[i].cols[j]
            IN Column(col.name, col.id, child, col.id)])]

(* MergeWithNewID: the slices of a producer, with the ids after next *)
MergeWithNewID(child, ctx, next) ==
    LET sizes == [i \in DOMAIN ctx.sources |-> Len(ctx.sources[i].cols)]
        start(i) == next + FoldFunctionOnSet(+, 0, sizes, 1 .. (i - 1))
    IN [i \in DOMAIN ctx.sources |->
           Slice(ctx.name, [j \in DOMAIN ctx.sources[i].cols |->
               LET col == ctx.sources[i].cols[j]
               IN Column(col.name, start(i) + j, child, col.id)])]

IsColumnAmbiguous(ctx, name) ==
    Cardinality({ColumnAt(ctx, p).id : p \in Named(ctx, name)}) # 1

NotFound == [ok |-> FALSE, id |-> 0, child |-> 0, source |-> 0, sid |-> 0]

(* The source column a column of context ctx is traced back to. *)
RECURSIVE BackTrace(_, _, _, _)
BackTrace(ops, n, ctx, p) ==
    LET col == ColumnAt(ctx, p)
    IN IF col.child = 0 THEN [ok |-> TRUE, source |-> n, sid |-> col.id]
       ELSE LET m == ctx.prods[col.child]
                qs == WithId(ops[m].ctx, col.cid)
            IN IF qs = {} THEN [ok |-> FALSE, source |-> 0, sid |-> 0]
               ELSE BackTrace(ops, m, ops[m].ctx, LastOf(qs))

OwnMatch(ctx, rel, name) == (rel = "" \/ rel = ctx.name) /\ Named(ctx, name) # {}

(* The id in ctx of producer i's column with the given id: the same id if   *)
(* ctx has it, else the one child_source_map_ records.                     *)
CandidateId(ctx, i, id) ==
    IF WithId(ctx, id) # {} THEN {id}
    ELSE LET ps == {p \in Positions(ctx) :
                       ColumnAt(ctx, p).child = i /\ ColumnAt(ctx, p).cid = id}
         IN IF ps = {} THEN {} ELSE {ColumnAt(ctx, LastOf(ps)).id}

(* ResolveColumnID, with the path to the source node n is the root of ctx *)
RECURSIVE ResolveColumnID(_, _, _, _, _)
ResolveColumnID(ops, n, ctx, rel, name) ==
    IF OwnMatch(ctx, rel, name)
    THEN LET p == FirstOf(Named(ctx, name))
             trace == BackTrace(ops, n, ctx, p)
         IN IF IsColumnAmbiguous(ctx, name) \/ ~trace.ok THEN NotFound
            ELSE [ok |-> TRUE, id |-> ColumnAt(ctx, p).id, child |-> ColumnAt(ctx, p).child,
                  source |-> trace.source, sid |-> trace.sid]
    ELSE LET found == {[i |-> i, r |-> ResolveColumnID(ops, ctx.prods[i], ops[ctx.prods[i]].ctx, rel, name)] :
                          i \in DOMAIN ctx.prods}
             cand(x) == IF x.r.ok THEN CandidateId(ctx, x.i, x.r.id) ELSE {}
             hits == {x \in found : cand(x) # {}}
         IN IF Cardinality(UNION {cand(x) : x \in hits}) # 1 THEN NotFound
            ELSE LET x == CHOOSE y \in hits : \A z \in hits : y.i <= z.i
                 IN [ok |-> TRUE, id |-> CHOOSE id \in cand(x) : TRUE, child |-> x.i,
                     source |-> x.r.source, sid |-> x.r.sid]

(* ResolveColumnIndexByName and ResolveColumnRefIndex: the set of at most   *)
(* one position.                                                           *)
ResolveColumnIndexByName(ops, n, ctx, rel, name) ==
    IF rel = ""
    THEN LET ps == Named(ctx, name)
         IN IF ps = {} \/ IsColumnAmbiguous(ctx, name) THEN {} ELSE {FirstOf(ps)}
    ELSE LET r == ResolveColumnID(ops, n, ctx, rel, name)
         IN IF r.ok THEN {LastOf(WithId(ctx, r.id))} ELSE {}

ResolveColumnIndexByID(ctx, id) ==
    IF WithId(ctx, id) = {} THEN {} ELSE {LastOf(WithId(ctx, id))}

(* Where a column reference or a column id is found in a context *)
Resolve(ops, n, ctx, e) ==
    IF e.t = "id" THEN ResolveColumnIndexByID(ctx, e.num)
    ELSE ResolveColumnIndexByName(ops, n, ctx, e.rel, e.name)

(* DoSearchExprDependentColumns: children first, then the partition columns *)
(* of the window of a call.  The column of an order expression is not a     *)
(* child of it: orders are searched in vain.                               *)
RECURSIVE SearchColumns(_)
SearchColumns(e) ==
    FlattenSeq([i \in DOMAIN e.args |-> SearchColumns(e.args[i])])
        \o (IF e.t \in {"ref", "id"} THEN <<e>> ELSE <<>>)
        \o FlattenSeq([i \in DOMAIN e.over |-> SearchColumns(e.over[i])])

(* ResolveExprDependentColumns into ids; it fails on a column not found *)
DependsOnlyOn(ops, n, ctx, e) ==
    \A col \in ToSet(SearchColumns(e)) : Resolve(ops, n, ctx, col) # {}

-----------------------------------------------------------------------------
(* Physical plan nodes *)


(* order of a sort: no expression is orders_ = nullptr; NoExpr is the order *)
(* an index gives                                                          *)
Order(by, asc) == [by |-> by, asc |-> asc]
NoOrder == Order(<<>>, TRUE)

Join(type, cond, sort) ==
    [type |-> type, cond |-> cond, left |-> <<>>, right |-> <<>>, index |-> <<>>, sort |-> sort]

Window(part, sort, frame) ==
    [part |-> part, sort |-> sort, range |-> sort.by, frame |-> frame, index |-> <<>>]

NoFrame == [type |-> "", range |-> <<>>, rows |-> <<>>, max |-> 0]

Project(name, expr, frame) == [name |-> name, expr |-> expr, frame |-> frame]

Node(op, prods, out) ==
    [op |-> op, prods |-> prods, out |-> out, limit |-> 0, ctx |-> NoContext]

TableProvider(t) == Node("data", <<>>, "table") @@ [table |-> t]
RequestProvider(t) == Node("request", <<>>, "row") @@ [table |-> t]
RequestProviderWithCommonColumn(t, common) ==
    Node("request", <<>>, "row") @@ [table |-> t, common |-> common]
PartitionProvider(t, index) == Node("partition", <<>>, "group") @@ [table |-> t, index |-> index]
GroupNode(n, keys) == Node("group", <<n>>, "group") @@ [keys |-> keys]
SortNode(c, n, sort) == Node("sort", <<n>>, c.ops[n].out) @@ [sort |-> sort]
FilterNode(c, n, cond) == Node("filter", <<n>>, c.ops[n].out) @@ [join |-> Join("none", cond, NoOrder)]
LimitNode(c, n, cnt) == [Node("limit", <<n>>, c.ops[n].out) EXCEPT !.limit = cnt] @@ [optimized |-> FALSE]
RenameNode(c, n, name) == Node("rename", <<n>>, c.ops[n].out) @@ [name |-> name]
DistinctNode(c, n) == Node("distinct", <<n>>, c.ops[n].out)
UnionNode(l, r, all) == Node("union", <<l, r>>, "table") @@ [all |-> all]
ConstProject(projects) == Node("const", <<>>, "row") @@ [projects |-> projects]
SimpleProject(c, n, projects) == Node("simple", <<n>>, c.ops[n].out) @@ [projects |-> projects]
ProjectNode(type, n, projects) ==
    Node("project", <<n>>, IF type \in {"row", "agg"} THEN "row" ELSE "table")
        @@ [type |-> type, projects |-> projects]
GroupAggNode(n, projects, keys) == ProjectNode("groupagg", n, projects) @@ [keys |-> keys]
WindowAggNode(n, projects, win, notin, append, exclude) ==
    ProjectNode("window", n, projects)
        @@ [win |-> win, notin |-> notin, append |-> append, exclude |-> exclude,
            joins |-> <<>>, unions |-> <<>>, joined |-> <<>>]
JoinNode(c, l, r, join, rightonly) ==
    Node("join", <<l, r>>, c.ops[l].out) @@ [join |-> join, rightonly |-> rightonly, jctx |-> NoContext]
RequestJoin(l, r, join, rightonly) ==
    Node("requestjoin", <<l, r>>, "row") @@ [join |-> join, rightonly |-> rightonly, jctx |-> NoContext]
RequestUnion(l, r, win, notin, exclude, outrow) ==
    Node("requestunion", <<l, r>>, "table")
        @@ [win |-> win, notin |-> notin, exclude |-> exclude, outrow |-> outrow, unions |-> <<>>]
PostRequestUnion(l, r, range) == Node("postunion", <<l, r>>, "table") @@ [range |-> range]

(* is_block_ of each kind of node *)
IsBlock(node) ==
    ~(node.op \in {"join", "requestjoin", "rename"}
      \/ (node.op = "project" /\ node.type \in {"row", "table"}))

IsDataProvider(node) == node.op \in {"data", "partition", "request"}

-----------------------------------------------------------------------------
(* The plan context *)

PlanContext(cat) == [cat |-> cat, ops |-> <<>>, ids |-> 1000, map |-> <<>>]

TableNamed(c, t) == CHOOSE i \in DOMAIN c.cat : c.cat[i].name = t

(* GetSourceID, GetRequestSourceID: the columns of a table have ids of      *)
(* their own, and others when the table is the request                     *)
GetSourceID(c, t, j) == 100 * TableNamed(c, t) + j
GetRequestSourceID(c, t, j) == 100 * TableNamed(c, t) + 50 + j

Ok(c, node) == [ok |-> TRUE, c |-> c, node |-> node]
Bad(c, node) == [ok |-> FALSE, c |-> c, node |-> node]

(* InitFnDef: every column is found, and no aggregate in a row project *)
InitFnDef(c, n, ctx, projects, is_row) ==
    \A p \in ToSet(projects) :
        /\ p.expr.t # "all"
        /\ DependsOnlyOn(c.ops, n, ctx, [p.expr EXCEPT !.over = <<>>])
        /\ ~(is_row /\ p.expr.t = "agg")

(* InitProjectSchemaSource: a column keeps its id, a computed one is new *)
InitProjectSchemaSource(c, n, ctx, projects) ==
    [j \in DOMAIN projects |->
        LET e == projects[j].expr
            id == IF e.t = "ref"
                  THEN ColumnAt(ctx, FirstOf(Resolve(c.ops, n, ctx, e))).id ELSE e.num
        IN IF e.t \in {"ref", "id"} THEN Column(projects[j].name, id, 1, id)
           ELSE Column(projects[j].name, c.ids + j, 0, 0)]

InitProject(c, node, n, ctx, is_row) ==
    IF ~InitFnDef(c, n, ctx, node.projects, is_row) THEN Bad(c, node)
    ELSE LET cols == InitProjectSchemaSource(c, n, ctx, node.projects)
         IN Ok([c EXCEPT !.ids = @ + Len(cols)],
               [node EXCEPT !.ctx = Context("", node.prods, <<Slice("", cols)>>)])

(* InitSchema of the data providers: one slice, or for a request with       *)
(* common columns a slice for those and one for the others                 *)
InitProvider(c, node) ==
    LET schema == c.cat[TableNamed(c, node.table)].cols
        id(j) == IF node.op = "request" THEN GetRequestSourceID(c, node.table, j)
                 ELSE GetSourceID(c, node.table, j)
        common == IF "common" \in DOMAIN node THEN node.common ELSE {}
        cols(js) == LET s == SetToSortSeq(js, <)
                    IN [k \in DOMAIN s |-> Column(schema[s[k]], id(s[k]), 0, 0)]
        all == DOMAIN schema
        slices == IF common \notin {{}, all} THEN <<cols(common), cols(all \ common)>>
                  ELSE <<cols(all)>>
    IN Ok(c, [node EXCEPT !.ctx = Context(node.table, <<>>,
                  [i \in DOMAIN slices |-> Slice(node.table, slices[i])])])

JoinRight(c, node) ==
    LET right == c.ops[node.prods[2]].ctx
    IN IF node.join.type = "concat" THEN Merge(2, right) ELSE MergeWithNewID(2, right, c.ids)

(* InitSchema of PhysicalJoinNode and PhysicalRequestJoinNode *)
InitJoin(c, node) ==
    LET left == c.ops[node.prods[1]].ctx
        right == c.ops[node.prods[2]].ctx
        lmerge == IF node.rightonly THEN <<>> ELSE Merge(1, left)
    IN Ok([c EXCEPT !.ids = @ + GetColumnNum(right)],
          [node EXCEPT !.ctx = Context("", node.prods, lmerge \o JoinRight(c, node)),
                       !.jctx = Context("", node.prods, Merge(1, left) \o Merge(2, right))])

InitUnary(c, node, name, m) ==
    Ok(c, [node EXCEPT !.ctx = Context(name, node.prods, Merge(m, c.ops[node.prods[m]].ctx))])

InitWithNewID(c, node) ==
    LET ctx == c.ops[node.prods[1]].ctx
    IN Ok([c EXCEPT !.ids = @ + GetColumnNum(ctx)],
          [node EXCEPT !.ctx = Context("", node.prods, MergeWithNewID(1, ctx, c.ids))])

(* Appends a node whose schema is initialised. *)
Register(r) ==
    IF r.ok THEN [ok |-> TRUE, c |-> [r.c EXCEPT !.ops = Append(@, r.node)],
                  n |-> Len(r.c.ops) + 1]
    ELSE [ok |-> FALSE, c |-> r.c, n |-> 0]

Failed(c) == [ok |-> FALSE, c |-> c, n |-> 0]
Done(c, n) == [ok |-> TRUE, c |-> c, n |-> n]

(* InitJoinList: a join node for each window join, made once per number of  *)
(* window joins, in the order of the list                                  *)
InitJoinList(c, node) ==
    IF Len(node.joins) = Len(node.joined) THEN [c |-> c, joined |-> node.joined]
    ELSE FoldLeft(LAMBDA acc, wj :
             LET cur == IF acc.joined = <<>> THEN node.prods[1] ELSE Last(acc.joined)
                 r == Register(InitJoin(acc.c, JoinNode(acc.c, cur, wj.n, wj.join, FALSE)))
             IN [c |-> r.c, joined |-> Append(acc.joined, r.n)],
             [c |-> c, joined |-> <<>>], node.joins)

(* InitSchema of PhysicalWindowAggrerationNode *)
InitWindowAgg(c, node) ==
    LET list == InitJoinList(c, node)
        n == IF list.joined = <<>> THEN node.prods[1] ELSE Last(list.joined)
        r == InitProject(list.c, [node EXCEPT !.joined = list.joined], n, list.c.ops[n].ctx, FALSE)
        input == list.c.ops[node.prods[1]].ctx
    IN IF r.ok /\ node.append
       THEN Ok(r.c, [r.node EXCEPT !.ctx.sources = @ \o Merge(1, input)]) ELSE r

InitSchema(c, node) ==
    LET child == c.ops[node.prods[1]].ctx
    IN CASE IsDataProvider(node) -> InitProvider(c, node)
         [] node.op = "const" -> InitProject(c, node, 0, NoContext, TRUE)
         [] node.op = "simple" -> InitProject(c, node, node.prods[1], child, TRUE)
         [] node.op = "project" ->
                IF node.type = "window" THEN InitWindowAgg(c, node)
                ELSE InitProject(c, node, node.prods[1], child, node.type \in {"row", "table"})
         [] node.op \in {"join", "requestjoin"} -> InitJoin(c, node)
         [] node.op \in {"union", "postunion"} -> InitWithNewID(c, node)
         [] node.op = "requestunion" ->
                IF node.outrow THEN InitWithNewID(c, node)
                ELSE Ok(c, [node EXCEPT !.ctx =
                         Context("", node.prods, Merge(1, c.ops[node.prods[2]].ctx))])
         [] node.op = "rename" -> InitUnary(c, node, node.name, 1)
         [] OTHER -> InitUnary(c, node, "", 1)

(* PhysicalPlanContext::CreateOp *)
CreateOp(c, node) == Register(InitSchema(c, node))

(* ClearSchema, InitSchema and FinishSchema of a node of the plan; on a     *)
(* failure the schema stays cleared                                        *)
ReInit(c, n) ==
    LET r == InitSchema(c, c.ops[n])
        cleared == Context("", c.ops[n].prods, <<>>)
    IN IF r.ok THEN Done([r.c EXCEPT !.ops[n] = r.node], n)
       ELSE Failed([r.c EXCEPT !.ops[n].ctx = cleared])

(* AddWindowUnion: the union table must have the columns of the input,      *)
(* unless only its rows are output; it gets a copy of the window           *)
AddWindowUnion(c, n, m) ==
    LET node == c.ops[n]
        checked == node.op = "requestunion" => node.outrow
    IN IF checked /\ OutputSchema(c.ops[m].ctx) # OutputSchema(c.ops[node.prods[1]].ctx) THEN Failed(c)
       ELSE Done([c EXCEPT !.ops[n].unions = Append(@, [n |-> m, win |-> node.win])], n)

AddWindowJoin(c, n, m, join) ==
    [c EXCEPT !.ops[n].joins = <<[n |-> m, join |-> join]>> \o @]

(* GetSelectSourceIndex: the slice a simple project hands on unchanged, or 0 *)
GetSelectSourceIndex(c, node) ==
    LET n == node.prods[1]
        ctx == c.ops[n].ctx
        at(j) == Resolve(c.ops, n, ctx, node.projects[j].expr)
        slices == {i \in DOMAIN ctx.sources :
                      /\ Len(ctx.sources[i].cols) = Len(node.projects)
                      /\ \A j \in DOMAIN node.projects :
                            node.projects[j].expr.t \in {"ref", "id"} /\ at(j) = {<<i, j>>}}
    IN IF slices = {} THEN 0 ELSE CHOOSE i \in slices : TRUE

-----------------------------------------------------------------------------
(* Rewriting expressions for new producers *)

FlatColumns(ctx) == FlattenSeq([i \in DOMAIN ctx.sources |-> ctx.sources[i].cols])

FlatIndex(ctx, p) ==
    p[2] + FoldLeft(LAMBDA sum, slice : sum + Len(slice.cols), 0, SubSeq(ctx.sources, 1, p[1] - 1))

(* The expression a column of the origin context becomes in the rebased     *)
(* one: the same id, else the same name, else the same place               *)
Rebase(ops, on, octx, rn, rctx, col) ==
    LET at == FirstOf(Resolve(ops, on, octx, col))
        id == IF col.t = "id" THEN col.num ELSE ColumnAt(octx, at).id
        byname == IF col.t = "ref" THEN Resolve(ops, rn, rctx, col) ELSE {}
        flat == FlatColumns(rctx)
        i == FlatIndex(octx, at)
    IN IF Resolve(ops, on, octx, col) = {} THEN {}
       ELSE IF WithId(rctx, id) # {} THEN {ColumnId(id)}
       ELSE IF byname # {} THEN {ColumnId(ColumnAt(rctx, FirstOf(byname)).id)}
       ELSE IF i \in DOMAIN flat THEN {ColumnId(flat[i].id)}
       ELSE {}

(* BuildColumnReplacement of all columns of a list of expressions *)
BuildColumnReplacement(ops, on, octx, rn, rctx, exprs) ==
    LET cols == UNION {ToSet(SearchColumns(e)) : e \in ToSet(exprs)}
        to == [col \in cols |-> Rebase(ops, on, octx, rn, rctx, col)]
    IN [ok |-> \A col \in cols : to[col] # {},
        map |-> [col \in {x \in cols : to[x] # {}} |-> CHOOSE e \in to[col] : TRUE]]

(* ExprReplacer::Replace: the window of a call is left as it is *)
RECURSIVE Replace(_, _)
Replace(map, e) ==
    IF e \in DOMAIN map THEN map[e]
    ELSE [e EXCEPT !.args = [i \in DOMAIN e.args |-> Replace(map, e.args[i])]]

ReplaceList(map, es) == [i \in DOMAIN es |-> Replace(map, es[i])]

ReplaceProjects(map, ps) == [i \in DOMAIN ps |-> [ps[i] EXCEPT !.expr = Replace(map, @)]]

(* Sort::ReplaceExpr: the column of an order expression is not a child of   *)
(* it, so that it is never replaced                                        *)
ReplaceSort(map, sort) == sort

(* Filter::ReplaceExpr, Join::ReplaceExpr *)
ReplaceJoin(map, j) ==
    [j EXCEPT !.cond = Replace(map, @), !.left = ReplaceList(map, @), !.right = ReplaceList(map, @),
              !.index = ReplaceList(map, @), !.sort = ReplaceSort(map, @)]

(* WindowOp::ReplaceExpr, RequestWindowOp::ReplaceExpr *)
ReplaceWindow(map, w) ==
    [w EXCEPT !.part = ReplaceList(map, @), !.sort = ReplaceSort(map, @),
              !.range = ReplaceList(map, @), !.index = ReplaceList(map, @)]

(* ResolvedRelatedColumns of joins, filters and windows *)
JoinExprs(j) == j.left \o j.right \o j.index \o <<j.cond>> \o j.sort.by
WindowExprs(w) == w.part \o w.sort.by \o w.range \o w.index
ProjectExprs(ps) == [i \in DOMAIN ps |-> ps[i].expr]

(* The replacement of the columns of expressions of node n for the producer *)
(* m in place of the first one                                             *)
ForNewChild(c, node, m, exprs) ==
    LET n == node.prods[1]
    IN BuildColumnReplacement(c.ops, n, c.ops[n].ctx, m, c.ops[m].ctx, exprs)

(* The node WithNewChildren makes of each kind of node for producers ms; it *)
(* is not yet initialised                                                  *)
RebasedGroup(c, node, ms) ==
    LET r == ForNewChild(c, node, ms[1], node.keys)
    IN [ok |-> r.ok, node |-> [node EXCEPT !.keys = ReplaceList(r.map, @)]]

RebasedProject(c, node, ms) ==
    LET r == ForNewChild(c, node, ms[1], ProjectExprs(node.projects))
    IN [ok |-> r.ok, node |-> [node EXCEPT !.projects = ReplaceProjects(r.map, @)]]

RebasedGroupAgg(c, node, ms) ==
    LET r == RebasedProject(c, node, ms)
        g == RebasedGroup(c, r.node, ms)
    IN [ok |-> r.ok /\ g.ok, node |-> g.node]

(* A window aggregation cannot be given new producers. *)
RebasedWindowAgg(node) == [ok |-> FALSE, node |-> node]

RebasedSort(c, node, ms) ==
    LET r == ForNewChild(c, node, ms[1], node.sort.by)
    IN [ok |-> r.ok, node |-> [node EXCEPT !.sort = ReplaceSort(r.map, @)]]

RebasedFilter(c, node, ms) ==
    LET r == ForNewChild(c, node, ms[1], JoinExprs(node.join))
    IN [ok |-> r.ok, node |-> [node EXCEPT !.join = ReplaceJoin(r.map, @)]]

(* Each column in the left producer if it can be rebased there, else in the *)
(* right one                                                               *)
RebasedJoin(c, n, ms) ==
    LET node == c.ops[n]
        cols == UNION {ToSet(SearchColumns(e)) : e \in ToSet(JoinExprs(node.join))}
        to(col, i) == Rebase(c.ops, n, node.jctx, ms[i], c.ops[ms[i]].ctx, col)
        best(col) == IF to(col, 1) # {} THEN to(col, 1) ELSE to(col, 2)
        map == [col \in {x \in cols : best(x) # {}} |-> CHOOSE e \in best(col) : TRUE]
    IN [ok |-> \A col \in cols : best(col) # {}, node |-> [node EXCEPT !.join = ReplaceJoin(map, @)]]

RebasedRequestUnion(c, node, ms) ==
    LET r == ForNewChild(c, node, ms[1], WindowExprs(node.win))
        u(i) == ForNewChild(c, node, ms[1], WindowExprs(node.unions[i].win))
    IN [ok |-> r.ok /\ \A i \in DOMAIN node.unions : u(i).ok,
        node |-> [node EXCEPT !.win = ReplaceWindow(r.map, @),
                     !.unions = [i \in DOMAIN @ |-> [@[i] EXCEPT !.win = ReplaceWindow(u(i).map, @)]]]]

RebasedPostRequestUnion(c, node, ms) ==
    LET r == ForNewChild(c, node, ms[1], node.range)
    IN [ok |-> r.ok, node |-> [node EXCEPT !.range = ReplaceList(r.map, @)]]

Rebased(c, n, ms) ==
    LET node == c.ops[n]
    IN CASE node.op = "group" -> RebasedGroup(c, node, ms)
         [] node.op = "simple" -> RebasedProject(c, node, ms)
         [] node.op = "project" ->
                CASE node.type = "window" -> RebasedWindowAgg(node)
                  [] node.type = "groupagg" -> RebasedGroupAgg(c, node, ms)
                  [] OTHER -> RebasedProject(c, node, ms)
         [] node.op = "sort" -> RebasedSort(c, node, ms)
         [] node.op = "filter" -> RebasedFilter(c, node, ms)
         [] node.op \in {"join", "requestjoin"} -> RebasedJoin(c, n, ms)
         [] node.op = "requestunion" -> RebasedRequestUnion(c, node, ms)
         [] node.op = "postunion" -> RebasedPostRequestUnion(c, node, ms)
         [] OTHER -> [ok |-> TRUE, node |-> node]

(* PhysicalPlanContext::WithNewChildren keeps the limit *)
WithNewChildren(c, n, ms) ==
    LET r == Rebased(c, n, ms)
    IN IF r.ok THEN CreateOp(c, [r.node EXCEPT !.prods = ms]) ELSE Failed(c)
=============================================================================
