---------------------------- MODULE CommonColumns ----------------------------
(***************************************************************************)
(* The batch request optimisation (CommonColumnOptimize in                 *)
(* src/passes/physical/batch_request_optimize.cc).  Every node of a request *)
(* plan is split into a part that only reads columns all requests of a      *)
(* batch have in common, and a part for the other columns.  The runners     *)
(* compute the common parts once per batch.                                *)
(*                                                                         *)
(* The plan context c also holds the common columns of the request and      *)
(* dict, the build_dict_: for each node of the old plan its common and its  *)
(* other part, their concatenation, the same in the old order, and the      *)
(* places of its common columns.  0 is nullptr.                            *)
(***************************************************************************)
EXTENDS PhysicalPasses

NoState == [common |-> 0, non |-> 0, concat |-> 0, reordered |-> 0, idx |-> {}]

IsInitialized(s) == s.common # 0 \/ s.non # 0

StateOf(c, n) == IF n \in DOMAIN c.dict THEN c.dict[n] ELSE NoState
WithState(c, n, s) == [c EXCEPT !.dict = (n :> s) @@ @]

OutputSize(c, n) == GetColumnNum(c.ops[n].ctx)

(* BuildOpState::SetAllCommon, SetAllNonCommon: op is the part for node n *)
SetAllCommon(c, n, op) ==
    WithState(c, n, [StateOf(c, n) EXCEPT !.common = op, !.non = 0, !.idx = @ \cup 1 .. OutputSize(c, op)])
SetAllNonCommon(c, n, op) ==
    WithState(c, n, [StateOf(c, n) EXCEPT !.common = 0, !.non = op, !.idx = {}])

SetParts(c, n, common, non, idx) ==
    WithState(c, n, [StateOf(c, n) EXCEPT !.common = common, !.non = non, !.idx = idx])

SetLimitCnt(c, n, cnt) == IF n = 0 THEN c ELSE [c EXCEPT !.ops[n].limit = cnt]

(* A concat join of two parts, or the only one there is *)
Concat(c, l, r) ==
    CASE l = 0 -> Done(c, r)
      [] r = 0 -> Done(c, l)
      [] OTHER -> CreateOp(c, RequestJoin(l, r, Join("concat", NoExpr, NoOrder), FALSE))

(* The columns of a node or of one slice, selected by their ids *)
SelectByID(cols) == [j \in DOMAIN cols |-> Project(cols[j].name, ColumnId(cols[j].id), NoFrame)]

GetSingleSliceResult(c, n) ==
    IF n = 0 \/ Len(c.ops[n].ctx.sources) = 1 THEN Done(c, n)
    ELSE CreateOp(c, SimpleProject(c, n, SelectByID(FlatColumns(c.ops[n].ctx))))

(* The path through first producers to a request union that outputs the     *)
(* request row; <<>> if there is none                                      *)
RECURSIVE FindRequestUnionPath(_, _)
FindRequestUnionPath(c, n) ==
    LET node == c.ops[n]
        rest == FindRequestUnionPath(c, node.prods[1])
    IN CASE node.out = "row" -> <<>>
         [] node.op = "requestunion" -> IF node.outrow THEN <<n>> ELSE <<>>
         [] node.op # "requestunion" /\ node.prods = <<>> -> <<>>
         [] OTHER -> IF rest = <<>> THEN <<>> ELSE <<n>> \o rest

(* A request with some common columns becomes one with two slices and a     *)
(* select of each                                                          *)
ProcessRequest(c, n) ==
    LET p == CreateOp(c, RequestProviderWithCommonColumn(c.ops[n].table, c.common))
        cols(i) == SelectByID(p.c.ops[p.n].ctx.sources[i].cols)
        a == CreateOp(p.c, SimpleProject(p.c, p.n, cols(1)))
        b == CreateOp(a.c, SimpleProject(a.c, p.n, cols(2)))
    IN CASE c.common = {} -> Done(SetAllNonCommon(c, n, n), n)
         [] Cardinality(c.common) = OutputSize(c, n) -> Done(SetAllCommon(c, n, n), n)
         [] OTHER -> Done(SetParts(b.c, n, a.n, b.n, c.common), n)

ProcessData(c, n) ==
    IF c.ops[n].op = "request" THEN ProcessRequest(c, n) ELSE Done(SetAllCommon(c, n, n), n)

-----------------------------------------------------------------------------
(* Which part an expression reads *)

Resolvable(c, n, e) == DependsOnlyOn(c.ops, n, c.ops[n].ctx, e)

ExprDependOnlyOnLeft(c, e, l, r) ==
    l # 0 /\ Resolvable(c, l, e) /\ (r = 0 \/ ~Resolvable(c, r, e))

(* Every column the expressions read from l is in the part of it *)
LeftDependOnlyOnPart(c, exprs, part, l, r) ==
    /\ part # 0
    /\ \A e \in ToSet(exprs) : \A col \in ToSet(SearchColumns(e)) :
           ExprDependOnlyOnLeft(c, col, l, r) => Resolvable(c, part, col)

(* Replaces each column of e by the column at the same place of flat *)
UpdateProjectExpr(c, e, n, flat) ==
    LET ctx == c.ops[n].ctx
        cols == ToSet(SearchColumns(e))
        found == \A col \in cols : Resolve(c.ops, n, ctx, col) # {}
        at(col) == FlatIndex(ctx, FirstOf(Resolve(c.ops, n, ctx, col)))
    IN IF found /\ \A col \in cols : at(col) \in DOMAIN flat
       THEN [ok |-> TRUE, expr |-> Replace([col \in cols |-> ColumnId(flat[at(col)].id)], e)]
       ELSE [ok |-> FALSE, expr |-> e]

(* The projects over n so that they can be computed over m *)
UpdatedProjects(c, ps, n, m) ==
    LET new(i) == IF Resolvable(c, m, ps[i].expr) THEN [ok |-> TRUE, expr |-> ps[i].expr]
                  ELSE UpdateProjectExpr(c, ps[i].expr, n, FlatColumns(c.ops[m].ctx))
    IN [ok |-> \A i \in DOMAIN ps : new(i).ok,
        list |-> [i \in DOMAIN ps |-> [ps[i] EXCEPT !.expr = new(i).expr]]]

ReplaceComponentExpr(c, exprs, l, r) ==
    BuildColumnReplacement(c.ops, l, c.ops[l].ctx, r, c.ops[r].ctx, exprs)

-----------------------------------------------------------------------------
(* Projects *)

(* The lowest row below n that has all columns of the projects *)
RECURSIVE Simplified(_, _, _)
Simplified(c, n, ps) ==
    LET prods == c.ops[n].prods
        good == {i \in DOMAIN prods :
                    /\ c.ops[prods[i]].out = "row"
                    /\ \A p \in ToSet(ps) : Resolvable(c, prods[i], p.expr)}
    IN IF good = {} THEN n ELSE Simplified(c, prods[Min(good)], ps)

CreateSimplifiedProject(c, n, ps) ==
    LET m == Simplified(c, n, ps) IN CreateOp(c, SimpleProject(c, m, ps))

CreateNewProject(c, type, n, ps) ==
    IF type \in {"row", "table", "agg"} THEN CreateOp(c, ProjectNode(type, n, ps)) ELSE Failed(c)

(* The part of project node n for some places of its list: the node itself  *)
(* if it is all of it over the same input                                  *)
ProjectPart(c, n, list, places, m) ==
    LET node == c.ops[n]
        order == SetToSortSeq(places, <)
        ps == [i \in DOMAIN order |-> list[order[i]]]
    IN CASE places = {} -> Done(c, 0)
         [] places = DOMAIN list /\ m = node.prods[1] -> Done(c, n)
         [] places # {} /\ node.op = "simple" -> CreateSimplifiedProject(c, m, ps)
         [] OTHER -> CreateNewProject(c, node.type, m, ps)

RECURSIVE GetOpState(_, _), GetConcatOp(_, _), GetReorderedOp(_, _)

ProcessSimpleProject(c, n) ==
    LET node == c.ops[n]
        in == node.prods[1]
        g == GetConcatOp(c, in)
        s == g.c.dict[in]
        u == UpdatedProjects(g.c, node.projects, in, g.n)
        of(l, r) == {i \in DOMAIN u.list : ExprDependOnlyOnLeft(g.c, u.list[i].expr, l, r)}
        common == of(s.common, s.non)
        other == DOMAIN u.list \ common
        m == IF other # {} /\ other \subseteq of(s.non, s.common) THEN s.non ELSE g.n
        a == ProjectPart(g.c, n, u.list, common, s.common)
        b == ProjectPart(a.c, n, u.list, other, m)
    IN IF g.ok /\ u.ok /\ a.ok /\ b.ok THEN Done(SetParts(b.c, n, a.n, b.n, common), n)
       ELSE Failed(g.c)

(* The producers of a node in their old order *)
ReorderedAll(c, ms) ==
    FoldLeft(LAMBDA acc, m :
        LET r == GetReorderedOp(acc.c, m)
        IN IF acc.ok THEN [ok |-> r.ok, c |-> r.c, ns |-> Append(acc.ns, r.n)] ELSE acc,
        [ok |-> TRUE, c |-> c, ns |-> <<>>], ms)

(* mutant: one common input is enough *)
ProcessTrivialMutant(c, n) ==
    LET prods == c.ops[n].prods
        g == ReorderedAll(c, prods)
        w == IF g.ns = prods THEN Done(g.c, n) ELSE WithNewChildren(g.c, n, g.ns)
        common == \E m \in ToSet(prods) : g.c.dict[m].non = 0
    IN IF ~g.ok THEN Failed(g.c)
       ELSE IF ~w.ok THEN Failed(w.c)
       ELSE Done(IF common THEN SetAllCommon(w.c, n, w.n) ELSE SetAllNonCommon(w.c, n, w.n), n)

(* Any other node goes to one side: to the common one if all inputs do *)
ProcessTrivial(c, n) ==
    LET prods == c.ops[n].prods
        g == ReorderedAll(c, prods)
        w == IF g.ns = prods THEN Done(g.c, n) ELSE WithNewChildren(g.c, n, g.ns)
        common == \A m \in ToSet(prods) : g.c.dict[m].non = 0
    IN IF ~g.ok THEN Failed(g.c)
       ELSE IF ~w.ok THEN Failed(w.c)
       ELSE Done(IF common THEN SetAllCommon(w.c, n, w.n) ELSE SetAllNonCommon(w.c, n, w.n), n)

-----------------------------------------------------------------------------
(* Windows over a request union *)

(* The nodes from n down with repl in place of the request union target.    *)
(* A join whose left side becomes a row is a request join.                 *)
RECURSIVE ReplaceRequestUnion(_, _, _, _, _)
ReplaceRequestUnion(c, n, target, repl, visited) ==
    LET node == c.ops[n]
        ms == FoldLeft(LAMBDA acc, m :
                  LET r == ReplaceRequestUnion(acc.c, m, target, repl, acc.visited)
                  IN IF acc.ok THEN [ok |-> r.ok, c |-> r.c, visited |-> r.visited, ns |-> Append(acc.ns, r.n)]
                     ELSE acc,
                  [ok |-> TRUE, c |-> c, visited |-> visited, ns |-> <<>>], node.prods)
        w == WithNewChildren(ms.c, n, ms.ns)
        new == w.c.ops[w.n]
        j == IF new.op = "join" /\ w.c.ops[ms.ns[1]].out = "row"
             THEN CreateOp(w.c, RequestJoin(ms.ns[1], ms.ns[2], new.join, new.rightonly)) ELSE w
        result(r, seen) == [ok |-> r.ok, c |-> r.c, n |-> r.n, visited |-> (n :> r.n) @@ seen]
    IN CASE n \in DOMAIN visited -> result(Done(c, visited[n]), visited)
         [] n \notin DOMAIN visited /\ node.op = "requestunion" ->
                result(IF n = target THEN Done(c, repl) ELSE Failed(c), visited)
         [] OTHER -> result(CASE ~ms.ok -> Failed(ms.c)
                              [] ms.ok /\ ms.ns = node.prods -> Done(ms.c, n)
                              [] ms.ok /\ ms.ns # node.prods /\ ~w.ok -> w
                              [] OTHER -> j,
                            ms.visited)

(* The union tables of u, added to the union new over the common part *)
AddCommonUnions(c, u, new, common) ==
    LET in == c.ops[u].prods[1]
    IN FoldLeft(LAMBDA acc, pair :
           LET r == GetReorderedOp(acc.c, pair.n)
               a == AddWindowUnion(r.c, new, r.n)
               e == ReplaceComponentExpr(a.c, WindowExprs(pair.win), in, common)
               last == Len(a.c.ops[new].unions)
           IN IF ~acc.ok THEN acc
              ELSE IF ~(r.ok /\ e.ok) THEN Failed(r.c)
              ELSE Done([a.c EXCEPT !.ops[new].unions[last].win = ReplaceWindow(e.map, pair.win)], new),
           Done(c, new), c.ops[u].unions)

(* The window of the common part without the request row, and the request   *)
(* row put in front of it by a node of its own.  path: from the input of     *)
(* the aggregation down to the request union u.  The result also names the   *)
(* node that stands for the request.                                       *)
ProcessRequestUnion(c, u, path) ==
    LET node == c.ops[u]
        in == node.prods[1]
        g == GetOpState(c, in)
        common == g.c.dict[in].common
        right == GetReorderedOp(g.c, node.prods[2])
        new == CreateOp(right.c, RequestUnion(common, right.n, node.win, node.notin, node.exclude, FALSE))
        us == AddCommonUnions(SetAllCommon(new.c, new.n, new.n), u, new.n, common)
        win == ReplaceRequestUnion(us.c, path[1], u, new.n, <<>>)
        winroot == GetReorderedOp(SetAllCommon(win.c, win.n, win.n), win.n)
        req == ReplaceRequestUnion(winroot.c, path[1], u, in, <<>>)
        reqroot == GetReorderedOp(req.c, req.n)
        ts == ReplaceComponentExpr(reqroot.c, node.win.range, in, common)
        out == CreateOp(reqroot.c, PostRequestUnion(reqroot.n, winroot.n, ReplaceList(ts.map, node.win.range)))
    IN IF g.ok /\ common # 0 /\ right.ok /\ new.ok /\ us.ok /\ win.ok /\ winroot.ok
             /\ req.ok /\ reqroot.ok /\ ts.ok /\ out.ok
       THEN [ok |-> TRUE, c |-> out.c, n |-> out.n, request |-> req.n]
       ELSE [ok |-> FALSE, c |-> c, n |-> 0, request |-> 0]

(* A window is common if the request is split and the window reads only the *)
(* common part of it; then so are the projects of columns the common part   *)
(* has.  A window over a request without other columns is common as it is.  *)
ProcessWindowAgg(c, n) ==
    LET node == c.ops[n]
        in == node.prods[1]
        path == FindRequestUnionPath(c, in)
        u == Last(path)
        req == c.ops[u].prods[1]
        g == GetOpState(c, req)
        s == g.c.dict[req]
        reads(w) == LeftDependOnlyOnPart(g.c, WindowExprs(w), s.common, req, 0)
        nontrivial == /\ s.common # 0 /\ s.non # 0 /\ reads(c.ops[u].win)
                      /\ \A pair \in ToSet(c.ops[u].unions) : reads(pair.win)
        plain == GetReorderedOp(g.c, in)
        new == IF nontrivial THEN ProcessRequestUnion(g.c, u, path)
               ELSE [ok |-> plain.ok, c |-> plain.c, n |-> plain.n, request |-> in]
        rs == new.c.dict[new.request]
        ps == UpdatedProjects(new.c, node.projects, in, rs.concat)
        common == {i \in DOMAIN ps.list :
                      \/ ~nontrivial /\ s.non = 0
                      \/ rs.non = 0
                      \/ nontrivial /\ ExprDependOnlyOnLeft(new.c, ps.list[i].expr, rs.common, rs.non)}
        a == ProjectPart(new.c, n, ps.list, common, new.n)
        b == ProjectPart(a.c, n, ps.list, DOMAIN ps.list \ common, new.n)
    IN IF path = <<>> THEN ProcessTrivial(c, n)
       ELSE IF g.ok /\ new.ok /\ rs.concat # 0 /\ ps.ok /\ a.ok /\ b.ok
       THEN Done(SetParts(b.c, n, a.n, b.n, common), n)
       ELSE Failed(g.c)

ProcessProject(c, n) ==
    IF c.ops[n].type = "agg" THEN ProcessWindowAgg(c, n) ELSE ProcessSimpleProject(c, n)

-----------------------------------------------------------------------------
(* Joins and renames *)

ProcessConcat(c, n) ==
    LET prods == c.ops[n].prods
        l == GetOpState(c, prods[1])
        r == GetOpState(l.c, prods[2])
        ls == r.c.dict[prods[1]]
        rs == r.c.dict[prods[2]]
        a == Concat(r.c, ls.common, rs.common)
        b == Concat(a.c, ls.non, rs.non)
        idx == ls.idx \cup {i + OutputSize(c, prods[1]) : i \in rs.idx}
    IN IF l.ok /\ r.ok /\ a.ok /\ b.ok THEN Done(SetParts(b.c, n, a.n, b.n, idx), n) ELSE Failed(c)

ProcessRename(c, n) ==
    LET node == c.ops[n]
        g == GetOpState(c, node.prods[1])
        s == g.c.dict[node.prods[1]]
        a == CreateOp(g.c, RenameNode(g.c, s.common, node.name))
        b == CreateOp(a.c, RenameNode(a.c, s.non, node.name))
    IN IF ~g.ok THEN Failed(g.c)
       ELSE IF s.common = 0 \/ s.non = 0 THEN ProcessTrivial(g.c, n)
       ELSE Done(SetParts(b.c, n, a.n, b.n, s.idx), n)

(* A join like n with another left and right side *)
RejoinedOn(c, n, l, r, rightonly) ==
    LET node == c.ops[n]
        new == CreateOp(c, RequestJoin(l, r, node.join, rightonly))
        e == BuildColumnReplacement(new.c.ops, n, node.jctx, new.n, new.c.ops[new.n].jctx, JoinExprs(node.join))
    IN IF new.ok /\ e.ok THEN Done([new.c EXCEPT !.ops[new.n].join = ReplaceJoin(e.map, node.join)], new.n)
       ELSE Failed(c)

(* The right side is common or not with the columns of the left side the    *)
(* join reads                                                              *)
ProcessJoin(c, n) ==
    LET node == c.ops[n]
        l == node.prods[1]
        g == GetOpState(c, l)
        right == GetConcatOp(g.c, node.prods[2])
        s == right.c.dict[l]
        reads(part) == LeftDependOnlyOnPart(right.c, JoinExprs(node.join), part, l, node.prods[2])
        rights == {OutputSize(c, l) + i : i \in 1 .. OutputSize(right.c, right.n)}
        only == node.rightonly
        same(part) == part = l /\ right.n = node.prods[2]
        on(part) == IF same(part) THEN Done(right.c, n) ELSE RejoinedOn(right.c, n, part, right.n, only)
        left(part, j) == IF same(part) \/ only THEN 0 ELSE j
        both == GetConcatOp(right.c, l)
        mixed == RejoinedOn(both.c, n, both.n, right.n, TRUE)
        joined == CreateOp(mixed.c, RequestJoin(s.non, mixed.n, Join("concat", NoExpr, NoOrder), FALSE))
    IN IF node.join.type = "concat" THEN ProcessConcat(c, n)
       ELSE IF ~(g.ok /\ right.ok) THEN Failed(c)
       ELSE IF reads(s.common)
       THEN LET j == on(s.common)
            IN IF j.ok THEN Done(SetParts(j.c, n, j.n, left(s.common, s.non), s.idx \cup rights), n) ELSE j
       ELSE IF reads(s.non)
       THEN LET j == on(s.non)
                kept == left(s.non, s.common)
            IN IF j.ok THEN Done(SetParts(j.c, n, kept, j.n, IF same(s.non) \/ only THEN {} ELSE s.idx), n) ELSE j
       ELSE IF ~(both.ok /\ mixed.ok) THEN Failed(c)
       ELSE IF only THEN Done(SetParts(mixed.c, n, 0, mixed.n, {}), n)
       ELSE IF s.non = 0 \/ ~joined.ok THEN Failed(c)
       ELSE Done(SetParts(joined.c, n, s.common, joined.n, s.idx), n)

-----------------------------------------------------------------------------
(* The parts of a node, made when they are first asked for *)

GetOpState(c, n) ==
    LET node == c.ops[n]
        r == CASE IsDataProvider(node) -> ProcessData(c, n)
               [] node.op = "simple" -> ProcessSimpleProject(c, n)
               [] node.op = "project" -> ProcessProject(c, n)
               [] node.op = "requestjoin" -> ProcessJoin(c, n)
               [] node.op = "rename" -> ProcessRename(c, n)
               [] OTHER -> ProcessTrivial(c, n)
        s == r.c.dict[n]
        limit == r.c.ops[n].limit
    IN IF IsInitialized(StateOf(c, n)) THEN Done(c, n)
       ELSE IF r.ok /\ IsInitialized(s)
       THEN Done(SetLimitCnt(SetLimitCnt(r.c, s.common, limit), s.non, limit), n)
       ELSE Failed(r.c)

GetConcatOp(c, n) ==
    LET g == GetOpState(c, n)
        s == g.c.dict[n]
        r == Concat(g.c, s.common, s.non)
        limited == SetLimitCnt(r.c, r.n, r.c.ops[n].limit)
    IN CASE ~g.ok -> g
         [] g.ok /\ s.concat # 0 -> Done(g.c, s.concat)
         [] OTHER -> IF r.ok THEN Done(WithState(limited, n, [s EXCEPT !.concat = r.n]), r.n) ELSE r

(* The id of the column of concatenation m that is column i of the node *)
ReorderedID(c, s, m, i) ==
    LET flat == FlatColumns(c.ops[m].ctx)
        size == IF s.common = 0 THEN 0 ELSE OutputSize(c, s.common)
        at == IF i \in s.idx THEN Cardinality({k \in s.idx : k <= i})
              ELSE size + Cardinality({k \in 1 .. i : k \notin s.idx})
    IN IF at \in DOMAIN flat THEN flat[at].id ELSE 0

(* A select for each slice of the node, put together again *)
ReorderedSlices(c, s, n, m) ==
    LET ctx == c.ops[n].ctx
        names == OutputSchema(ctx)
        start(i) == FlatIndex(ctx, <<i, 0>>)
        slice(i) == [j \in DOMAIN ctx.sources[i].cols |->
                        Project(names[start(i) + j], ColumnId(ReorderedID(c, s, m, start(i) + j)), NoFrame)]
    IN FoldLeft(LAMBDA acc, i :
           LET p == CreateOp(acc.c, SimpleProject(acc.c, m, slice(i)))
           IN IF ~acc.ok THEN acc ELSE IF ~p.ok THEN p ELSE Concat(p.c, acc.n, p.n),
           Done(c, 0), [i \in DOMAIN ctx.sources |-> i])

(* The concatenation, or a node that gives it the slices and the order of   *)
(* the old node                                                            *)
GetReorderedOp(c, n) ==
    LET g == GetConcatOp(c, n)
        s == g.c.dict[n]
        sizes(m) == LET src == g.c.ops[m].ctx.sources IN [i \in DOMAIN src |-> Len(src[i].cols)]
        same == sizes(n) = sizes(g.n) /\ 1 .. Cardinality(s.idx) \subseteq s.idx
        r == IF same THEN Done(g.c, g.n) ELSE ReorderedSlices(g.c, s, n, g.n)
        limited == IF same THEN r.c ELSE SetLimitCnt(r.c, r.n, r.c.ops[n].limit)
    IN CASE ~g.ok -> g
         [] g.ok /\ s.reordered # 0 -> Done(g.c, s.reordered)
         [] OTHER -> IF r.ok THEN Done(WithState(limited, n, [s EXCEPT !.reordered = r.n]), r.n) ELSE r

(* ExtractCommonNodeSet *)
CommonNodes(c) == {c.dict[n].common : n \in DOMAIN c.dict} \ {0}

(* CommonColumnOptimize::Apply and ExtractCommonNodeSet: the new plan, the  *)
(* places of its common columns, and the nodes to run once per batch       *)
CommonColumnOptimize(c, n, common) ==
    LET g == GetOpState(c @@ [dict |-> <<>>, common |-> common], n)
        s == g.c.dict[n]
        a == GetSingleSliceResult(g.c, s.common)
        b == GetSingleSliceResult(a.c, s.non)
        r == Concat(b.c, a.n, b.n)
        context(x) == [k \in DOMAIN c |-> x[k]]
    IN IF g.ok /\ a.ok /\ b.ok /\ r.ok
       THEN [c |-> context(r.c), n |-> r.n, idx |-> s.idx, nodes |-> CommonNodes(r.c)]
       ELSE [c |-> context(g.c), n |-> n, idx |-> {}, nodes |-> {}]
=============================================================================
