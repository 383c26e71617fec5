----------------------------- MODULE PlanMeaning -----------------------------
(***************************************************************************)
(* What a physical plan computes when its nodes are run (src/vm/runner.cc, *)
(* in closed form; the runners themselves are in module Runners), and what *)
(* a query means by its syntax tree alone.                                 *)
(*                                                                         *)
(* The value of a node is a sequence of segments [key, rows]; a table or a *)
(* row is one segment.  A row is [v, ts, id]: the values of its slices,    *)
(* the time its handler gives, and the row of the first table it comes     *)
(* from.  0 is NULL.  db = [tables, request]; a table is a sequence of     *)
(* rows of values, none of them NULL.                                      *)
(* EXCLUDE CURRENT_TIME has no effect here: it is in the windows of        *)
(* HistoryWindow and RequestUnion.                                         *)
(***************************************************************************)
EXTENDS PhysicalPasses

Null == 0
Unknown == -1

Row(v, ts, id) == [v |-> v, ts |-> ts, id |-> id]
Seg(key, rows) == [key |-> key, rows |-> rows]
TableOf(rows) == <<Seg(<<>>, rows)>>
Rows(segs) == FlattenSeq([i \in DOMAIN segs |-> segs[i].rows])

(* NULL in an operand gives NULL; a condition holds only if it is true (1) *)
Apply2(op, a, b) ==
    CASE a = Null \/ b = Null -> Null
      [] op = "plus" -> a + b
      [] op = "eq" -> IF a = b THEN 1 ELSE 2
      [] op = "gt" -> IF a > b THEN 1 ELSE 2
      [] op = "and" -> IF a = 1 /\ b = 1 THEN 1 ELSE 2

-----------------------------------------------------------------------------
(* Windows.  A history is a sequence of rows, the newest and current first *)

(* The places of a history a window with frame f holds: those in its range *)
(* or among its rows, and of these the newest MAXSIZE                      *)
Holds(f, ts) ==
    LET inrange(i) == f.range # <<>> /\ ts[i] >= ts[1] + f.range[1] /\ ts[i] <= ts[1] + f.range[2]
        inrows(i) == f.rows # <<>> /\ i <= 1 - f.rows[1]
        rows == {i \in DOMAIN ts : f.type = "" \/ inrange(i) \/ inrows(i)}
    IN {i \in rows : f.max = 0 \/ Cardinality({j \in rows : j <= i}) <= f.max}

(* The places of a window an aggregate over frame f reads; now is the time  *)
(* of the current row                                                      *)
Reads(f, now, ts) ==
    CASE f.type = "rows" -> {i \in DOMAIN ts : i >= 1 - f.rows[2] /\ i <= 1 - f.rows[1]}
      [] f.type = "rows_range" -> {i \in DOMAIN ts : ts[i] >= now + f.range[1] /\ ts[i] <= now + f.range[2]}
      [] OTHER -> DOMAIN ts

At(rows, places) == LET s == SetToSortSeq(places, <) IN [i \in DOMAIN s |-> rows[s[i]]]

(* The rows the window holds, the current row first whether it is in the    *)
(* frame or not                                                            *)
HeldRows(f, rows) == At(rows, Holds(f, [i \in DOMAIN rows |-> rows[i].ts]) \cup {1})

SortByTime(rows) == SortSeq(rows, LAMBDA r, s : r.ts > s.ts)

-----------------------------------------------------------------------------
(* Expressions over rows *)

(* A column is read where the context of the node finds it. *)
RECURSIVE Value(_, _, _, _, _)
Value(c, n, ctx, v, e) ==
    CASE e = NoExpr -> 1
      [] e.t = "const" -> e.num
      [] e.t \in {"ref", "id"} ->
             LET at == Resolve(c.ops, n, ctx, e)
             IN IF at = {} THEN Unknown
                ELSE LET p == FirstOf(at)
                     IN IF p[1] \in DOMAIN v /\ p[2] \in DOMAIN v[p[1]] THEN v[p[1]][p[2]] ELSE Unknown
      [] OTHER -> Apply2(e.t, Value(c, n, ctx, v, e.args[1]), Value(c, n, ctx, v, e.args[2]))

Values(c, n, v, es) == [i \in DOMAIN es |-> Value(c, n, c.ops[n].ctx, v, es[i])]

(* A project over the rows of a window or group: SUM reads the rows of its  *)
(* frame, everything else the first row                                    *)
AggValue(c, n, p, rows) ==
    LET e == p.expr
        ctx == c.ops[n].ctx
        in == At(rows, Reads(p.frame, rows[1].ts, [i \in DOMAIN rows |-> rows[i].ts]))
    IN IF e.t # "agg" THEN Value(c, n, ctx, rows[1].v, e)
       ELSE FoldLeft(LAMBDA sum, r : sum + Value(c, n, ctx, r.v, e.args[1]), 0, in)

AggRow(c, n, projects, rows) ==
    Row(<<[j \in DOMAIN projects |-> AggValue(c, n, projects[j], rows)]>>, rows[1].ts, rows[1].id)

ProjectRow(c, n, projects, r) ==
    Row(<<[j \in DOMAIN projects |-> Value(c, n, c.ops[n].ctx, r.v, projects[j].expr)]>>, r.ts, r.id)

NullRow(ctx) == [i \in DOMAIN ctx.sources |-> [j \in DOMAIN ctx.sources[i].cols |-> Null]]

-----------------------------------------------------------------------------
(* Nodes *)

OnSegs(segs, Op(_)) == [i \in DOMAIN segs |-> Seg(segs[i].key, Op(segs[i].rows))]

LimitTo(cnt, rows) == IF cnt > 0 /\ Len(rows) > cnt THEN SubSeq(rows, 1, cnt) ELSE rows

(* Splits every segment by the values of keys *)
GroupBy(c, n, keys, segs) ==
    IF keys = <<>> THEN segs
    ELSE FlattenSeq([i \in DOMAIN segs |->
             LET key(r) == Values(c, n, r.v, keys)
                 all == {key(r) : r \in ToSet(segs[i].rows)}
                 ks == SetToSeq(all)
             IN [j \in DOMAIN ks |-> Seg(segs[i].key \o ks[j],
                                         SelectSeq(segs[i].rows, LAMBDA r : key(r) = ks[j]))]])

(* An index: a segment for each value of its keys, the newest row first *)
Partition(table, index, rows) ==
    LET col(name) == CHOOSE j \in DOMAIN table.cols : table.cols[j] = name
        key(r) == [i \in DOMAIN index.keys |-> r.v[1][col(index.keys[i])]]
        timed == [i \in DOMAIN rows |->
                     IF index.ts = "" THEN rows[i] ELSE [rows[i] EXCEPT !.ts = rows[i].v[1][col(index.ts)]]]
        ks == SetToSeq({key(r) : r \in ToSet(rows)})
    IN [i \in DOMAIN ks |-> Seg(ks[i], SortByTime(SelectSeq(timed, LAMBDA r : key(r) = ks[i])))]

Segment(segs, key) == Rows(SelectSeq(segs, LAMBDA s : s.key = key))

(* The rows with the time a sort gives them *)
Timed(c, n, sort, rows) ==
    IF Unordered(sort) \/ sort.by[1] = NoExpr THEN rows
    ELSE [i \in DOMAIN rows |-> [rows[i] EXCEPT !.ts = Value(c, n, c.ops[n].ctx, rows[i].v, sort.by[1])]]

(* The right row of a LAST JOIN.  l, r: the nodes whose columns the keys   *)
(* are of; jn, jctx: those of the condition.  gen: the order was compiled. *)
LastRow(c, l, r, jn, jctx, join, segs, v, gen) ==
    LET cand == IF join.index = <<>> THEN Rows(segs) ELSE Segment(segs, Values(c, l, v, join.index))
        equal == SelectSeq(cand, LAMBDA x : Values(c, r, x.v, join.right) = Values(c, l, v, join.left))
        ordered == IF Unordered(join.sort) \/ ~gen THEN equal ELSE SortByTime(Timed(c, r, join.sort, equal))
        good == SelectSeq(ordered, LAMBDA x : Value(c, jn, jctx, v \o x.v, join.cond) = 1)
    IN IF good = <<>> THEN NullRow(c.ops[r].ctx) ELSE good[1].v

(* A row through the window joins of a window aggregation *)
WindowJoined(c, node, rights, row) ==
    FoldLeft(LAMBDA x, i :
        LET l == IF i = 1 THEN node.prods[1] ELSE node.joined[i - 1]
            r == node.joins[i].n
            jn == node.joined[i]
        IN [x EXCEPT !.v = @ \o LastRow(c, l, r, jn, c.ops[jn].ctx, node.joins[i].join, rights[i], x.v, FALSE)],
        row, [i \in DOMAIN node.joins |-> i])

(* WindowAggRunner: main and union rows of one key, by time *)
WindowAggRows(c, node, main, unions, rights) ==
    LET n == node.prods[1]
        on == IF node.joined = <<>> THEN n ELSE Last(node.joined)
        segs == GroupBy(c, n, node.win.part, main)
        others(key) == FlattenSeq([i \in DOMAIN unions |->
                           Timed(c, n, node.unions[i].win.sort,
                                 Segment(GroupBy(c, n, node.unions[i].win.part, unions[i]), key))])
        joined(rows) == [i \in DOMAIN rows |-> WindowJoined(c, node, rights, rows[i])]
        out(seg) ==
            LET rows == SortSeq(Timed(c, n, node.win.sort, seg.rows), LAMBDA r, s : r.ts < s.ts)
                before(i) == (IF node.notin THEN <<>> ELSE SubSeq(rows, 1, i - 1))
                                 \o SelectSeq(others(seg.key), LAMBDA x : x.ts < rows[i].ts)
                win(i) == joined(HeldRows(node.win.frame, <<rows[i]>> \o SortByTime(before(i))))
                row(i) == AggRow(c, on, node.projects, win(i))
            IN [i \in DOMAIN rows |-> [row(i) EXCEPT !.v = IF node.append THEN @ \o rows[i].v ELSE @]]
    IN FlattenSeq([i \in DOMAIN segs |-> out(segs[i])])

(* RequestUnionRunner: the request first, then the rows of its key before it *)
RequestUnionRows(c, node, request, right, unions) ==
    LET l == node.prods[1]
        of(w, segs) ==
            LET cand == IF w.index = <<>> THEN Rows(segs) ELSE Segment(segs, Values(c, l, request.v, w.index))
                same == SelectSeq(cand, LAMBDA x : Values(c, l, x.v, w.part) = Values(c, l, request.v, w.part))
            IN Timed(c, l, w.sort, same)
        all == (IF node.notin THEN <<>> ELSE of(node.win, right))
                   \o FlattenSeq([i \in DOMAIN unions |-> of(node.unions[i].win, unions[i])])
        now == IF node.win.range = <<>> THEN request.ts
               ELSE Value(c, l, c.ops[l].ctx, request.v, node.win.range[1])
        before == SelectSeq(all, LAMBDA x : node.win.range = <<>> \/ x.ts <= now)
        rows == HeldRows(node.win.frame, <<[request EXCEPT !.ts = now]>> \o SortByTime(before))
    IN IF node.outrow THEN rows ELSE Tail(rows)

JoinRows(c, n, node, left, right) ==
    LET l == node.prods[1]
        r == node.prods[2]
        keep(x) == IF node.rightonly THEN <<>> ELSE x.v
        other(x) ==
            IF node.join.type = "concat"
            THEN Head(SelectSeq(Rows(right), LAMBDA y : y.id = x.id)).v
            ELSE LastRow(c, l, r, n, node.jctx, node.join, right, x.v, TRUE)
    IN OnSegs(left, LAMBDA rows : [i \in DOMAIN rows |-> [rows[i] EXCEPT !.v = keep(rows[i]) \o other(rows[i])]])

(* A filter has the keys of a join whose left side is constant; its runner  *)
(* has no limit                                                            *)
FilterRows(c, n, node, in) ==
    LET j == node.join
        segs == IF j.index = <<>> THEN in ELSE TableOf(Segment(in, Values(c, n, <<>>, j.index)))
        holds(x) == /\ Values(c, n, x.v, j.right) = Values(c, n, x.v, j.left)
                    /\ Value(c, n, c.ops[n].ctx, x.v, j.cond) = 1
    IN OnSegs(segs, LAMBDA rows : SelectSeq(rows, holds))

(* The value of a node; val holds the values of its inputs *)
NodeValue(c, db, val, n) ==
    LET node == c.ops[n]
        p == node.prods[1]
        in == val[p]
        second == val[node.prods[2]]
        table == db.tables[node.table]
        rows == [i \in DOMAIN table |-> Row(<<table[i]>>, 0, i)]
        sides(list) == [i \in DOMAIN list |-> val[list[i].n]]
        each(x) == ProjectRow(c, p, node.projects, x)
        slice == GetSelectSourceIndex(c, node)
        cat == c.cat[TableNamed(c, node.table)]
        slices == [i \in DOMAIN node.ctx.sources |->
                      [j \in DOMAIN node.ctx.sources[i].cols |->
                          db.request[CHOOSE k \in DOMAIN cat.cols :
                                        cat.cols[k] = node.ctx.sources[i].cols[j].name]]]
    IN CASE node.op = "data" -> TableOf(rows)
         [] node.op = "partition" ->
                Partition(cat, CHOOSE x \in ToSet(cat.indexes) : x.name = node.index, rows)
         [] node.op = "request" -> TableOf(<<Row(slices, 0, 1)>>)
         [] node.op = "group" -> GroupBy(c, p, node.keys, in)
         [] node.op = "sort" -> OnSegs(in, LAMBDA rs : Reverse(SortByTime(Timed(c, p, node.sort, rs))))
         [] node.op = "filter" -> FilterRows(c, p, node, in)
         [] node.op = "limit" ->
                IF node.optimized THEN in ELSE TableOf(LimitTo(node.limit, Rows(in)))
         [] node.op = "rename" -> in
         [] node.op = "const" -> TableOf(<<Row(<<[j \in DOMAIN node.projects |-> node.projects[j].expr.num]>>, 0, 1)>>)
         [] node.op = "simple" ->
                OnSegs(in, LAMBDA rs : [i \in DOMAIN rs |-> IF slice = 0 THEN each(rs[i])
                                                           ELSE [rs[i] EXCEPT !.v = <<@[slice]>>]])
         [] node.op = "project" /\ node.type \in {"row", "table"} ->
                LET rs == LimitTo(node.limit, Rows(in)) IN TableOf([i \in DOMAIN rs |-> each(rs[i])])
         [] node.op = "project" /\ node.type = "agg" -> TableOf(<<AggRow(c, p, node.projects, Rows(in))>>)
         [] node.op = "project" /\ node.type = "groupagg" ->
                LET segs == LimitTo(node.limit, in)
                IN TableOf([i \in DOMAIN segs |-> AggRow(c, p, node.projects, segs[i].rows)])
         [] node.op = "project" /\ node.type = "window" ->
                TableOf(LimitTo(node.limit, WindowAggRows(c, node, in, sides(node.unions), sides(node.joins))))
         [] node.op \in {"join", "requestjoin"} -> JoinRows(c, n, node, in, second)
         [] node.op = "requestunion" ->
                TableOf(RequestUnionRows(c, node, Rows(in)[1], second, sides(node.unions)))
         [] node.op = "postunion" ->
                LET first == Rows(in)[1]
                    ts == IF node.range = <<>> THEN first.ts ELSE Value(c, p, c.ops[p].ctx, first.v, node.range[1])
                IN TableOf(<<[first EXCEPT !.ts = ts]>> \o Rows(second))

(* All nodes a node reads *)
Inputs(node) ==
    LET nodes(list) == [i \in DOMAIN list |-> list[i].n]
    IN node.prods \o (IF "unions" \in DOMAIN node THEN nodes(node.unions) ELSE <<>>)
                  \o (IF "joins" \in DOMAIN node THEN nodes(node.joins) ELSE <<>>)

(* val with the values of n and all nodes below it, each computed once *)
RECURSIVE Eval(_, _, _, _)
Eval(c, db, val, n) ==
    IF n \in DOMAIN val THEN val
    ELSE LET all == FoldLeft(LAMBDA acc, m : Eval(c, db, acc, m), val, Inputs(c.ops[n]))
         IN (n :> NodeValue(c, db, all, n)) @@ all

(* The rows a plan outputs *)
Result(c, db, n) == LET rows == Rows(Eval(c, db, <<>>, n)[n]) IN [i \in DOMAIN rows |-> FlattenSeq(rows[i].v)]

-----------------------------------------------------------------------------
(* The meaning of a query.  A row is a sequence of fields [rel, name, val] *)

Field(rel, name, val) == [rel |-> rel, name |-> name, val |-> val]

RECURSIVE Mean(_, _)
Mean(row, e) ==
    CASE e = NoExpr -> 1
      [] e.t = "const" -> e.num
      [] e.t = "ref" ->
             LET hits == SelectSeq(row, LAMBDA f : f.name = e.name /\ (e.rel = "" \/ f.rel = e.rel))
             IN IF hits = <<>> THEN Unknown ELSE hits[1].val
      [] OTHER -> Apply2(e.t, Mean(row, e.args[1]), Mean(row, e.args[2]))

Means(row, es) == [i \in DOMAIN es |-> Mean(row, es[i])]

Renamed(alias, rows) ==
    IF alias = "" THEN rows
    ELSE [i \in DOMAIN rows |-> [j \in DOMAIN rows[i] |-> [rows[i][j] EXCEPT !.rel = alias]]]

Nulls(row) == [j \in DOMAIN row |-> [row[j] EXCEPT !.val = Null]]

(* The right row with the latest time among those that meet the condition *)
LastMatch(l, rights, orders, cond) ==
    LET good == SelectSeq(rights, LAMBDA r : Mean(l \o r, cond) = 1)
        time(r) == IF Unordered(orders) THEN 0 ELSE Mean(l \o r, orders.by[1])
        sorted == SortSeq(good, LAMBDA r, s : time(r) > time(s))
    IN IF good = <<>> THEN Nulls(rights[1]) ELSE sorted[1]

(* SUM over the frame of window w at row i of rows *)
SumOver(w, e, rows, i, unions) ==
    LET now == rows[i]
        time(r) == Mean(r, w.orders.by[1])
        same(r) == Means(r, w.keys) = Means(now, w.keys) /\ time(r) < time(now)
        main == IF w.notin THEN <<>> ELSE rows
        hist == <<now>> \o SortSeq(SelectSeq(main \o unions, same), LAMBDA r, s : time(r) > time(s))
        ts == [k \in DOMAIN hist |-> time(hist[k])]
        places == IF w.frame.type = "rows" THEN Reads(w.frame, ts[1], ts) ELSE Holds(w.frame, ts)
        in == At(hist, places)
    IN FoldLeft(LAMBDA sum, r : sum + Mean(r, e), 0, in)

SumAll(e, rows) == FoldLeft(LAMBDA sum, r : sum + Mean(r, e), 0, rows)

RECURSIVE MeaningOf(_, _, _)

(* The rows of a table reference; main is the table the request is of *)
RECURSIVE RefMeaning(_, _, _, _)
RefMeaning(cat, db, main, ref) ==
    LET t == CHOOSE x \in ToSet(cat) : x.name = ref.name
        stored == db.tables[ref.name] \o (IF main /\ db.request # <<>> THEN <<db.request>> ELSE <<>>)
        ls == RefMeaning(cat, db, main, ref.left)
        rs == RefMeaning(cat, db, FALSE, ref.right)
        plain == [db EXCEPT !.request = <<>>]
    IN Renamed(ref.alias,
           CASE ref.t = "table" -> [i \in DOMAIN stored |->
                                       [j \in DOMAIN t.cols |-> Field(ref.name, t.cols[j], stored[i][j])]]
             [] ref.t = "join" -> [i \in DOMAIN ls |-> ls[i] \o LastMatch(ls[i], rs, ref.orders, ref.cond)]
             [] ref.t = "query" -> MeaningOf(cat, IF main THEN db ELSE plain, ref.query))

(* The value of a target at row i of the rows of FROM and WHERE *)
TargetMeaning(cat, db, q, e, rows, i) ==
    LET w == CHOOSE x \in ToSet(q.windows) : x.name = e.name
        plain == [db EXCEPT !.request = <<>>]
        unions == FlattenSeq([j \in DOMAIN w.unions |->
                      LET rs == RefMeaning(cat, plain, FALSE, w.unions[j])
                      IN [k \in DOMAIN rs |-> [m \in DOMAIN rs[k] |-> [rs[k][m] EXCEPT !.rel = rows[i][m].rel]]]])
        group == SelectSeq(rows, LAMBDA r : Means(r, q.group) = Means(rows[i], q.group))
    IN IF e.t # "agg" THEN Mean(rows[i], e)
       ELSE IF q.group # <<>> THEN SumAll(e.args[1], group)
       ELSE SumOver(w, e.args[1], rows, i, unions)

TargetFields(cat, db, q, x, rows, i) ==
    IF x.expr.t = "all"
    THEN [j \in DOMAIN SelectSeq(rows[i], LAMBDA f : x.expr.rel \in {"", f.rel}) |->
             [SelectSeq(rows[i], LAMBDA f : x.expr.rel \in {"", f.rel})[j] EXCEPT !.rel = ""]]
    ELSE <<Field("", x.name, TargetMeaning(cat, db, q, x.expr, rows, i))>>

(* The rows of a SELECT: one per row or one per group *)
MeaningOf(cat, db, q) ==
    LET from == IF q.from = <<>> THEN <<<<>>>> ELSE RefMeaning(cat, db, TRUE, q.from[1])
        rows == SelectSeq(from, LAMBDA r : Mean(r, q.where) = 1)
        last(i) == q.group = <<>> \/ \A j \in (i + 1) .. Len(rows) : Means(rows[j], q.group) # Means(rows[i], q.group)
        kept == SetToSortSeq({i \in DOMAIN rows : last(i)}, <)
    IN [k \in DOMAIN kept |->
           FlattenSeq([t \in DOMAIN q.list |-> TargetFields(cat, db, q, q.list[t], rows, kept[k])])]

(* The rows a query outputs, before its LIMIT; with a request, which comes  *)
(* last in its table, the row for it                                       *)
Meaning(cat, db, q) ==
    LET rows == MeaningOf(cat, db, q)
        vals == [i \in DOMAIN rows |-> [j \in DOMAIN rows[i] |-> rows[i][j].val]]
    IN IF db.request = <<>> THEN vals ELSE <<Last(vals)>>
=============================================================================
