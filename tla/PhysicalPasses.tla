--------------------------- MODULE PhysicalPasses ---------------------------
(***************************************************************************)
(* The passes over physical plans (src/passes/physical) in the order       *)
(* ApplyPasses runs them, and the checks of the plan they leave            *)
(* (src/vm/transform.cc).                                                  *)
(*                                                                         *)
(* Nodes are rewritten in place: what a pass has changed below a node      *)
(* stays changed when the pass fails at the node.  Every pass takes the    *)
(* plan context and a node and returns [ok, c, n].                         *)
(***************************************************************************)
EXTENDS PlanTransform

-----------------------------------------------------------------------------
(* transform_up_physical_pass.cc *)

(* A new producer; the old one comes back when the schema cannot be made *)
ResetProducer(c, n, i, m) ==
    LET r == ReInit([c EXCEPT !.ops[n].prods[i] = m], n)
    IN IF c.ops[n].prods[i] = m THEN Done(c, n)
       ELSE IF r.ok THEN r
       ELSE Failed(ReInit([r.c EXCEPT !.ops[n].prods[i] = c.ops[n].prods[i]], n).c)

(* The producers first, then the node; Transform is the pass *)
RECURSIVE TransformUp(_, _, _)
TransformUp(Transform(_, _), c, n) ==
    LET kids == FoldLeft(LAMBDA acc, j :
                    IF ~acc.ok THEN acc
                    ELSE LET r == TransformUp(Transform, acc.c, c.ops[n].prods[j])
                         IN IF r.ok THEN ResetProducer(r.c, n, j, r.n) ELSE Done(r.c, n),
                    Done(c, n), [j \in DOMAIN c.ops[n].prods |-> j])
        init == ReInit(kids.c, n)
    IN IF ~kids.ok THEN kids ELSE IF ~init.ok THEN init ELSE Transform(init.c, n)

-----------------------------------------------------------------------------
(* simple_project_optimized.cc: a simple project over a simple project *)

(* The columns of the outer project as expressions of the inner one *)
BuildColumnMapping(c, inner, exprs) ==
    LET ctx == c.ops[inner].ctx
        cols == {e \in UNION {ToSet(SearchColumns(x)) : x \in ToSet(exprs)} : e.t = "ref"}
        at(e) == Resolve(c.ops, inner, ctx, e)
    IN [ok |-> \A e \in cols : at(e) # {},
        map |-> [e \in {x \in cols : at(x) # {}} |->
                    c.ops[inner].projects[FirstOf(at(e))[2]].expr]]

SimpleProjectOptimized(c, n) ==
    LET inner == c.ops[n].prods[1]
        r == BuildColumnMapping(c, inner, ProjectExprs(c.ops[n].projects))
    IN IF c.ops[n].op # "simple" THEN Failed(c)
       ELSE IF c.ops[inner].op # "simple" \/ ~r.ok THEN Failed(c)
       ELSE CreateOp(c, SimpleProject(c, c.ops[inner].prods[1], ReplaceProjects(r.map, c.ops[n].projects)))

-----------------------------------------------------------------------------
(* condition_optimized.cc: equalities of a condition become keys *)

RECURSIVE TransfromAndConditionList(_)
TransfromAndConditionList(e) ==
    IF e = NoExpr THEN <<>>
    ELSE IF e.t = "and" THEN FlattenSeq([i \in DOMAIN e.args |-> TransfromAndConditionList(e.args[i])])
    ELSE <<e>>

RECURSIVE ExprIsConst(_)
ExprIsConst(e) ==
    e.t = "const" \/ (e.t \in {"plus", "eq", "gt", "and"} /\ \A a \in ToSet(e.args) : ExprIsConst(a))

(* NodeManager::MakeAndExpr *)
MakeAndExpr(es) ==
    IF es = <<>> THEN NoExpr ELSE FoldLeft(LAMBDA a, b : Binary("and", a, b), es[1], Tail(es))

NoPair == <<>>

(* ExtractEqualExprPair *)
IsEqual(e) == e.t = "eq"

MakeConstEqualExprPair(c, r, a, b) ==
    LET on(e) == CheckExprDependOnChildOnly(c, r, <<e>>)
    IN CASE ExprIsConst(a) /\ ExprIsConst(b) -> NoPair
         [] ExprIsConst(a) -> IF on(b) THEN <<a, b>> ELSE NoPair
         [] ExprIsConst(b) -> IF on(a) THEN <<b, a>> ELSE NoPair
         [] OTHER -> NoPair

(* The key of the left and that of the right side that must be equal *)
TransformJoinEqualExprPair(c, l, r, e) ==
    LET a == e.args[1]
        b == e.args[2]
        pair == MakeConstEqualExprPair(c, r, a, b)
        on(n, x) == CheckExprDependOnChildOnly(c, n, <<x>>)
    IN IF ~IsEqual(e) THEN NoPair
       ELSE IF pair # NoPair THEN pair
       ELSE IF on(l, a) /\ on(r, b) THEN <<a, b>>
       ELSE IF on(l, b) /\ on(r, a) THEN <<b, a>>
       ELSE NoPair

TransformConstEqualExprPair(e) ==
    IF ~IsEqual(e) THEN NoPair
    ELSE IF ExprIsConst(e.args[1]) THEN <<e.args[1], e.args[2]>>
    ELSE IF ExprIsConst(e.args[2]) THEN <<e.args[2], e.args[1]>>
    ELSE NoPair

(* The pairs as keys; the rest stays the condition *)
WithPairs(join, conds, pairs) ==
    LET eq == SelectSeq(pairs, LAMBDA p : p # NoPair)
        rest == SelectSeq([i \in DOMAIN conds |-> <<conds[i], pairs[i]>>], LAMBDA x : x[2] = NoPair)
    IN [join EXCEPT !.left = [i \in DOMAIN eq |-> eq[i][1]],
                    !.right = [i \in DOMAIN eq |-> eq[i][2]],
                    !.cond = MakeAndExpr([i \in DOMAIN rest |-> rest[i][1]])]

(* JoinConditionOptimized and FilterConditionOptimized *)
ConditionOptimized(c, n) ==
    LET node == c.ops[n]
        conds == TransfromAndConditionList(node.join.cond)
        pairs == [i \in DOMAIN conds |->
                     IF node.op = "filter" THEN TransformConstEqualExprPair(conds[i])
                     ELSE TransformJoinEqualExprPair(c, node.prods[1], node.prods[2], conds[i])]
    IN IF node.op \notin {"join", "requestjoin", "filter"} THEN Failed(c)
       ELSE IF \A i \in DOMAIN pairs : pairs[i] = NoPair THEN Failed(c)
       ELSE Done([c EXCEPT !.ops[n].join = WithPairs(@, conds, pairs)], n)

-----------------------------------------------------------------------------
(* left_join_optimized.cc: a group or a window over a join is put under it *)

(* The names only: whose columns they are is not asked *)
CheckExprListFromSchema(c, n, exprs) ==
    \A e \in ToSet(exprs) : e.t = "ref" /\ e.name \in ToSet(OutputSchema(c.ops[n].ctx))

(* mutant: the partition keys may be of the right side *)
JoinMovesMutant(c, n, join) ==
    join.join.type = "last" /\ (c.ops[n].win.part # <<>> \/ ~Unordered(c.ops[n].win.sort))

(* A window aggregation may be put under a last join whose left side has   *)
(* the partition columns; the order column is not looked at                *)
JoinMoves(c, n, join) ==
    /\ join.join.type = "last"
    /\ c.ops[n].win.part # <<>> \/ ~Unordered(c.ops[n].win.sort)
    /\ CheckExprDependOnChildOnly(c, join.prods[1], c.ops[n].win.part)

RECURSIVE LeftJoinOptimized(_, _)
LeftJoinOptimized(c, n) ==
    LET node == c.ops[n]
        join == c.ops[node.prods[1]]
        group == CreateOp(c, GroupNode(join.prods[1], node.keys))
        joined == CreateOp(group.c, JoinNode(group.c, group.n, join.prods[2], join.join, FALSE))
        reset == ResetProducer(AddWindowJoin(c, n, join.prods[2], join.join), n, 1, join.prods[1])
    IN IF node.prods = <<>> THEN Failed(c)
       ELSE IF join.op # "join" THEN Failed(c)
       ELSE IF join.join.type \notin {"left", "last"} THEN Failed(c)
       ELSE IF node.op = "group" /\ CheckExprListFromSchema(c, join.prods[1], node.keys)
       THEN IF group.ok THEN joined ELSE group
       ELSE IF node.op = "project" /\ node.type = "window"
       THEN IF ~JoinMoves(c, n, join) THEN Failed(c)
            ELSE IF ~reset.ok THEN reset
            ELSE Done(LeftJoinOptimized(reset.c, n).c, n)
       ELSE Failed(c)

-----------------------------------------------------------------------------
(* group_and_sort_optimized.cc: keys and orders are found in an index *)

(* The name of a column in the table it comes from *)
ResolveColumnToSourceColumnName(c, n, ctx, col) ==
    LET r1 == ResolveColumnID(c.ops, n, ctx, col.rel, col.name)
        r == IF ~r1.ok /\ col.rel # "" THEN ResolveColumnID(c.ops, n, ctx, "", col.name) ELSE r1
        source == c.ops[r.source].ctx
    IN IF ~r.ok THEN {}
       ELSE IF ~IsDataProvider(c.ops[r.source]) THEN {}
       ELSE {ColumnAt(source, LastOf(WithId(source, r.sid))).name}

NoMatch == [ok |-> FALSE, index |-> "", size |-> 0, bits |-> {}]

IndexFits(index, names, order) ==
    /\ ToSet(index.keys) = names
    /\ order # <<>> => index.ts = order[1]

(* The index with exactly the columns of bits as keys; if there is none,    *)
(* the largest one with all but one of them, and so on                     *)
RECURSIVE MatchBestIndex(_, _, _, _)
MatchBestIndex(table, columns, order, bits) ==
    LET exact == SelectSeq(table.indexes, LAMBDA x : IndexFits(x, {columns[i] : i \in bits}, order))
        sub(i) == MatchBestIndex(table, columns, order, bits \ {i})
    IN IF Len(order) > 1 THEN NoMatch
       ELSE IF exact # <<>>
       THEN [ok |-> TRUE, index |-> exact[1].name, size |-> Len(exact[1].keys), bits |-> bits]
       ELSE FoldLeft(LAMBDA best, i : LET s == sub(i) IN IF s.ok /\ s.size > best.size THEN s ELSE best,
                     NoMatch, SetToSortSeq(bits, <))

(* Which keys an index of the table takes over; only columns are matched *)
TransformKeysAndOrderExpr(c, n, ctx, keys, orders, t) ==
    LET at == SetToSortSeq({i \in DOMAIN keys : keys[i].t = "ref"}, <)
        by == SelectSeq(orders, LAMBDA e : e.t = "ref")
        name(e) == ResolveColumnToSourceColumnName(c, n, ctx, e)
        known == (\A i \in DOMAIN at : name(keys[at[i]]) # {}) /\ (\A i \in DOMAIN by : name(by[i]) # {})
        one(e) == CHOOSE x \in name(e) : TRUE
        m == MatchBestIndex(c.cat[TableNamed(c, t)], [i \in DOMAIN at |-> one(keys[at[i]])],
                            [i \in DOMAIN by |-> one(by[i])], DOMAIN at)
    IN IF at = <<>> \/ ~known THEN NoMatch
       ELSE [m EXCEPT !.bits = {at[i] : i \in @}]

(* The keys of a node: left and index of all, right of joins and filters,   *)
(* sort of those that have an order                                        *)
JoinKeys(j) == [left |-> j.left, index |-> j.index, right |-> j.right, two |-> TRUE, sort |-> j.sort]
FilterKeys(j) == [JoinKeys(j) EXCEPT !.sort = NoOrder]
WindowKeys(w) == [left |-> w.part, index |-> w.index, right |-> <<>>, two |-> FALSE, sort |-> w.sort]
GroupKeys(keys) == [left |-> keys, index |-> <<>>, right |-> <<>>, two |-> FALSE, sort |-> NoOrder]

(* The keys whose places are in bits move to the index; an order becomes    *)
(* that of the index                                                       *)
KeysOfIndex(b, bits) ==
    LET pick(es, is) == LET s == SetToSortSeq(is, <) IN [i \in DOMAIN s |-> es[s[i]]]
        rest == (DOMAIN b.left) \ bits
    IN [b EXCEPT !.left = pick(b.left, rest), !.index = pick(b.left, bits),
                 !.right = IF b.two THEN pick(b.right, rest) ELSE <<>>,
                 !.sort = IF Unordered(@) THEN @ ELSE Order(<<NoExpr>>, @.asc)]

(* The partition provider that node n can be replaced by, through simple    *)
(* projects and renames, which are repeated over it.  A failure above the   *)
(* provider leaves the keys changed.                                       *)
RECURSIVE KeysOptimized(_, _, _, _)
KeysOptimized(c, root, n, b) ==
    LET node == c.ops[n]
        fail == [ok |-> FALSE, c |-> c, n |-> 0, b |-> b]
        m == TransformKeysAndOrderExpr(c, root, c.ops[root].ctx, IF b.two THEN b.right ELSE b.left,
                                       b.sort.by, node.table)
        part == CreateOp(c, PartitionProvider(node.table, m.index))
        below == KeysOptimized(c, root, node.prods[1], b)
        above == CreateOp(below.c, IF node.op = "simple" THEN SimpleProject(below.c, below.n, node.projects)
                                   ELSE RenameNode(below.c, below.n, node.name))
    IN IF b.left = <<>> \/ (b.two /\ b.right = <<>>) THEN fail
       ELSE CASE node.op = "data" ->
                     IF m.ok THEN part @@ [b |-> KeysOfIndex(b, m.bits)] ELSE fail
              [] node.op \in {"simple", "rename"} ->
                     IF below.ok THEN above @@ [b |-> below.b] ELSE below
              [] OTHER -> fail

WithJoinKeys(j, b) == [j EXCEPT !.left = b.left, !.right = b.right, !.index = b.index, !.sort = b.sort]
WithFilterKeys(j, b) == [j EXCEPT !.left = b.left, !.right = b.right, !.index = b.index]
WithWindowKeys(w, b) == [w EXCEPT !.part = b.left, !.index = b.index, !.sort = b.sort]

(* Window aggregations have no place for index keys *)
KeyAndOrderOptimized(c, root, n, w) ==
    LET r == KeysOptimized(c, root, n, WindowKeys(w))
    IN [ok |-> r.ok, c |-> r.c, n |-> r.n, win |-> [w EXCEPT !.part = r.b.left, !.sort = r.b.sort]]

KeysAndOrderFilterOptimized(c, root, n, w) ==
    LET r == KeysOptimized(c, root, n, WindowKeys(w))
    IN [ok |-> r.ok, c |-> r.c, n |-> r.n, win |-> WithWindowKeys(w, r.b)]

JoinKeysOptimized(c, root, n, j) ==
    LET r == KeysOptimized(c, root, n, JoinKeys(j))
    IN [ok |-> r.ok, c |-> r.c, n |-> r.n, join |-> WithJoinKeys(j, r.b)]

(* Each union table of a window is looked at in its own context *)
OptimizeUnions(Optimize(_, _, _, _), c, n) ==
    FoldLeft(LAMBDA acc, i :
        LET u == acc.ops[n].unions[i]
            r == Optimize(acc, u.n, u.n, u.win)
        IN [r.c EXCEPT !.ops[n].unions[i] = [n |-> IF r.ok THEN r.n ELSE u.n, win |-> r.win]],
        c, [i \in DOMAIN c.ops[n].unions |-> i])

(* Each right side of a window join is looked at in the context it joins *)
OptimizeWindowJoins(c, n) ==
    LET list == InitJoinList(c, c.ops[n])
    IN FoldLeft(LAMBDA acc, i :
           LET j == acc.ops[n].joins[i]
               r == JoinKeysOptimized(acc, acc.ops[n].joined[i], j.n, j.join)
           IN [r.c EXCEPT !.ops[n].joins[i] = [n |-> IF r.ok THEN r.n ELSE j.n, join |-> r.join]],
           [list.c EXCEPT !.ops[n].joined = list.joined], [i \in DOMAIN c.ops[n].joins |-> i])

GroupOptimized(c, n) ==
    LET r == KeysOptimized(c, n, c.ops[n].prods[1], GroupKeys(c.ops[n].keys))
        reset == ResetProducer([r.c EXCEPT !.ops[n].keys = r.b.left], n, 1, r.n)
    IN IF ~r.ok THEN Failed([r.c EXCEPT !.ops[n].keys = r.b.left])
       ELSE IF ~reset.ok THEN reset
       ELSE Done(reset.c, IF r.b.left = <<>> THEN r.n ELSE n)

WindowAggOptimized(c, n) ==
    LET input == c.ops[n].prods[1]
        r == KeyAndOrderOptimized(c, input, input, c.ops[n].win)
        changed == [r.c EXCEPT !.ops[n].win = r.win]
        reset == IF c.ops[n].notin THEN Done(c, n)
                 ELSE IF r.ok THEN ResetProducer(changed, n, 1, r.n) ELSE Done(changed, n)
    IN IF ~reset.ok THEN reset
       ELSE Done(OptimizeUnions(KeyAndOrderOptimized, OptimizeWindowJoins(reset.c, n), n), n)

RequestUnionOptimized(c, n) ==
    LET r == KeysAndOrderFilterOptimized(c, n, c.ops[n].prods[2], c.ops[n].win)
        changed == [r.c EXCEPT !.ops[n].win = r.win]
        reset == IF c.ops[n].notin THEN Done(c, n)
                 ELSE IF r.ok THEN ResetProducer(changed, n, 2, r.n) ELSE Done(changed, n)
    IN IF ~reset.ok THEN reset
       ELSE Done(OptimizeUnions(KeysAndOrderFilterOptimized, reset.c, n), n)

JoinOptimized(c, n) ==
    LET r == JoinKeysOptimized(c, n, c.ops[n].prods[2], c.ops[n].join)
        changed == [r.c EXCEPT !.ops[n].join = r.join]
    IN IF r.ok THEN ResetProducer(changed, n, 2, r.n) ELSE Failed(changed)

(* The filter is changed, but the pass says that it is not *)
FilterOptimized(c, n) ==
    LET r == KeysOptimized(c, n, c.ops[n].prods[1], FilterKeys(c.ops[n].join))
        changed == [r.c EXCEPT !.ops[n].join = WithFilterKeys(@, r.b)]
    IN Failed(IF r.ok THEN ResetProducer(changed, n, 1, r.n).c ELSE changed)

GroupAndSortOptimized(c, n) ==
    LET node == c.ops[n]
    IN CASE node.op = "group" -> GroupOptimized(c, n)
         [] node.op = "project" /\ node.type = "window" -> WindowAggOptimized(c, n)
         [] node.op = "requestunion" -> RequestUnionOptimized(c, n)
         [] node.op \in {"join", "requestjoin"} -> JoinOptimized(c, n)
         [] node.op = "filter" -> FilterOptimized(c, n)
         [] OTHER -> Failed(c)

-----------------------------------------------------------------------------
(* limit_optimized.cc: the limit is given to the nearest node below that    *)
(* is not a pure projection                                                *)

SmallerLimit(old, cnt) == IF old = 0 \/ old > cnt THEN cnt ELSE old

RECURSIVE ApplyLimitCnt(_, _, _)
ApplyLimitCnt(c, n, cnt) ==
    LET node == c.ops[n]
        set == Done([c EXCEPT !.ops[n].limit = SmallerLimit(@, cnt)], n)
        below == ApplyLimitCnt(c, node.prods[1], cnt)
    IN IF node.op = "limit"
       THEN IF SmallerLimit(node.limit, cnt) = node.limit THEN Done(c, n)
            ELSE IF node.optimized THEN below ELSE set
       ELSE IF node.prods = <<>> \/ node.op \in {"simple", "rename"} THEN Failed(c)
       ELSE IF IsBlock(node) THEN set
       ELSE IF below.ok THEN below
       ELSE IF SmallerLimit(node.limit, cnt) = node.limit THEN Failed(c) ELSE set

LimitOptimized(c, n) ==
    LET r == ApplyLimitCnt(c, c.ops[n].prods[1], c.ops[n].limit)
    IN IF c.ops[n].op = "limit" /\ r.ok THEN Done([r.c EXCEPT !.ops[n].optimized = TRUE], n)
       ELSE IF c.ops[n].op = "limit" THEN Failed(r.c)
       ELSE Failed(c)

-----------------------------------------------------------------------------
(* window_column_pruning.cc: only the columns a window needs go into it *)

(* The same columns of the input and, by their places, of the union tables; *)
(* the new window is not given the limit, and its unions get its own keys  *)
ProcessWindow(c, n) ==
    LET node == c.ops[n]
        input == node.prods[1]
        ctx == c.ops[input].ctx
        cols == UNION {ToSet(SearchColumns(e)) : e \in ToSet(WindowExprs(node.win)) \cup ToSet(ProjectExprs(node.projects))}
        at(e) == Resolve(c.ops, input, ctx, e)
        places == SetToSortSeq({FirstOf(at(e)) : e \in cols}, Before)
        pruned(m) == [i \in DOMAIN places |->
                         LET col == ColumnAt(c.ops[m].ctx, places[i])
                         IN Project(col.name, ColumnId(col.id), NoFrame)]
        main == CreateOp(c, SimpleProject(c, input, pruned(input)))
        unions == FoldLeft(LAMBDA acc, u :
                      LET r == CreateOp(acc.c, SimpleProject(acc.c, u.n, pruned(u.n)))
                      IN [c |-> r.c, ns |-> Append(acc.ns, r.n)],
                      [c |-> main.c, ns |-> <<>>], node.unions)
        agg == CreateOp(unions.c, WindowAggNode(main.n, node.projects, node.win,
                                                node.notin, node.append, node.exclude))
    IN IF \E e \in cols : at(e) = {} THEN Failed(c)
       ELSE IF ~agg.ok THEN agg
       ELSE Done(FoldLeft(LAMBDA acc, m : AddWindowUnion(acc, agg.n, m).c, agg.c, unions.ns), agg.n)

(* cache: the results of the nodes met before *)
RECURSIVE WindowColumnPruning(_, _, _)
WindowColumnPruning(c, n, cache) ==
    LET kids == FoldLeft(LAMBDA acc, m :
                    IF ~acc.ok THEN acc
                    ELSE LET r == WindowColumnPruning(acc.c, m, acc.cache)
                         IN [ok |-> r.ok, c |-> r.c, ns |-> Append(acc.ns, r.n), cache |-> r.cache],
                    [ok |-> TRUE, c |-> c, ns |-> <<>>, cache |-> cache], c.ops[n].prods)
        self == IF kids.ns = c.ops[n].prods THEN Done(kids.c, n) ELSE WithNewChildren(kids.c, n, kids.ns)
        node == self.c.ops[self.n]
        r == IF node.op = "project" /\ node.type = "window" /\ node.joins = <<>> /\ ~node.append
             THEN ProcessWindow(self.c, self.n) ELSE self
    IN IF n \in DOMAIN cache THEN Done(c, cache[n]) @@ [cache |-> cache]
       ELSE IF ~kids.ok THEN Failed(kids.c) @@ [cache |-> kids.cache]
       ELSE IF ~self.ok THEN Failed(self.c) @@ [cache |-> kids.cache]
       ELSE r @@ [cache |-> (self.n :> r.n) @@ kids.cache]

-----------------------------------------------------------------------------
(* ApplyPasses *)

(* A pass whose result is not taken leaves its changes in the nodes *)
Apply(Transform(_, _), c, n) ==
    LET r == TransformUp(Transform, c, n)
    IN IF r.ok THEN r ELSE Done(r.c, n)

ApplyPruning(c, n) ==
    LET r == WindowColumnPruning(c, n, <<>>) IN IF r.ok THEN Done(r.c, r.n) ELSE Done(r.c, n)

-----------------------------------------------------------------------------
(* Validation *)

RECURSIVE isSourceFromTableProvider(_, _)
isSourceFromTableProvider(c, n) ==
    IF c.ops[n].op \in {"simple", "rename"} THEN isSourceFromTableProvider(c, c.ops[n].prods[1])
    ELSE c.ops[n].op \in {"partition", "data"}

RECURSIVE ValidatePartitionDataProvider(_, _)
ValidatePartitionDataProvider(c, n) ==
    IF c.ops[n].op \in {"simple", "rename"} THEN ValidatePartitionDataProvider(c, c.ops[n].prods[1])
    ELSE c.ops[n].op = "partition"

SortOptimized(sort) == Unordered(sort) \/ sort.by[1] = NoExpr

ValidateJoinIndexOptimization(c, join, right) ==
    \/ join.type = "concat"
    \/ /\ join.type = "last" => SortOptimized(join.sort)
       /\ c.ops[right].out = "row" \/ ValidatePartitionDataProvider(c, right)

ValidateWindowIndexOptimization(c, win, n) ==
    ValidatePartitionDataProvider(c, n) /\ SortOptimized(win.sort)

(* mutant: the union tables are not looked at *)
ValidateUnionsMutant(c, unions) == TRUE

ValidateUnions(c, unions) == \A u \in ToSet(unions) : ValidateWindowIndexOptimization(c, u.win, u.n)

RECURSIVE ValidateIndexOptimization(_, _)
ValidateIndexOptimization(c, n) ==
    LET node == c.ops[n]
    IN /\ CASE node.op \in {"group", "filter"} -> ValidatePartitionDataProvider(c, node.prods[1])
             [] node.op = "project" /\ node.type = "window" ->
                    /\ node.notin \/ ValidateWindowIndexOptimization(c, node.win, node.prods[1])
                    /\ \A j \in ToSet(node.joins) : ValidateJoinIndexOptimization(c, j.join, j.n)
                    /\ ValidateUnions(c, node.unions)
             [] node.op = "requestunion" ->
                    /\ node.notin \/ ValidateWindowIndexOptimization(c, node.win, node.prods[2])
                    /\ ValidateUnions(c, node.unions)
             [] node.op \in {"join", "requestjoin"} -> ValidateJoinIndexOptimization(c, node.join, node.prods[2])
             [] OTHER -> TRUE
       /\ \A m \in ToSet(node.prods) : ValidateIndexOptimization(c, m)

(* The request provider at the end of the primary path, or no node *)
RECURSIVE ValidatePrimaryPath(_, _)
ValidatePrimaryPath(c, n) ==
    LET node == c.ops[n]
        source(i) == ValidatePrimaryPath(c, node.prods[i])
    IN CASE IsDataProvider(node) -> IF node.op = "request" THEN {n} ELSE {}
         [] node.op \in {"join", "union", "postunion", "requestunion", "requestjoin"} ->
                IF isSourceFromTableProvider(c, node.prods[2]) THEN source(1) ELSE source(1) \cap source(2)
         [] node.op = "const" -> {}
         [] OTHER -> source(1)

(* sensitive: performance_sensitive_mode_ *)
ValidatePlan(c, m, sensitive, n) ==
    /\ sensitive => ValidateIndexOptimization(c, n)
    /\ m.request => ValidatePrimaryPath(c, n) # {}

-----------------------------------------------------------------------------
(* InitFnInfo: a function is compiled for each key, order and condition,    *)
(* which fails when a column of it is not found in the context             *)

GenKey(c, n, ctx, keys) == \A e \in ToSet(keys) : DependsOnlyOn(c.ops, n, ctx, e)
GenConditionFilter(c, n, ctx, cond) == DependsOnlyOn(c.ops, n, ctx, cond)
GenSort(c, n, sort) == GenKey(c, n, c.ops[n].ctx, sort.by)
GenRange(c, n, range) == GenKey(c, n, c.ops[n].ctx, range)

GenWindow(c, n, w) ==
    GenKey(c, n, c.ops[n].ctx, w.part) /\ GenSort(c, n, w.sort) /\ GenRange(c, n, w.range)

GenRequestWindow(c, n, w) == GenWindow(c, n, w) /\ GenKey(c, n, c.ops[n].ctx, w.index)

(* The keys of the union tables are compiled for the rows of the input *)
GenWindowUnionList(c, n, unions) == \A u \in ToSet(unions) : GenWindow(c, n, u.win)
GenRequestWindowUnionList(c, n, unions) == \A u \in ToSet(unions) : GenRequestWindow(c, n, u.win)

(* No function is made for the order of a window join *)
GenWindowJoinList(c, node) ==
    LET joined == node.joined
        left(i) == IF i = 1 THEN node.prods[1] ELSE joined[i - 1]
    IN \A i \in DOMAIN node.joins :
           LET j == node.joins[i].join
               r == node.joins[i].n
           IN /\ GenKey(c, left(i), c.ops[left(i)].ctx, j.left \o j.index)
              /\ GenKey(c, r, c.ops[r].ctx, j.right)
              /\ GenConditionFilter(c, joined[i], c.ops[joined[i]].ctx, j.cond)

GenJoin(c, n) ==
    LET node == c.ops[n]
        l == node.prods[1]
        r == node.prods[2]
    IN /\ GenConditionFilter(c, n, node.jctx, node.join.cond)
       /\ GenKey(c, l, c.ops[l].ctx, node.join.left \o node.join.index)
       /\ GenKey(c, r, c.ops[r].ctx, node.join.right)
       /\ node.join.type = "last" => GenSort(c, r, node.join.sort)

GenFilter(c, n, f) ==
    /\ GenConditionFilter(c, n, c.ops[n].ctx, f.cond)
    /\ GenKey(c, n, c.ops[n].ctx, f.left \o f.index \o f.right)

RECURSIVE InitFnInfo(_, _)
InitFnInfo(c, n) ==
    LET node == c.ops[n]
        first == node.prods[1]
    IN /\ \A m \in ToSet(node.prods) : InitFnInfo(c, m)
       /\ CASE node.op = "group" -> GenKey(c, first, c.ops[first].ctx, node.keys)
             [] node.op = "sort" -> GenSort(c, first, node.sort)
             [] node.op = "project" /\ node.type = "window" ->
                    /\ GenWindow(c, first, node.win)
                    /\ \A u \in ToSet(node.unions) : InitFnInfo(c, u.n)
                    /\ GenWindowUnionList(c, first, node.unions)
                    /\ \A j \in ToSet(node.joins) : InitFnInfo(c, j.n)
                    /\ GenWindowJoinList(c, node)
             [] node.op = "filter" -> GenFilter(c, first, node.join)
             [] node.op \in {"join", "requestjoin"} -> GenJoin(c, n)
             [] node.op = "requestunion" ->
                    /\ GenRequestWindow(c, first, node.win)
                    /\ \A u \in ToSet(node.unions) : InitFnInfo(c, u.n)
                    /\ GenRequestWindowUnionList(c, first, node.unions)
             [] node.op = "postunion" -> GenRange(c, first, node.range)
             [] OTHER -> TRUE
=============================================================================
