----------------------------- MODULE MCPlanning -----------------------------
(***************************************************************************)
(* Queries over three small tables for Planning and, as another part, the  *)
(* statements of MergedWindows.  A behaviour belongs to one part, the      *)
(* variables of the other keep a fixed value.                              *)
(***************************************************************************)
EXTENDS Planning

CONSTANT Parts

VARIABLES part, stmt, hist

k == Ref("", "k")
v == Ref("", "v")
Asc(col) == Order(<<col>>, TRUE)
T1 == TableRef("t1", "")
T2 == TableRef("t2", "")
All == Target("*", AllOf(""))
Sum(e, w) == AggOver(e, w)

W(addr, name, key, frame) == WindowDef(addr, name, <<key>>, Asc(Ref("", "t")), frame, <<>>, FALSE, FALSE)

Simple == Select(<<Target("k", k), Target("v", v)>>, <<T1>>)
Computed == Select(<<Target("k", k), Target("x", Binary("plus", v, Const(1)))>>, <<T1>>)
Window1 == [Select(<<Target("k", k), Target("s", Sum(v, "w"))>>, <<T1>>)
               EXCEPT !.windows = <<W(1, "w", k, RowsFrame(-1, 0))>>]

(* Two windows of one partition and order are merged; two partitions are not *)
Merged == [Select(<<Target("s", Sum(v, "w")), Target("k", k), Target("s2", Sum(v, "w2"))>>, <<T1>>)
              EXCEPT !.windows = <<W(1, "w", k, RowsFrame(-1, 0)), W(2, "w2", k, RowsRangeFrame(-3, 0, 0))>>]
TwoWindows == [Select(<<Target("s", Sum(v, "w")), Target("k", k), Target("x", Binary("plus", v, Const(1))),
                        Target("s2", Sum(k, "w2"))>>, <<T1>>)
                  EXCEPT !.windows = <<W(1, "w", k, RowsFrame(-1, 0)), W(2, "w2", v, RowsRangeFrame(-3, 0, 0))>>]
History == [Select(<<Target("k", k), Target("s", Sum(v, "w"))>>, <<T1>>)
               EXCEPT !.windows = <<W(1, "w", k, RowsRangeFrame(-3, -1, 2))>>]

Unioned(notin) ==
    [Select(<<Target("k", k), Target("s", Sum(v, "w"))>>, <<T1>>)
        EXCEPT !.windows = <<[W(1, "w", k, RowsRangeFrame(-4, 0, 0)) EXCEPT !.unions = <<TableRef("t3", "")>>, !.notin = notin]>>]

OnKey == Binary("eq", Ref("t1", "k"), Ref("t2", "k"))
Joined(cond, orders) == JoinRef(T1, T2, "last", orders, cond)
Last2 == Select(<<Target("k", Ref("t1", "k")), Target("v", v), Target("w", Ref("t2", "w"))>>,
                <<Joined(OnKey, Asc(Ref("t2", "t")))>>)
LastCond == Select(<<Target("v", v), Target("w", Binary("plus", Ref("t2", "w"), v))>>,
                   <<Joined(Binary("and", OnKey, Binary("gt", Ref("t2", "w"), Const(20))), Asc(Ref("t2", "t")))>>)
LastFirst == Select(<<Target("v", v), Target("w", Ref("t2", "w"))>>,
                   <<Joined(Binary("and", Binary("gt", Const(40), Ref("t2", "w")), OnKey), Asc(Ref("t2", "t")))>>)
WindowOverJoin ==
    [Select(<<Target("k", Ref("t1", "k")), Target("s", Sum(Ref("t2", "w"), "w")), Target("s1", Sum(v, "w"))>>,
            <<Joined(OnKey, Asc(Ref("t2", "t")))>>)
        EXCEPT !.windows = <<WindowDef(1, "w", <<Ref("t1", "k")>>, Asc(Ref("t1", "t")), RowsFrame(-1, 0), <<>>, FALSE, FALSE)>>]

Filtered == [Simple EXCEPT !.where = Binary("and", Binary("eq", k, Const(1)), Binary("gt", v, Const(1)))]
FilteredFirst == [Computed EXCEPT !.where = Binary("eq", Const(1), k)]
Grouped == [Select(<<Target("k", k), Target("s", Sum(v, ""))>>, <<T1>>) EXCEPT !.group = <<k>>]
Nested == Select(<<Target("a", Ref("a", "x")), Target("b", Binary("plus", Ref("a", "k"), Const(1)))>>,
                 <<QueryRef(Select(<<Target("x", v), Target("k", k)>>, <<T1>>), "a")>>)
NestedWindow == [Select(<<Target("k", Ref("a", "k")), Target("s", Sum(Ref("a", "x"), "w"))>>,
                        <<QueryRef(Select(<<Target("x", v), Target("k", k), Target("t", Ref("", "t"))>>, <<T1>>), "a")>>)
                    EXCEPT !.windows = <<W(1, "w", k, RowsFrame(-1, 0))>>]
JoinNested == Select(<<Target("v", v), Target("y", Ref("b", "y"))>>,
                     <<JoinRef(T1, QueryRef(Select(<<Target("y", Ref("", "w")), Target("kk", k), Target("tt", Ref("", "t"))>>, <<T2>>), "b"),
                               "last", Asc(Ref("b", "tt")), Binary("eq", Ref("t1", "k"), Ref("b", "kk")))>>)
Star == Select(<<All>>, <<T1>>)
StarJoin == Select(<<All>>, <<Joined(OnKey, Asc(Ref("t2", "t")))>>)
T3 == TableRef("t3", "")
OnKey3 == Binary("eq", Ref("t1", "k"), Ref("t3", "k"))
From3 == JoinRef(Joined(OnKey, Asc(Ref("t2", "t"))), T3, "last", Asc(Ref("t3", "t")), OnKey3)
TwoJoins == Select(<<Target("k", Ref("t1", "k")), Target("w", Ref("t2", "w")), Target("v3", Ref("t3", "v"))>>, <<From3>>)
WindowOverTwo ==
    [Select(<<Target("s", Sum(Ref("t2", "w"), "w")), Target("s3", Sum(Ref("t3", "v"), "w"))>>, <<From3>>)
        EXCEPT !.windows = <<WindowDef(1, "w", <<Ref("t1", "k")>>, Asc(Ref("t1", "t")), RowsFrame(-1, 0), <<>>, FALSE, FALSE)>>]
WindowByRight ==
    [Select(<<Target("k", Ref("t1", "k")), Target("s", Sum(v, "w"))>>, <<Joined(OnKey, Asc(Ref("t2", "t")))>>)
        EXCEPT !.windows = <<WindowDef(1, "w", <<Ref("t2", "w")>>, Asc(Ref("t1", "t")), RowsFrame(-1, 0), <<>>, FALSE, FALSE)>>]
SumAllOf == Select(<<Target("s", Sum(v, ""))>>, <<T1>>)
FilterJoin == [Last2 EXCEPT !.where = Binary("eq", Ref("t1", "k"), Const(1))]
TwoKeys == [Select(<<Target("k", k), Target("s", Sum(v, "w"))>>, <<T1>>)
               EXCEPT !.windows = <<WindowDef(1, "w", <<k, v>>, Asc(Ref("", "t")), RowsFrame(-1, 0), <<>>, FALSE, FALSE)>>]
ByValue == [Select(<<Target("k", k), Target("s", Sum(k, "w"))>>, <<T1>>)
               EXCEPT !.windows = <<WindowDef(1, "w", <<k>>, Asc(v), RowsFrame(-1, 0), <<>>, FALSE, FALSE)>>]
UnionNested ==
    [Select(<<Target("k", Ref("a", "k")), Target("s", Sum(Ref("a", "x"), "w"))>>,
            <<QueryRef(Select(<<Target("x", v), Target("k", k), Target("t", Ref("", "t"))>>, <<T1>>), "a")>>)
        EXCEPT !.windows = <<[W(1, "w", k, RowsFrame(-2, 0)) EXCEPT
                  !.unions = <<QueryRef(Select(<<Target("x", v), Target("k", k), Target("t", Ref("", "t"))>>, <<T3>>), "b")>>]>>]
Constant == Select(<<Target("a", Const(7))>>, <<>>)
Ordered == [Computed EXCEPT !.order = Asc(v)]
Distinct == [Simple EXCEPT !.distinct = TRUE, !.having = Binary("gt", v, Const(1))]
Both(q) == UnionQuery(Simple, q, FALSE)
OverBoth(q) == Select(<<Target("k", Ref("a", "k"))>>, <<QueryRef(Both(q), "a")>>)
Limit(q, n) == [q EXCEPT !.limit = n]

LimitedNested(inner, outer) ==
    Limit(Select(<<Target("b", Binary("plus", Ref("a", "x"), Const(1)))>>, <<QueryRef(Limit(Computed, inner), "a")>>), outer)

MCQueries == {Simple, Computed, Window1, Merged, TwoWindows, History, Unioned(FALSE), Unioned(TRUE), Last2, LastCond,
              LastFirst, WindowOverJoin, Grouped, Nested, NestedWindow, JoinNested, Star, StarJoin,
              Limit(Simple, 1), Limit(Computed, 2), Limit(Grouped, 1), Limit(Window1, 2),
              Limit(Nested, 1), Limit(Last2, 1), TwoJoins, WindowOverTwo,
              TwoKeys, ByValue, UnionNested, Both(Window1),
              OverBoth(Simple), OverBoth(Filtered), OverBoth(Computed), Distinct}
MCBatchQueries == {Constant, Filtered, FilteredFirst, Limit(Filtered, 1), SumAllOf, FilterJoin, WindowByRight,
                   LimitedNested(2, 3), LimitedNested(2, 1), Ordered}

Index(name, keys, ts) == [name |-> name, keys |-> keys, ts |-> ts]
TableDef(name, cols, indexes) == [name |-> name, cols |-> cols, indexes |-> indexes]

Cat(i1, i2, i3) == <<TableDef("t1", <<"k", "v", "t">>, i1), TableDef("t2", <<"k", "w", "t">>, i2),
                     TableDef("t3", <<"k", "v", "t">>, i3)>>
ByKey == Index("byk", <<"k">>, "t")
ByValueOnly == Index("byv", <<"v">>, "t")
ByBoth == Index("both", <<"k", "v">>, "t")
NoTime == Index("byk", <<"k">>, "")
MCCatalogs == {Cat(<<ByValueOnly, ByBoth>>, <<ByKey>>, <<>>), Cat(<<ByKey, ByBoth>>, <<NoTime>>, <<>>),
               Cat(<<>>, <<>>, <<>>), Cat(<<ByKey>>, <<ByKey>>, <<ByKey>>)}

Mode(request, parallel) == [request |-> request, parallel |-> parallel, cluster |-> FALSE]
MCModes == {Mode(FALSE, FALSE), Mode(FALSE, TRUE), Mode(TRUE, FALSE)}

Tables == [t1 |-> <<<<1, 1, 1>>, <<1, 2, 3>>, <<2, 4, 2>>, <<1, 8, 4>>>>,
           t2 |-> <<<<1, 16, 1>>, <<1, 32, 2>>, <<2, 64, 4>>>>,
           t3 |-> <<<<1, 128, 2>>, <<2, 256, 1>>>>]
MCDatabases == {[tables |-> Tables, request |-> r] : r \in {<<>>, <<1, 512, 5>>, <<3, 512, 5>>, <<1, 513, 5>>}}
MCFresh == {100}
MCCommons == {{}, {1}, {2}, {3}, {1, 3}, {1, 2, 3}}

\* The operators the steps and the properties are about
MCLogicalPlan(m, addr, q) == LET planned == CreatePlanTree(m, addr, q) IN planned
MCPhysicalPlan(ctx, m, l) == LET transformed == TransformQueryPlan(ctx, m, l) IN transformed
MCApplyPass(pass, ctx, n) ==
    LET On(Rule(_, _)) == Apply(Rule, ctx, n)
    IN CASE pass = "SimpleProjectOptimized" -> On(SimpleProjectOptimized)
         [] pass = "ConditionOptimized" -> On(ConditionOptimized)
         [] pass = "LeftJoinOptimized" -> On(LeftJoinOptimized)
         [] pass = "GroupAndSortOptimized" -> On(GroupAndSortOptimized)
         [] pass = "LimitOptimized" -> On(LimitOptimized)
         [] pass = "WindowColumnPruning" -> ApplyPruning(ctx, n)
MCSplitCommon(ctx, n, common) == LET split == CommonColumnOptimize(ctx, n, common) IN split
MCCompiles(ctx, n) == LET compiled == InitFnInfo(ctx, n) IN compiled
MCOutputRows(ctx, data, n) == LET rows == Result(ctx, data, n) IN rows
MCQueryRows(cat, data, q) == LET rows == Meaning(cat, data, q) IN rows

MCFrames == {RowsFrame(-1, 0), RowsFrame(-2, -1), RowsRangeFrame(-2, 0, 0), RowsRangeFrame(-4, 0, 0),
             RowsRangeFrame(-4, -2, 0), RowsRangeFrame(-2, 0, 3), RowsRangeFrame(-4, 0, 3),
             RowsRangeFrame(-4, -2, 3), RowsRangeFrame(-4, 0, 2)}
MCHistories == {<<9, 8, 7, 6, 5>>, <<9, 6, 4, 1>>, <<9, 9, 7, 5>>, <<9, 3, 2>>}

Merges == INSTANCE MergedWindows WITH Frames <- MCFrames, MaxWindows <- 3, Histories <- MCHistories

NoPlanning ==
    /\ stage = "failed" /\ query = Simple /\ catalog = Cat(<<>>, <<>>, <<>>)
    /\ mode = Mode(FALSE, FALSE) /\ db = [tables |-> Tables, request |-> <<>>]
    /\ sensitive = FALSE /\ logical = LTable("") /\ c = PlanContext(catalog) /\ root = 0
    /\ batch = [common |-> {}, idx |-> {}, nodes |-> {}]

MCInit ==
    /\ part \in Parts
    /\ \/ part = "plans" /\ Init /\ stmt = <<>> /\ hist = <<>>
       \/ part = "merges" /\ Merges!Init /\ NoPlanning

PlansStep == part = "plans" /\ Next /\ UNCHANGED <<part, stmt, hist>>

MergesStep ==
    /\ part = "merges"
    /\ Merges!AddWindow
    /\ UNCHANGED <<part, stage, query, catalog, mode, db, sensitive, logical, c, root, batch>>

MCNext == PlansStep \/ MergesStep

MCSpec == MCInit /\ [][MCNext]_<<vars, part, stmt, hist>>

(* Windows are put together (MergeWindows, MergeProjectMap) so that every   *)
(* aggregate still reads the rows of the frame it was written with, as long *)
(* as merging is transitive on the frames and those with a MAXSIZE end      *)
(* together.                                                                *)
ReadsOwnFrame == part = "merges" => Merges!ReadsOwnFrame
=============================================================================
