---------------------------- MODULE MCExecution ----------------------------
(* Sample plans, as the transformers build them for the statements named, *)
(* and small tables.                                                       *)
EXTENDS Execution

A == <<20>>
B == <<30>>

Column(slice, col) == [slice |-> slice, col |-> col, type |-> IF col = "k" THEN "kVarchar" ELSE "kInt64"]
K(slice) == <<Column(slice, "k")>>
Fn(tag, slice) == [tag |-> tag, k |-> slice, ts |-> slice]
ByTime == [valid |-> TRUE, asc |-> TRUE, order |-> << >>]
ByOrder == [valid |-> TRUE, asc |-> TRUE, order |-> <<0>>]
Unsorted == [valid |-> FALSE, asc |-> TRUE, order |-> << >>]

Provider(type, table, index) ==
    [op |-> "kPhysicalOpDataProvider", provider_type |-> type, table |-> table, index |-> index,
     producers |-> << >>, slices |-> 1, limit_cnt |-> 0]
Request == Provider("kProviderTypeRequest", "", "")
Index(table, index) == Provider("kProviderTypePartition", table, index)
Scan(table) == Provider("kProviderTypeTable", table, "")
Simple(in, tag, slice) ==
    [op |-> "kPhysicalOpSimpleProject", producers |-> <<in>>, select_slice |-> -1, fn |-> Fn(tag, slice),
     slices |-> 1, limit_cnt |-> 0]
Select(in, slice) == [Simple(in, 0, 0) EXCEPT !.select_slice = slice]
Project(type, in, tag, slice, limit) ==
    [op |-> "kPhysicalOpProject", project_type |-> type, producers |-> <<in>>, fn |-> Fn(tag, slice),
     slices |-> 1, limit_cnt |-> limit]
Row(in, tag, slice) == Project("kRowProject", in, tag, slice, 0)
Agg(in, tag) == Project("kAggregation", in, tag, 0, 0)
JoinOn(index_key, left_key, right_key, sort, cond) ==
    [index_key |-> index_key, left_key |-> left_key, right_key |-> right_key, sort |-> sort, cond |-> cond]
LastJoin(op, left, right, join, slices) ==
    [op |-> op, join_type |-> "kJoinTypeLast", producers |-> <<left, right>>, join |-> join,
     output_right_only |-> FALSE, slices |-> slices, limit_cnt |-> 0]
RightOnly(left, right, join) ==
    [LastJoin("kPhysicalOpRequestJoin", left, right, join, 1) EXCEPT !.output_right_only = TRUE]
Concat(left, right, slices) ==
    [LastJoin("kPhysicalOpRequestJoin", left, right, JoinOn(<< >>, << >>, << >>, Unsorted, << >>), slices)
        EXCEPT !.join_type = "kJoinTypeConcat"]
Preceding == [frame_type |-> "kFrameRowsRange", start_offset |-> -1, end_offset |-> 0,
              start_row |-> 0, max_size |-> 0]
Window(index_key) == [index_key |-> index_key, partition |-> << >>, sort |-> ByTime]
Union(left, right, index_key, output_request_row) ==
    [op |-> "kPhysicalOpRequestUnion", producers |-> <<left, right>>, window |-> Window(index_key),
     unions |-> << >>, union_windows |-> << >>, ts |-> <<0>>, range |-> Preceding,
     exclude_current_time |-> FALSE, instance_not_in_window |-> FALSE,
     output_request_row |-> output_request_row, slices |-> 1, limit_cnt |-> 0]
PostUnion(left, right) ==
    [op |-> "kPhysicalOpPostRequestUnion", producers |-> <<left, right>>, ts |-> 0, slices |-> 1,
     limit_cnt |-> 0]
Group(in, key) ==
    [op |-> "kPhysicalOpGroupBy", producers |-> <<in>>, key |-> key, slices |-> 1, limit_cnt |-> 0]
Filter(in, cond, index, slices) ==
    [op |-> "kPhysicalOpFilter", producers |-> <<in>>, filter |-> [cond |-> cond, index |-> index],
     slices |-> slices, limit_cnt |-> 0]
Limit(in, cnt, slices) ==
    [op |-> "kPhysicalOpLimit", producers |-> <<in>>, limit_cnt |-> cnt, limit_optimized |-> FALSE,
     slices |-> slices]
WindowAgg(in, unions, rights, joins) ==
    [op |-> "kPhysicalOpProject", project_type |-> "kWindowAggregation", producers |-> <<in>>,
     fn |-> Fn(9, 0), window |-> [partition |-> K(0), sort |-> ByOrder], range |-> Preceding,
     exclude_current_time |-> FALSE, unions |-> unions,
     union_windows |-> [i \in DOMAIN unions |-> [partition |-> K(0), sort |-> ByOrder]],
     rights |-> rights, joins |-> joins, slices |-> 1, limit_cnt |-> 0]

IndexJoin(slice, cond) == JoinOn(K(slice), << >>, << >>, ByTime, cond)
NotOlder(a, b) == <<[a |-> a, b |-> b, bound |-> 0]>>

Plan(query, tables, columns, common, ops) ==
    [query |-> query, mode |-> IF ops[1] = Request THEN "request" ELSE "batch", tables |-> tables,
     columns |-> columns, common |-> common, root |-> Len(ops), plan |-> ops, chained |-> query = "chained",
     stored |-> {[k |-> A, ts |-> 1], [k |-> NullString, ts |-> 1],
                 IF query = "group by" THEN [k |-> << >>, ts |-> 1] ELSE [k |-> A, ts |-> 2]}]

MCPlans == <<
  \* SELECT .. FROM t0 LAST JOIN t1 ORDER BY t1.ts ON t0.k = t1.k AND t1.ts <= t0.ts
  Plan("last join", {"t1"}, {}, {},
       <<Request, Index("t1", "k"), LastJoin("kPhysicalOpRequestJoin", 1, 2, IndexJoin(0, NotOlder(0, 1)), 2),
         Row(3, 1, 0)>>),
  \* .. LAST JOIN t1 .. ON t0.k = t1.k LAST JOIN t2 .. ON t1.k = t2.k: nested proxies
  Plan("chained", {"t1", "t2"}, {}, {},
       <<Request, Index("t1", "k"), LastJoin("kPhysicalOpRequestJoin", 1, 2, IndexJoin(0, << >>), 2),
         Index("t2", "k"), LastJoin("kPhysicalOpRequestJoin", 3, 4, IndexJoin(1, << >>), 3)>>),
  \* .. t2.k = t0.k: two proxies side by side
  Plan("other", {"t1", "t2"}, {}, {},
       <<Request, Index("t1", "k"), LastJoin("kPhysicalOpRequestJoin", 1, 2, IndexJoin(0, << >>), 2),
         Index("t2", "k"), LastJoin("kPhysicalOpRequestJoin", 3, 4, IndexJoin(0, NotOlder(0, 2)), 3),
         Row(5, 1, 2)>>),
  \* SELECT agg OVER (PARTITION BY k ORDER BY ts ROWS_RANGE ..) FROM t1
  Plan("window", {"t1"}, {}, {}, <<Request, Index("t1", "k"), Union(1, 2, K(0), TRUE), Agg(3, 1)>>),
  \* two windows on two indexes
  Plan("other", {"t1", "t2"}, {}, {},
       <<Request, Index("t1", "k"), Union(1, 2, K(0), TRUE), Agg(3, 1),
         Index("t2", "k"), Union(1, 5, K(0), TRUE), Agg(6, 2), Concat(4, 7, 2)>>),
  \* a window of which two aggregates are computed: the union is shared
  Plan("other", {"t1"}, {}, {},
       <<Request, Index("t1", "k"), Union(1, 2, K(0), TRUE), Agg(3, 1), Agg(3, 2), Concat(4, 5, 2)>>),
  \* columns k and ts are common: the rows of the window are, the request row is not
  Plan("other", {"t1"}, {"k", "ts"}, {2, 3, 4},
       <<Request, Index("t1", "k"), Simple(1, 1, 0), Union(3, 2, K(0), FALSE), PostUnion(1, 4), Agg(5, 1)>>),
  \* column k is common: so is the joined row
  Plan("other", {"t1"}, {"k"}, {2, 3, 4},
       <<Request, Index("t1", "k"), Simple(1, 1, 0), RightOnly(3, 2, IndexJoin(0, << >>)),
         Concat(1, 4, 2), Row(5, 1, 1)>>),
  \* GROUP BY k, ts
  Plan("group by", {"t1"}, {}, {},
       <<Scan("t1"), Group(1, K(0) \o <<Column(0, "ts")>>), Project("kGroupAggregation", 2, 1, 0, 0)>>),
  \* the same with an index on k
  Plan("group by", {"t1"}, {}, {},
       <<Index("t1", "k"), Group(1, <<Column(0, "ts")>>), Project("kGroupAggregation", 2, 1, 0, 0)>>),
  \* t1 LAST JOIN t2 ON t1.k = t2.k AND t2.ts <= t1.ts
  Plan("other", {"t1", "t2"}, {}, {},
       <<Scan("t1"), Scan("t2"),
         LastJoin("kPhysicalOpJoin", 1, 2, JoinOn(<< >>, K(0), K(0), ByOrder, NotOlder(0, 1)), 2)>>),
  \* WHERE and LIMIT
  Plan("other", {"t1"}, {}, {},
       <<Scan("t1"), Filter(1, <<[a |-> 0, b |-> -1, bound |-> 2]>>, << >>, 1), Limit(2, 1, 1),
         Project("kTableProject", 3, 1, 0, 0)>>),
  \* SELECT agg OVER (UNION t2 PARTITION BY k ORDER BY ts ROWS_RANGE ..) FROM t1
  Plan("batch window", {"t1", "t2"}, {}, {}, <<Scan("t1"), Scan("t2"), WindowAgg(1, <<2>>, << >>, << >>)>>),
  \* the window of t1 LAST JOIN t2, joined row by row
  Plan("other", {"t1", "t2"}, {}, {},
       <<Scan("t1"), Scan("t2"),
         WindowAgg(1, << >>, <<2>>, <<JoinOn(<< >>, K(0), K(0), ByOrder, << >>)>>)>>)
>>

MCIndexes == [i \in {"k"} |-> K(0)]
MCRequests == <<[k |-> A, ts |-> 1], [k |-> A, ts |-> 2], [k |-> NullString, ts |-> 2],
                [k |-> A, ts |-> 2]>>
MCFaulty == {<<1>>, <<3>>, <<1, 3>>}
MCBatches == {<< >>, <<1, 3>>, <<2, 1, 4>>, <<2, 4>>}

=============================================================================
