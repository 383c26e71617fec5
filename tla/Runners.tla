------------------------------ MODULE Runners ------------------------------
(***************************************************************************)
(* The generators runners are made of (src/vm/runner.h, src/vm/runner.cc): *)
(* keys, order values, conditions and projections computed from a row, and *)
(* partition, sort, seek, filter and last join on handlers.                *)
(*                                                                         *)
(* A compiled function is described by the columns it reads.  A column is  *)
(* a record [slice, col, type]; a key is a sequence of columns, the empty  *)
(* one standing for a generator that is not valid.  A condition is a       *)
(* sequence of at most one comparison.                                     *)
(***************************************************************************)
EXTENDS Handlers, RequestWindow

----------------------------------------------------------------------------
(* KeyGenerator *)

IntString(n) == <<10 + n>>

\* One column of a key.  Columns of type float and double contribute nothing.
ColumnKey(row, c) ==
    LET s == GetSlice(row, c.slice) IN
    CASE c.col = "k" -> IF s.k = NullString THEN NONETOKEN
                        ELSE IF s.k = << >> THEN EMPTY_STRING ELSE s.k
      [] s.ts = NullInt -> NONETOKEN
      [] c.type = "kDouble" -> << >>
      [] OTHER -> IntString(s.ts)

JoinKeys(s, t) == IF s = << >> THEN t ELSE s \o Separator \o t

\* KeyGenerator::Gen
GenKey(key, row) ==
    IF row[1] = EmptySlice THEN NONETOKEN
    ELSE FoldLeft(LAMBDA keys, c : JoinKeys(keys, ColumnKey(row, c)), << >>, key)

\* KeyGenerator::GenConst: the key is made of literals, which are not columns of
\* a row.
GenConstKey(literals) ==
    FoldLeft(LAMBDA keys, s : JoinKeys(keys, IF s = << >> THEN EMPTY_STRING
                                             ELSE IF s = NullString THEN NONETOKEN ELSE s),
             << >>, literals)

----------------------------------------------------------------------------
(* OrderGenerator, ConditionGenerator, ProjectGenerator, AggGenerator *)

\* OrderGenerator::Gen: -1 when the column is NULL
GenOrder(slice, row) ==
    LET ts == GetSlice(row, slice).ts IN IF ts = NullInt THEN -1 ELSE ts

ToUint64(n) == IF n < 0 THEN n + 2 * Half ELSE n

\* mutant: the bound itself is refused
GenConditionStrict(cond, row) ==
    \A n \in DOMAIN cond :
        LET left  == GetSlice(row, cond[n].a).ts
            right == IF cond[n].b < 0 THEN cond[n].bound ELSE GetSlice(row, cond[n].b).ts
        IN ~IsEmptyRow(row) /\ left # NullInt /\ right # NullInt /\ left > right

\* ConditionGenerator::Gen of "slice a . ts >= bound", where the bound is a
\* literal or the ts of slice b; NULL is not true.
GenCondition(cond, row) ==
    \A n \in DOMAIN cond :
        LET left  == GetSlice(row, cond[n].a).ts
            right == IF cond[n].b < 0 THEN cond[n].bound ELSE GetSlice(row, cond[n].b).ts
        IN ~IsEmptyRow(row) /\ left # NullInt /\ right # NullInt /\ left >= right

Content(row) == FlattenSeq([n \in DOMAIN row |-> row[n].id])

\* CoreAPI::RowProject of a function that computes one slice from a row: its
\* columns k and ts are those of two slices.
GenProject(fn, row) ==
    IF IsEmptyRow(row) THEN EmptyRow
    ELSE <<[id |-> <<fn.tag>> \o Content(row), k |-> GetSlice(row, fn.k).k,
            ts |-> GetSlice(row, fn.ts).ts]>>

\* SelectSliceRunner::GetSliceFn
SelectSlice(slice, row) == IF slice < Len(row) THEN <<GetSlice(row, slice)>> ELSE EmptyRow

\* Runner::GroupbyProject: the columns of the first row, an aggregate over all
GenAgg(fn, h) ==
    IF h.rows = << >> THEN EmptyRow
    ELSE <<[id |-> <<fn.tag>> \o FlattenSeq([n \in DOMAIN h.rows |-> Content(h.rows[n].row)]),
            k |-> GetSlice(h.rows[1].row, fn.k).k,
            ts |-> GetSlice(h.rows[1].row, fn.ts).ts]>>

----------------------------------------------------------------------------
(* PartitionGenerator *)

\* Grouped by prefix and key, in the order of the rows
PartitionRows(segments, key, prefix, rows) ==
    FoldLeft(LAMBDA out, entry : AddRow(out, prefix \o GenKey(key, entry.row), entry),
             segments, rows)

\* PartitionGenerator::Partition of a partition
PartitionPartition(key, h) ==
    IF key = << >> THEN h
    ELSE Partition(FoldLeft(LAMBDA out, k : PartitionRows(out, key, k \o Separator, h.segments[k]),
                            << >>, WindowKeys(h)), h.order)

\* ... of a table
PartitionTable(key, h) ==
    IF key = << >> \/ ~h.iter THEN Nil
    ELSE Partition(PartitionRows(<< >>, key, << >>, h.rows), h.order)

GenPartition(key, h) ==
    CASE IsPartition(h) -> PartitionPartition(key, h)
      [] IsTable(h) -> PartitionTable(key, h)
      [] OTHER -> Nil

----------------------------------------------------------------------------
(* SortGenerator on tables: sort is a record [valid, asc, order], where order  *)
(* holds the slice whose ts is the order value, or nothing.                    *)

SortKeys(sort, h) ==
    [n \in DOMAIN h.rows |-> [key |-> ToUint64(GenOrder(sort.order[1], h.rows[n].row)),
                              row |-> h.rows[n].row]]

GenSort(sort, h, reverse, ties) ==
    LET is_asc == IF reverse THEN ~sort.asc ELSE sort.asc IN
    IF ~IsTable(h) \/ ~sort.valid THEN h
    ELSE IF sort.order = << >> /\ is_asc = (h.order = "kAscOrder") THEN h
    ELSE IF ~h.iter THEN Nil
    ELSE IF sort.order # << >> THEN SortTable(Table(SortKeys(sort, h), h.order), is_asc, ties)
    ELSE CASE h.order = "kNoneOrder" -> Nil
           [] h.order = "kDescOrder" -> IF is_asc THEN ReverseTable(h) ELSE h
           [] OTHER -> IF is_asc THEN h ELSE ReverseTable(h)

----------------------------------------------------------------------------
(* IndexSeekGenerator, FilterGenerator, FilterKeyGenerator *)

Segment(valid, key, h) ==
    CASE IsPartition(h) -> IF valid THEN GetSegment(h, key) ELSE Nil
      [] IsTable(h) -> IF valid THEN Nil ELSE h
      [] OTHER -> Nil

SegmentOfKey(index_key, row, h) ==
    IF IsEmptyRow(row) THEN Nil ELSE Segment(index_key # << >>, GenKey(index_key, row), h)

SegmentOfConstKey(literals, h) == Segment(literals # << >>, GenConstKey(literals), h)

FilterTable(cond, h) ==
    IF ~IsTable(h) \/ cond = << >> THEN h ELSE FilterWrapper(h, [row \in RowsOf(h) |-> GenCondition(cond, row)])

GenFilter(filter, h) ==
    CASE IsTable(h) -> FilterTable(filter.cond, h)
      [] IsPartition(h) -> FilterTable(filter.cond, SegmentOfConstKey(filter.index, h))
      [] OTHER -> Nil

\* FilterKeyGenerator::Filter
FilterKey(key, h, request_key) ==
    IF key = << >> THEN h
    ELSE Table(SelectSeq(h.rows, LAMBDA entry : GenKey(key, entry.row) = request_key), h.order)

\* RequestWindowGenertor::GetRequestWindow; window is a record
\* [index_key, partition, sort]
GetRequestWindow(window, row, h, ties) ==
    LET seeked   == SegmentOfKey(window.index_key, row, h)
        filtered == FilterKey(window.partition, seeked, GenKey(window.partition, row))
    IN GenSort(window.sort, filtered, TRUE, ties)

\* What RequestUnionWindow takes from the segments: nothing from one that is null.
UnionSegment(h) ==
    IF IsTable(h) THEN [n \in DOMAIN h.rows |-> [key |-> h.rows[n].key, row |-> h.rows[n].row]]
    ELSE << >>

----------------------------------------------------------------------------
(* JoinGenerator: join is a record [index_key, left_key, right_key, sort,      *)
(* cond, left_slices, right_slices].                                           *)

Joined(join, left_row, right_row) ==
    CombineRows(join.left_slices, left_row, join.right_slices, right_row)

\* The first row of the table for which Match holds, or no right side
FirstMatch(join, left_row, h, Match(_)) ==
    LET matching == IF IsTable(h) THEN {n \in DOMAIN h.rows : Match(h.rows[n].row)} ELSE {}
    IN IF matching = {} THEN Joined(join, left_row, EmptyRow)
       ELSE Joined(join, left_row,
                   h.rows[CHOOSE n \in matching : \A m \in matching : n <= m].row)

\* JoinGenerator::RowLastJoinTable: keys are compared here.
KeyedRowLastJoinTable(join, left_row, h, ties) ==
    LET SameKey(right_row) ==
            join.left_key # << >> /\ join.right_key # << >> =>
                GenKey(join.left_key, left_row) = GenKey(join.right_key, right_row)
        Match(right_row) == /\ SameKey(right_row)
                            /\ GenCondition(join.cond, Joined(join, left_row, right_row))
    IN FirstMatch(join, left_row, GenSort(join.sort, h, TRUE, ties), Match)

\* Runner::RowLastJoinTable: the caller has found the segment of the key.
RowLastJoinTable(join, left_row, h, ties) ==
    LET Match(right_row) == GenCondition(join.cond, Joined(join, left_row, right_row))
    IN FirstMatch(join, left_row, GenSort(join.sort, h, TRUE, ties), Match)

\* The table a left row is joined with: a null one has no rows.
JoinCandidates(join, left_row, right) ==
    CASE IsPartition(right) -> GetSegment(right, GenKey(join.index_key, left_row))
      [] IsRow(right) -> MemTable(<<right.row>>)
      [] OTHER -> right

\* JoinGenerator::RowLastJoin and RowLastJoinPartition
RowLastJoin(join, left_row, right, ties) ==
    IF IsPartition(right) /\ join.index_key = << >> THEN EmptyRow
    ELSE KeyedRowLastJoinTable(join, left_row, JoinCandidates(join, left_row, right), ties)

RightSlices(join, row) == [p \in 1..join.right_slices |-> GetSlice(row, join.left_slices + p - 1)]

\* JoinGenerator::RowLastJoinDropLeftSlices
RowLastJoinDropLeftSlices(join, left_row, right, ties) ==
    RightSlices(join, RowLastJoin(join, left_row, right, ties))

\* The key under which the partitioned right side is looked up
PartitionKey(join, left_row) ==
    LET index == IF join.index_key # << >> THEN GenKey(join.index_key, left_row) ELSE << >>
    IN IF join.left_key = << >> THEN index ELSE JoinKeys(index, GenKey(join.left_key, left_row))

JoinEntries(join, entries, right, ties) ==
    [n \in DOMAIN entries |->
        [key |-> entries[n].key,
         row |-> RowLastJoinTable(join, entries[n].row,
                                  IF IsPartition(right)
                                  THEN GetSegment(right, PartitionKey(join, entries[n].row))
                                  ELSE right, ties)]]

\* JoinGenerator::TableJoin with a table and with a partition
TableJoin(join, left, right, ties) ==
    IF \/ ~left.iter
       \/ IsPartition(right) /\ join.left_key = << >> /\ join.index_key = << >>
    THEN Nil
    ELSE Table(JoinEntries(join, left.rows, right, ties), left.order)

\* JoinGenerator::PartitionJoin with a table and with a partition: here the index
\* key alone is not enough.
PartitionJoin(join, left, right, ties) ==
    IF IsPartition(right) /\ join.left_key = << >> THEN Nil
    ELSE Partition([k \in DOMAIN left.segments |->
                        JoinEntries(join, left.segments[k], right, ties)], left.order)

\* WindowJoinGenerator::Join: one last join after the other
WindowJoin(joins, rights, row, ties) ==
    FoldLeft(LAMBDA joined, n : RowLastJoin(joins[n], joined, rights[n], ties),
             row, [n \in DOMAIN joins |-> n])

----------------------------------------------------------------------------
(* The window of an instance row in batch mode, in closed form: the rows that  *)
(* RunWindowAggOnKey has fed before it (WindowAgg is the loop), cut to the     *)
(* frame (HistoryWindow is the window).  Segments are sorted ascending.        *)

\* Union rows older than the instance row, and its earlier instance rows; of one
\* key the instance rows come first, then the union tables in order.
FedBefore(instances, unions, n) ==
    LET sources == [i \in 0..Len(unions) |-> IF i = 0 THEN instances ELSE unions[i]]
        places  == {p \in UNION {{i} \X DOMAIN sources[i] : i \in DOMAIN sources} :
                       IF p[1] = 0 THEN p[2] < n
                       ELSE sources[p[1]][p[2]].key < instances[n].key}
        Newer(p, q) == \/ sources[p[1]][p[2]].key > sources[q[1]][q[2]].key
                       \/ /\ sources[p[1]][p[2]].key = sources[q[1]][q[2]].key
                          /\ p[1] > q[1] \/ (p[1] = q[1] /\ p[2] > q[2])
        order   == SetToSortSeq(places, Newer)
    IN [m \in DOMAIN order |-> sources[order[m][1]][order[m][2]]]

BatchWindow(r, exclude, row, past) ==
    LET rows   == Visible(r, exclude, row, past)
        places == (IF HasRows(r) THEN RowsPlaces([start_row |-> r.start_row, end_row |-> 0], rows) ELSE {}) \cup
                  (IF HasRange(r) THEN RangePlaces(r, rows) ELSE {})
        order  == SetToSortSeq(places, <)
    IN [m \in DOMAIN order |-> rows[order[m]]]

----------------------------------------------------------------------------
(***************************************************************************)
(* The runners (src/vm/runner.cc): what Run of every type of runner makes   *)
(* of the outputs of its inputs, in one call or in one for each request of *)
(* a batch, and what a proxy sends to the tablet of a key.                 *)
(***************************************************************************)

\* A null handler was dereferenced.
Crash == [type |-> "crash"]

IsCrash(h) == h.type = "crash"

\* DataHandlerList: DataHandlerVector, DataHandlerRepeater
HandlerList(items) == [type |-> "list", items |-> items]

Repeated(h, n) == HandlerList([i \in 1..n |-> h])

----------------------------------------------------------------------------
(* Runners that only look at their inputs *)

Limited(limit_cnt, s) ==
    IF limit_cnt > 0 THEN SubSeq(s, 1, IF Len(s) < limit_cnt THEN Len(s) ELSE limit_cnt) ELSE s

GroupRun(r, in) == IF IsNil(in[1]) THEN Nil ELSE GenPartition(r.key, in[1])

ConstProjectRun(r) == MemTable(<<<<[id |-> <<r.fn.tag>>, k |-> NullString, ts |-> NullInt]>>>>)

TableProjectRun(r, in) ==
    IF ~IsTable(in[1]) \/ ~in[1].iter THEN Nil
    ELSE LET rows == Limited(r.limit_cnt, Rows(in[1]))
         IN MemTable([n \in DOMAIN rows |-> GenProject(r.fn, rows[n])])

RowProjectRun(r, in) == IF IsRow(in[1]) THEN RowHandler(GenProject(r.fn, in[1].row)) ELSE Crash

SimpleProjectRun(r, in) == ProjectWrapper(in[1], [row \in RowsOf(in[1]) |-> GenProject(r.fn, row)])

SelectSliceRun(r, in) ==
    ProjectWrapper(in[1], [row \in RowsOf(in[1]) |-> IF IsEmptyRow(row) THEN row ELSE SelectSlice(r.slice, row)])

RequestLastJoinRun(r, in, ties) ==
    IF ~IsRow(in[1]) \/ IsNil(in[2]) THEN Nil
    ELSE RowHandler(IF r.output_right_only
                    THEN RowLastJoinDropLeftSlices(r.join, in[1].row, in[2], ties)
                    ELSE RowLastJoin(r.join, in[1].row, in[2], ties))

LastJoinRun(r, in, ties) ==
    LET left  == in[1]
        right == IF IsNil(in[2]) \/ r.join.right_key = << >> \/ IsRow(left) THEN in[2]
                 ELSE GenPartition(r.join.right_key, in[2])
    IN CASE IsNil(left) \/ IsNil(right) -> Nil
         [] IsTable(left) -> TableJoin(r.join, left, right, ties)
         [] IsPartition(left) -> PartitionJoin(r.join, left, right, ties)
         [] OTHER -> RowHandler(RowLastJoin(r.join, left.row, right, ties))

ConcatRun(r, in) ==
    CASE IsRow(in[1]) -> RowCombine(in[1], r.left_slices, in[2], r.right_slices)
      [] IsTable(in[1]) -> ConcatTable(in[1], r.left_slices, in[2], r.right_slices)
      [] OTHER -> Nil

LimitRun(r, in) ==
    CASE IsTable(in[1]) -> IF in[1].iter THEN MemTable(Limited(r.limit_cnt, Rows(in[1]))) ELSE Nil
      [] IsRow(in[1]) -> in[1]
      [] OTHER -> Nil

FilterRun(r, in) == IF IsNil(in[1]) THEN Nil ELSE GenFilter(r.filter, in[1])

GroupAggRun(r, in) ==
    IF ~IsPartition(in[1]) THEN Nil
    ELSE LET keys == Limited(r.limit_cnt, WindowKeys(in[1]))
         IN MemTable([n \in DOMAIN keys |-> GenAgg(r.fn, GetSegment(in[1], keys[n]))])

AggRun(r, in) == IF IsTable(in[1]) THEN RowHandler(GenAgg(r.fn, in[1])) ELSE Nil

PostRequestUnionRun(r, in) ==
    IF ~IsRow(in[1]) \/ ~IsTable(in[2]) THEN Nil
    ELSE RequestUnionTable(ToUint64(GenOrder(r.ts, in[1].row)), in[1].row, in[2])

----------------------------------------------------------------------------
(* Window runners; unions and rights are the handlers of their other inputs *)

UnionOutput(r, window) == Table(IF r.output_request_row THEN window ELSE Tail(window), "kNoneOrder")

\* RequestUnionRunner::Run: without an order there is no time (-1).
RequestUnionRun(r, in, unions, ties) ==
    IF ~IsRow(in[1]) \/ IsNil(in[2]) THEN Nil
    ELSE LET request == in[1].row
             ts      == IF r.ts = << >> THEN -1 ELSE GenOrder(r.ts[1], request)
         IN UnionOutput(r, RequestUnionWindow(r.range, r.exclude_current_time, ts,
                               [key |-> Max0(ts), row |-> request],
                               [i \in DOMAIN unions |->
                                   UnionSegment(GetRequestWindow(r.windows[i], request, unions[i], ties))]))

\* The segment of a key in time order, each row joined with the right sides
JoinedSegment(r, window, h, rights, key, ties) ==
    LET s == GenSort(window.sort, GetSegment(h, key), FALSE, ties)
    IN IF IsTable(s) THEN ProjectEntries(s.rows, [row \in RowsOf(s) |-> WindowJoin(r.joins, rights, row, ties)])
       ELSE << >>

\* Each instance row projected over its window
WindowProjects(r, instances, unions) ==
    [n \in DOMAIN instances |->
        GenAgg(r.fn, Table(BatchWindow(r.range, r.exclude_current_time, instances[n],
                                       FedBefore(instances, unions, n)), "kNoneOrder"))]

WindowAggOnKey(r, instance, unions, rights, key, ties) ==
    WindowProjects(r, JoinedSegment(r, r.window, instance, rights, key, ties),
                   [i \in DOMAIN unions |->
                       IF IsPartition(unions[i])
                       THEN JoinedSegment(r, r.union_windows[i], unions[i], rights, key, ties)
                       ELSE << >>])

WindowAggOnKeys(r, instance, unions, rights, ties) ==
    IF ~IsPartition(instance) THEN Nil
    ELSE LET keys == WindowKeys(instance)
         IN MemTable(Limited(r.limit_cnt,
                FlattenSeq([n \in DOMAIN keys |->
                    WindowAggOnKey(r, instance, unions, rights, keys[n], ties)])))

\* WindowAggRunner::Run
WindowAggRun(r, in, unions, rights, ties) ==
    WindowAggOnKeys(r, IF IsNil(in[1]) THEN Nil ELSE GenPartition(r.window.partition, in[1]),
                    [i \in DOMAIN unions |-> GenPartition(r.union_windows[i].partition, unions[i])],
                    rights, ties)

----------------------------------------------------------------------------
(* Runner::Run: in are the outputs of the producers, extra those of the union  *)
(* tables and of the right sides of window joins.                              *)

\* The inputs that a runner runs itself
ExtraInputs(r) ==
    CASE r.type = "kRunnerRequestUnion" -> r.inputs
      [] r.type = "kRunnerWindowAgg" -> r.inputs \o r.join_inputs
      [] r.type = "kRunnerRequestRunProxy" -> r.index_input
      [] OTHER -> << >>

Run(r, tables, request, ties, in, extra) ==
    CASE r.type = "kRunnerData" -> tables[r.data]
      [] r.type = "kRunnerRequest" -> RowHandler(request)
      [] r.type = "kRunnerGroup" -> GroupRun(r, in)
      [] r.type = "kRunnerConstProject" -> ConstProjectRun(r)
      [] r.type = "kRunnerTableProject" -> TableProjectRun(r, in)
      [] r.type = "kRunnerRowProject" -> RowProjectRun(r, in)
      [] r.type = "kRunnerSimpleProject" -> SimpleProjectRun(r, in)
      [] r.type = "kRunnerSelectSlice" -> SelectSliceRun(r, in)
      [] r.type = "kRunnerRequestLastJoin" -> RequestLastJoinRun(r, in, ties)
      [] r.type = "kRunnerLastJoin" -> LastJoinRun(r, in, ties)
      [] r.type = "kRunnerConcat" -> ConcatRun(r, in)
      [] r.type = "kRunnerLimit" -> LimitRun(r, in)
      [] r.type = "kRunnerFilter" -> FilterRun(r, in)
      [] r.type = "kRunnerGroupAgg" -> GroupAggRun(r, in)
      [] r.type = "kRunnerAgg" -> AggRun(r, in)
      [] r.type = "kRunnerPostRequestUnion" -> PostRequestUnionRun(r, in)
      [] r.type = "kRunnerRequestUnion" -> RequestUnionRun(r, in, extra, ties)
      [] r.type = "kRunnerWindowAgg" ->
            LET n == Len(r.inputs)
            IN WindowAggRun(r, in, SubSeq(extra, 1, n), SubSeq(extra, n + 1, Len(extra)), ties)

\* Run of the n-th request of a batch
RunNth(r, tables, requests, ties, in, extra, n) ==
    Run(r, tables, requests[n], ties, [i \in DOMAIN in |-> in[i].items[n]], extra)

Outputs(handlers) ==
    IF \E n \in DOMAIN handlers : IsCrash(handlers[n]) THEN Crash ELSE HandlerList(handlers)

\* mutant: the output of any cached runner is computed once, for the last request
BatchRequestRunLast(r, tables, requests, ties, in, extra) ==
    CASE r.type = "kRunnerData" -> Repeated(tables[r.data], Len(requests))
      [] r.type = "kRunnerRequest" -> HandlerList([n \in DOMAIN requests |-> RowHandler(requests[n])])
      [] requests # << >> /\ \E i \in DOMAIN in : in[i].type # "list" -> Crash
      [] OTHER -> Outputs([n \in DOMAIN requests |->
                              RunNth(r, tables, requests, ties, in, extra,
                                     IF r.need_batch_cache \/ r.need_cache THEN Len(requests) ELSE n)])

\* Runner::BatchRequestRun, and those of DataRunner and RequestRunner: in are
\* lists, of which a null one is dereferenced.  The output of a runner that depends
\* on common columns only is computed once and repeated.
BatchRequestRun(r, tables, requests, ties, in, extra) ==
    CASE r.type = "kRunnerData" -> Repeated(tables[r.data], Len(requests))
      [] r.type = "kRunnerRequest" -> HandlerList([n \in DOMAIN requests |-> RowHandler(requests[n])])
      [] requests # << >> /\ \E i \in DOMAIN in : in[i].type # "list" -> Crash
      [] OTHER -> Outputs([n \in DOMAIN requests |->
                              RunNth(r, tables, requests, ties, in, extra,
                                     IF r.need_batch_cache THEN 1 ELSE n)])

----------------------------------------------------------------------------
(* ProxyRequestRunner.  What it sends is a record [rows, index_rows]: the rows *)
(* of the sub query and the rows its keys are made of; NotSent when there is   *)
(* nothing to send.  Its inputs are rows in every job that is built, and none  *)
(* when the batch is empty.                                                    *)

NotSent == [rows |-> << >>, index_rows |-> << >>]

Sent(rows, index_rows) == [rows |-> rows, index_rows |-> index_rows]

\* RunWithRowInput; index is the output of index_input_ or Nil.
SendRow(task, row, index) ==
    LET index_row == IF IsRow(index) THEN index.row ELSE row
    IN IF Len(row) > 1 \/ task.index_key = << >> \/ GenKey(task.index_key, index_row) = << >> THEN NotSent
       ELSE Sent(<<row>>, <<index_row>>)

\* RunBatchInput: one row stands for all if it is common.
SendRows(list, index, common) ==
    LET rows == IF common THEN <<list.items[1]>> ELSE list.items
        index_rows == CASE IsNil(index) -> rows
                        [] common -> <<index.items[1]>>
                        [] OTHER -> index.items
    IN IF ~IsRow(list.items[1]) \/ ~CanExtractAll(rows) \/ ~CanExtractAll(index_rows) THEN NotSent
       ELSE Sent(ExtractAllRows(rows), ExtractAllRows(index_rows))

\* ProxyRequestRunner::BatchRequestRun: with batch cache only the first row is sent,
\* and without index: the inner block declares a second one_index_key_input.
SendBatch(r, list, index, producer_is_common) ==
    CASE list.type # "list" -> NotSent
      [] list.type = "list" /\ list.items = << >> -> NotSent
      [] OTHER -> IF r.need_batch_cache THEN SendRows(HandlerList(<<list.items[1]>>), Nil, TRUE)
                  ELSE SendRows(list, index, producer_is_common \/ Len(list.items) = 1)

\* The keys a sub query is routed by
PrimaryKeys(task, index_rows) == {GenKey(task.index_key, index_rows[n]) : n \in DOMAIN index_rows}

\* The tablet that TableHandler::GetTablet picks for keys of an index has the
\* segments of these keys and no other table (external; the smallest placement).
GetTablet(cluster, task, pks) ==
    [d \in DOMAIN cluster |->
        IF d # <<task.table, task.index>> THEN Nil
        ELSE [cluster[d] EXCEPT !.segments = [k \in DOMAIN @ \cap pks |-> @[k]]]]

\* mutant: null in place of a missing row
AsyncRowNull(idx, rows) == IF idx <= Len(rows) THEN RowHandler(rows[idx]) ELSE Nil

\* AysncRowHandler(idx, table): a failed sub query has no rows, which leaves the
\* row empty.
AsyncRow(idx, rows) == RowHandler(IF idx <= Len(rows) THEN rows[idx] ELSE EmptyRow)

\* The handlers made of the rows of the sub query
Received(rows, size, common) ==
    HandlerList([n \in 1..size |-> AsyncRow(IF common THEN 1 ELSE n, rows)])

----------------------------------------------------------------------------
(* Sessions: a sequence of rows, or no rows and an error code *)

Failure(code) == [ret |-> code, rows |-> << >>]

Success(rows) == [ret |-> 0, rows |-> rows]

\* RequestRunSession::Run and the sub query of one row
RequestResult(out) ==
    IF ExtractRow(out) = << >> THEN Failure(-1) ELSE Success(ExtractRow(out))

\* BatchRequestRunSession::Run and the sub query of many rows
BatchRequestResult(out) ==
    IF out.type # "list" THEN Failure(-1)
    ELSE IF ~CanExtractAll(out.items) THEN Failure(-1) ELSE Success(ExtractAllRows(out.items))

\* BatchRunSession::Run
BatchResult(out) ==
    IF IsNil(out) \/ IsPartition(out) THEN Failure(-1) ELSE Success(ExtractRows(out))
=============================================================================
