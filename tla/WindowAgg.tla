----------------------------- MODULE WindowAgg -----------------------------
(***************************************************************************)
(* WindowAggRunner::RunWindowAggOnKey (src/vm/runner.cc), batch mode's     *)
(* driver of one partition: it merges the rows of the union tables into    *)
(* the rows of the instance table, all sorted by ascending key, and hands  *)
(* them to a HistoryWindow one by one; instance rows make output rows.     *)
(***************************************************************************)
EXTENDS HistoryWindow

CONSTANTS Unions,      \* number of union tables
          MaxSegment,  \* bound on the rows of a segment
          Limits,      \* values of LIMIT; 0 is none
          Earlier      \* numbers of output rows that earlier partitions made

ASSUME WindowAggAssumption ==
    /\ Unions \in Nat /\ MaxSegment \in Nat
    /\ Limits \subseteq Nat /\ Earlier \subseteq Nat

VARIABLES
    limit_cnt,
    instance_segment,       \* keys of the instance rows, ascending
    union_segments,         \* keys of the rows of every union table, ascending
    instance_segment_iter,  \* positions; past the end: not valid
    union_segment_iters,
    origin,                 \* ghost: table and position of every row fed
    cnt,                    \* rows of output_table, earlier partitions included
    output_table            \* per output row: the instance row and what its udf read

aggvars == <<limit_cnt, instance_segment, union_segments, instance_segment_iter,
             union_segment_iters, origin, cnt, output_table>>

segments == <<limit_cnt, instance_segment, union_segments>>

\* MemPartitionHandler::Sort, std::sort by AscComparor, leaves ascending keys.
Ascending == {keys \in UNION {[1..n -> Keys] : n \in 0..MaxSegment} :
                 \A m, n \in DOMAIN keys : m < n => keys[m] <= keys[n]}

InitIterators ==
    /\ limit_cnt \in Limits
    /\ instance_segment_iter = 1
    /\ union_segment_iters = [i \in 1..Unions |-> 1]
    /\ origin = << >>
    /\ cnt \in Earlier
    /\ output_table = << >>

AggInit ==
    /\ Init
    /\ instance_segment \in Ascending
    /\ union_segments \in [1..Unions -> Ascending]
    /\ InitIterators

----------------------------------------------------------------------------
ValidUnions == {i \in 1..Unions : /\ union_segment_iters[i] <= Len(union_segments[i])
                                  /\ union_segments[i][union_segment_iters[i]] < 2 * Half - 1}

UnionKey(i) == union_segments[i][union_segment_iters[i]]

\* The comparison with UINT64_MAX, the start value, is strict: a row with that
\* key is never picked.
PickIteratorWithMininumKey ==
    CHOOSE i \in ValidUnions :
        \A j \in ValidUnions : \/ UnionKey(i) < UnionKey(j)
                               \/ UnionKey(i) = UnionKey(j) /\ i <= j

\* mutant: the loop ends one instance row early
InstanceLeftButLast ==
    /\ instance_segment_iter < Len(instance_segment)
    /\ limit_cnt = 0 \/ cnt < limit_cnt

\* The outer loop goes on: there is an instance row and room in the output.
InstanceLeft ==
    /\ instance_segment_iter <= Len(instance_segment)
    /\ limit_cnt = 0 \/ cnt < limit_cnt

InstanceKey == instance_segment[instance_segment_iter]

\* mutant: rows of the instance's own time go first, too
UnionRowNotLater ==
    ValidUnions # {} /\ UnionKey(PickIteratorWithMininumKey) <= InstanceKey

UnionRowFirst ==
    ValidUnions # {} /\ UnionKey(PickIteratorWithMininumKey) < InstanceKey

Advance(iters, i) == [iters EXCEPT ![i] = @ + 1]

\* One turn of the inner loop: a row of a union table
FeedUnionRow ==
    /\ InstanceLeft
    /\ UnionRowFirst
    /\ LET i == PickIteratorWithMininumKey IN
       /\ ProjectUnionRow(UnionKey(i)) \/ ProjectRejected(UnionKey(i))
       /\ origin' = Append(origin, <<i, union_segment_iters[i]>>)
       /\ union_segment_iters' = Advance(union_segment_iters, i)
    /\ UNCHANGED <<segments, instance_segment_iter, cnt, output_table>>

\* The rest of a turn of the outer loop: the instance row and its output row,
\* which is empty when the row is refused or the udf fails.
FeedInstanceRow ==
    /\ InstanceLeft
    /\ ~UnionRowFirst
    /\ \/ /\ ProjectInstanceRow(InstanceKey)
          /\ output_table' = Append(output_table, [row |-> instance_segment_iter,
                                                   read |-> <<shown'.window>>])
       \/ /\ ProjectUdfFails(InstanceKey) \/ ProjectRejected(InstanceKey)
          /\ output_table' = Append(output_table, [row |-> instance_segment_iter,
                                                   read |-> << >>])
    /\ cnt' = cnt + 1
    /\ origin' = Append(origin, <<0, instance_segment_iter>>)
    /\ instance_segment_iter' = instance_segment_iter + 1
    /\ UNCHANGED <<segments, union_segment_iters>>

AggNext == FeedUnionRow \/ FeedInstanceRow

AggSpec == AggInit /\ [][AggNext]_<<vars, aggvars>> /\ WF_<<vars, aggvars>>(AggNext)

----------------------------------------------------------------------------
FedBefore(n) == {origin[m] : m \in 1..(n - 1)}

OlderUnionRows(key) ==
    {p \in (1..Unions) \X (1..MaxSegment) : /\ p[2] <= Len(union_segments[p[1]])
                                            /\ union_segments[p[1]][p[2]] < key}

\* The merge of RunWindowAggOnKey hands rows to the window in the order of
\* their keys, which BufferData assumes; when an instance row is handed over, all
\* older rows of the union tables have been and no row that is not older.
UnionRowsBeforeInstance ==
    /\ in_order
    /\ \A n \in DOMAIN origin : origin[n][1] = 0 =>
          {p \in FedBefore(n) : p[1] # 0} = OlderUnionRows(instance_segment[origin[n][2]])

\* Every instance row gets its output row, also when udfs fail, until there are
\* limit_cnt rows: the merge does not stop early and does not hang.
EveryInstanceRowAnswered ==
    <>[](/\ Len(output_table) = instance_segment_iter - 1
         /\ \/ instance_segment_iter > Len(instance_segment)
            \/ limit_cnt > 0 /\ cnt >= limit_cnt)
=============================================================================
