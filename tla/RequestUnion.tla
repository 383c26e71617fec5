---------------------------- MODULE RequestUnion ----------------------------
(***************************************************************************)
(* The loop of RequestUnionRunner::RequestUnionWindow (src/vm/runner.cc):  *)
(* the segments of the union tables, each sorted by descending key, are    *)
(* merged behind the request row until the window is full, the frame is    *)
(* exceeded or all iterators have ended.  When the columns of a batch      *)
(* request that select the window are common to its rows, the loop runs    *)
(* once without the request row (output_request_row is false) and          *)
(* PostRequestUnionRunner puts each request row in front.                  *)
(*                                                                         *)
(* A union input that is missing, or has no rows, is an empty segment.  A  *)
(* row is identified by its input and its position there, the request row  *)
(* by <<0, 0>>.                                                            *)
(***************************************************************************)
EXTENDS RequestWindow

CONSTANTS Unions,        \* number of union inputs
          Keys,          \* keys of rows, and timestamps of requests
          Ranges,        \* the WindowRange values of the runner
          ExcludeFlags,  \* the values EXCLUDE CURRENT_TIME may have
          MaxSegment     \* bound on the rows of a segment

\* What the constants are
RequestAssumption ==
    /\ Unions \in Nat /\ MaxSegment \in Nat
    /\ Keys \subseteq 0..(Half - 1)
    /\ Ranges \subseteq WindowRange /\ ExcludeFlags \subseteq BOOLEAN

VARIABLES
    window_range, exclude_current_time,
    output_request_row,    \* the request row goes into window_table
    ts_gen,                \* timestamp of the request; -1: negative, or no ORDER BY
    union_segments,        \* the segments
    union_segment_iters,   \* position of each iterator; past the end: not valid
    window_table,          \* the window built so far, newest first
    cnt,                   \* rows counted into the window
    pc                     \* "open", "merge", "post", "done" or, the result, "null"

vars == <<window_range, exclude_current_time, output_request_row, ts_gen, union_segments,
          union_segment_iters, window_table, cnt, pc>>

inputs == <<window_range, exclude_current_time, output_request_row, ts_gen, union_segments>>

DescendingKeys ==
    {keys \in SeqOf(Keys, MaxSegment) : \A m, n \in DOMAIN keys : m < n => keys[m] >= keys[n]}

Segment(i, keys) == [n \in DOMAIN keys |-> [key |-> keys[n], row |-> <<i, n>>]]

Request == [key |-> Max0(ts_gen), row |-> <<0, 0>>]

Init ==
    /\ window_range \in Ranges
    /\ exclude_current_time \in ExcludeFlags
    /\ output_request_row \in BOOLEAN
    /\ ts_gen \in Keys \cup {-1}
    /\ \E keys \in [1..Unions -> DescendingKeys] :
          union_segments = [i \in 1..Unions |-> Segment(i, keys[i])]
    /\ union_segment_iters = [i \in 1..Unions |-> 1]
    /\ window_table = << >>
    /\ cnt = 0
    /\ pc = "open"

----------------------------------------------------------------------------
\* MemTimeTableIterator::Seek: the first row whose key is not above ts
Seek(segment, ts) ==
    CHOOSE n \in 1..(Len(segment) + 1) :
        /\ \A m \in 1..(n - 1) : segment[m].key > ts
        /\ n <= Len(segment) => segment[n].key <= ts

\* Run of either runner, with inputs[0] or inputs[1] missing or of another kind:
\* a producer failed.
RunFails ==
    /\ pc \in {"open", "post"}
    /\ pc' = "null"
    /\ UNCHANGED <<inputs, union_segment_iters, window_table, cnt>>

\* The request row is counted also if it is not put into the table.
Open ==
    /\ pc = "open"
    /\ union_segment_iters' =
          [i \in 1..Unions |-> Seek(union_segments[i],
                                    WindowEnd(window_range, exclude_current_time, ts_gen))]
    /\ window_table' = IF output_request_row THEN <<Request>> ELSE << >>
    /\ cnt' = RequestCount(window_range, ts_gen)
    /\ pc' = "merge"
    /\ UNCHANGED inputs

ValidIters == {i \in 1..Unions : union_segment_iters[i] <= Len(union_segments[i])}

Current(i) == union_segments[i][union_segment_iters[i]]

PickIteratorWithMaximizeKey ==
    CHOOSE i \in ValidIters :
        \A j \in ValidIters : \/ Current(j).key < Current(i).key
                              \/ Current(j).key = Current(i).key /\ j <= i

Advance(iters, i) == [iters EXCEPT ![i] = @ + 1]

Full == MaxSize(window_range, ts_gen) > 0 /\ cnt >= MaxSize(window_range, ts_gen)

Status == RowStatus(window_range, exclude_current_time, ts_gen, cnt,
                    Current(PickIteratorWithMaximizeKey).key)

GoesOn == ValidIters # {} /\ ~Full /\ Status # "kExceedWindow"

\* One turn of the loop
Merge ==
    /\ pc = "merge"
    /\ GoesOn
    /\ IF Status = "kInWindow"
       THEN /\ window_table' = Append(window_table, Current(PickIteratorWithMaximizeKey))
            /\ cnt' = cnt + 1
       ELSE UNCHANGED <<window_table, cnt>>
    /\ union_segment_iters' = Advance(union_segment_iters, PickIteratorWithMaximizeKey)
    /\ UNCHANGED <<inputs, pc>>

\* The loop ends.
Return ==
    /\ pc = "merge"
    /\ ~GoesOn
    /\ pc' = IF output_request_row THEN "done" ELSE "post"
    /\ UNCHANGED <<inputs, union_segment_iters, window_table, cnt>>

\* The key is not clamped here: request_ts_gen_.Gen, as uint64
PostRequest == [key |-> ts_gen % (2 * Half), row |-> <<0, 0>>]

\* mutant: the request row goes behind the window
PostRequestUnionBehind ==
    /\ pc = "post"
    /\ window_table' = Append(window_table, PostRequest)
    /\ pc' = "done"
    /\ UNCHANGED <<inputs, union_segment_iters, cnt>>

\* RequestUnionIterator reads the request row before the window.
PostRequestUnion ==
    /\ pc = "post"
    /\ window_table' = <<PostRequest>> \o window_table
    /\ pc' = "done"
    /\ UNCHANGED <<inputs, union_segment_iters, cnt>>

Next == RunFails \/ Open \/ Merge \/ Return \/ PostRequestUnion

Spec == Init /\ [][Next]_vars

----------------------------------------------------------------------------
AllRows == UNION {{union_segments[i][n] : n \in DOMAIN union_segments[i]} : i \in 1..Unions}

TypeOK ==
    /\ window_range \in Ranges /\ exclude_current_time \in ExcludeFlags
    /\ \A i \in 1..Unions : union_segment_iters[i] \in 1..(Len(union_segments[i]) + 1)
    /\ \A n \in DOMAIN window_table : window_table[n] \in AllRows \cup {Request, PostRequest}
    /\ cnt \in 0..(1 + Unions * MaxSegment)
    /\ pc \in {"open", "merge", "post", "done", "null"}

\* The rows of the union tables that the frame of the request admits
Admitted ==
    {p \in AllRows : /\ p.key <= ClampTs(ts_gen, window_range.end_offset)
                     /\ exclude_current_time /\ window_range.end_offset = 0 => p.key < ts_gen}

InRange == {p \in Admitted : p.key >= ClampTs(ts_gen, window_range.start_offset)}

\* seen are size rows of rows, or all of them, and none of the others is newer.
NewestOf(seen, rows, size) ==
    /\ seen \subseteq rows
    /\ Cardinality(seen) = IF size < Cardinality(rows) THEN size ELSE Cardinality(rows)
    /\ \A p \in seen : \A q \in rows \ seen : q.key <= p.key

\* What an aggregate reads from the window of a request is the frame of the
\* request: the newest rows the range, ROWS and MAXSIZE admit, the request
\* itself first unless the range ends before it, and no row more, also when the
\* aggregate reads the whole window (RequestUnionWindow, BuildWindow).
RequestWindowIsFrame ==
    pc = "done" /\ ts_gen >= 0 =>
        LET own == IF window_range.end_offset = 0 THEN {Request} ELSE {} IN
        /\ HasRange(window_range) =>
              LET seen == RangeSeen(window_range, Request, window_table)
                  size == IF window_range.max_size = 0 THEN Cardinality(AllRows)
                          ELSE window_range.max_size - Cardinality(own)
              IN own \subseteq seen /\ NewestOf(seen \ {Request}, InRange, size)
        /\ HasRows(window_range) =>
              \A f \in {g \in RowsFrames(window_range) : g.end_row = 0} :
                 LET seen == RowsSeen(window_range, f, window_table)
                 IN own \subseteq seen /\ NewestOf(seen \ {Request}, Admitted, f.start_row)

\* The merge is a merge: behind the request the window has every row once, by
\* descending key, whatever the order in which the inputs take turns.
WindowDescending ==
    \A m, n \in DOMAIN window_table : m < n =>
        /\ window_table[m] # window_table[n]
        /\ window_table[m].row # <<0, 0>> => window_table[m].key >= window_table[n].key

\* The loop computes the closed form that the comparison with batch mode uses,
\* and a window made once for common columns and completed by
\* PostRequestUnionRunner is the one a request alone gets.
ReturnsClosedForm ==
    pc = "done" /\ (output_request_row \/ ts_gen >= 0) =>
        window_table = RequestUnionWindow(window_range, exclude_current_time, ts_gen,
                                          Request, union_segments)
=============================================================================
