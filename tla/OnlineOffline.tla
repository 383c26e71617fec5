--------------------------- MODULE OnlineOffline ---------------------------
(***************************************************************************)
(* One partition of one window, computed twice.  Online, rows are put into *)
(* the tables as time goes by and every instance row comes as a request,   *)
(* which RequestUnionRunner answers from the rows stored so far before the *)
(* row is stored too.  Offline, WindowAggRunner later reads the same       *)
(* tables as a batch.  An aggregate of the window must read the same rows  *)
(* in the same order both times.                                           *)
(*                                                                         *)
(* Rows arrive in the order of their time.  The udf, one function for both *)
(* modes, succeeds.                                                        *)
(***************************************************************************)
EXTENDS WindowAgg, RequestWindow

CONSTANT DistinctTimes   \* TRUE: no table has two rows of one time, and no union
                         \* table has a row of the time of an instance row unless
                         \* the frame leaves out the current time

VARIABLES mode,    \* "online" or "offline"
          online   \* what the udf read for the n-th request

allvars == <<vars, aggvars, mode, online>>

OnlineInit ==
    /\ Init
    /\ instance_segment = << >>
    /\ union_segments = [i \in 1..Unions |-> << >>]
    /\ InitIterators
    /\ mode = "online"
    /\ online = << >>

----------------------------------------------------------------------------
KeysOf(segment) == {segment[n] : n \in DOMAIN segment}

StoredKeys == KeysOf(instance_segment) \cup UNION {KeysOf(union_segments[i]) : i \in 1..Unions}

InTime(key) == \A k \in StoredKeys : key >= k

\* Rows of the current time are in no frame: EXCLUDE CURRENT_TIME, or a range
\* that ends before the current row
CurrentTimeOut == exclude_current_time \/ window_range.end_offset < 0

\* External: an insert into union table i
Put(i, key) ==
    /\ mode = "online"
    /\ Len(union_segments[i]) < MaxSegment
    /\ InTime(key)
    /\ DistinctTimes => /\ key \notin KeysOf(union_segments[i])
                        /\ CurrentTimeOut \/ key \notin KeysOf(instance_segment)
    /\ union_segments' = [union_segments EXCEPT ![i] = Append(@, key)]
    /\ UNCHANGED <<vars, limit_cnt, instance_segment, instance_segment_iter,
                   union_segment_iters, origin, cnt, output_table, mode, online>>

\* RequestWindowGenertor::GetRequestWindow sorts a segment descending.  Rows are
\* named <<table, number>>, as in origin.
Descending(i, segment) ==
    Reverse([n \in DOMAIN segment |-> [key |-> segment[n], row |-> <<i, n>>]])

UnionInputs == [i \in 1..Unions |-> Descending(i, union_segments[i])]

\* The request table is the first input, unless INSTANCE_NOT_IN_WINDOW.
RequestInputs ==
    IF instance_not_in_window THEN UnionInputs
    ELSE <<Descending(0, instance_segment)>> \o UnionInputs

\* A request and, once it is answered, the insert of its row
Request(key) ==
    LET e == [key |-> key, row |-> <<0, Len(instance_segment) + 1>>] IN
    /\ mode = "online"
    /\ Len(instance_segment) < MaxSegment
    /\ InTime(key)
    /\ DistinctTimes => /\ key \notin KeysOf(instance_segment)
                        /\ CurrentTimeOut \/ key \notin StoredKeys
    /\ online' = Append(online, RequestUnionWindow(window_range, exclude_current_time, key,
                                                   e, RequestInputs))
    /\ instance_segment' = Append(instance_segment, key)
    /\ UNCHANGED <<vars, limit_cnt, union_segments, instance_segment_iter,
                   union_segment_iters, origin, cnt, output_table, mode>>

StartBatch ==
    /\ mode = "online"
    /\ mode' = "offline"
    /\ UNCHANGED <<vars, aggvars, online>>

BatchStep ==
    /\ mode = "offline"
    /\ AggNext
    /\ \A n \in DOMAIN output_table' : output_table'[n].read # << >>
    /\ UNCHANGED <<mode, online>>

OnlineOfflineNext ==
    \/ \E i \in 1..Unions, key \in Keys : Put(i, key)
    \/ \E key \in Keys : Request(key)
    \/ StartBatch
    \/ BatchStep

OnlineOfflineSpec == OnlineInit /\ [][OnlineOfflineNext]_allvars

----------------------------------------------------------------------------
Earliest(m, n) == m < n

\* The rows at some positions of a window, newest first
RowSeq(window, positions) ==
    LET places == SetToSortSeq(positions, Earliest)
    IN [n \in DOMAIN places |-> window[places[n]].row]

RangeRead(key, window) == RowSeq(window, RangePositions(window_range, key, window))

RowsRead(f, window) == RowSeq(window, RowsPositions(window_range, f, window))

Named(rows) == [n \in DOMAIN rows |-> origin[rows[n]]]

\* "Same SQL and CodeGen logical, is guaranteed equivalent meaning and exact same
\* result": a batch over the tables reads for every instance row the rows that
\* the request of that row had read, in the same order (RequestUnionWindow,
\* RunWindowAggOnKey).
Consistent ==
    \A n \in {m \in DOMAIN output_table : output_table[m].row \in DOMAIN online} :
        LET out == output_table[n]
            key == instance_segment[out.row]
        IN \A w \in {out.read[1]} :
             /\ HasRange(window_range) =>
                   Named(RangeRead(key, w)) = RangeRead(key, online[out.row])
             /\ HasRows(window_range) => \A f \in RowsFrames(window_range) :
                   Named(RowsRead(f, w)) = RowsRead(f, online[out.row])
=============================================================================
