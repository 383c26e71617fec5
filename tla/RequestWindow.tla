---------------------------- MODULE RequestWindow ----------------------------
(***************************************************************************)
(* The window of a request row in online mode: the pure part of            *)
(* RequestUnionRunner::RequestUnionWindow (src/vm/runner.cc) and, in       *)
(* RequestUnionWindow, its result in closed form; RequestUnion is the      *)
(* loop.                                                                   *)
(*                                                                         *)
(* A segment is a sequence of rows, newest first.                          *)
(***************************************************************************)
EXTENDS WindowFrame, SequencesExt

Max0(n) == IF n < 0 THEN 0 ELSE n

----------------------------------------------------------------------------
(* The bounds of the request's window. *)

WindowStart(r, ts) == IF ts >= 0 THEN Max0(ts + r.start_offset) ELSE 0

\* mutant: the rows of the current time are not left out
WindowEndWithCurrentTime(r, exclude, ts) == IF ts < 0 THEN 2 * Half - 1 ELSE Max0(ts + r.end_offset)

WindowEnd(r, exclude, ts) ==
    IF ts < 0 THEN 2 * Half - 1
    ELSE IF exclude /\ r.end_offset = 0 THEN Max0(ts - 1)
    ELSE Max0(ts + r.end_offset)

RowsStartPreceding(r, ts) == IF ts >= 0 THEN r.start_row ELSE 0

MaxSize(r, ts) == IF ts >= 0 THEN r.max_size ELSE 0

----------------------------------------------------------------------------
GetWindowPositionStatus(r, out_of_rows, before_window, exceed_window) ==
    CASE r.frame_type = "kFrameRows" -> IF out_of_rows THEN "kExceedWindow" ELSE "kInWindow"
      [] r.frame_type = "kFrameRowsMergeRowsRange" ->
           IF ~out_of_rows THEN "kInWindow"
           ELSE IF before_window THEN "kBeforeWindow"
           ELSE IF exceed_window THEN "kExceedWindow" ELSE "kInWindow"
      [] r.frame_type = "kFrameRowsRange" ->
           IF exceed_window THEN "kExceedWindow"
           ELSE IF before_window THEN "kBeforeWindow" ELSE "kInWindow"

\* mutant: the request row is not counted
RequestNotCounted(r, ts) == 0

\* The request row counts unless the frame ends before it.
RequestCount(r, ts) ==
    IF GetWindowPositionStatus(r, 0 > RowsStartPreceding(r, ts), r.end_offset < 0,
                               Max0(ts) < WindowStart(r, ts)) = "kInWindow" THEN 1 ELSE 0

RowStatus(r, exclude, ts, n, key) ==
    GetWindowPositionStatus(r, n > RowsStartPreceding(r, ts), key > WindowEnd(r, exclude, ts),
                            key < WindowStart(r, ts))

----------------------------------------------------------------------------
(* Closed form *)

\* A row of a segment is picked before another: by key, of equal keys the one of
\* the last input first.
PickedBefore(p, q) ==
    \/ p.entry.key > q.entry.key
    \/ p.entry.key = q.entry.key /\ p.input > q.input
    \/ p.entry.key = q.entry.key /\ p.input = q.input /\ p.pos < q.pos

PickOrder(segments, end) ==
    LET places == UNION {{i} \X DOMAIN segments[i] : i \in DOMAIN segments}
        picks  == {[entry |-> segments[p[1]][p[2]], input |-> p[1], pos |-> p[2]] : p \in places}
    IN SetToSortSeq({p \in picks : p.entry.key <= end}, PickedBefore)

\* The request row, then the rows in pick order while they count and are in the
\* frame; the result with output_request_row, or behind PostRequestUnionRunner
\* without it.
RequestUnionWindow(r, exclude, ts, request, segments) ==
    LET merged == PickOrder(segments, WindowEnd(r, exclude, ts))
        Taken(n) ==
            LET counted == RequestCount(r, ts) + n - 1 IN
            /\ MaxSize(r, ts) = 0 \/ counted < MaxSize(r, ts)
            /\ RowStatus(r, exclude, ts, counted, merged[n].entry.key) = "kInWindow"
        taken == CHOOSE n \in 0..Len(merged) :
                    /\ \A m \in 1..n : Taken(m)
                    /\ n < Len(merged) => ~Taken(n + 1)
    IN <<request>> \o [n \in 1..taken |-> merged[n].entry]
=============================================================================
