-------------------------- MODULE MCHistoryWindow --------------------------
(***************************************************************************)
(* Small instance of HistoryWindow, with 3-bit or 4-bit integers and one   *)
(* WindowRange of every kind the planner builds.                           *)
(***************************************************************************)
EXTENDS HistoryWindow

Rows(start_row) ==
    [frame_type |-> "kFrameRows", start_offset |-> 0, end_offset |-> 0,
     start_row |-> start_row, max_size |-> 0]

RowsRange(start_offset, end_offset, max_size) ==
    [frame_type |-> "kFrameRowsRange", start_offset |-> start_offset,
     end_offset |-> end_offset, start_row |-> 0, max_size |-> max_size]

Merged(start_offset, start_row, max_size) ==
    [frame_type |-> "kFrameRowsMergeRowsRange", start_offset |-> start_offset,
     end_offset |-> 0, start_row |-> start_row, max_size |-> max_size]

SampleRanges ==
    {Rows(2), RowsRange(-1, 0, 0), RowsRange(-2, 0, 2), RowsRange(-4, 0, 0),
     RowsRange(-2, -1, 0), RowsRange(-3, -1, 2), Merged(-1, 1, 0), Merged(-2, 1, 3)}

\* one of each frame type, and one that ends before the current row
SampleRangesFew == {Rows(1), RowsRange(-2, 0, 2), RowsRange(-2, -1, 0), Merged(-1, 1, 0)}
=============================================================================
