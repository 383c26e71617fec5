---------------------------- MODULE WindowFrame ----------------------------
(***************************************************************************)
(* Window frames: the WindowRange a window is built with, the key          *)
(* arithmetic shared by the batch and the request path, the rows of a      *)
(* window that an aggregate reads, and, as the reference both paths are    *)
(* compared with, the rows of a frame defined over the whole history of a  *)
(* partition.                                                              *)
(*                                                                         *)
(* A row is a record [key, row]: its uint64 order key and its identity.    *)
(* A history or a window is a sequence of rows, newest first.              *)
(***************************************************************************)
EXTENDS Integers, Sequences, FiniteSets

CONSTANT Half   \* 2^63: where int64 wraps; uint64 wraps at 2 * Half

ASSUME HalfAssumption == Half \in Nat \ {0}

FrameTypes == {"kFrameRows", "kFrameRowsRange", "kFrameRowsMergeRowsRange"}

\* FrameNode::CanMergeWith on a ROWS_RANGE frame with MAXSIZE and a ROWS frame
MaxSizeMerges(max_size, start_row) == max_size = 0 \/ max_size >= start_row

\* What RangeGenerator makes of the frames the planner lets through: a ROWS part
\* and a range that ends before the current row are never in one frame.
WindowRange ==
    {r \in [frame_type: FrameTypes, start_offset: (-Half)..0, end_offset: (-Half)..0,
            start_row: Nat, max_size: Nat] :
        /\ r.frame_type = "kFrameRows" => r.start_offset = 0 /\ r.max_size = 0
        /\ r.frame_type = "kFrameRowsRange" => r.start_row = 0
        /\ r.frame_type = "kFrameRowsMergeRowsRange" => MaxSizeMerges(r.max_size, r.start_row)
        /\ r.end_offset # 0 => r.frame_type = "kFrameRowsRange"}

HasRows(r)  == r.frame_type \in {"kFrameRows", "kFrameRowsMergeRowsRange"}

HasRange(r) == r.frame_type \in {"kFrameRowsRange", "kFrameRowsMergeRowsRange"}

----------------------------------------------------------------------------
(* uint64 key plus int64 offset, read back as int64. *)

ToInt64(x) == IF x >= Half THEN x - 2 * Half ELSE x

\* the lowest (offset = start_offset) or highest (end_offset) key of a frame
ClampTs(key, offset) ==
    LET sub == ToInt64(key + offset) IN IF sub < 0 THEN 0 ELSE sub

----------------------------------------------------------------------------
(* The positions of a window an aggregate reads: the whole window if its   *)
(* frame is the one the window was built for and ends at the current row,  *)
(* an inner list of the window if its frame was merged into that one.      *)

\* InnerRangeIterator: seek the first key <= start, stop at the first key < end
InnerRangeList(window, start, end) ==
    {n \in 1..Len(window) :
        \E i \in 1..n : /\ \A j \in 1..(i - 1) : window[j].key > start
                        /\ \A j \in i..n : window[j].key <= start /\ window[j].key >= end}

\* InnerRowsIterator of ROWS BETWEEN start_row PRECEDING AND end_row PRECEDING
InnerRowsList(window, end_row, start_row) ==
    {n \in 1..Len(window) : end_row <= n - 1 /\ n - 1 <= start_row}

\* RowFnLetIRBuilder::Build stores the window as it is under the frame it was built
\* for, unless that ends before the current row; BuildWindow finds it there for
\* an aggregate of the same frame.  The string of a merged frame has both
\* parts, so that no aggregate finds it.
StoredForFrame(r) == r.frame_type # "kFrameRowsMergeRowsRange" /\ r.end_offset = 0

\* The range frame of r, for the current row with this key
RangePositions(r, key, window) ==
    IF StoredForFrame(r) THEN DOMAIN window
    ELSE InnerRangeList(window, ClampTs(key, r.end_offset), ClampTs(key, r.start_offset))

\* The ROWS frames an aggregate may have on a window of r: the one r was built
\* for, and shorter ones or ones that end before the current row, which the
\* planner merged or expanded into it.
RowsFrames(r) == {f \in [start_row: 0..r.start_row, end_row: 0..r.start_row] :
                     f.end_row <= f.start_row}

RowsPositions(r, f, window) ==
    IF StoredForFrame(r) /\ f = [start_row |-> r.start_row, end_row |-> 0] THEN DOMAIN window
    ELSE InnerRowsList(window, f.end_row, f.start_row)

RowsAt(window, positions) == {window[n] : n \in positions}

\* What an aggregate over the range frame of r, and one over its ROWS frame f,
\* reads from the window of current row e.
RangeSeen(r, e, window) == RowsAt(window, RangePositions(r, e.key, window))

RowsSeen(r, f, window) == RowsAt(window, RowsPositions(r, f, window))

----------------------------------------------------------------------------
(* The reference: the frame of row e after the history past. *)

\* EXCLUDE CURRENT_TIME hides the rows of the current time but the current row.
Visible(r, exclude, e, past) ==
    LET Older(p) == p.key < e.key
    IN <<e>> \o IF exclude /\ r.end_offset = 0 THEN SelectSeq(past, Older) ELSE past

\* The positions of rows, the current row first, that a ROWS frame takes,
RowsPlaces(f, rows) == {n \in DOMAIN rows : f.end_row < n /\ n <= f.start_row + 1}

\* and a range: the newest max_size rows of it.
RangePlaces(r, rows) ==
    LET range == {n \in DOMAIN rows : /\ rows[n].key >= ClampTs(rows[1].key, r.start_offset)
                                      /\ rows[n].key <= ClampTs(rows[1].key, r.end_offset)}
    IN {m \in range : r.max_size = 0 \/ Cardinality({i \in range : i <= m}) <= r.max_size}

RowsFrame(r, f, exclude, e, past) ==
    LET rows == Visible(r, exclude, e, past) IN RowsAt(rows, RowsPlaces(f, rows))

RangeFrame(r, exclude, e, past) ==
    LET rows == Visible(r, exclude, e, past) IN RowsAt(rows, RangePlaces(r, rows))
=============================================================================
