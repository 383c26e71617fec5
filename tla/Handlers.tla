------------------------------ MODULE Handlers ------------------------------
(***************************************************************************)
(* Rows and data handlers: what runners pass to each other                 *)
(* (include/codec/row.h, include/vm/mem_catalog.h, src/vm/mem_catalog.cc,  *)
(* src/vm/catalog_wrapper.h, include/vm/catalog.h).                        *)
(*                                                                         *)
(* A string is a sequence of character codes.  A slice is a record of its  *)
(* content and of the two columns that plans refer to: a varchar k and a   *)
(* bigint ts.  A row is a sequence of slices.  A handler is a record whose *)
(* field type tells its kind; the lazy wrappers are pure, so that a        *)
(* handler is the data it yields.                                          *)
(***************************************************************************)
EXTENDS Integers, Sequences, SequencesExt, FiniteSets

\* Characters.  EMPTY_STRING "!@#$%" and NONETOKEN "!N@U#L$L%" sort before all
\* letters and digits, "|" after them.
EMPTY_STRING == <<1>>

NONETOKEN == <<2>>

Separator == <<99>>

\* NULL as the value of a varchar and of a bigint column
NullString == <<0>>

CONSTANT NullInt

\* std::string::operator<
Less(s, t) ==
    \E n \in 0..Len(s) :
        /\ n < Len(t) /\ \A m \in 1..n : s[m] = t[m]
        /\ n = Len(s) \/ s[n + 1] < t[n + 1]

----------------------------------------------------------------------------
(* Rows *)

EmptySlice == [id |-> << >>, k |-> NullString, ts |-> NullInt]

EmptyRow == <<EmptySlice>>

IsEmptyRow(row) == row = EmptyRow

\* Row::GetSlice: beyond the last slice there are empty ones.
GetSlice(row, pos) == IF pos < Len(row) THEN row[pos + 1] ELSE EmptySlice

\* Row(major_slices, major, secondary_slices, secondary)
CombineRows(major_slices, major, secondary_slices, secondary) ==
    [p \in 1..(major_slices + secondary_slices) |->
        IF p <= major_slices THEN GetSlice(major, p - 1)
        ELSE GetSlice(secondary, p - 1 - major_slices)]

----------------------------------------------------------------------------
(* Handlers *)

Nil == [type |-> "nil"]

RowHandler(row) == [type |-> "row", row |-> row]

\* A table yields pairs of an order key and a row, in this order.  Without an
\* iterator (GetIterator returns null) it has no rows.
Table(rows, order) == [type |-> "table", rows |-> rows, order |-> order, iter |-> TRUE]

NoIterTable == [type |-> "table", rows |-> << >>, order |-> "kNoneOrder", iter |-> FALSE]

\* MemTableHandler: keys are positions.
MemTable(rows) ==
    Table([n \in DOMAIN rows |-> [key |-> n - 1, row |-> rows[n]]], "kNoneOrder")

\* A partition maps the keys of its segments to their rows.
Partition(segments, order) == [type |-> "partition", segments |-> segments, order |-> order]

IsNil(h) == h.type = "nil"

IsTable(h) == h.type = "table"

IsPartition(h) == h.type = "partition"

IsRow(h) == h.type = "row"

Rows(h) == [n \in DOMAIN h.rows |-> h.rows[n].row]

\* MemPartitionHandler::AddRow
AddRow(segments, key, entry) ==
    [k \in DOMAIN segments \cup {key} |->
        (IF k \in DOMAIN segments THEN segments[k] ELSE << >>)
            \o IF k = key THEN <<entry>> ELSE << >>]

\* MemWindowIterator walks a std::map with std::greater: descending keys.
WindowKeys(h) == SetToSortSeq(DOMAIN h.segments, LAMBDA s, t : Less(t, s))

\* MemPartitionHandler::GetSegment is never null, but has no iterator for a key
\* that is not there (MemSegmentHandler::GetIterator).
GetSegment(h, key) ==
    IF key \in DOMAIN h.segments THEN Table(h.segments[key], h.order)
    ELSE [NoIterTable EXCEPT !.order = h.order]

----------------------------------------------------------------------------
(* std::sort leaves entries of equal keys in any order: ties says whether    *)
(* they keep their order or are reversed.                                    *)

SortEntries(rows, is_asc, ties) ==
    LET Before(m, n) == \/ IF is_asc THEN rows[m].key < rows[n].key ELSE rows[m].key > rows[n].key
                        \/ /\ rows[m].key = rows[n].key
                           /\ IF ties = "kept" THEN m < n ELSE m > n
        places == SetToSortSeq(DOMAIN rows, Before)
    IN [n \in DOMAIN rows |-> rows[places[n]]]

\* MemTimeTableHandler::Sort
SortTable(h, is_asc, ties) ==
    Table(SortEntries(h.rows, is_asc, ties), IF is_asc THEN "kAscOrder" ELSE "kDescOrder")

ReverseOrder(order) ==
    CASE order = "kAscOrder"  -> "kDescOrder"
      [] order = "kDescOrder" -> "kAscOrder"
      [] OTHER -> "kNoneOrder"

\* MemTimeTableHandler::Reverse
ReverseTable(h) == Table(Reverse(h.rows), ReverseOrder(h.order))

----------------------------------------------------------------------------
(* Wrappers: fun maps the rows of a handler to rows, pred says which stay. *)

EntryRows(rows) == {rows[n].row : n \in DOMAIN rows}

RowsOf(h) ==
    CASE IsRow(h)       -> {h.row}
      [] IsTable(h)     -> EntryRows(h.rows)
      [] IsPartition(h) -> UNION {EntryRows(h.segments[k]) : k \in DOMAIN h.segments}
      [] OTHER -> {}

ProjectEntries(rows, fun) ==
    [n \in DOMAIN rows |-> [key |-> rows[n].key, row |-> fun[rows[n].row]]]

RowProjectWrapper(h, fun) == RowHandler(fun[h.row])

TableProjectWrapper(h, fun) == [h EXCEPT !.rows = ProjectEntries(@, fun)]

PartitionProjectWrapper(h, fun) ==
    [h EXCEPT !.segments = [k \in DOMAIN @ |-> ProjectEntries(@[k], fun)]]

\* The wrapper for a kind of handler, none for null
ProjectWrapper(h, fun) ==
    CASE IsRow(h)       -> RowProjectWrapper(h, fun)
      [] IsTable(h)     -> TableProjectWrapper(h, fun)
      [] IsPartition(h) -> PartitionProjectWrapper(h, fun)
      [] OTHER -> Nil

\* TableFilterWrapper
FilterWrapper(h, pred) ==
    LET Stays(entry) == pred[entry.row] IN [h EXCEPT !.rows = SelectSeq(h.rows, Stays)]

\* RowCombineWrapper: a null right side leaves its slices empty.
RowCombine(left, left_slices, right, right_slices) ==
    RowHandler(CombineRows(left_slices, left.row, right_slices,
                           IF IsRow(right) THEN right.row ELSE EmptyRow))

\* ConcatTableHandler::SyncValue: rows are paired by position, left rows without
\* partner are padded.
ConcatTable(left, left_slices, right, right_slices) ==
    LET right_rows == IF IsTable(right) THEN Rows(right) ELSE << >>
    IN Table([n \in DOMAIN left.rows |->
                [key |-> left.rows[n].key,
                 row |-> CombineRows(left_slices, left.rows[n].row, right_slices,
                                     IF n <= Len(right_rows) THEN right_rows[n]
                                     ELSE EmptyRow)]], "kNoneOrder")

\* RequestUnionTableHandler: the request row in front of the window.
RequestUnionTable(request_ts, request, window) ==
    IF window.iter THEN Table(<<[key |-> request_ts, row |-> request]>> \o window.rows, window.order)
    ELSE NoIterTable

----------------------------------------------------------------------------
(* Runner::ExtractRow and ExtractRows; a sequence of no or one row stands for *)
(* failure and success of the former.                                         *)

ExtractRow(h) ==
    CASE IsRow(h) -> <<h.row>>
      [] IsTable(h) /\ Len(h.rows) > 0 -> <<h.rows[1].row>>
      [] OTHER -> << >>

\* of one handler
CanExtract(h) == IsRow(h) \/ (IsTable(h) /\ h.iter)

ExtractRows(h) == IF IsRow(h) THEN <<h.row>> ELSE Rows(h)

\* of a list of handlers: a null handler yields an empty row.
CanExtractAll(list) == \A n \in DOMAIN list : IsNil(list[n]) \/ CanExtract(list[n])

ExtractAllRows(list) ==
    FlattenSeq([n \in DOMAIN list |-> IF IsNil(list[n]) THEN <<EmptyRow>>
                                      ELSE ExtractRows(list[n])])
=============================================================================
