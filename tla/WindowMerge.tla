----------------------------- MODULE WindowMerge -----------------------------
(***************************************************************************)
(* How the planner puts the windows of a SELECT together: which frames may *)
(* be merged (src/node/sql_node.cc), what they are merged to               *)
(* (src/node/node_manager.cc), and which window an aggregate ends in       *)
(* (Planner::MergeWindows, MergeProjectMap).                               *)
(*                                                                         *)
(* A frame has a range and a rows extent, <<start, end>> in offsets from   *)
(* the current row (at most 0 after the clamping of the History getters)   *)
(* or <<>>, and MAXSIZE, 0 for none.  A window has the address addr of its *)
(* node, since std::map orders windows by address; 0 is nullptr.           *)
(***************************************************************************)
EXTENDS Integers, Sequences, FiniteSets, SequencesExt, FiniteSetsExt

Frame(type, range, rows, max) == [type |-> type, range |-> range, rows |-> rows, max |-> max]

RowsFrame(start, end) == Frame("rows", <<>>, <<start, end>>, 0)
RowsRangeFrame(start, end, max) == Frame("rows_range", <<start, end>>, <<>>, max)

WindowDef(addr, name, keys, orders, frame, unions, notin, exclude) ==
    [addr |-> addr, name |-> name, keys |-> keys, orders |-> orders, frame |-> frame,
     unions |-> unions, notin |-> notin, exclude |-> exclude]

NullFrame == Frame("", <<>>, <<>>, 0)
NullWindow == WindowDef(0, "", <<>>, <<>>, NullFrame, <<>>, FALSE, FALSE)

-----------------------------------------------------------------------------
(* Frames *)

IsRowsRangeLikeFrame(f) == f.type \in {"rows_range", "merged"}

IsRowsRangeLikeMaxSizeFrame(f) == IsRowsRangeLikeFrame(f) /\ f.max > 0

IsPureHistoryFrame(f) ==
    CASE f.type = "rows" -> f.rows[2] < 0
      [] f.type = "rows_range" -> f.range[2] < 0
      [] f.type = "merged" -> f.range[2] < 0 /\ f.rows[2] < 0
      [] f.type = "range" -> FALSE

(* The part of CanMergeWith about a frame with MAXSIZE beside a ROWS frame *)
MaxSizeBesideRows(f, g) ==
    (IsRowsRangeLikeMaxSizeFrame(f) /\ g.type = "rows") =>
        ~IsPureHistoryFrame(f) /\ f.max >= -g.rows[1]

(* mutant: frames of different MAXSIZE are merged *)
FrameCanMergeWithMutant(f, g) == f.type # "range" /\ g.type # "range"

FrameCanMergeWith(f, g) ==
    \/ f = g
    \/ /\ (IsRowsRangeLikeFrame(f) /\ IsRowsRangeLikeFrame(g)) => f.max = g.max
       /\ ~(IsRowsRangeLikeFrame(f) /\ IsPureHistoryFrame(f) /\ g.type = "rows")
       /\ ~(IsRowsRangeLikeFrame(g) /\ IsPureHistoryFrame(g) /\ f.type = "rows")
       /\ MaxSizeBesideRows(f, g)
       /\ MaxSizeBesideRows(g, f)
       /\ f.type # "range" /\ g.type # "range"

(* The earlier start and the later end *)
MergeExtent(a, b) ==
    IF a = <<>> THEN b
    ELSE IF b = <<>> THEN a
    ELSE <<Min({a[1], b[1]}), Max({a[2], b[2]})>>

MergeFrameNode(f, g) ==
    Frame(IF f.type = g.type THEN f.type ELSE "merged",
          MergeExtent(f.range, g.range), MergeExtent(f.rows, g.rows),
          IF f.max = 0 THEN g.max ELSE f.max)

MergeFrameNodeWithCurrentHistoryFrame(f) ==
    IF f.type = "rows" THEN MergeFrameNode(f, RowsFrame(0, 0)) ELSE f

-----------------------------------------------------------------------------
(* Windows *)

(* SqlEquals: nullptr equals nullptr; the address does not count *)
WindowEquals(v, w) == (v.addr = 0 <=> w.addr = 0) /\ [v EXCEPT !.addr = 0] = [w EXCEPT !.addr = 0]

WindowCanMergeWith(v, w) ==
    /\ w.addr # 0
    /\ \/ WindowEquals(v, w)
       \/ /\ <<v.unions, v.exclude, v.notin, v.orders, v.keys>> =
                 <<w.unions, w.exclude, w.notin, w.orders, w.keys>>
          /\ FrameCanMergeWith(v.frame, w.frame)

(* A node that MakeWindowDefNode allocates: no name, and an address fresh  *)
(* away from that of the window it is made of, above or below              *)
MakeWindowDefNode(w, frame, addr) == [w EXCEPT !.name = "", !.frame = frame, !.addr = addr]

(* One window taken into a list of windows: into the first it equals or    *)
(* can be merged with, else at the end                                     *)
MergeInto(windows, v, fresh) ==
    LET fits == {i \in DOMAIN windows :
                    WindowEquals(v, windows[i]) \/ (v.addr # 0 /\ WindowCanMergeWith(v, windows[i]))}
        i == Min(fits)
    IN IF windows = <<>> \/ fits = {} THEN [windows |-> Append(windows, v), merged |-> FALSE]
       ELSE IF WindowEquals(v, windows[i]) THEN [windows |-> windows, merged |-> TRUE]
       ELSE [windows |-> [windows EXCEPT ![i] =
                             MakeWindowDefNode(v, MergeFrameNode(v.frame, @.frame), v.addr + fresh)],
             merged |-> TRUE]

(* Planner::MergeWindows: ROWS frames (and no window) first, then the      *)
(* others, both in the order of the windows' ids                           *)
MergeWindows(ws, fresh) ==
    LET rangelike(w) == w.addr # 0 /\ IsRowsRangeLikeFrame(w.frame)
        order == SelectSeq(ws, LAMBDA w : ~rangelike(w)) \o SelectSeq(ws, rangelike)
    IN FoldLeft(LAMBDA acc, w :
           LET r == MergeInto(acc.windows, w, fresh)
           IN [windows |-> r.windows, merged |-> acc.merged \/ r.merged],
           [windows |-> <<>>, merged |-> FALSE], order)

Expands(w) == w.addr # 0 /\ ~IsRowsRangeLikeFrame(w.frame) /\ IsPureHistoryFrame(w.frame)

(* A ROWS frame that ends before the current row is made to reach it *)
ExpandCurrentHistoryWindow(windows, fresh) ==
    [windows |-> [i \in DOMAIN windows |->
        LET w == windows[i]
        IN IF Expands(w)
           THEN MakeWindowDefNode(w, MergeFrameNodeWithCurrentHistoryFrame(w.frame), w.addr + fresh)
           ELSE w],
     expanded |-> \E w \in ToSet(windows) : Expands(w)]

(* The windows of the output in the order of their addresses *)
ByAddress(windows) == SetToSortSeq(ToSet(windows), LAMBDA v, w : v.addr < w.addr)

(* Where the projects of window v go: the first window by address that v   *)
(* equals or can be merged with, NullWindow when there is none             *)
Home(out, v) ==
    LET fits == SelectSeq(out, LAMBDA w :
                    WindowEquals(v, w) \/ (v.addr # 0 /\ WindowCanMergeWith(v, w)))
    IN IF fits = <<>> THEN NullWindow ELSE fits[1]

(* MergeProjectMap: the windows of the output, which get the ids 1, 2, ... *)
(* in their order, and for each window of ws the one its projects go to    *)
MergeProjectMap(ws, fresh) ==
    LET m == MergeWindows(ws, fresh)
        x == ExpandCurrentHistoryWindow(m.windows, fresh)
        home == [i \in DOMAIN ws |-> Home(ByAddress(x.windows), ws[i])]
    IN IF ws = <<>> \/ ~(m.merged \/ x.expanded)
       THEN [ok |-> TRUE, merged |-> FALSE, windows |-> ws, home |-> ws]
       ELSE [ok |-> \A i \in DOMAIN ws : ws[i].addr # 0 => home[i].addr # 0,
             merged |-> TRUE, windows |-> x.windows, home |-> home]
=============================================================================
