--------------------------- MODULE HistoryWindow ---------------------------
(***************************************************************************)
(* The sliding window that batch mode keeps for one partition              *)
(* (HistoryWindow in include/vm/mem_catalog.h), driven row by row by       *)
(* Runner::WindowProject.                                                  *)
(*                                                                         *)
(* table is the effective window, front (index 1) = newest row;            *)
(* current_history_buffer holds the rows that are too recent to be in the  *)
(* frame, front = newest.  Both hold (key, row) pairs, the key being the   *)
(* uint64 order key.  Rows are identified by the order of their arrival.   *)
(*                                                                         *)
(* The while loops of the code pop from the back one row at a time; their  *)
(* result is written in closed form here: the longest prefix whose last    *)
(* row the loop condition does not pop.                                    *)
(***************************************************************************)
EXTENDS WindowFrame

CONSTANTS Keys,          \* the order keys rows may carry, a subset of uint64
          Ranges,        \* the WindowRange values a window may be built with
          ExcludeFlags,  \* the values EXCLUDE CURRENT_TIME may have
          MaxRows        \* bound on the rows fed to one window

ASSUME KeysAssumption == Keys \subseteq 0..(2 * Half - 1)
ASSUME RangesAssumption == Ranges \subseteq WindowRange
ASSUME InputAssumption ==
    MaxRows \in Nat /\ ExcludeFlags \subseteq BOOLEAN

VARIABLES
    window_range,            \* the WindowRange of this window
    exclude_current_time,    \* flag of WINDOW ... EXCLUDE CURRENT_TIME
    instance_not_in_window,  \* flag of WINDOW ... INSTANCE_NOT_IN_WINDOW
    table,                   \* table_, the effective window
    current_history_buffer,  \* rows not yet old enough for the frame
    fed,                     \* number of rows handed to the window so far
    last_key,                \* key of the last of them
    in_order,                \* ghost: none had a smaller key than the one before it
    accepted,                \* ghost: rows that belong to the history, newest first
    shown                    \* ghost: the last udf call: its row, the history
                             \* before it and the window it read

vars == <<window_range, exclude_current_time, instance_not_in_window, table,
          current_history_buffer, fed, last_key, in_order, accepted, shown>>

config == <<window_range, exclude_current_time, instance_not_in_window>>

Entry == [key: Keys, row: 1..MaxRows]

NoCall == [current |-> << >>, past |-> << >>, window |-> << >>]

----------------------------------------------------------------------------
\* key - 1 on uint64
PrevTs(key) == IF key = 0 THEN 2 * Half - 1 ELSE key - 1

----------------------------------------------------------------------------
(* The loops that pop from the back, in closed form. *)

\* mutant: the rows kept for ROWS BETWEEN n PRECEDING leave out the current row
PopsBackOneRowEarly(n, e, start_ts) ==
    \/ window_range.max_size > 0 /\ n > window_range.max_size
    \/ /\ ~(HasRows(window_range) /\ n <= window_range.start_row)
       /\ window_range.frame_type = "kFrameRows" \/ e.key < start_ts

\* mutant: a row stays one tick longer than the range says
PopsBackOneTickLate(n, e, start_ts) ==
    \/ window_range.max_size > 0 /\ n > window_range.max_size
    \/ /\ ~(HasRows(window_range) /\ n <= window_range.start_row + 1)
       /\ window_range.frame_type = "kFrameRows" \/ e.key + 1 < start_ts

\* The loops of BufferEffectiveWindow pop e when it is the back row of n rows.
PopsBack(n, e, start_ts) ==
    \/ window_range.max_size > 0 /\ n > window_range.max_size
    \/ /\ ~(HasRows(window_range) /\ n <= window_range.start_row + 1)
       /\ window_range.frame_type = "kFrameRows" \/ e.key < start_ts

\* mutant: after a row is pushed only one row is popped
KeptLenPopsOne(rows, start_ts) ==
    IF Len(rows) > 0 /\ PopsBack(Len(rows), rows[Len(rows)], start_ts) THEN Len(rows) - 1
    ELSE Len(rows)

KeptLen(rows, start_ts) ==
    CHOOSE n \in 0..Len(rows) :
        /\ n > 0 => ~PopsBack(n, rows[n], start_ts)
        /\ \A m \in (n + 1)..Len(rows) : PopsBack(m, rows[m], start_ts)

\* The table after the rows of new (newest first) went through
\* BufferEffectiveWindow one by one, oldest first.
BufferEffectiveWindow(new, rows, start_ts) ==
    LET pushed == new \o rows IN
    IF new = << >> THEN rows ELSE SubSeq(pushed, 1, KeptLen(pushed, start_ts))

\* How many rows of the history buffer stay in it: the others, at its back,
\* are no newer than end_ts.
StillHistory(buffer, end_ts) ==
    CHOOSE n \in 0..Len(buffer) :
        /\ n > 0 => buffer[n].key > end_ts
        /\ \A m \in (n + 1)..Len(buffer) : buffer[m].key <= end_ts

----------------------------------------------------------------------------
(* BufferData and what it calls: the new (table, buffer) pair. *)

BufferCurrentHistoryBuffer(e, end_ts, rows, buffer) ==
    LET all  == <<e>> \o buffer
        kept == StillHistory(all, end_ts)
    IN [table  |-> BufferEffectiveWindow(SubSeq(all, kept + 1, Len(all)), rows,
                                         ClampTs(e.key, window_range.start_offset)),
        buffer |-> SubSeq(all, 1, kept)]

\* mutant: the copy of the previous current row is left in the window
PopEffectiveDataForgotten(rows) == rows

PopEffectiveData(rows) == IF rows = << >> THEN rows ELSE Tail(rows)

BufferCurrentTimeBuffer(e, start_ts) ==
    IF ~exclude_current_time
    THEN [table  |-> BufferEffectiveWindow(<<e>>, table, start_ts),
          buffer |-> current_history_buffer]
    ELSE LET moved == BufferCurrentHistoryBuffer(e, PrevTs(e.key), PopEffectiveData(table),
                                                 current_history_buffer)
         IN [moved EXCEPT !.table = BufferEffectiveWindow(<<e>>, @, start_ts)]

\* mutant: a row older than the newest row of the window is let in
RejectsNothing(key) == FALSE

\* BufferData returns false, and changes nothing.
Rejects(key) == table # << >> /\ table[1].key > key

BufferData(e) ==
    LET start_ts == ClampTs(e.key, window_range.start_offset)
        end_ts   == ClampTs(e.key, window_range.end_offset)
    IN IF window_range.end_offset = 0
       THEN BufferCurrentTimeBuffer(e, start_ts)
       ELSE IF Len(table) < window_range.start_row
            THEN [table  |-> BufferEffectiveWindow(<<e>>, table, start_ts),
                  buffer |-> current_history_buffer]
            ELSE BufferCurrentHistoryBuffer(e, end_ts, table, current_history_buffer)

\* mutant: CurrentHistoryWindow's PopFrontData, which has no history buffer
PopFrontDataOfTable(w) == [w EXCEPT !.table = PopEffectiveData(@)]

\* PopFrontData of the window w; Tail of an empty sequence is the undefined
\* pop_front of an empty deque.
PopFrontData(w) ==
    IF w.buffer = << >> THEN [w EXCEPT !.table = Tail(@)]
                        ELSE [w EXCEPT !.buffer = Tail(@)]

----------------------------------------------------------------------------
Init ==
    /\ window_range \in Ranges
    /\ exclude_current_time \in ExcludeFlags
    /\ instance_not_in_window \in BOOLEAN
    /\ table = << >>
    /\ current_history_buffer = << >>
    /\ fed = 0
    /\ last_key = 0
    /\ in_order = TRUE
    /\ accepted = << >>
    /\ shown = NoCall

\* A row is handed over; its identity is its arrival number.
Arrives(key) ==
    /\ fed < MaxRows
    /\ fed' = fed + 1
    /\ last_key' = key
    /\ in_order' = (in_order /\ key >= last_key)
    /\ UNCHANGED config

\* mutant: a row keeps the number of the row before it
ArrivalNotCounted(key) == [key |-> key, row |-> fed]

Arrival(key) == [key |-> key, row |-> fed + 1]

Holds(w) == table' = w.table /\ current_history_buffer' = w.buffer

\* WindowProject, BufferData refuses the row
ProjectRejected(key) ==
    /\ Arrives(key)
    /\ Rejects(key)
    /\ UNCHANGED <<table, current_history_buffer, accepted, shown>>

\* WindowProject with is_instance = false: a row of a UNION table
ProjectUnionRow(key) ==
    /\ Arrives(key)
    /\ ~Rejects(key)
    /\ Holds(BufferData(Arrival(key)))
    /\ accepted' = <<Arrival(key)>> \o accepted
    /\ UNCHANGED shown

\* The udf reads the effective window.
Shows(e, w) ==
    shown' = [current |-> <<e>>, past |-> accepted, window |-> w.table]

\* WindowProject with is_instance = true and a udf that succeeds
ProjectInstanceRow(key) ==
    LET e == Arrival(key)
        w == BufferData(e)
    IN /\ Arrives(key)
       /\ ~Rejects(key)
       /\ Shows(e, w)
       /\ Holds(IF instance_not_in_window THEN PopFrontData(w) ELSE w)
       /\ accepted' = IF instance_not_in_window THEN accepted ELSE <<e>> \o accepted

\* The udf fails: WindowProject returns before PopFrontData, so the row stays
\* in the window even when instance_not_in_window is set.
ProjectUdfFails(key) ==
    LET e == Arrival(key)
        w == BufferData(e)
    IN /\ Arrives(key)
       /\ ~Rejects(key)
       /\ Shows(e, w)
       /\ Holds(w)
       /\ accepted' = <<e>> \o accepted

Next == \E key \in Keys :
            \/ ProjectRejected(key)
            \/ ProjectUnionRow(key)
            \/ ProjectInstanceRow(key)
            \/ ProjectUdfFails(key)

Spec == Init /\ [][Next]_vars

----------------------------------------------------------------------------
TypeOK ==
    /\ window_range \in Ranges
    /\ exclude_current_time \in ExcludeFlags
    /\ instance_not_in_window \in BOOLEAN
    /\ table \in Seq(Entry)
    /\ current_history_buffer \in Seq(Entry)
    /\ fed \in 0..MaxRows
    /\ last_key \in Keys \cup {0}
    /\ in_order \in BOOLEAN
    /\ accepted \in Seq(Entry)
    /\ shown \in [current: Seq(Entry), past: Seq(Entry), window: Seq(Entry)]

----------------------------------------------------------------------------
\* As long as rows come in order, as RunWindowAggOnKey feeds them, what an
\* aggregate reads from the window of row e is the frame of e: no row of the
\* frame was dropped too early, and none that left the frame is read.  An
\* aggregate of the window's own frame reads the whole window, so BufferData
\* must have dropped exactly the rows behind the frame; one whose frame was
\* merged, or ends before the current row, reads an inner list (BufferData,
\* BuildWindow).  The window has every row once, newest first, which lag() and
\* at() rely on and which the copy of the current row that EXCLUDE CURRENT_TIME
\* puts in front must not break (BufferCurrentTimeBuffer).
WindowIsFrame ==
    in_order =>
      /\ \A i \in DOMAIN shown.current :
           LET e == shown.current[i] IN
           /\ HasRange(window_range) =>
                RangeSeen(window_range, e, shown.window)
                  = RangeFrame(window_range, exclude_current_time, e, shown.past)
           /\ HasRows(window_range) => \A f \in RowsFrames(window_range) :
                RowsSeen(window_range, f, shown.window)
                  = RowsFrame(window_range, f, exclude_current_time, e, shown.past)
      /\ \A m, n \in 1..Len(shown.window) :
           m < n => /\ shown.window[m].row > shown.window[n].row
                    /\ shown.window[m].key >= shown.window[n].key

\* The copy of the current row that stays in front of the window until the
\* next row arrives
Copies == IF exclude_current_time /\ window_range.end_offset = 0 /\ table # << >> THEN 1 ELSE 0

\* With INSTANCE_NOT_IN_WINDOW, PopFrontData removes the instance row and no
\* other: between two rows the history buffer and the window behind it hold
\* the newest rows of the history, none missing and none else.
InstanceLeavesWindow ==
    /\ Len(current_history_buffer) + Len(table) - Copies <= Len(accepted)
    /\ \A n \in 1..Len(current_history_buffer) : current_history_buffer[n] = accepted[n]
    /\ \A n \in (Copies + 1)..Len(table) :
          table[n] = accepted[Len(current_history_buffer) + n - Copies]

\* BufferData's bounds on memory: MAXSIZE and ROWS bound the effective window,
\* whatever was moved into it at once, and a window that needs no history
\* buffer has none.
BufferBounded ==
    /\ window_range.max_size > 0 => Len(table) <= window_range.max_size
    /\ window_range.frame_type = "kFrameRows" => Len(table) <= window_range.start_row + 1
    /\ window_range.end_offset = 0 /\ ~exclude_current_time => current_history_buffer = << >>

\* "buffer key less than latest key": BufferData refuses a row older than the
\* latest row it accepted, as the message it logs says.
LateRowsRefused ==
    \A m, n \in 1..Len(accepted) : m < n => accepted[m].key >= accepted[n].key

\* ... which it does when the latest row is in front of the effective window:
\* the range ends at the current row and instances stay in the window.
LateRowsRefusedFromFront ==
    window_range.end_offset = 0 /\ ~instance_not_in_window => LateRowsRefused
=============================================================================
