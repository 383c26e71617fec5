---------------------------- MODULE ToydbTable ----------------------------
(***************************************************************************)
(* A toydb table (Table, Segment, FullTableIterator, WindowTableIterator   *)
(* in examples/toydb/src/storage, TabletSegmentHandler in                  *)
(* examples/toydb/src/tablet): rows are put into every index in turn, each *)
(* time into the segment of the key and under the lock of that segment;    *)
(* iterators take no lock.                                                 *)
(*                                                                         *)
(* The keys of a segment are a set and the rows of a key are a set: what   *)
(* readers see of them while they grow is the subject of SkipList and      *)
(* TimeList.  The rows of a key are read in one step.                      *)
(***************************************************************************)
EXTENDS Integers, Sequences, FiniteSets, FiniteSetsExt

CONSTANTS Indexes,     \* 0..n-1, in the order of the table's definition
          PutOrder,    \* the indexes in the order of their names: index_map_
          Keys,        \* keys, as numbers in the order of SliceComparator
          Segments,    \* 0..seg_cnt_-1
          Hash,        \* the segment of a key
          MaxRows,     \* bound on the rows put
          Putters, Readers

ASSUME TableAssumption ==
    /\ IsFiniteSet(Indexes) /\ Indexes = 0..(Cardinality(Indexes) - 1) /\ 0 \in Indexes
    /\ Len(PutOrder) = Cardinality(Indexes) /\ {PutOrder[n] : n \in DOMAIN PutOrder} = Indexes
    /\ IsFiniteSet(Segments) /\ Segments = 0..(Cardinality(Segments) - 1) /\ 0 \in Segments
    /\ Keys \subseteq Nat \ {0} /\ Hash \in [Keys -> Segments] /\ MaxRows \in Nat

None == -1

VARIABLES
    keyOf,       \* the key DecodeKeysAndTs makes of every row for every index
    entries,     \* entries_: keys of each segment of each index
    rows,        \* rows of each key of each index (its TimeEntry)
    locked,      \* mu_ of each segment of each index is held
    stored,      \* ghost: rows whose Put has returned
    putter,      \* per thread in Table::Put: step, row, place in PutOrder
    reader       \* per iterator

vars == <<keyOf, entries, rows, locked, stored, putter, reader>>

NotPutting == [pc |-> "idle", row |-> None, place |-> 1]

\* Ghosts: known are the rows stored when the iterator was made, left the
\* segments a scan left at their first key, found the key a lookup came to.
NewReader ==
    [pc |-> "idle", kind |-> "none", index |-> 0, seg |-> 0, key |-> None, before |-> None,
     read |-> {}, known |-> {}, left |-> {}, found |-> None]

Init ==
    /\ keyOf = << >>
    /\ entries = [i \in Indexes |-> [s \in Segments |-> {}]]
    /\ rows = [i \in Indexes |-> [k \in Keys |-> {}]]
    /\ locked = [i \in Indexes |-> [s \in Segments |-> FALSE]]
    /\ stored = {}
    /\ putter = [p \in Putters |-> NotPutting]
    /\ reader = [r \in Readers |-> NewReader]

----------------------------------------------------------------------------
(* Table::Put *)

Index(p) == PutOrder[putter[p].place]
Key(p) == keyOf[putter[p].row][Index(p)]
Seg(p) == Hash[Key(p)]

\* A row whose own size field is not the size given is refused before this step
\* and changes nothing.
BeginPut(p) ==
    /\ putter[p].pc = "idle" /\ Len(keyOf) < MaxRows
    /\ \E keys \in [Indexes -> Keys] : keyOf' = Append(keyOf, keys)
    /\ putter' = [putter EXCEPT ![p] = [pc |-> "lock", row |-> Len(keyOf) + 1, place |-> 1]]
    /\ UNCHANGED <<entries, rows, locked, stored, reader>>

\* mutant: the lock is not waited for
LockAlways(p) ==
    /\ putter[p].pc = "lock"
    /\ putter' = [putter EXCEPT ![p].pc = IF Key(p) \in entries[Index(p)][Seg(p)] THEN "row" ELSE "key"]
    /\ UNCHANGED <<keyOf, entries, rows, locked, stored, reader>>

\* Segment::Put takes the lock and looks the key up.
LockAndGet(p) ==
    LET i == Index(p) IN
    /\ putter[p].pc = "lock" /\ ~locked[i][Seg(p)]
    /\ locked' = [locked EXCEPT ![i][Seg(p)] = TRUE]
    /\ putter' = [putter EXCEPT ![p].pc = IF Key(p) \in entries[i][Seg(p)] THEN "row" ELSE "key"]
    /\ UNCHANGED <<keyOf, entries, rows, stored, reader>>

\* A new key appears with an empty TimeEntry.
InsertKey(p) ==
    LET i == Index(p) IN
    /\ putter[p].pc = "key"
    /\ entries' = [entries EXCEPT ![i][Seg(p)] = @ \cup {Key(p)}]
    /\ rows' = [rows EXCEPT ![i][Key(p)] = {}]
    /\ putter' = [putter EXCEPT ![p].pc = "row"]
    /\ UNCHANGED <<keyOf, locked, stored, reader>>

\* The row is inserted, the lock released, and the next index is due.
InsertRow(p) ==
    LET i == Index(p)
        last == putter[p].place = Len(PutOrder) IN
    /\ putter[p].pc = "row"
    /\ rows' = [rows EXCEPT ![i][Key(p)] = @ \cup {putter[p].row}]
    /\ locked' = [locked EXCEPT ![i][Seg(p)] = FALSE]
    /\ stored' = IF last THEN stored \cup {putter[p].row} ELSE stored
    /\ putter' = [putter EXCEPT ![p] = IF last THEN NotPutting
                                       ELSE [@ EXCEPT !.pc = "lock", !.place = @ + 1]]
    /\ UNCHANGED <<keyOf, entries, reader>>

Put(p) == BeginPut(p) \/ LockAndGet(p) \/ InsertKey(p) \/ InsertRow(p)

----------------------------------------------------------------------------
(* The iterators *)

Moves(r, state) ==
    /\ reader' = [reader EXCEPT ![r] = state]
    /\ UNCHANGED <<keyOf, entries, rows, locked, stored, putter>>

Opened(kind, index) == [NewReader EXCEPT !.kind = kind, !.index = index, !.known = stored]

\* The first key of a segment after key, or None
KeyAfter(r, key) ==
    LET later == {k \in entries[reader[r].index][reader[r].seg] : k > key} IN
    IF later = {} THEN None ELSE Min(later)

\* On to the next segment; behind the last one the iterator is not valid.
NextSegment(r, pc) ==
    IF reader[r].seg = Max(Segments) THEN [reader[r] EXCEPT !.pc = "end", !.key = None]
    ELSE [reader[r] EXCEPT !.pc = pc, !.seg = @ + 1, !.key = None]

\* FullTableIterator is made over index 0, WindowTableIterator over any.
OpenFull(r) ==
    /\ reader[r].pc = "idle"
    /\ Moves(r, [Opened("full", 0) EXCEPT !.pc = "start"])

OpenWindow(r, index) ==
    /\ reader[r].pc = "idle"
    /\ Moves(r, [Opened("window", index) EXCEPT !.pc = "keys"])

\* FullTableIterator::GoToStart: the first key of a segment ...
StartKey(r) ==
    LET k == KeyAfter(r, None) IN
    /\ reader[r].pc = "start"
    /\ Moves(r, IF k = None THEN NextSegment(r, "start")
                ELSE [reader[r] EXCEPT !.pc = "startRow", !.key = k])

\* ... and its first row; without one it leaves the segment.
StartRow(r) ==
    LET found == rows[0][reader[r].key] IN
    /\ reader[r].pc = "startRow"
    /\ Moves(r, IF found = {} THEN [NextSegment(r, "start") EXCEPT !.left = @ \cup {reader[r].seg}]
                ELSE [reader[r] EXCEPT !.pc = "keys", !.read = @ \cup found])

\* mutant: the loop over the segments ends with the first segment that has no key
\* left
GoToNextKeyInSegment(r) ==
    LET k == KeyAfter(r, reader[r].key) IN
    /\ reader[r].pc = "keys"
    /\ Moves(r, IF k = None THEN [reader[r] EXCEPT !.pc = "end", !.key = None]
                ELSE [reader[r] EXCEPT !.pc = "row", !.key = k])

\* GoToNext (and WindowTableIterator::GoToStart): the next key ...
GoToNextKey(r) ==
    LET k == KeyAfter(r, reader[r].key) IN
    /\ reader[r].pc = "keys"
    /\ Moves(r, IF k = None THEN NextSegment(r, "keys")
                ELSE [reader[r] EXCEPT !.pc = "row", !.key = k])

\* ... and its rows, if it has any.
ReadRows(r) ==
    /\ reader[r].pc = "row"
    /\ Moves(r, [reader[r] EXCEPT !.pc = "keys", !.read = @ \cup rows[reader[r].index][reader[r].key]])

\* TabletSegmentHandler::GetIterator: WindowTableIterator::Seek in the segment of
\* the key finds the last key before it ...
Lookup(r, index, key) ==
    LET before == {k \in entries[index][Hash[key]] : k < key} IN
    /\ reader[r].pc = "idle"
    /\ Moves(r, [Opened("lookup", index) EXCEPT !.pc = "sought", !.seg = Hash[key],
                     !.key = key, !.before = Max(before \cup {0})])

\* ... and steps to the key behind that one, which must be the key.
LookupRows(r) ==
    LET k == KeyAfter(r, reader[r].before) IN
    /\ reader[r].pc = "sought"
    /\ Moves(r, IF k # reader[r].key THEN [reader[r] EXCEPT !.pc = "end", !.found = k]
                ELSE [reader[r] EXCEPT !.pc = "end", !.found = k, !.read = rows[reader[r].index][k]])

Close(r) ==
    /\ reader[r].pc = "end"
    /\ Moves(r, NewReader)

Read(r) ==
    \/ OpenFull(r) \/ StartKey(r) \/ StartRow(r) \/ GoToNextKey(r) \/ ReadRows(r)
    \/ \E index \in Indexes : OpenWindow(r, index)
    \/ \E index \in Indexes, key \in Keys : Lookup(r, index, key)
    \/ LookupRows(r) \/ Close(r)

Next == (\E p \in Putters : Put(p)) \/ (\E r \in Readers : Read(r))

Spec == Init /\ [][Next]_vars

----------------------------------------------------------------------------
TypeOK ==
    /\ \A n \in DOMAIN keyOf : keyOf[n] \in [Indexes -> Keys]
    /\ \A i \in Indexes : \A s \in Segments : \A k \in entries[i][s] : Hash[k] = s
    /\ \A i \in Indexes : \A k \in Keys : rows[i][k] \subseteq DOMAIN keyOf
    /\ locked \in [Indexes -> [Segments -> BOOLEAN]]
    /\ stored \subseteq DOMAIN keyOf
    /\ \A p \in Putters : putter[p].pc \in {"idle", "lock", "key", "row"}
    /\ \A r \in Readers : reader[r].seg \in Segments /\ reader[r].read \subseteq DOMAIN keyOf

\* A row whose Put has returned is in every index under its key, whatever other
\* Puts ran at the same time, also of the same new key (the lock of the segment
\* around the lookup and the inserts).
StoredEverywhere ==
    \A row \in stored : \A i \in Indexes :
        /\ keyOf[row][i] \in entries[i][Hash[keyOf[row][i]]]
        /\ row \in rows[i][keyOf[row][i]]

\* A scan that came to the end has read every row whose Put had returned when
\* it began, whatever was put meanwhile, but for the segments that it left: a
\* scan of the keys of an index (WindowTableIterator) leaves none, a scan of the
\* table (FullTableIterator) one whose first key was new and had no row yet
\* (GoToStart, GoToNext; Segment::Put makes the key visible before its row).
ScanComplete ==
    \A r \in Readers : reader[r].pc = "end" /\ reader[r].kind \in {"window", "full"} =>
        \A row \in reader[r].known \ reader[r].read :
            Hash[keyOf[row][reader[r].index]] \in reader[r].left

\* GetIterator for a key gives rows of that key only, and all whose Put had
\* returned; a stored key is taken for missing only if a Put made a key between
\* it and the one before it after the Seek had found that one.
LookupExact ==
    \A r \in Readers : reader[r].pc = "end" /\ reader[r].kind = "lookup" =>
        LET i == reader[r].index
            k == reader[r].key IN
        /\ \A row \in reader[r].read : keyOf[row][i] = k
        /\ \/ {row \in reader[r].known : keyOf[row][i] = k} \subseteq reader[r].read
           \/ reader[r].before < reader[r].found /\ reader[r].found < k

\* The iterators of a table read every row that was stored before they began, but
\* for the segments a scan left and the lookups a new key led astray; a lookup
\* reads rows of its key only.
TableReadsComplete == ScanComplete /\ LookupExact
=============================================================================
