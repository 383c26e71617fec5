----------------------------- MODULE TimeList -----------------------------
(***************************************************************************)
(* The rows of one key in toydb, newest first (List, ArrayList and         *)
(* LinkList in examples/toydb/src/storage/list.h, with TimeComparator).    *)
(* One writer at a time, which holds the lock of the segment, inserts;     *)
(* readers take no lock.                                                   *)
(*                                                                         *)
(* A short list is an array that every insert replaces; at                 *)
(* MAX_ARRAY_LIST_LEN rows it is converted to a linked list once and for   *)
(* all.  A row is named by the order of its insert.  One step is one       *)
(* access to memory that both sides use.                                   *)
(***************************************************************************)
EXTENDS Integers, Sequences

CONSTANTS Times,               \* time keys of the rows
          MaxRows,             \* bound on the rows inserted
          MAX_ARRAY_LIST_LEN,
          Readers,
          Targets              \* keys that readers seek

\* What the constants are
ListAssumption ==
    /\ Times \subseteq Nat /\ Targets \subseteq Nat
    /\ MaxRows \in Nat /\ MAX_ARRAY_LIST_LEN \in Nat \ {0}

Head0 == 0     \* head_ of the linked list
None  == -1    \* NULL

VARIABLES
    time,      \* the key of every row, in the order of inserts
    stored,    \* ghost: rows whose insert has returned
    list,      \* list_: "array" or "link"
    freed,     \* the ArrayList object is deleted
    array,     \* array_: rows, newest first
    next,      \* next_ of head_ and of the nodes
    writer,    \* what the writer does next, with which row, behind which node
    reader     \* per reader: iterator and what it has read

writing == <<time, stored, list, freed, array, next, writer>>
vars == <<writing, reader>>

Rows  == 1..MaxRows
Nodes == {Head0} \cup Rows

Idle == [pc |-> "idle", row |-> None, pre |-> None]

NewReader ==
    [pc |-> "idle", list |-> "array", array |-> << >>, pos |-> 0, node |-> None,
     target |-> None, known |-> {}, read |-> << >>]

Init ==
    /\ time = << >>
    /\ stored = {}
    /\ list = "array"
    /\ freed = FALSE
    /\ array = << >>
    /\ next = [n \in Nodes |-> None]
    /\ writer = Idle
    /\ reader = [r \in Readers |-> NewReader]

----------------------------------------------------------------------------
(* The writer *)

NewRow == Len(time) + 1

\* ArrayList::FindLessOrEqual: where a row of this key goes
FindLessOrEqual(rows, key) ==
    CHOOSE n \in 1..(Len(rows) + 1) :
        /\ \A m \in 1..(n - 1) : time[rows[m]] > key
        /\ n <= Len(rows) => time[rows[n]] <= key

\* The rows are copied around the place of the new one.
WithRow(rows, pos, row) == SubSeq(rows, 1, pos - 1) \o <<row>> \o SubSeq(rows, pos, Len(rows))

\* List::Insert into an array list that is not full: a new array is stored.
InsertArray(key) ==
    /\ writer.pc = "idle" /\ NewRow <= MaxRows
    /\ list = "array" /\ Len(array) < MAX_ARRAY_LIST_LEN
    /\ array' = WithRow(array, FindLessOrEqual(array, key), NewRow)
    /\ time' = Append(time, key)
    /\ stored' = stored \cup {NewRow}
    /\ UNCHANGED <<list, freed, next, writer, reader>>

Linked(node) == node = Head0 \/ \E n \in Nodes : next[n] = node

\* LinkList::FindLessOrEqual: the node behind which a row of this key goes, newer
\* than the key where its next node is not
Walk(key) ==
    CHOOSE node \in Nodes :
        /\ Linked(node) /\ (node = Head0 \/ time[node] > key)
        /\ next[node] = None \/ time[next[node]] <= key

\* ConvertToLinkList inserts the rows of the array from the last to the first,
\* so that rows of one key keep their order.
Chain(rows) ==
    [n \in Nodes |->
        IF n = Head0 THEN rows[1]
        ELSE IF \E m \in 1..(Len(rows) - 1) : rows[m] = n
             THEN rows[1 + CHOOSE m \in 1..(Len(rows) - 1) : rows[m] = n]
             ELSE None]

\* List::Insert into a full array list: a linked list that nobody sees yet
Convert(key) ==
    /\ writer.pc = "idle" /\ NewRow <= MaxRows
    /\ list = "array" /\ Len(array) >= MAX_ARRAY_LIST_LEN
    /\ next' = Chain(array)
    /\ time' = Append(time, key)
    /\ writer' = [pc |-> "store", row |-> NewRow, pre |-> None]
    /\ UNCHANGED <<stored, list, freed, array, reader>>

StoreList ==
    /\ writer.pc = "store"
    /\ list' = "link"
    /\ writer' = [writer EXCEPT !.pc = "delete"]
    /\ UNCHANGED <<time, stored, freed, array, next, reader>>

DeleteArray ==
    /\ writer.pc = "delete"
    /\ freed' = TRUE
    /\ writer' = [writer EXCEPT !.pc = "prepare"]
    /\ UNCHANGED <<time, stored, list, array, next, reader>>

InsertLink(key) ==
    /\ writer.pc = "idle" /\ NewRow <= MaxRows
    /\ list = "link"
    /\ time' = Append(time, key)
    /\ writer' = [pc |-> "prepare", row |-> NewRow, pre |-> None]
    /\ UNCHANGED <<stored, list, freed, array, next, reader>>

\* mutant: SetNextNoBarrier is forgotten
PrepareWithoutNext ==
    /\ writer.pc = "prepare"
    /\ writer' = [writer EXCEPT !.pc = "publish", !.pre = Walk(time[writer.row])]
    /\ UNCHANGED <<time, stored, list, freed, array, next, reader>>

\* LinkList::Insert: FindLessOrEqual, and SetNextNoBarrier of the new node
Prepare ==
    /\ writer.pc = "prepare"
    /\ LET pre == Walk(time[writer.row]) IN
       /\ next' = [next EXCEPT ![writer.row] = next[pre]]
       /\ writer' = [writer EXCEPT !.pc = "publish", !.pre = pre]
    /\ UNCHANGED <<time, stored, list, freed, array, reader>>

\* ... and SetNext of the node before it
Publish ==
    /\ writer.pc = "publish"
    /\ next' = [next EXCEPT ![writer.pre] = writer.row]
    /\ stored' = stored \cup {writer.row}
    /\ writer' = Idle
    /\ UNCHANGED <<time, list, freed, array, reader>>

Write ==
    \/ \E key \in Times : InsertArray(key) \/ Convert(key) \/ InsertLink(key)
    \/ StoreList \/ DeleteArray \/ Prepare \/ Publish

----------------------------------------------------------------------------
(* A reader *)

Moves(r, state) == reader' = [reader EXCEPT ![r] = state] /\ UNCHANGED writing

\* List::NewIterator reads list_ ...
LoadList(r) ==
    /\ reader[r].pc = "idle"
    /\ Moves(r, [NewReader EXCEPT !.pc = "new", !.list = list, !.known = stored])

\* ... and asks that list for an iterator: an array list that was deleted since
\* is undefined behaviour.
NewIterator(r) ==
    /\ reader[r].pc = "new"
    /\ Moves(r, IF reader[r].list = "link" THEN [reader[r] EXCEPT !.pc = "ready"]
                ELSE IF freed THEN [reader[r] EXCEPT !.pc = "undefined"]
                ELSE [reader[r] EXCEPT !.pc = "ready", !.array = array])

OnArray(r) == reader[r].list = "array"

ReadArray(r, pos) ==
    IF pos > Len(reader[r].array) THEN [reader[r] EXCEPT !.pc = "end"]
    ELSE [reader[r] EXCEPT !.pc = "at", !.pos = pos, !.read = Append(@, reader[r].array[pos])]

ReadLink(r, node) ==
    IF node = None THEN [reader[r] EXCEPT !.pc = "end"]
    ELSE [reader[r] EXCEPT !.pc = "at", !.node = node, !.read = Append(@, node)]

SeekToFirst(r) ==
    /\ reader[r].pc = "ready"
    /\ Moves(r, IF OnArray(r) THEN ReadArray(r, 1) ELSE ReadLink(r, next[Head0]))

\* ArrayListIterator::Seek of a new iterator: without a match it is not valid.
SeekArray(r, key) ==
    /\ reader[r].pc = "ready" /\ OnArray(r)
    /\ Moves(r, [ReadArray(r, FindLessOrEqual(reader[r].array, key)) EXCEPT !.target = key])

\* LinkListIterator::Seek: FindLessOrEqual walks from the head ...
SeekLink(r, key) ==
    /\ reader[r].pc = "ready" /\ ~OnArray(r)
    /\ Moves(r, [reader[r] EXCEPT !.pc = "walk", !.node = Head0, !.target = key])

WalkOn(r) ==
    LET node == next[reader[r].node] IN
    /\ reader[r].pc = "walk"
    /\ Moves(r, IF node # None /\ time[node] > reader[r].target
                THEN [reader[r] EXCEPT !.node = node]
                ELSE [reader[r] EXCEPT !.pc = "found"])

\* ... and Next() reads the next node once more.
StepFromFound(r) ==
    /\ reader[r].pc = "found"
    /\ Moves(r, ReadLink(r, next[reader[r].node]))

Next1(r) ==
    /\ reader[r].pc = "at"
    /\ Moves(r, IF OnArray(r) THEN ReadArray(r, reader[r].pos + 1)
                ELSE ReadLink(r, next[reader[r].node]))

Close(r) ==
    /\ reader[r].pc = "end"
    /\ Moves(r, NewReader)

Read(r) ==
    \/ LoadList(r) \/ NewIterator(r) \/ SeekToFirst(r)
    \/ \E key \in Targets : SeekArray(r, key) \/ SeekLink(r, key)
    \/ WalkOn(r) \/ StepFromFound(r) \/ Next1(r) \/ Close(r)

Next == Write \/ \E r \in Readers : Read(r)

Spec == Init /\ [][Next]_vars

----------------------------------------------------------------------------
TypeOK ==
    /\ stored \subseteq 1..Len(time) /\ Len(time) <= MaxRows
    /\ list \in {"array", "link"} /\ freed \in BOOLEAN
    /\ Len(array) <= MAX_ARRAY_LIST_LEN /\ \A n \in DOMAIN array : array[n] \in Rows
    /\ next \in [Nodes -> Rows \cup {None}]
    /\ writer.pc \in {"idle", "store", "delete", "prepare", "publish"}
    /\ \A r \in Readers :
          /\ reader[r].pc \in {"idle", "new", "ready", "walk", "found", "at", "end", "undefined"}
          /\ reader[r].node \in Nodes \cup {None}

\* What a reader has read comes newest first, rows of one time in reverse order
\* of their inserts, whether it reads the array, the linked list the array
\* became or the linked list while it grows (FindLessOrEqual of both lists,
\* ConvertToLinkList).
ReadDescending ==
    \A r \in Readers : \A m, n \in DOMAIN reader[r].read :
        m < n => LET p == reader[r].read[m]
                     q == reader[r].read[n]
                 IN time[p] > time[q] \/ (time[p] = time[q] /\ p > q)

\* A scan that came to the end has read every row that had been stored when its
\* iterator was made; after a Seek, every such row that is not newer than the
\* target.  No insert and no conversion makes it lose one.
ScanComplete ==
    \A r \in Readers : reader[r].pc = "end" =>
        \A row \in reader[r].known :
            reader[r].target = None \/ time[row] <= reader[r].target =>
                \E n \in DOMAIN reader[r].read : reader[r].read[n] = row

\* A reader of the rows of a key reads them newest first, across the conversion
\* of the array to a linked list, and misses none that was stored before it began.
RowsReadInOrder == ReadDescending /\ ScanComplete
=============================================================================
