----------------------------- MODULE SkipList -----------------------------
(***************************************************************************)
(* The keys of a toydb segment (SkipList in                                *)
(* examples/toydb/src/storage/skiplist.h, as Segment::Put and the table    *)
(* iterators use it).  One writer, which holds the lock of the segment,    *)
(* inserts keys that are not there; readers take no lock.                  *)
(*                                                                         *)
(* A key and its node have one name.  One step is one access to memory     *)
(* that both sides use.  Remove, Split, Clear, AddToFirst and tail_ are    *)
(* used by tests only.                                                     *)
(***************************************************************************)
EXTENDS Integers, Sequences

CONSTANTS Keys,          \* keys, as numbers in the order of SliceComparator
          MaxHeight,
          Readers

\* What the constants are
SkipListAssumption == Keys \subseteq Nat \ {0} /\ MaxHeight \in Nat \ {0}

Head0   == 0     \* head_
None    == -1    \* NULL
Garbage == -2    \* an entry of nexts_ that was never written

VARIABLES
    nexts,       \* nexts_ of head_ and of the nodes, per level
    height,      \* height_ of the nodes
    max_height,  \* max_height_
    stored,      \* ghost: keys whose insert has returned
    writer,      \* what the writer does next, for which key, at which level
    reader       \* per reader: the walk, and what it has found

writing == <<nexts, height, max_height, stored, writer>>
vars == <<writing, reader>>

Nodes  == {Head0} \cup Keys
Levels == 0..(MaxHeight - 1)

Idle == [pc |-> "idle", key |-> None, level |-> 0, pre |-> << >>]

NewReader ==
    [pc |-> "idle", op |-> "none", key |-> None, node |-> Head0, level |-> 0,
     known |-> {}, read |-> << >>]

Init ==
    /\ nexts = [n \in Nodes |-> [l \in Levels |-> IF n = Head0 THEN None ELSE Garbage]]
    /\ height = [k \in Keys |-> 0]
    /\ max_height = 1
    /\ stored = {}
    /\ writer = Idle
    /\ reader = [r \in Readers |-> NewReader]

----------------------------------------------------------------------------
(* The writer *)

Linked(node, level) == node = Head0 \/ \E n \in Nodes : nexts[n][level] = node

\* FindLessOrEqual: the linked node before the key at this level whose next node
\* is not
LastBefore(key, level) ==
    CHOOSE n \in Nodes :
        /\ Linked(n, level) /\ n < key
        /\ nexts[n][level] \in Keys => nexts[n][level] >= key

\* Segment::Put looks the key up first.  SkipList::Insert finds the places of
\* the new node, the head at levels that are new, and raises max_height_.
BeginInsert(key, h) ==
    /\ writer.pc = "idle" /\ key \notin stored
    /\ writer' = [pc |-> "prepare", key |-> key, level |-> 0,
                  pre |-> [l \in 0..(h - 1) |-> IF l < max_height THEN LastBefore(key, l) ELSE Head0]]
    /\ max_height' = IF h > max_height THEN h ELSE max_height
    /\ height' = [height EXCEPT ![key] = h]
    /\ UNCHANGED <<nexts, stored, reader>>

\* mutant: the new node ends the list
PrepareAsLast ==
    /\ writer.pc = "prepare"
    /\ nexts' = [nexts EXCEPT ![writer.key][writer.level] = None]
    /\ writer' = [writer EXCEPT !.pc = "publish"]
    /\ UNCHANGED <<height, max_height, stored, reader>>

\* mutant: the link at the bottom is written, the one at the top published
PrepareBottomOnly ==
    /\ writer.pc = "prepare"
    /\ nexts' = [nexts EXCEPT ![writer.key][0] = nexts[writer.pre[0]][0]]
    /\ writer' = [writer EXCEPT !.pc = "publish", !.level = height[writer.key] - 1]
    /\ UNCHANGED <<height, max_height, stored, reader>>

\* node->SetNextNoBarrier(i, pre[i]->GetNextNoBarrier(i))
Prepare ==
    /\ writer.pc = "prepare"
    /\ nexts' = [nexts EXCEPT ![writer.key][writer.level] = nexts[writer.pre[writer.level]][writer.level]]
    /\ writer' = [writer EXCEPT !.pc = "publish"]
    /\ UNCHANGED <<height, max_height, stored, reader>>

\* pre[i]->SetNext(i, node), and on to the next level
Publish ==
    /\ writer.pc = "publish"
    /\ LET last == writer.level = height[writer.key] - 1 IN
       /\ nexts' = [nexts EXCEPT ![writer.pre[writer.level]][writer.level] = writer.key]
       /\ stored' = IF last THEN stored \cup {writer.key} ELSE stored
       /\ writer' = IF last THEN Idle ELSE [writer EXCEPT !.pc = "prepare", !.level = @ + 1]
    /\ UNCHANGED <<height, max_height, reader>>

Write ==
    \/ \E key \in Keys, h \in 1..MaxHeight : BeginInsert(key, h)
    \/ Prepare \/ Publish

----------------------------------------------------------------------------
(* A reader *)

Moves(r, state) == reader' = [reader EXCEPT ![r] = state] /\ UNCHANGED writing

\* Get and Seek begin at the head and at the level below max_height_, which is
\* loaded without a barrier: an older value may be read.
BeginWalk(r, op, key) ==
    /\ reader[r].pc = "idle"
    /\ \E h \in 1..max_height :
          Moves(r, [NewReader EXCEPT !.pc = "walk", !.op = op, !.key = key, !.level = h - 1,
                                     !.known = stored])

\* FindEqual passes nodes of the key itself, FindLessThan does not.
Passes(r, next) ==
    IF reader[r].op = "get" THEN next <= reader[r].key ELSE next < reader[r].key

Arrived(r) == [reader[r] EXCEPT !.pc = IF reader[r].op = "get" THEN "got" ELSE "found"]

WalkOn(r) ==
    LET next == nexts[reader[r].node][reader[r].level] IN
    /\ reader[r].pc = "walk"
    /\ Moves(r, IF next = Garbage THEN [reader[r] EXCEPT !.pc = "undefined"]
                ELSE IF next # None /\ Passes(r, next) THEN [reader[r] EXCEPT !.node = next]
                ELSE IF reader[r].level > 0 THEN [reader[r] EXCEPT !.level = @ - 1]
                ELSE Arrived(r))

\* SeekToFirst, Seek and Next of the iterator end with a step along level 0.
StepTo(r, state) ==
    LET next == nexts[state.node][0] IN
    Moves(r, IF next = Garbage THEN [state EXCEPT !.pc = "undefined"]
             ELSE IF next = None THEN [state EXCEPT !.pc = "end"]
             ELSE [state EXCEPT !.pc = "at", !.node = next, !.read = Append(@, next)])

SeekToFirst(r) ==
    /\ reader[r].pc = "idle"
    /\ StepTo(r, [NewReader EXCEPT !.op = "scan", !.known = stored])

NextAfterSeek(r) ==
    /\ reader[r].pc = "found"
    /\ StepTo(r, reader[r])

NextKey(r) ==
    /\ reader[r].pc = "at"
    /\ StepTo(r, reader[r])

Close(r) ==
    /\ reader[r].pc \in {"got", "end"}
    /\ Moves(r, NewReader)

Read(r) ==
    \/ \E op \in {"get", "seek"}, key \in Keys : BeginWalk(r, op, key)
    \/ WalkOn(r) \/ SeekToFirst(r) \/ NextAfterSeek(r) \/ NextKey(r) \/ Close(r)

Next == Write \/ \E r \in Readers : Read(r)

Spec == Init /\ [][Next]_vars

----------------------------------------------------------------------------
TypeOK ==
    /\ nexts \in [Nodes -> [Levels -> Keys \cup {None, Garbage}]]
    /\ height \in [Keys -> 0..MaxHeight] /\ max_height \in 1..MaxHeight
    /\ stored \subseteq Keys
    /\ writer.pc \in {"idle", "prepare", "publish"}
    /\ writer.pc # "idle" => writer.level \in DOMAIN writer.pre
    /\ \A r \in Readers :
          /\ reader[r].pc \in {"idle", "walk", "got", "found", "at", "end", "undefined"}
          /\ reader[r].node \in Nodes /\ reader[r].level \in Levels

\* No reader follows an entry of nexts_ that the writer has not written yet: a
\* node can be reached at a level only when that level and all below are linked
\* (the loop of Insert over the levels, bottom up).
OnlyWrittenLinks == \A r \in Readers : reader[r].pc # "undefined"

\* Get finds a key that was stored when it began, whatever is inserted around it
\* while it walks, and finds no other key.
GetFindsStored ==
    \A r \in Readers : reader[r].pc = "got" =>
        /\ reader[r].key \in reader[r].known => reader[r].node = reader[r].key
        /\ reader[r].node <= reader[r].key

\* An iterator gives keys in ascending order, and one that came to the end has
\* given every key, from the key it sought on, that was stored when it began.
ScanComplete ==
    \A r \in Readers :
        /\ \A m, n \in DOMAIN reader[r].read : m < n => reader[r].read[m] < reader[r].read[n]
        /\ reader[r].pc = "end" =>
              \A k \in reader[r].known : k >= reader[r].key =>
                  \E n \in DOMAIN reader[r].read : reader[r].read[n] = k

\* Get finds a key stored before it began and no other, and an iterator gives the
\* stored keys in order, whatever is inserted meanwhile.
KeysFound == GetFindsStored /\ ScanComplete

\* "Set the dataset's current position move to the first element whose key equals
\* to `k` offset": a Seek of a stored key arrives at that key.
SeekFindsKey ==
    \A r \in Readers :
        LET s == reader[r] IN
        s.op = "seek" /\ Len(s.read) = 1 /\ s.key \in s.known => s.read[1] = s.key
=============================================================================
