----------------------------- MODULE MCStorage -----------------------------
(***************************************************************************)
(* Small instances of the storage of toydb, from the rows of a key up to   *)
(* the table.  A behaviour belongs to one part, the variables of the       *)
(* others keep their initial values:                                       *)
(*   "list"   the rows of a key (TimeList), arrays of 2 instead of 400;    *)
(*   "keys"   the keys of a segment (SkipList);                            *)
(*   "table"  a table (ToydbTable), keys 1 and 2 in one segment.           *)
(***************************************************************************)
EXTENDS ToydbTable, TLC

CONSTANTS Parts, SkipKeys, SkipHeight

VARIABLES part,
          time, rowsStored, list, freed, array, next, rowWriter, rowReader,
          nexts, height, max_height, keysStored, keyWriter, keyReader

listvars == <<time, rowsStored, list, freed, array, next, rowWriter, rowReader>>
skipvars == <<nexts, height, max_height, keysStored, keyWriter, keyReader>>

List == INSTANCE TimeList WITH
           Times <- {1, 2, 3}, MaxRows <- 5, MAX_ARRAY_LIST_LEN <- 2, Targets <- {2},
           stored <- rowsStored, writer <- rowWriter, reader <- rowReader

Skip == INSTANCE SkipList WITH
           Keys <- SkipKeys, MaxHeight <- SkipHeight,
           stored <- keysStored, writer <- keyWriter, reader <- keyReader

ASSUME List!ListAssumption /\ Skip!SkipListAssumption

TwoSegments == [k \in Keys |-> IF k <= 2 THEN 0 ELSE 1]
\* the second index has the smaller name
SecondFirst == <<1, 0>>

PutterSymmetry == Permutations(Putters)

MCInit == part \in Parts /\ List!Init /\ Skip!Init /\ Init

ListStep  == part = "list" /\ List!Next /\ UNCHANGED <<part, skipvars, vars>>
KeysStep  == part = "keys" /\ Skip!Next /\ UNCHANGED <<part, listvars, vars>>
TableStep == part = "table" /\ Next /\ UNCHANGED <<part, listvars, skipvars>>

MCNext == ListStep \/ KeysStep \/ TableStep

MCSpec == MCInit /\ [][MCNext]_<<part, listvars, skipvars, vars>>

----------------------------------------------------------------------------
\* A reader of the rows of a key reads them newest first, across the conversion
\* of the array to a linked list, and misses none that was stored before it began
\* (List::Insert, ConvertToLinkList, FindLessOrEqual of both lists).
RowsReadInOrder == List!RowsReadInOrder

\* No reader follows an entry of nexts_ that SkipList::Insert has not written yet.
OnlyWrittenLinks == Skip!OnlyWrittenLinks

\* SkipList::Get finds a key stored before it began and no other, and an iterator
\* gives the stored keys in order, whatever is inserted meanwhile.
KeysFound == Skip!KeysFound

\* "Set the dataset's current position move to the first element whose key equals
\* to `k` offset": a Seek of a stored key arrives at that key.
SeekFindsKey == Skip!SeekFindsKey
=============================================================================
