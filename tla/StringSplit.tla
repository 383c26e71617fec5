----------------------------- MODULE StringSplit -----------------------------
(***************************************************************************)
(* The string functions of feature zero (FZStringOpsDef): fz_window_split, *)
(* fz_window_split_by_key and fz_window_split_by_value, which collect the  *)
(* parts of the strings of a window in a list of bounded total length, and *)
(* fz_join.  With delimiters of one character the code walks the string;   *)
(* otherwise it splits by regular expressions.  A string is the sequence   *)
(* of its characters.                                                      *)
(***************************************************************************)
EXTENDS Integers, Sequences, SequencesExt

CONSTANTS
    Chars,                 \* the characters of the input
    Delim, KvDelim,        \* the two delimiters
    MaxLen, MaxRows,       \* the length of a string and of a window
    MAXIMUM_STRING_LENGTH  \* 4096 in the code

VARIABLES
    rows,                  \* the strings so far, each a nullable cell
    split, byKey, byValue  \* the lists, each [buffer, total]

vars == <<rows, split, byKey, byValue>>

Strings == SeqOf(Chars, MaxLen)

EmptyList == [buffer |-> <<>>, total |-> 0]

(* MutableStringListV::Add: a string that would pass the limit is skipped. *)
Add(list, str) ==
    IF list.total + Len(str) > MAXIMUM_STRING_LENGTH THEN list
    ELSE [buffer |-> Append(list.buffer, str), total |-> list.total + Len(str)]

AddAll(list, strs) == FoldLeft(Add, list, strs)

-----------------------------------------------------------------------------
(* The walks over a string: w.begin is the position of the first character *)
(* of the current part.                                                    *)

WalkSplit(list, str, d) ==
    LET w == FoldLeft(LAMBDA a, cur :
                IF str[cur] = d
                THEN [list |-> Add(a.list, SubSeq(str, a.begin, cur - 1)), begin |-> cur + 1]
                ELSE a,
             [list |-> list, begin |-> 1], [i \in DOMAIN str |-> i])
    IN  Add(w.list, SubSeq(str, w.begin, Len(str)))

WalkByKey(list, str, d1, d2) ==
    FoldLeft(LAMBDA a, cur :
        IF str[cur] = d1 THEN [a EXCEPT !.found = FALSE, !.begin = cur + 1]
        ELSE IF str[cur] = d2 /\ ~a.found
        THEN [a EXCEPT !.found = TRUE, !.list = Add(@, SubSeq(str, a.begin, cur - 1))]
        ELSE a,
     [list |-> list, begin |-> 1, found |-> FALSE], [i \in DOMAIN str |-> i]).list

(* mutant: the counter survives the end of a pair *)
WalkByValueNoReset(list, str, d1, d2) ==
    LET part(a, cur) == SubSeq(str, a.begin, cur - 1)
        w == FoldLeft(LAMBDA a, cur :
            IF str[cur] = d1
            THEN [a EXCEPT !.list = IF a.parts = 1 THEN Add(@, part(a, cur)) ELSE @]
            ELSE IF str[cur] = d2
            THEN [a EXCEPT !.parts = @ + 1,
                           !.begin = IF a.parts = 0 THEN cur + 1 ELSE @,
                           !.list = IF a.parts = 1 THEN Add(@, part(a, cur)) ELSE @]
            ELSE a,
         [list |-> list, begin |-> 1, parts |-> 0], [i \in DOMAIN str |-> i])
    IN  IF w.parts = 1 THEN Add(w.list, part(w, Len(str) + 1)) ELSE w.list

WalkByValue(list, str, d1, d2) ==
    LET part(a, cur) == SubSeq(str, a.begin, cur - 1)
        w == FoldLeft(LAMBDA a, cur :
            IF str[cur] = d1
            THEN [a EXCEPT !.parts = 0,
                           !.list = IF a.parts = 1 THEN Add(@, part(a, cur)) ELSE @]
            ELSE IF str[cur] = d2
            THEN [a EXCEPT !.parts = @ + 1,
                           !.begin = IF a.parts = 0 THEN cur + 1 ELSE @,
                           !.list = IF a.parts = 1 THEN Add(@, part(a, cur)) ELSE @]
            ELSE a,
         [list |-> list, begin |-> 1, parts |-> 0], [i \in DOMAIN str |-> i])
    IN  IF w.parts = 1 THEN Add(w.list, part(w, Len(str) + 1)) ELSE w.list

-----------------------------------------------------------------------------
(* boost::split_regex with an expression that matches one character. *)
SplitRegex(str, d) ==
    LET cuts == SetToSortSeq({i \in DOMAIN str : str[i] = d}, <)
        ends == <<0>> \o cuts \o <<Len(str) + 1>>
    IN  [i \in 1..(Len(cuts) + 1) |-> SubSeq(str, ends[i] + 1, ends[i + 1] - 1)]

RegexSplit(list, str, d) == AddAll(list, SplitRegex(str, d))

(* The parts with at least two sub parts, and the n-th of these. *)
RegexNth(list, str, d1, d2, n) ==
    LET pairs == SelectSeq(SplitRegex(str, d1),
                           LAMBDA p : Len(SplitRegex(p, d2)) >= 2)
    IN  AddAll(list, [i \in DOMAIN pairs |-> SplitRegex(pairs[i], d2)[n]])

(* StringJoin *)
StringJoin(list, d) ==
    FoldLeft(LAMBDA a, i : a \o (IF i = 1 THEN <<>> ELSE <<d>>) \o list.buffer[i],
             <<>>, [i \in DOMAIN list.buffer |-> i])

-----------------------------------------------------------------------------
Init ==
    /\ rows = <<>>
    /\ split = EmptyList /\ byKey = EmptyList /\ byValue = EmptyList

(* UpdateSplit, UpdateSplitByKey, UpdateSplitByValue on one more row; a *)
(* NULL is skipped.                                                     *)
Update ==
    /\ Len(rows) < MaxRows
    /\ \E str \in Strings :
        /\ rows' = Append(rows, [null |-> FALSE, raw |-> str])
        /\ split' = WalkSplit(split, str, Delim)
        /\ byKey' = WalkByKey(byKey, str, Delim, KvDelim)
        /\ byValue' = WalkByValue(byValue, str, Delim, KvDelim)

UpdateNull ==
    /\ Len(rows) < MaxRows
    /\ rows' = Append(rows, [null |-> TRUE, raw |-> <<>>])
    /\ UNCHANGED <<split, byKey, byValue>>

Next == Update \/ UpdateNull

Spec == Init /\ [][Next]_vars

-----------------------------------------------------------------------------
OverRows(op(_, _)) ==
    LET some == SelectSeq(rows, LAMBDA r : ~r.null)
    IN  FoldLeft(LAMBDA list, r : op(list, r.raw), EmptyList, some)

(* The walk for delimiters of one character and the split by regular       *)
(* expressions collect the same keys and values, also at the limit.        *)
WalkEqualsRegex ==
    /\ split = OverRows(LAMBDA l, s : RegexSplit(l, s, Delim))
    /\ byKey = OverRows(LAMBDA l, s : RegexNth(l, s, Delim, KvDelim, 1))
    /\ byValue = OverRows(LAMBDA l, s : RegexNth(l, s, Delim, KvDelim, 2))

(* Splitting the rows and joining the parts gives the rows joined, as long *)
(* as the limit was not met.                                               *)
JoinUndoesSplit ==
    LET some == SelectSeq(rows, LAMBDA r : ~r.null)
        whole == [buffer |-> [i \in DOMAIN some |-> some[i].raw], total |-> 0]
        size == FoldLeft(LAMBDA a, r : a + Len(r.raw), 0, some)
    IN  size <= MAXIMUM_STRING_LENGTH =>
            StringJoin(split, Delim) = StringJoin(whole, Delim)
=============================================================================
