--------------------------- MODULE UdafContainers ---------------------------
(***************************************************************************)
(* The udafs that keep a container across the rows of a window:            *)
(* TopKContainer (top), BoundedGroupByDict (the *_cate, *_cate_where and   *)
(* top_n_key_*_cate_where families, fz_top1_ratio) and the TopNContainer   *)
(* of fz_topn_frequency.  Their std::map is a function from the keys       *)
(* that are present; a string that is printed is the sequence of its       *)
(* entries.                                                                *)
(***************************************************************************)
EXTENDS Integers, Sequences, FiniteSets, SequencesExt, FiniteSetsExt, Functions

CONSTANTS
    InputRows,           \* the rows [key, value, cond], each a nullable cell
    Bounds,              \* the bounds and top_n arguments
    MaxRows,             \* the length of a window
    MAX_OUTPUT_STR_SIZE, \* 4096 in the code
    MAXIMUM_TOPN         \* 1024 in the code

VARIABLES
    bound,               \* the constant argument of the call
    rows,                \* the rows iterated so far
    topk,                \* TopKContainer: [map, elem_cnt, bound]
    dict,                \* per function, the maps of its *_cate, *_cate_where
                         \* and top_n_key_*_cate_where
    freq                 \* the map of fz_top1_ratio and fz_topn_frequency

vars == <<bound, rows, topk, dict, freq>>

Fns == {"sum", "count", "min", "max", "avg"}
Empty == <<>>

Put(map, k, v) == [x \in DOMAIN map \cup {k} |-> IF x = k THEN v ELSE map[x]]
Erase(map, k) == [x \in DOMAIN map \ {k} |-> map[x]]

Ascending(keys) == SetToSortSeq(keys, <)
Descending(keys) == SetToSortSeq(keys, >)

-----------------------------------------------------------------------------
(* TopKContainer::Push of a value: an element beyond the bound costs the *)
(* smallest one.                                                         *)
TopKPush(c, t) ==
    LET map == Put(c.map, t, IF t \in DOMAIN c.map THEN c.map[t] + 1 ELSE 1)
        small == Min(DOMAIN map)
    IN  IF c.elem_cnt + 1 <= c.bound
        THEN [c EXCEPT !.map = map, !.elem_cnt = @ + 1]
        ELSE [c EXCEPT !.map = IF map[small] = 1 THEN Erase(map, small)
                               ELSE [map EXCEPT ![small] = @ - 1]]

(* The bound is taken from the first row, and again while it is not *)
(* positive.                                                        *)
TopKUpdate(c, cell, b) ==
    LET set == IF c.bound <= 0 THEN [c EXCEPT !.bound = b] ELSE c
    IN  IF cell.null THEN set ELSE TopKPush(set, cell.raw)

TopKOutput(c) ==
    FlattenSeq([i \in 1..Cardinality(DOMAIN c.map) |->
        LET k == Descending(DOMAIN c.map)[i] IN [j \in 1..c.map[k] |-> k]])

-----------------------------------------------------------------------------
(* BoundedGroupByDict: what a row adds to the entry of its key. *)

SumCate(map, k, v) == Put(map, k, IF k \in DOMAIN map THEN map[k] + v ELSE v)

CountCate(map, k, v) == Put(map, k, IF k \in DOMAIN map THEN map[k] + 1 ELSE 1)

MinCate(map, k, v) ==
    Put(map, k, IF k \in DOMAIN map /\ ~(v < map[k]) THEN map[k] ELSE v)

MaxCate(map, k, v) ==
    Put(map, k, IF k \in DOMAIN map /\ ~(v > map[k]) THEN map[k] ELSE v)

(* An average is the pair of its count and its sum. *)
AvgCate(map, k, v) ==
    Put(map, k, IF k \in DOMAIN map THEN <<map[k][1] + 1, map[k][2] + v>>
                ELSE <<1, v>>)

CateUpdate(fn, map, row) ==
    IF row.key.null \/ row.value.null THEN map
    ELSE CASE fn = "sum"   -> SumCate(map, row.key.raw, row.value.raw)
           [] fn = "count" -> CountCate(map, row.key.raw, row.value.raw)
           [] fn = "min"   -> MinCate(map, row.key.raw, row.value.raw)
           [] fn = "max"   -> MaxCate(map, row.key.raw, row.value.raw)
           [] fn = "avg"   -> AvgCate(map, row.key.raw, row.value.raw)

CondHolds(row) == row.cond.raw /\ ~row.cond.null

CateWhereUpdate(fn, map, row) ==
    IF CondHolds(row) THEN CateUpdate(fn, map, row) ELSE map

(* mutant: room is made before the row is entered *)
TopCateUpdateEarly(fn, map, row, b) ==
    IF ~CondHolds(row) THEN map
    ELSE CateUpdate(fn, IF b >= 0 /\ Cardinality(DOMAIN map) >= b /\ map # Empty
                        THEN Erase(map, Min(DOMAIN map)) ELSE map, row)

(* top_n_key_*_cate_where: the smallest key goes when there is one too many. *)
TopCateUpdate(fn, map, row, b) ==
    LET new == CateUpdate(fn, map, row)
    IN  IF ~CondHolds(row) THEN map
        ELSE IF b >= 0 /\ Cardinality(DOMAIN new) > b
        THEN Erase(new, Min(DOMAIN new)) ELSE new

(* The three functions of a category file on one more row *)
ByCategory(fn, d, row, b) ==
    [cate |-> CateUpdate(fn, d.cate, row),
     where |-> CateWhereUpdate(fn, d.where, row),
     top |-> TopCateUpdate(fn, d.top, row, b)]

SumByCategory(d, row, b) == ByCategory("sum", d, row, b)
CountByCategory(d, row, b) == ByCategory("count", d, row, b)
MinByCategory(d, row, b) == ByCategory("min", d, row, b)
MaxByCategory(d, row, b) == ByCategory("max", d, row, b)
AvgByCategory(d, row, b) == ByCategory("avg", d, row, b)

(* The length of a printed number; an average is longer. *)
NumLen(x) == IF x \in 0..9 THEN 1 ELSE 2
AvgLen == 3

EntryLen(fn, map, k) ==
    NumLen(k) + (IF fn = "avg" THEN AvgLen ELSE NumLen(map[k])) + 2

(* BoundedGroupByDict::OutputString: entries are printed as long as they   *)
(* fit.  If not even the first one fits, the length 0 is decremented and   *)
(* the result is not a string: printed = -1.                               *)
OutputString(fn, map, keys) ==
    LET len[i \in 0..Len(keys)] ==
            IF i = 0 THEN 0 ELSE len[i - 1] + EntryLen(fn, map, keys[i])
        fits == {i \in 0..Len(keys) : len[i] <= MAX_OUTPUT_STR_SIZE}
    IN  IF keys # <<>> /\ Max(fits) = 0
        THEN [printed |-> -1, entries |-> <<>>]
        ELSE [printed |-> IF keys = <<>> THEN 0 ELSE len[Max(fits)] - 1,
              entries |-> [i \in 1..Max(fits) |-> <<keys[i], map[keys[i]]>>]]

-----------------------------------------------------------------------------
(* FZTop1Ratio, FZTopNFrequency: the number of rows of each key. *)
FrequencyUpdate(map, cell) ==
    IF cell.null THEN map ELSE CountCate(map, cell.raw, 1)

(* The ratio as a fraction, 0 / 1 for no key. *)
Top1Ratio(map) ==
    IF map = Empty THEN <<0, 1>>
    ELSE <<Max(Range(map)), FoldFunction(+, 0, map)>>

(* The order of the priority queue. *)
MoreFrequent(map, j, k) ==
    map[j] > map[k] \/ (map[j] = map[k] /\ j < k)

(* top_n_ is set with every row and 0 before; a negative argument becomes *)
(* a huge size_t.                                                         *)
TopNFrequency(map, n) ==
    LET top == IF rows = <<>> THEN 0
               ELSE IF n \in 0..MAXIMUM_TOPN THEN n ELSE MAXIMUM_TOPN
        keys == SetToSortSeq(DOMAIN map, LAMBDA j, k : MoreFrequent(map, j, k))
    IN  [i \in 1..top |-> IF i <= Len(keys) THEN [null |-> FALSE, raw |-> keys[i]]
                          ELSE [null |-> TRUE, raw |-> 0]]

-----------------------------------------------------------------------------
Init ==
    /\ bound \in Bounds
    /\ rows = <<>>
    /\ topk = [map |-> Empty, elem_cnt |-> 0, bound |-> -1]
    /\ dict = [fn \in Fns |-> [cate |-> Empty, where |-> Empty, top |-> Empty]]
    /\ freq = Empty

(* The update functions of all udafs on one more row. *)
Update ==
    /\ Len(rows) < MaxRows
    /\ \E row \in InputRows :
        /\ rows' = Append(rows, row)
        /\ topk' = TopKUpdate(topk, row.key, bound)
        /\ dict' = [sum |-> SumByCategory(dict.sum, row, bound),
                    count |-> CountByCategory(dict.count, row, bound),
                    min |-> MinByCategory(dict.min, row, bound),
                    max |-> MaxByCategory(dict.max, row, bound),
                    avg |-> AvgByCategory(dict.avg, row, bound)]
        /\ freq' = FrequencyUpdate(freq, row.key)
    /\ UNCHANGED bound

Next == Update

Spec == Init /\ [][Next]_vars

-----------------------------------------------------------------------------
Keys(rs) == {rs[i].key.raw : i \in {j \in DOMAIN rs : ~rs[j].key.null}}

Largest(n, keys) == {k \in keys : Cardinality({j \in keys : j > k}) < n}

(* top(key, n) gives the n largest keys of the window, as often as they    *)
(* occur, from the largest to the smallest (TopKContainer).                *)
TopKIsLargest ==
    bound > 0 =>
        LET some == SelectSeq(rows, LAMBDA r : ~r.key.null)
            sorted == SortSeq([i \in DOMAIN some |-> some[i].key.raw], >)
        IN  TopKOutput(topk) =
                SubSeq(sorted, 1, IF bound < Len(sorted) THEN bound ELSE Len(sorted))

(* The aggregate of the values of one key. *)
OfKey(fn, rs, k) ==
    LET mine == SelectSeq(rs, LAMBDA r : ~r.key.null /\ ~r.value.null /\ r.key.raw = k)
        vals == [i \in DOMAIN mine |-> mine[i].value.raw]
        sum == FoldLeft(LAMBDA a, b : a + b, 0, vals)
    IN  CASE fn = "sum"   -> sum
          [] fn = "count" -> Len(vals)
          [] fn = "min"   -> Min(ToSet(vals))
          [] fn = "max"   -> Max(ToSet(vals))
          [] fn = "avg"   -> <<Len(vals), sum>>

KeysWithValue(rs) == Keys(SelectSeq(rs, LAMBDA r : ~r.value.null))

(* A *_cate function has one entry for each key with a value, and in it    *)
(* the aggregate of all values of the key; *_cate_where the same for the   *)
(* rows whose condition is true.                                           *)
CateIsGroupBy ==
    LET held == SelectSeq(rows, CondHolds)
    IN  \A fn \in Fns :
            /\ dict[fn].cate = [k \in KeysWithValue(rows) |-> OfKey(fn, rows, k)]
            /\ dict[fn].where = [k \in KeysWithValue(held) |-> OfKey(fn, held, k)]

(* top_n_key_*_cate_where gives the n largest keys with the aggregates of  *)
(* all their rows: a key that was dropped to make room never comes back    *)
(* with a part of its rows.  A negative bound keeps all keys.              *)
TopCateIsComplete ==
    LET held == SelectSeq(rows, CondHolds)
        all == KeysWithValue(held)
        kept == IF bound >= 0 THEN Largest(bound, all) ELSE all
    IN  \A fn \in Fns : dict[fn].top = [k \in kept |-> OfKey(fn, held, k)]

(* The printed dictionary is a prefix of its entries, fits into the        *)
(* maximum with its separators, and stops only where the next entry would  *)
(* not fit, provided that the first entry fits (OutputString).             *)
OutputIsPrefix ==
    \A fn \in Fns :
        LET map == dict[fn].top
            keys == Descending(DOMAIN map)
            out == OutputString(fn, map, keys)
            n == Len(out.entries)
            size(i) == NumLen(keys[i]) + 2 +
                    (IF fn = "avg" THEN AvgLen ELSE NumLen(map[keys[i]]))
            total == FoldLeft(LAMBDA a, i : a + size(i), 0, [i \in 1..n |-> i])
        IN  out.printed >= 0 =>
                /\ \A i \in 1..n : out.entries[i] = <<keys[i], map[keys[i]]>>
                /\ total <= MAX_OUTPUT_STR_SIZE
                /\ n < Len(keys) => total + size(n + 1) > MAX_OUTPUT_STR_SIZE

Occurrences(k) == Cardinality({i \in DOMAIN rows : ~rows[i].key.null /\ rows[i].key.raw = k})

(* fz_topn_frequency lists the keys by decreasing frequency, smaller keys  *)
(* first among equals, filled up with NULL; fz_top1_ratio is the share of  *)
(* the first of them.                                                      *)
FrequencyIsSorted ==
    LET out == TopNFrequency(freq, bound)
        some == {i \in DOMAIN out : ~out[i].null}
    IN  /\ \A i, j \in some : i < j =>
            \/ Occurrences(out[i].raw) > Occurrences(out[j].raw)
            \/ /\ Occurrences(out[i].raw) = Occurrences(out[j].raw)
               /\ out[i].raw < out[j].raw
        /\ \A i \in some : \A k \in Keys(rows) \ {out[j].raw : j \in some} :
               Occurrences(k) <= Occurrences(out[i].raw)
        /\ \A i \in DOMAIN out : out[i].null => i > Cardinality(Keys(rows))
        /\ some # {} => Top1Ratio(freq)[1] = Occurrences(out[1].raw)
=============================================================================
