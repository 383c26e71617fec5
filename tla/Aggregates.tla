----------------------------- MODULE Aggregates -----------------------------
(***************************************************************************)
(* The aggregates over a window.  A query computes them in two ways:       *)
(* UdfIRBuilder::BuildUdafCall folds one udaf over the rows, and           *)
(* AggregateIRBuilder::BuildMulti computes the plain aggregates of several *)
(* columns in one loop, with one generator for each run of adjacent        *)
(* columns of one type.  LambdafyProjects decides which way is taken.      *)
(*                                                                         *)
(* A value of the generated code is a raw value and a null flag.  The raw  *)
(* value under a set flag is whatever the buffer holds.                    *)
(***************************************************************************)
EXTENDS Integers, Sequences, FiniteSets, SequencesExt, FiniteSetsExt

CONSTANTS
    Half,         \* integers of a column are -Half .. Half - 1
    Layout,       \* the columns: [column -> [type, offset]]
    Selects,      \* the select lists: sequences of <<function, column>>
    RowsOf(_),    \* the rows [column -> cell] fed to a select list
    WhereRows,    \* the rows [elem, cond] fed to the *_where functions
    MaxRows       \* the length of a window

VARIABLES
    select,       \* the select list that is compiled
    window,       \* the rows iterated so far
    udaf,         \* the states of the udafs, one per select item
    gens,         \* the generators of the fused loop
    fused,        \* their states
    whereRows,    \* the rows iterated so far by the *_where functions
    where         \* their states

vars == <<select, window, udaf, gens, fused, whereRows, where>>

Val(x) == [null |-> FALSE, raw |-> x]

(* Integer columns wrap around; floating point numbers are exact here. *)
Wrap(type, x) ==
    IF type = "double" THEN x ELSE ((x + Half) % (2 * Half)) - Half

(* The expressions the udafs are made of: a NULL operand sets the flag and *)
(* the raw values are combined all the same; a NULL condition is false.    *)
Plus(type, x, y) ==
    [null |-> x.null \/ y.null, raw |-> Wrap(type, x.raw + y.raw)]
Less(x, y) == [null |-> x.null \/ y.null, raw |-> x.raw < y.raw]
Cond(c, x, y) == IF c.raw /\ ~c.null THEN x ELSE y
IsNull(x) == Val(x.null)

-----------------------------------------------------------------------------
(* The udafs.  A state is the tuple of its raw values: BuildUdafCall keeps *)
(* the raw value of an update and drops its flag.                          *)

SumUdaf(type, st, x) == <<Cond(IsNull(x), st[1], Plus(type, st[1], x))>>

CountUdaf(type, st, x) == <<Cond(IsNull(x), st[1], Val(st[1].raw + 1))>>

MinUdaf(type, st, x) ==
    <<Cond(IsNull(x), st[1], Val(FALSE)),
      Cond(IsNull(x), st[2], Cond(Less(x, st[2]), x, st[2]))>>

MaxUdaf(type, st, x) ==
    <<Cond(IsNull(x), st[1], Val(FALSE)),
      Cond(IsNull(x), st[2], Cond(Less(st[2], x), x, st[2]))>>

(* The condition selects between whole states, field by field. *)
AvgUdaf(type, st, x) ==
    LET new == <<Val(st[1].raw + 1), Plus("double", st[2], x)>>
    IN  [i \in 1..2 |-> Cond(IsNull(x), st[i], new[i])]

UdafInit(fn) ==
    CASE fn = "sum"   -> <<0>>
      [] fn = "count" -> <<0>>
      [] fn = "min"   -> <<TRUE, Half - 1>>
      [] fn = "max"   -> <<TRUE, -Half>>
      [] fn = "avg"   -> <<0, 0>>

UdafUpdate(fn, type, st, x) ==
    CASE fn = "sum"   -> SumUdaf(type, st, x)
      [] fn = "count" -> CountUdaf(type, st, x)
      [] fn = "min"   -> MinUdaf(type, st, x)
      [] fn = "max"   -> MaxUdaf(type, st, x)
      [] fn = "avg"   -> AvgUdaf(type, st, x)

(* The average is kept as a fraction; 0 / 0 is not a number. *)
UdafOutput(fn, st) ==
    CASE fn \in {"sum", "count"} -> Val(st[1])
      [] fn \in {"min", "max"}   -> [null |-> st[1], raw |-> st[2]]
      [] fn = "avg"              -> Val(<<st[2], st[1]>>)

(* One turn of the loop of BuildUdafCall. *)
UdafStep(update(_, _), st, x) ==
    LET new == update([i \in DOMAIN st |-> Val(st[i])], x)
    IN  [i \in DOMAIN st |-> new[i].raw]

-----------------------------------------------------------------------------
(* The udafs with a condition: a row is [elem, cond]. *)

SumWhere(st, r) ==
    <<Cond(r.cond, Plus("int", st[1], r.elem), st[1])>>

CountWhere(st, r) ==
    <<Cond(r.cond, Cond(IsNull(r.elem), st[1], Val(st[1].raw + 1)), st[1])>>

AvgWhere(st, r) ==
    LET new == <<Cond(IsNull(r.elem), st[1], Val(st[1].raw + 1)),
                 Cond(IsNull(r.elem), st[2], Plus("double", st[2], r.elem))>>
    IN  [i \in 1..2 |-> Cond(r.cond, new[i], st[i])]

MinWhere(st, r) ==
    <<Cond(r.cond, Cond(Less(r.elem, st[1]), r.elem, st[1]), st[1])>>

MaxWhere(st, r) ==
    <<Cond(r.cond, Cond(Less(st[1], r.elem), r.elem, st[1]), st[1])>>

WhereFns == {"sum", "count", "avg", "min", "max"}

WhereInit(fn) == CASE fn = "min" -> <<Half - 1>>
                   [] fn = "max" -> <<-Half>>
                   [] fn = "avg" -> <<0, 0>>
                   [] OTHER      -> <<0>>

WhereUpdate(fn, st, r) == CASE fn = "sum"   -> SumWhere(st, r)
                            [] fn = "count" -> CountWhere(st, r)
                            [] fn = "avg"   -> AvgWhere(st, r)
                            [] fn = "min"   -> MinWhere(st, r)
                            [] fn = "max"   -> MaxWhere(st, r)

-----------------------------------------------------------------------------
(* The fused aggregates. *)

(* LambdafyProjects::FallBackToLegacyAgg and CollectAggColumn: one of the  *)
(* five functions over a plain numeric column.                             *)
CollectAggColumn(item) ==
    /\ item[1] \in {"sum", "min", "max", "count", "avg"}
    /\ Layout[item[2]].type \in {"i16", "i32", "i64", "float", "double"}

AggColumns(sel) ==
    {sel[i][2] : i \in {j \in DOMAIN sel : CollectAggColumn(sel[j])}}

GetTypeByteSize(type) == CASE type = "i16" -> 2
                           [] type \in {"i32", "float"} -> 4
                           [] type \in {"i64", "double"} -> 8
                           [] OTHER -> 0

MaxSeq == 4

ColKeys(sel) ==
    SetToSortSeq(AggColumns(sel),
                 LAMBDA a, b : Layout[a].offset < Layout[b].offset)

(* The column continues the generator under construction. *)
Extends(seq, col) ==
    LET cur == Layout[Last(seq)]
    IN  /\ Len(seq) < MaxSeq
        /\ Layout[col].type = cur.type
        /\ Layout[col].offset - cur.offset = GetTypeByteSize(cur.type)

(* The generators: the columns in order of their offsets, cut into runs. *)
ScheduleAggGenerators(sel) ==
    FoldLeft(LAMBDA res, col :
                IF res # <<>> /\ Extends(Last(res), col)
                THEN Front(res) \o << Append(Last(res), col) >>
                ELSE Append(res, <<col>>),
             <<>>, ColKeys(sel))

(* The functions registered for a column, and whether one of them counts. *)
Registered(sel, col) ==
    {sel[i][1] : i \in {j \in DOMAIN sel : /\ CollectAggColumn(sel[j])
                                           /\ sel[j][2] = col}}
Counts(sel, col) ==
    Registered(sel, col) \cap {"avg", "count", "min", "max"} # {}

GenInitState(gen) ==
    [sum   |-> [i \in DOMAIN gen |-> 0],
     avg   |-> [i \in DOMAIN gen |-> 0],
     min   |-> [i \in DOMAIN gen |-> Half - 1],
     max   |-> [i \in DOMAIN gen |-> -Half],
     count |-> 0]

(* mutant: a NULL enters the sum *)
GenSumUpdateNull(gen, old, cells) ==
    [i \in DOMAIN gen |-> Wrap(Layout[gen[1]].type, old[i] + cells[i].raw)]

GenSumUpdate(gen, old, cells) ==
    [i \in DOMAIN gen |->
        IF cells[i].null THEN old[i]
        ELSE Wrap(Layout[gen[1]].type, old[i] + cells[i].raw)]

GenAvgUpdate(gen, old, cells) ==
    [i \in DOMAIN gen |->
        IF cells[i].null THEN old[i] ELSE old[i] + cells[i].raw]

GenMinUpdate(gen, old, cells) ==
    [i \in DOMAIN gen |->
        IF cells[i].null \/ old[i] < cells[i].raw THEN old[i] ELSE cells[i].raw]

GenMaxUpdate(gen, old, cells) ==
    [i \in DOMAIN gen |->
        IF cells[i].null \/ ~(old[i] < cells[i].raw) THEN old[i]
        ELSE cells[i].raw]

(* The generator has one count, updated once per row from the first column *)
(* with a function that counts.                                            *)
GenCountUpdate(sel, gen, old, cells) ==
    LET counting == {i \in DOMAIN gen : Counts(sel, gen[i])}
    IN  IF counting = {} \/ cells[Min(counting)].null THEN old ELSE old + 1

GenUpdate(sel, gen, st, row) ==
    LET cells == [i \in DOMAIN gen |-> row[gen[i]]]
    IN  [sum   |-> GenSumUpdate(gen, st.sum, cells),
         avg   |-> GenAvgUpdate(gen, st.avg, cells),
         min   |-> GenMinUpdate(gen, st.min, cells),
         max   |-> GenMaxUpdate(gen, st.max, cells),
         count |-> GenCountUpdate(sel, gen, st.count, cells)]

GenOutput(fn, type, st, i) ==
    CASE fn = "sum"   -> Val(st.sum[i])
      [] fn = "count" -> Val(st.count)
      [] fn = "avg"   -> Val(<<IF type = "double" THEN st.sum[i] ELSE st.avg[i],
                               st.count>>)
      [] fn = "min"   -> [null |-> st.count = 0, raw |-> st.min[i]]
      [] fn = "max"   -> [null |-> st.count = 0, raw |-> st.max[i]]

-----------------------------------------------------------------------------
Init ==
    /\ select \in Selects
    /\ window = <<>>
    /\ udaf = [i \in DOMAIN select |-> UdafInit(select[i][1])]
    /\ gens = ScheduleAggGenerators(select)
    /\ fused = [g \in DOMAIN gens |-> GenInitState(gens[g])]
    /\ whereRows = <<>>
    /\ where = [fn \in WhereFns |-> WhereInit(fn)]

(* A turn of the loop of BuildMulti and of the loops of BuildUdafCall, *)
(* which iterate over the same window.                                 *)
Iterate ==
    /\ whereRows = <<>>
    /\ Len(window) < MaxRows
    /\ \E row \in RowsOf(select) :
        /\ window' = Append(window, row)
        /\ udaf' = [i \in DOMAIN select |->
             LET fn == select[i][1]
                 type == Layout[select[i][2]].type
             IN  UdafStep(LAMBDA st, x : UdafUpdate(fn, type, st, x),
                          udaf[i], row[select[i][2]])]
        /\ fused' = [g \in DOMAIN gens |->
                        GenUpdate(select, gens[g], fused[g], row)]
    /\ UNCHANGED <<select, gens, whereRows, where>>

(* The same for a window of the *_where functions. *)
IterateWhere ==
    /\ window = <<>>
    /\ Len(whereRows) < MaxRows
    /\ \E row \in WhereRows :
        /\ whereRows' = Append(whereRows, row)
        /\ where' = [fn \in WhereFns |->
                        UdafStep(LAMBDA st, r : WhereUpdate(fn, st, r),
                                 where[fn], row)]
    /\ UNCHANGED <<select, window, udaf, gens, fused>>

Next == Iterate \/ IterateWhere

Spec == Init /\ [][Next]_vars

-----------------------------------------------------------------------------
(* What the functions are to compute: from the values that are not NULL. *)
Values(cells) ==
    LET some == SelectSeq(cells, LAMBDA c : ~c.null)
    IN  [i \in DOMAIN some |-> some[i].raw]

SumOf(vals) == FoldLeft(LAMBDA a, b : a + b, 0, vals)

Reference(fn, type, vals) ==
    CASE fn = "sum"   -> Val(Wrap(type, SumOf(vals)))
      [] fn = "count" -> Val(Len(vals))
      [] fn = "avg"   -> Val(<<SumOf(vals), Len(vals)>>)
      [] vals = <<>>  -> [null |-> TRUE, raw |-> 0]
      [] fn = "min"   -> Val(Min(ToSet(vals)))
      [] fn = "max"   -> Val(Max(ToSet(vals)))

Same(x, y) == x.null = y.null /\ (x.null \/ x.raw = y.raw)

Column(col) == [i \in DOMAIN window |-> window[i][col]]

ItemReference(i) ==
    Reference(select[i][1], Layout[select[i][2]].type,
              Values(Column(select[i][2])))

(* A udaf folded over a window gives the aggregate of the values that are  *)
(* not NULL, whatever the buffer holds in place of a NULL, and NULL for    *)
(* the minimum and the maximum of no value (SumUdafDef ... AvgUdafDef      *)
(* under BuildUdafCall).                                                   *)
UdafIsAggregate ==
    \A i \in DOMAIN select :
        Same(UdafOutput(select[i][1], udaf[i]), ItemReference(i))

FusedItem(i) ==
    LET g == CHOOSE k \in DOMAIN gens : select[i][2] \in ToSet(gens[k])
        pos == CHOOSE p \in DOMAIN gens[g] : gens[g][p] = select[i][2]
    IN  GenOutput(select[i][1], Layout[gens[g][1]].type, fused[g], pos)

(* The columns of i's generator that count were NULL in the same rows. *)
NullsAgree(i) ==
    LET g == CHOOSE k \in DOMAIN gens : select[i][2] \in ToSet(gens[k])
        counting == {c \in ToSet(gens[g]) : Counts(select, c)}
    IN  \A r \in DOMAIN window : \A c, d \in counting :
            window[r][c].null = window[r][d].null

(* The fused loop gives the same aggregates, if the columns that share a   *)
(* count are NULL in the same rows (StatisticalAggGenerator).              *)
FusedIsAggregate ==
    \A i \in DOMAIN select :
        (select[i][1] = "sum" \/ NullsAgree(i)) => Same(FusedItem(i), ItemReference(i))

WhereOutput(fn) ==
    IF fn = "avg" THEN Val(<<where[fn][2], where[fn][1]>>) ELSE Val(where[fn][1])

Selected == SelectSeq(whereRows, LAMBDA r : r.cond.raw /\ ~r.cond.null)
SelectedValues == Values([i \in DOMAIN Selected |-> Selected[i].elem])

(* A *_where function gives the aggregate of the values that are not NULL  *)
(* in the rows whose condition is true; a NULL condition is not true.      *)
(* sum_where adds what the buffer holds for a NULL it selects, and the     *)
(* minimum and the maximum of nothing are the bounds of the type.          *)
WhereIsAggregate ==
    \A fn \in WhereFns :
        \/ fn = "sum" /\ \E i \in DOMAIN Selected : Selected[i].elem.null
        \/ fn \in {"min", "max"} /\ SelectedValues = <<>>
        \/ Same(WhereOutput(fn), Reference(fn, "int", SelectedValues))
=============================================================================
