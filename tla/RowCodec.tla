------------------------------ MODULE RowCodec ------------------------------
(* The row format: three encoders (RowBuilder and the sdk's RequestRow, the    *)
(* generated code) and four decoders (RowView, the generated code, the column  *)
(* lists of udfs, the sdk's RowIOBufView) that must agree on every byte.       *)
(*                                                                             *)
(* A row is a header, a bitmap of NULLs, the fields of fixed size, a table     *)
(* with the offset of every string, and the strings.  The bytes of an offset   *)
(* depend on the size of the row: 1, 2, 3 or 4 bytes for rows of up to Max1,   *)
(* Max2, Max3 or more bytes (UINT8_MAX, UINT16_MAX, UINT24_MAX in the code).   *)
(* A buffer maps offsets to cells; a cell remembers which write it is from, so *)
(* that a read of bytes of different writes is seen.                           *)
EXTENDS Integers, FiniteSets, Sequences, SequencesExt

CONSTANTS TypeSize,            \* fixed types -> size in bytes
          Max1, Max2, Max3, Max4,
          Schemas,             \* sequences of types
          ValuesOf(_, _),      \* the values a caller appends, by type and column
          MaxStrings           \* bound of the string bytes a caller asks for

VARIABLES schema, builder, given

vars == <<schema, builder, given>>

\* A value is a sequence: one number, or the characters of a string.
Null == <<-100>>
Garbage == <<-101>>
Failed == <<-102>>

HEADER_LENGTH == 6

BitMapSize(n) == (n \div 8) + (IF (n % 8) # 0 THEN 1 ELSE 0)

IsString(t) == t = "string"

\* Index of string column i among the string columns, from 0.
StrIndex(sch, i) == Cardinality({j \in 1..i - 1 : IsString(sch[j])})

StrCount(sch) == StrIndex(sch, Len(sch) + 1)

\* Offset of the first byte behind the fixed fields of the columns before i.
Offset(sch, i) ==
    FoldLeft(LAMBDA off, t : IF IsString(t) THEN off ELSE off + TypeSize[t],
             HEADER_LENGTH + BitMapSize(Len(sch)), SubSeq(sch, 1, i - 1))

\* str_field_start_offset_
StrStart(sch) == Offset(sch, Len(sch) + 1)

GetAddrLength(size) ==
    IF size <= Max1 THEN 1 ELSE IF size <= Max2 THEN 2 ELSE IF size <= Max3 THEN 3 ELSE 4

\* An offset written in n bytes.
Truncate(off, n) == off % ((<<Max1, Max2, Max3, Max4>>[n]) + 1)

----------------------------------------------------------------------------
(* Buffers.  The header, with the size of the row in bytes 2 to 5, is written    *)
(* and the bitmap cleared when a buffer is taken into use.                     *)

NewRow(size) == [size |-> size, nulls |-> {}, over |-> FALSE,
                 buf |-> [i \in 0..size - 1 |-> IF i \in 2..5 THEN <<4, i - 2, size>> ELSE <<0, 0, 0>>]]

Put(row, off, width, v) ==
    [row EXCEPT !.buf = [i \in DOMAIN @ |->
                            IF i \in off..off + width - 1 THEN <<width, i - off, v>> ELSE @[i]],
                !.over = @ \/ off + width > row.size]

PutString(row, off, s) ==
    [row EXCEPT !.buf = [i \in DOMAIN @ |->
                            IF i \in off..off + Len(s) - 1 THEN <<1, 0, s[i - off + 1]>> ELSE @[i]],
                !.over = @ \/ off + Len(s) > row.size]

\* The value, or -1 when the bytes are not those of one write.
Get(row, off, width) ==
    IF /\ off + width <= row.size
       /\ \A i \in 0..width - 1 : row.buf[off + i] = <<width, i, row.buf[off][3]>>
    THEN row.buf[off][3] ELSE -1

GetBytes(row, off, n) ==
    IF off + n <= row.size /\ \A i \in off..off + n - 1 : row.buf[i][1] = 1
    THEN [i \in 1..n |-> row.buf[off + i - 1][3]] ELSE Garbage

----------------------------------------------------------------------------
(* RowBuilder *)

CalTotalLength(sch, strings) ==
    LET base == StrStart(sch) + strings
        n == StrCount(sch)
    IN  IF Len(sch) = 0 THEN 0
        ELSE IF base + n <= Max1 THEN base + n
        ELSE IF base + n * 2 <= Max2 THEN base + n * 2
        ELSE IF base + n * 3 <= Max3 THEN base + n * 3
        ELSE IF base + n * 4 <= Max4 THEN base + n * 4 ELSE 0

CanSetBuffer(sch, size) == size > 0 /\ size >= StrStart(sch) + StrCount(sch)

SetBuffer(sch, size) ==
    [row |-> NewRow(size), cnt |-> 0, addr |-> GetAddrLength(size),
     str |-> StrStart(sch) + GetAddrLength(size) * StrCount(sch)]

\* mutant: the offset of a NULL string is not written
NoNullStringOffset(row, start, addr, index, off) == row

FillNullStringOffset(row, start, addr, index, off) ==
    Put(row, start + addr * index, addr, Truncate(off, addr))

\* Neither this nor the sdk's version checks for the end of the schema: the
\* caller does (cnt < Len(sch)).
AppendNULL(sch, b) ==
    LET i == b.cnt + 1
        marked == [b.row EXCEPT !.nulls = @ \union {i}]
    IN  [b EXCEPT !.cnt = @ + 1,
                  !.row = IF IsString(sch[i])
                          THEN FillNullStringOffset(marked, StrStart(sch), b.addr,
                                                    StrIndex(sch, i), b.str)
                          ELSE marked]

Check(sch, b, t) == b.cnt < Len(sch) /\ sch[b.cnt + 1] = t

\* AppendBool, AppendInt16, ... : one write of the size of the type.
AppendFixed(sch, b, t, v) ==
    IF Check(sch, b, t)
    THEN [b EXCEPT !.cnt = @ + 1,
                   !.row = Put(b.row, Offset(sch, b.cnt + 1), TypeSize[t], v[1])]
    ELSE b

DateOf(year, month, day) == (year - 1900) * 65536 + (month - 1) * 256 + day
Decode(date) == [year |-> 1900 + date \div 65536, month |-> 1 + ((date \div 256) % 256),
                 day |-> date % 256]
ValidDate(d) == d.year \in 1900..9999 /\ d.month \in 1..12 /\ d.day \in 1..31

AppendDate(sch, b, d) ==
    IF ValidDate(d) THEN AppendFixed(sch, b, "date", <<DateOf(d.year, d.month, d.day)>>) ELSE b

AppendString(sch, b, s) ==
    IF Check(sch, b, "string") /\ b.str + Len(s) <= b.row.size
    THEN LET i == b.cnt + 1
             slot == Put(b.row, StrStart(sch) + b.addr * StrIndex(sch, i), b.addr,
                         Truncate(b.str, b.addr))
         IN  [b EXCEPT !.cnt = @ + 1, !.str = @ + Len(s), !.row = PutString(slot, b.str, s)]
    ELSE b

AppendAs(sch, b, t, v) ==
    CASE v = Null       -> AppendNULL(sch, b)
      [] IsString(t)    -> AppendString(sch, b, v)
      [] t = "date"     -> AppendDate(sch, b, Decode(v[1]))
      [] OTHER          -> AppendFixed(sch, b, t, v)

----------------------------------------------------------------------------
(* Decoders *)

\* v1::GetStrFieldUnsafe: next = 0 stands for "no string behind this one".
GetStrFieldUnsafe(row, index, next, start, addr) ==
    LET off == Get(row, start + index * addr, addr)
        end == IF next = 0 THEN Get(row, 2, 4) ELSE Get(row, start + next * addr, addr)
    IN  IF off < 0 \/ end < 0 THEN Garbage
        ELSE IF end < off THEN Failed
        ELSE GetBytes(row, off, end - off)

NextStr(sch, i) == IF StrIndex(sch, i) < StrCount(sch) - 1 THEN StrIndex(sch, i) + 1 ELSE 0

IsNULL(row, i) == i \in row.nulls

\* RowView::Reset, CheckValid and Get*: `size` is what the caller says.
ViewReset(sch, row, size) ==
    Len(sch) > 0 /\ size > HEADER_LENGTH /\ Get(row, 2, 4) = size

GetStringUnsafe(sch, row, i) ==
    GetStrFieldUnsafe(row, StrIndex(sch, i), NextStr(sch, i), StrStart(sch),
                      GetAddrLength(row.size))

GetFixedUnsafe(sch, row, i) == <<Get(row, Offset(sch, i), TypeSize[sch[i]])>>

ViewGet(sch, row, i) ==
    IF ~ViewReset(sch, row, row.size) THEN Failed
    ELSE IF IsNULL(row, i) THEN Null
    ELSE IF IsString(sch[i]) THEN GetStringUnsafe(sch, row, i)
    ELSE GetFixedUnsafe(sch, row, i)

\* RowView::GetInteger: for 4 and 8 byte integers the outcome of GetValue is
\* dropped, NULL is read as 0.
GetInteger(sch, row, i) ==
    IF IsNULL(row, i) THEN IF sch[i] = "int16" THEN Null ELSE <<0>>
    ELSE GetFixedUnsafe(sch, row, i)

\* v1::GetAddrSpace, which the generated code and the column lists use.
GetAddrSpace(size) ==
    IF size <= Max1 THEN 1 ELSE IF size <= Max2 THEN 2 ELSE IF size <= Max3 + 1 THEN 3 ELSE 4

\* RowFormat: next_str_pos_ links a string to the next one, the last to 0.
RowFormat(sch) ==
    [i \in 1..Len(sch) |->
        [offset |-> IF IsString(sch[i]) THEN StrIndex(sch, i) ELSE Offset(sch, i),
         next |-> IF \E j \in i + 1..Len(sch) : IsString(sch[j]) THEN StrIndex(sch, i) + 1 ELSE 0,
         start |-> StrStart(sch)]]

BuildGetField(sch, row, i) ==
    LET info == RowFormat(sch)[i]
    IN  IF IsNULL(row, i) THEN Null
        ELSE IF IsString(sch[i])
             THEN GetStrFieldUnsafe(row, info.offset, info.next, info.start, GetAddrSpace(row.size))
             ELSE <<Get(row, info.offset, TypeSize[sch[i]])>>

\* ColumnImpl and StringColumnImpl: a column of a list of rows, read by a udf.
ColumnGetField(sch, row, i) ==
    LET info == RowFormat(sch)[i]
    IN  IF IsNULL(row, i) THEN Null
        ELSE IF IsString(sch[i])
             THEN GetStrFieldUnsafe(row, info.offset, info.next, info.start, GetAddrSpace(row.size))
             ELSE GetFixedUnsafe(sch, row, i)

\* RowIOBufView, in which the result set of the sdk reads rows; is_valid_ is never
\* asked.
IOBufGetStr(row, index, next, start, addr) ==
    LET off == Get(row, start + index * addr, addr)
        end == IF next = 0 THEN Get(row, 2, 4) ELSE Get(row, start + next * addr, addr)
    IN  IF off < 0 \/ end < off THEN Garbage ELSE GetBytes(row, off, end - off)

IOBufViewGet(sch, row, i) ==
    IF IsNULL(row, i) THEN Null
    ELSE IF IsString(sch[i])
         THEN IOBufGetStr(row, StrIndex(sch, i), NextStr(sch, i), StrStart(sch),
                          GetAddrLength(row.size))
         ELSE GetFixedUnsafe(sch, row, i)

----------------------------------------------------------------------------
(* Generated code: BufNativeEncoderIRBuilder::BuildEncode *)

\* v1::CalcTotalLength: total size and bytes of an offset.
CalcTotalLength(primary, n, strings) ==
    LET base == primary + strings
    IN  IF base + n <= Max1 THEN [size |-> base + n, addr |-> 1]
        ELSE IF base + n * 2 <= Max2 THEN [size |-> base + n * 2, addr |-> 2]
        ELSE IF base + n * 3 <= Max3 + 1 THEN [size |-> base + n * 3, addr |-> 3]
        ELSE [size |-> base + n * 4, addr |-> 4]

CalcTotalSize(sch, vals) ==
    IF StrCount(sch) = 0 THEN [size |-> StrStart(sch), addr |-> 1]
    ELSE CalcTotalLength(StrStart(sch), StrCount(sch),
             FoldLeft(+, 0, [i \in 1..Len(sch) |->
                                IF IsString(sch[i]) /\ vals[i] # Null THEN Len(vals[i]) ELSE 0]))

\* v1::AppendString: e.body is the offset of the next string.
V1AppendString(sch, e, i, v) ==
    LET index == StrIndex(sch, i)
        slot == StrStart(sch) + index * e.addr
    IN  IF v = Null
        THEN [e EXCEPT !.row = FillNullStringOffset([@ EXCEPT !.nulls = @ \union {i}],
                                   StrStart(sch), GetAddrLength(e.row.size), index, e.body)]
        ELSE IF slot + Len(v) > e.row.size THEN [e EXCEPT !.body = -1]
        ELSE [e EXCEPT !.row = PutString(Put(@, slot, e.addr, Truncate(e.body, e.addr)), e.body, v),
                       !.body = @ + Len(v)]

\* A NULL of a fixed type: the bit is set, the field holds any value.
AppendPrimary(sch, row, i, v) ==
    IF v = Null THEN [row EXCEPT !.nulls = @ \union {i}]
    ELSE Put([row EXCEPT !.nulls = @ \ {i}], Offset(sch, i), TypeSize[sch[i]], v[1])

BuildEncode(sch, vals) ==
    LET total == CalcTotalSize(sch, vals)
        start == [row |-> NewRow(total.size), addr |-> total.addr,
                  body |-> StrStart(sch) + StrCount(sch) * total.addr]
        step(e, i) == IF IsString(sch[i]) THEN V1AppendString(sch, e, i, vals[i])
                      ELSE [e EXCEPT !.row = AppendPrimary(sch, @, i, vals[i])]
    IN  FoldLeft(step, start, [i \in 1..Len(sch) |-> i]).row

----------------------------------------------------------------------------
(* RequestRow of the sdk *)

RequestInit(sch, strings) ==
    LET base == StrStart(sch) + strings
        n == StrCount(sch)
        total == IF base + n <= Max1 THEN base + n
                 ELSE IF base + n * 2 <= Max2 THEN base + n * 2
                 ELSE IF base + n * 3 <= Max3 THEN base + n * 3
                 ELSE IF base + n * 4 <= Max4 THEN base + n * 4 ELSE base
    IN  [row |-> NewRow(total), cnt |-> 0, addr |-> GetAddrLength(total),
         str |-> StrStart(sch) + GetAddrLength(total) * n]

\* RequestRow::Build fills the rest with NULLs.
Build(sch, b) == FoldLeft(LAMBDA acc, i : AppendNULL(sch, acc), b, [i \in 1..Len(sch) - b.cnt |-> i])

\* The row of the first n values, the others left out.
Request(sch, vals, n) ==
    LET start == RequestInit(sch, FoldLeft(+, 0, [i \in 1..n |->
                     IF IsString(sch[i]) /\ vals[i] # Null THEN Len(vals[i]) ELSE 0]))
    IN  Build(sch, FoldLeft(LAMBDA b, i : IF IsString(sch[i]) /\ vals[i] # Null
                                           THEN AppendString(sch, b, vals[i])
                                           ELSE IF vals[i] = Null THEN AppendNULL(sch, b)
                                           ELSE AppendFixed(sch, b, sch[i], vals[i]),
                            start, [i \in 1..n |-> i])).row

----------------------------------------------------------------------------
(* RowSelector::Select of columns `indices`; one that does not exist is left out. *)

Selected(sch, indices) == SelectSeq(indices, LAMBDA i : i \in 1..Len(sch))

TargetSchema(sch, indices) ==
    [k \in 1..Len(Selected(sch, indices)) |-> sch[Selected(sch, indices)[k]]]

Select(sch, row, indices) ==
    LET cols == Selected(sch, indices)
        target == TargetSchema(sch, indices)
        strings == FoldLeft(+, 0, [k \in 1..Len(cols) |->
                       IF IsString(sch[cols[k]]) /\ ~IsNULL(row, cols[k])
                       THEN Len(GetStringUnsafe(sch, row, cols[k])) ELSE 0])
        step(b, i) ==
            IF IsNULL(row, i) THEN AppendNULL(target, b)
            ELSE IF IsString(sch[i]) THEN AppendString(target, b, GetStringUnsafe(sch, row, i))
            ELSE IF sch[i] = "date" THEN AppendDate(target, b, Decode(GetFixedUnsafe(sch, row, i)[1]))
            ELSE AppendFixed(target, b, sch[i], GetFixedUnsafe(sch, row, i))
    IN  FoldLeft(step, SetBuffer(target, CalTotalLength(target, strings)), cols).row

----------------------------------------------------------------------------
(* A caller that builds a row: it asks for a buffer, and appends values of the *)
(* schema or of another type, which are refused, and strings that may not fit. *)

\* The buffer the caller has at first: none.
Idle == [row |-> NewRow(0), cnt |-> 0, addr |-> 1, str |-> 0]

Init == schema \in Schemas /\ builder = Idle /\ given = <<>>

Start(strings) ==
    /\ builder.row.size = 0
    /\ CanSetBuffer(schema, CalTotalLength(schema, strings))
    /\ builder' = SetBuffer(schema, CalTotalLength(schema, strings))
    /\ UNCHANGED <<schema, given>>

\* A call of Append* for type t; it may be refused.
AppendValue(t, v) ==
    /\ builder.row.size > 0 /\ builder.cnt < Len(schema)
    /\ v = Null => t = schema[builder.cnt + 1]
    /\ builder' = AppendAs(schema, builder, t, v)
    /\ given' = IF builder'.cnt > builder.cnt THEN Append(given, v) ELSE given
    /\ UNCHANGED schema

Next == \/ \E n \in 0..MaxStrings : Start(n)
        \/ \E t \in DOMAIN TypeSize \union {"string"} : \E v \in ValuesOf(t, builder.cnt + 1) : AppendValue(t, v)

Spec == Init /\ [][Next]_vars

----------------------------------------------------------------------------
(* Properties *)

\* The caller appended all columns and used the string bytes it asked for: the last
\* string ends where the row ends.
Complete == /\ builder.row.size > 0 /\ builder.cnt = Len(schema)
            /\ builder.str = builder.row.size

Reads(row, vals) ==
    \A i \in 1..Len(schema) :
        /\ ViewGet(schema, row, i) = vals[i]
        /\ IOBufViewGet(schema, row, i) = vals[i]
        /\ BuildGetField(schema, row, i) = vals[i]
        /\ ColumnGetField(schema, row, i) = vals[i]
        /\ vals[i] # Null /\ ~IsString(schema[i]) => GetInteger(schema, row, i) = vals[i]

\* A row of RowBuilder, NULLs, empty strings and strings at the limits of the offset
\* sizes included, is read back by every decoder: RowView, the generated code, the
\* column lists and the result set of the sdk.
RowReadsBack == Complete => Reads(builder.row, given)

\* The generated code encodes a row to the size RowBuilder would give it, and every decoder
\* reads it back.  Rows of exactly Max3 + 1 bytes are left out: v1::CalcTotalLength
\* uses 3 bytes for their offsets, GetAddrLength 4.
GeneratedRowReadsBack ==
    Complete => LET row == BuildEncode(schema, given)
                IN  row.size # Max3 + 1 => row.size = builder.row.size /\ Reads(row, given)

\* A request row of the sdk holds the appended values and NULL for the columns that
\* Build fills; a date cannot be appended.
RequestReadsBack ==
    Complete /\ (\A i \in 1..Len(schema) : schema[i] = "date" => given[i] = Null) =>
        \A n \in 0..Len(schema) :
            Reads(Request(schema, given, n), [i \in 1..Len(schema) |-> IF i <= n THEN given[i] ELSE Null])

\* RowSelector::Select of any columns, in any order and repeated, gives a row of
\* just these values.
SelectsColumns ==
    Complete => \A indices \in [1..1 -> 1..Len(schema) + 1] \union [1..2 -> 1..Len(schema) + 1] :
        LET cols == Selected(schema, indices)
            target == TargetSchema(schema, indices)
            row == Select(schema, builder.row, indices)
        IN  \A k \in 1..Len(cols) : ViewGet(target, row, k) = given[cols[k]]

\* No append writes behind the buffer, whatever was asked for and whatever is appended; nor
\* does the generated code.
WritesInside ==
    /\ ~builder.row.over
    /\ Complete => LET row == BuildEncode(schema, given) IN row.size # Max3 + 1 => ~row.over

=============================================================================
