---------------------------- MODULE MCGenerated ----------------------------
(***************************************************************************)
(* Small instances of what is generated for a statement, and of the        *)
(* library it calls.  A behaviour belongs to one part:                     *)
(*   "codec"       rows (RowCodec); sizes at which the offsets of strings  *)
(*                 get wider are all met;                                  *)
(*   "expr"        expressions (ExprCodegen) over columns of every type    *)
(*                 with their least, greatest and small values, NULL with  *)
(*                 two different raw values, literals;                     *)
(*   "let"         functions of select lists (FunctionLet): up to three    *)
(*                 items over two columns;                                 *)
(*   "aggregates"  aggregates, one by one and fused (Aggregates);          *)
(*   "containers"  maps of udafs (UdafContainers);                         *)
(*   "split"       lists of strings (StringSplit).                         *)
(* The parts share the variables x1 to x7.                                 *)
(***************************************************************************)
EXTENDS Integers, Sequences, TLC

CONSTANT Parts

VARIABLES part, x1, x2, x3, x4, x5, x6, x7

Unused == << >>

----------------------------------------------------------------------------
(* RowCodec *)

CodecTypeSize == [bool |-> 1, int16 |-> 2, int32 |-> 4, date |-> 4]

CodecSchemas ==
    {<<"string">>, <<"string", "string">>, <<"int16", "string">>, <<"string", "bool", "string">>,
     <<"string", "date">>, <<"int16", "int32">>, [i \in 1..9 |-> "bool"]}

NoValues(t, i) == {}

\* Its operators without a constant
Rows == INSTANCE RowCodec WITH
           TypeSize <- CodecTypeSize, Schemas <- {}, ValuesOf <- NoValues, Max1 <- 1, Max2 <- 1,
           Max3 <- 1, Max4 <- 1, MaxStrings <- 1, schema <- x1, builder <- x2, given <- x3

\* Strings whose characters name column and position
CodecValues(t, i) ==
    {Rows!Null} \union
    CASE t = "string" -> {[k \in 1..n |-> 10 * i + k] : n \in 0..4}
      [] t = "date"   -> {<<Rows!DateOf(1900, 1, 1)>>, <<Rows!DateOf(2020, 12, 31)>>, <<0>>}
      [] t = "bool"   -> {<<1>>}
      [] OTHER        -> {<<0>>, <<7>>}

Codec == INSTANCE RowCodec WITH
            TypeSize <- CodecTypeSize, Schemas <- CodecSchemas, ValuesOf <- CodecValues,
            Max1 <- 10, Max2 <- 13, Max3 <- 17, Max4 <- 60, MaxStrings <- 8,
            schema <- x1, builder <- x2, given <- x3

----------------------------------------------------------------------------
(* ExprCodegen *)

ExprBits == [i16 |-> 2, i32 |-> 3, i64 |-> 4]

\* Its operators without a constant
Nodes == INSTANCE ExprCodegen WITH
            Bits <- ExprBits, MaxFloat <- 6, Leaves <- {}, CaseConds <- {}, CaseValues <- {},
            MaxWhens <- 0, expr <- x1, code <- x2, sql <- x3, gap <- x4

Sample(t) ==
    CASE t = "bool" -> {0, 1}
      [] t = "i16" -> {-2, -1, 1}
      [] t = "i32" -> {-4, 0, 3}
      [] t = "i64" -> {-8, 2, 7}
      [] t \in {"float", "double"} -> {0, 3}
      [] t = "timestamp" -> {5}
      [] t = "date" -> {7}
      [] t = "string" -> {1, Nodes!Empty, Nodes!Garbage}

Column(t, null, n) ==
    [expr |-> Nodes!Node(t, TRUE), code |-> Nodes!Native(Nodes!Raw(t, n), null),
     sql |-> Nodes!Meaning(null, IF null THEN 0 ELSE n, TRUE)]

Literal(t, n) ==
    [expr |-> Nodes!Node(t, FALSE), code |-> Nodes!Native(Nodes!Raw(t, n), FALSE),
     sql |-> Nodes!Meaning(FALSE, n, TRUE)]

NullLiteral ==
    [expr |-> Nodes!Node("null", TRUE), code |-> Nodes!ConstNull("null"),
     sql |-> Nodes!Meaning(TRUE, 0, TRUE)]

ExprLeaves ==
    {NullLiteral, Literal("bool", 1), Literal("i32", 2)}
    \cup UNION {{Column(t, FALSE, n) : n \in Sample(t)}
                \cup {Column(t, TRUE, n) : n \in IF t = "bool" THEN {0, 1} ELSE {1}} :
                   t \in Nodes!BaseType}

Exprs == INSTANCE ExprCodegen WITH
            Bits <- ExprBits, MaxFloat <- 6, Leaves <- ExprLeaves,
            CaseConds <- {Column("bool", FALSE, 0), Column("bool", FALSE, 1),
                          Column("bool", TRUE, 1), Column("i32", FALSE, 1)},
            CaseValues <- {NullLiteral, Literal("i32", 2), Column("i32", FALSE, 1),
                           Column("i32", TRUE, 1), Column("string", FALSE, 1)},
            MaxWhens <- 2, expr <- x1, code <- x2, sql <- x3, gap <- x4

----------------------------------------------------------------------------
(* FunctionLet.  Item expressions are those of the tests of the passes and *)
(* their nestings.                                                         *)

LetLibrary ==
    LET f(udaf, list, ret) == [udaf |-> udaf, list |-> list, listRet |-> ret]
    IN ("sum" :> f({1}, {1}, FALSE)) @@ ("count" :> f({1}, {1}, FALSE))
       @@ ("avg" :> f({1}, {1}, FALSE)) @@ ("count_where" :> f({2}, {1, 2}, FALSE))
       @@ ("fz_topn_frequency" :> f({2}, {1, 2}, FALSE))
       @@ ("fz_window_split" :> f({2}, {1, 2}, TRUE))
       @@ ("fz_split" :> f({}, {}, TRUE))
       @@ ("lag" :> f({}, {1}, FALSE)) @@ ("abs" :> f({}, {}, FALSE))

\* Its operators without a constant
Tree == INSTANCE FunctionLet WITH
           Columns <- 2, Numeric <- {1}, Library <- LetLibrary, Selects <- {}, MaxWindow <- 2,
           select <- x1, rowProject <- x2, exprOpt <- x3, stage <- x4, body <- x5,
           requireAgg <- x6

One == Tree!Const(1)
A == Tree!Col(1)
B == Tree!Col(2)
Call(f, args) == Tree!Call(f, args)
Op(o, args) == Tree!Op(o, args)
Plus1(e) == Op("+", <<e, One>>)
Sum(e) == Call("sum", <<e>>)
Avg(e) == Call("avg", <<e>>)
Count(e) == Call("count", <<e>>)
FzSplit == Call("fz_split", <<B, Tree!Const(0)>>)
WindowSplit == Call("fz_window_split", <<B, Tree!Const(0)>>)
Lag(e, n) == Call("lag", <<e, n>>)
Above2(e) == Op(">", <<e, Tree!Const(2)>>)

RowItems == {One, A, Op("*", <<A, B>>), Call("abs", <<A>>), Count(FzSplit)}

AggItems ==
    {Sum(A), Avg(B), Count(Tree!All), Sum(Plus1(A)), Avg(Plus1(A)),
     Call("count_where", <<A, Above2(B)>>), Call("fz_topn_frequency", <<B, Tree!Const(3)>>),
     Lag(A, One), Lag(A, Sum(Plus1(A))), Lag(Plus1(A), One),
     Call("script", <<A>>), [Call("script", <<A>>) EXCEPT !.n = 1],
     Op("+", <<Count(A), Call("abs", <<Sum(Plus1(Call("abs", <<Avg(B)>>)))>>)>>),
     Op("+", <<Avg(Plus1(A)), Avg(Plus1(B))>>),
     Avg(Op("-", <<A, Lag(A, Tree!Const(3))>>)), Sum(Count(FzSplit)),
     Call("count_where", <<WindowSplit, Above2(A)>>), Count(WindowSplit), Tree!All}

Items == RowItems \cup AggItems
Item(e, f) == [expr |-> e, frame |-> f]

LetSelects ==
    {<<Item(e, f)>> : e \in Items, f \in {0, 2}}
    \cup {<<Item(e, f), Item(g, 2)>> : e \in Items, g \in AggItems, f \in {1, 2}}
    \cup {<<Item(Avg(Plus1(A)), 2), Item(e, f), Item(Sum(Plus1(B)), 2)>> :
             e \in Items, f \in {1, 2}}

Let == INSTANCE FunctionLet WITH
          Columns <- 2, Numeric <- {1}, Library <- LetLibrary, Selects <- LetSelects,
          MaxWindow <- 2, select <- x1, rowProject <- x2, exprOpt <- x3, stage <- x4, body <- x5,
          requireAgg <- x6

----------------------------------------------------------------------------
(* Aggregates *)

AggLayout ==
    [a |-> [type |-> "i16", offset |-> 7], b |-> [type |-> "i16", offset |-> 9],
     c |-> [type |-> "double", offset |-> 11], d |-> [type |-> "double", offset |-> 27],
     k1 |-> [type |-> "i32", offset |-> 40], k2 |-> [type |-> "i32", offset |-> 44],
     k3 |-> [type |-> "i32", offset |-> 48], k4 |-> [type |-> "i32", offset |-> 52],
     k5 |-> [type |-> "i32", offset |-> 56]]

AggSelects ==
    {<<<<"count", "a">>, <<"sum", "a">>, <<"sum", "b">>, <<"avg", "c">>>>,
     <<<<"min", "a">>, <<"max", "a">>, <<"avg", "b">>, <<"count", "b">>>>,
     <<<<"min", "b">>, <<"sum", "c">>, <<"avg", "c">>, <<"max", "d">>>>,
     <<<<"sum", "k1">>, <<"avg", "k2">>, <<"max", "k3">>, <<"sum", "k4">>, <<"count", "k5">>>>}

Cells == [null : {FALSE}, raw : {-2, 1}] \cup [null : {TRUE}, raw : {-2}]

Cols(sel) == {sel[i][2] : i \in DOMAIN sel}

\* Every combination of cells, but for the list of five columns
AggRowsOf(sel) ==
    IF "k1" \in Cols(sel)
    THEN {[c \in Cols(sel) |-> IF c = hole THEN [null |-> TRUE, raw |-> 1] ELSE x] :
            hole \in Cols(sel), x \in Cells}
    ELSE [Cols(sel) -> Cells]

AggWhereRows == [elem : Cells \cup {[null |-> FALSE, raw |-> 0]},
                 cond : [null : BOOLEAN, raw : BOOLEAN]]

Aggs == INSTANCE Aggregates WITH
           Half <- 2, MaxRows <- 3, Layout <- AggLayout, Selects <- AggSelects,
           RowsOf <- AggRowsOf, WhereRows <- AggWhereRows,
           select <- x1, window <- x2, udaf <- x3, gens <- x4, fused <- x5, whereRows <- x6,
           where <- x7

----------------------------------------------------------------------------
(* UdafContainers and StringSplit *)

Cell(x) == [null |-> FALSE, raw |-> x]
Null(x) == [null |-> TRUE, raw |-> x]

ContainerRows ==
    [key : {Cell(1), Cell(3), Cell(12)}, value : {Cell(-2), Cell(5)}, cond : {Cell(TRUE)}]
    \cup {[key |-> Null(3), value |-> Cell(5), cond |-> Cell(TRUE)],
          [key |-> Cell(3), value |-> Null(5), cond |-> Cell(TRUE)],
          [key |-> Cell(12), value |-> Cell(5), cond |-> Cell(FALSE)],
          [key |-> Cell(1), value |-> Cell(5), cond |-> Null(TRUE)]}

Containers == INSTANCE UdafContainers WITH
                 InputRows <- ContainerRows, Bounds <- {-1, 0, 1, 2}, MaxRows <- 4,
                 MAX_OUTPUT_STR_SIZE <- 11, MAXIMUM_TOPN <- 3,
                 bound <- x1, rows <- x2, topk <- x3, dict <- x4, freq <- x5

Split == INSTANCE StringSplit WITH
            Chars <- {"x", ",", ":"}, Delim <- ",", KvDelim <- ":", MaxLen <- 4, MaxRows <- 2,
            MAXIMUM_STRING_LENGTH <- 5, rows <- x1, split <- x2, byKey <- x3, byValue <- x4

----------------------------------------------------------------------------
MCInit ==
    /\ part \in Parts
    /\ \/ part = "codec" /\ Codec!Init /\ x4 = Unused /\ x5 = Unused /\ x6 = Unused /\ x7 = Unused
       \/ part = "expr" /\ Exprs!Init /\ x5 = Unused /\ x6 = Unused /\ x7 = Unused
       \/ part = "let" /\ Let!Init /\ x7 = Unused
       \/ part = "aggregates" /\ Aggs!Init
       \/ part = "containers" /\ Containers!Init /\ x6 = Unused /\ x7 = Unused
       \/ part = "split" /\ Split!Init /\ x5 = Unused /\ x6 = Unused /\ x7 = Unused

CodecStep      == part = "codec" /\ Codec!Next /\ UNCHANGED <<part, x4, x5, x6, x7>>
ExprStep       == part = "expr" /\ Exprs!Next /\ UNCHANGED <<part, x5, x6, x7>>
LetStep        == part = "let" /\ Let!Next /\ UNCHANGED <<part, x7>>
AggregatesStep == part = "aggregates" /\ Aggs!Next /\ UNCHANGED part
ContainersStep == part = "containers" /\ Containers!Next /\ UNCHANGED <<part, x6, x7>>
SplitStep      == part = "split" /\ Split!Next /\ UNCHANGED <<part, x5, x6, x7>>

MCNext ==
    \/ CodecStep \/ ExprStep \/ LetStep
    \/ AggregatesStep \/ ContainersStep \/ SplitStep

MCSpec == MCInit /\ [][MCNext]_<<part, x1, x2, x3, x4, x5, x6, x7>>

----------------------------------------------------------------------------
(* A row is read back by every decoder (RowView, the generated code, the   *)
(* column lists, the result set of the sdk), whether RowBuilder, the       *)
(* generated encoder or the request row of the sdk wrote it; selected      *)
(* columns keep their values, and no append writes behind the buffer.      *)
RowsReadBack ==
    part = "codec" =>
        /\ Codec!RowReadsBack
        /\ Codec!GeneratedRowReadsBack
        /\ Codec!RequestReadsBack
        /\ Codec!SelectsColumns
        /\ Codec!WritesInside

(* What InferAttr accepts, the expression builders build with the type it  *)
(* inferred; the value at run time is the one of SQL, whatever the bytes   *)
(* under a NULL flag are, and what is inferred not nullable is not NULL.   *)
ExpressionsMeanSql ==
    part = "expr" =>
        /\ Exprs!BuildsWhatIsInferred
        /\ Exprs!ValueIsSql
        /\ Exprs!NullableIsSound

(* After LambdafyProjects, MergeAggregations and ExprSimplifier the        *)
(* compiled function computes for each column what its select item means   *)
(* over its frame, and walks the window of a frame once.                   *)
LetMeansSelectList ==
    part = "let" => Let!LetMeansSelectList /\ Let!OnePassPerFrame

(* The udafs, the fused loop of StatisticalAggGenerator and the _where     *)
(* functions agree with the aggregate of the values that are not NULL, in  *)
(* the cases that the properties of Aggregates name.                       *)
AggregatesAgree ==
    part = "aggregates" =>
        /\ Aggs!UdafIsAggregate
        /\ Aggs!FusedIsAggregate
        /\ Aggs!WhereIsAggregate

(* The bounded containers of the udafs lose no row of a key they keep: top *)
(* gives the largest keys, the _cate functions one complete entry for      *)
(* each key, frequencies are sorted, and the printed text is a prefix.     *)
ContainersComplete ==
    part = "containers" =>
        /\ Containers!TopKIsLargest
        /\ Containers!CateIsGroupBy
        /\ Containers!TopCateIsComplete
        /\ Containers!OutputIsPrefix
        /\ Containers!FrequencyIsSorted

(* fz_window_split and its variants by key and value collect the same      *)
(* parts by walk and by regular expression, up to and at the limit, and    *)
(* joining undoes splitting.                                               *)
SplitsAgree ==
    part = "split" => Split!WalkEqualsRegex /\ Split!JoinUndoesSplit
=============================================================================
