---------------------------- MODULE FunctionLet ----------------------------
(***************************************************************************)
(* How a select list becomes the function that is compiled for it:         *)
(* PhysicalPlanContext::InitFnDef turns the expressions into one lambda of *)
(* a row and a window (LambdafyProjects), resolves the functions           *)
(* (ResolveFnAndAttrs), merges the aggregations of a frame into one pass   *)
(* over the window (WindowIterAnalysis, MergeAggregations) and simplifies  *)
(* the result (ExprSimplifier).  RowFnLetIRBuilder then computes every     *)
(* column over its own frame.                                              *)
(*                                                                         *)
(* An expression is a tree of nodes [k, v, n, p, a, d]: kind, name, number,*)
(* identity, children and, for a call, the definition of the function.     *)
(* Children are what GetChild reaches, the definition is not.  Values are  *)
(* terms: what a function computes from its arguments is left open, so     *)
(* that two expressions have the same value only if they apply the same    *)
(* functions to the same cells in the same order.                          *)
(***************************************************************************)
EXTENDS Integers, Sequences, FiniteSets, SequencesExt, FiniteSetsExt, TLC

CONSTANTS
    Columns,     \* the columns of the input, 1 .. Columns
    Numeric,     \* those of a numeric type
    Library,     \* [function -> [udaf, list, listRet]]: is it a udaf, which
                 \* positions take a list, does it return a list
    Selects,     \* select lists: sequences of [expr, frame]
    MaxWindow    \* the rows of a window

VARIABLES
    select,      \* the select list
    rowProject,  \* it is projected from single rows
    exprOpt,     \* EngineOptions::enable_expr_optimize
    stage,       \* what InitFnDef has done so far
    body,        \* the expressions of the lambda
    requireAgg   \* LambdafyProjects' flags

vars == <<select, rowProject, exprOpt, stage, body, requireAgg>>

None == [ext |-> "", params |-> <<>>, body |-> <<>>]
Node(k, v, n, p, a, d) ==
    [k |-> k, v |-> v, n |-> n, p |-> p, a |-> a, d |-> d]
Col(c) == Node("col", "", c, <<>>, <<>>, None)
Const(n) == Node("const", "", n, <<>>, <<>>, None)
All == Node("all", "", 0, <<>>, <<>>, None)
Op(f, a) == Node("op", f, 0, <<>>, a, None)
Call(f, a) == Node("call", f, 0, <<>>, a, None)
Id(v, p) == Node("id", v, 0, p, <<>>, None)
GetField(e, n) == Node("field", "", n, <<>>, <<e>>, None)
MakeTuple(a) == Node("tuple", "make_tuple", 0, <<>>, a, None)

Lambda(params, e) == [ext |-> "", params |-> params, body |-> e]
External(f) == [ext |-> f, params |-> <<>>, body |-> <<>>]

(* NodeManager::MakeFuncNode for a lambda or an external function *)
MakeFuncNode(fn, a) ==
    IF fn.ext # "" THEN Op(fn.ext, a)
    ELSE Node("apply", "", 0, <<>>, a, fn)

(* A sequence whose elements are computed once *)
Strict(s) == s \o <<>>

Row == Id("row", <<>>)
Window == Id("window", <<>>)

-----------------------------------------------------------------------------
(* The udf library. *)

IsUdaf(f, args) == f \in DOMAIN Library /\ args \in Library[f].udaf
RequireListAt(f, i) == f \in DOMAIN Library /\ i \in Library[f].list
IsListReturn(e) ==
    \/ e.k = "col"
    \/ e.k \in {"call", "op", "udaf"} /\ e.v \in DOMAIN Library /\ Library[e.v].listRet

(* UdafRegistry::ResolveFunction.  The functions of a udaf are lambdas     *)
(* over expressions (sum, avg, count_where) or external; the state of      *)
(* avg is a tuple, the others have one component.                          *)
Udaf(f, p) ==
    LET s == Id("state", p)
        x(i) == Id("elem_" \o ToString(i), p)
        Of(init, upd, out, size) ==
            [name |-> f, init |-> init, upd |-> upd, out |-> out, size |-> size]
    IN CASE f = "sum" ->
              Of(Const(0), Lambda(<<s, x(0)>>, Op("add", <<s, x(0)>>)),
                 External("identity"), 1)
         [] f = "count" ->
              Of(Const(0), Lambda(<<s, x(0)>>, Op("inc", <<s, x(0)>>)),
                 External("identity"), 1)
         [] f = "count_where" ->
              Of(Const(0), Lambda(<<s, x(0), x(1)>>,
                                  Op("cond", <<x(1), Op("inc", <<s, x(0)>>), s>>)),
                 External("identity"), 1)
         [] f = "avg" ->
              Of(MakeTuple(<<Const(0), Const(0)>>),
                 Lambda(<<s, x(0)>>,
                        MakeTuple(<<Op("inc", <<GetField(s, 1), x(0)>>),
                                    Op("add", <<GetField(s, 2), x(0)>>)>>)),
                 Lambda(<<s>>, Op("div", <<GetField(s, 2), GetField(s, 1)>>)), 2)
         [] OTHER ->
              Of(Op(f \o "_init", <<>>), External(f \o "_update"),
                 External(f \o "_output"), 1)

-----------------------------------------------------------------------------
(* LambdafyProjects.  A visit returns the new expression and whether it    *)
(* has an aggregation.  p names the position of e, by which the variables  *)
(* made here are told apart.                                               *)

RECURSIVE VisitExpr(_, _, _)

Failed == [ok |-> FALSE, out |-> Const(0), agg |-> FALSE]
Visited(e, agg) == [ok |-> TRUE, out |-> e, agg |-> agg]

VisitLeafExpr(e, row) ==
    IF e.k = "col" THEN GetField(row, e.n) ELSE e

(* ResolveFnAndAttrs::VisitOneStep of a call *)
ResolveCall(e, p) ==
    CASE e.k # "call" -> e
      [] IsUdaf(e.v, Len(e.a)) -> Node("udaf", e.v, 0, p, e.a, Udaf(e.v, p))
      [] e.v \in DOMAIN Library -> Op(e.v, e.a)
      [] OTHER -> e

RECURSIVE Resolve(_, _)
Resolve(e, p) ==
    ResolveCall([e EXCEPT !.a = Strict([i \in DOMAIN e.a |-> Resolve(e.a[i], Append(p, i))])], p)

RequireIter(e, i) == RequireListAt(e.v, i) /\ e.a[i].k # "const"
RequireWindowIter(e, i) ==
    RequireIter(e, i) /\ ~(IsListReturn(e.a[i]) /\ e.a[i].k # "col")

ChildRow(e, i, p, row) ==
    IF RequireWindowIter(e, i) THEN Id("iter_row", p) ELSE row

VisitAggExpr(e, p, row) ==
    LET n == Len(e.a)
        sub == Strict([i \in 1..n |->
                 VisitExpr(e.a[i], Append(p, i), ChildRow(e, i, p, row))])
        child == Strict([i \in 1..n |-> Resolve(sub[i].out, Append(p, i))])
        iterArg(i) == Id("iter_arg_" \o ToString(i - 1), p)
        windowIter == \E i \in 1..n : RequireWindowIter(e, i)
        listArgs == SelectSeq([i \in 1..n |-> i],
                        LAMBDA i : RequireIter(e, i) /\ ~RequireWindowIter(e, i))
        state == Id("state", Append(p, 0))
        fn == Udaf(e.v, p)
        actual == <<state>> \o [i \in 1..n |->
            IF RequireIter(e, i) /\ ~RequireWindowIter(e, i) THEN iterArg(i) ELSE child[i]]
        proxy == <<state>> \o (IF windowIter THEN <<Id("iter_row", p)>> ELSE <<>>)
                           \o [j \in DOMAIN listArgs |-> iterArg(listArgs[j])]
        args == (IF windowIter THEN <<Window>> ELSE <<>>)
                    \o [j \in DOMAIN listArgs |-> child[listArgs[j]]]
    IN IF \/ \E i \in 1..n : ~sub[i].ok
          \/ \E j \in DOMAIN listArgs : ~IsListReturn(child[listArgs[j]])
       THEN Failed
       ELSE Visited(Node("udaf", e.v, 0, p, args,
                         [fn EXCEPT !.upd = Lambda(proxy, MakeFuncNode(fn.upd, actual))]),
                    windowIter)

(* What stands at a position that takes a list stays a column or must      *)
(* itself return a list.                                                   *)
VisitChildren(e, p, row) ==
    LET keep(i) == e.k = "call" /\ RequireListAt(e.v, i) /\ e.a[i].k = "col"
        lift(i) == e.k = "call" /\ RequireListAt(e.v, i) /\ ~IsListReturn(e.a[i])
        sub == Strict([i \in DOMAIN e.a |->
                  CASE keep(i) -> Visited(e.a[i], TRUE)
                    [] lift(i) -> Failed
                    [] OTHER -> VisitExpr(e.a[i], Append(p, i), row)])
    IN IF \E i \in DOMAIN e.a : ~sub[i].ok THEN Failed
       ELSE Visited([e EXCEPT !.a = [i \in DOMAIN e.a |-> sub[i].out]],
                    \E i \in DOMAIN e.a : sub[i].agg)

VisitExpr(e, p, row) ==
    CASE e.k = "call" /\ e.v \notin DOMAIN Library /\ e.n = 1 -> Visited(e, FALSE)
      [] e.k = "call" /\ IsUdaf(e.v, Len(e.a)) -> VisitAggExpr(e, p, row)
      [] e.k = "all" -> Visited(row, FALSE)
      [] e.a = <<>> -> Visited(VisitLeafExpr(e, row), FALSE)
      [] OTHER -> VisitChildren(e, p, row)

FallBackToLegacyAgg(e) ==
    /\ e.k = "call" /\ e.v \in {"sum", "min", "max", "count", "avg"}
    /\ Len(e.a) = 1 /\ e.a[1].k = "col" /\ e.a[1].n \in Numeric

(* The columns of one item of the select list: * gives all of them *)
Transform(e, i) ==
    IF e.k = "all" THEN [c \in 1..Columns |-> Visited(GetField(Row, c), FALSE)]
    ELSE IF FallBackToLegacyAgg(e) THEN <<Visited(e, TRUE)>>
    ELSE <<VisitExpr(e, <<i>>, Row)>>

-----------------------------------------------------------------------------
(* WindowIterAnalysis: how many passes over the window, one inside the     *)
(* other, a value needs, and whether it is an element of such a pass.      *)

RECURSIVE Rank(_, _)

NoRank == [rank |-> 0, iter |-> FALSE]
MaxRank(rs) == Max({0} \cup {rs[i].rank : i \in DOMAIN rs})
Key(e) == <<e.k, e.v, e.p>>
Bind(params, args, env) ==
    FoldLeft(LAMBDA acc, i : (Key(params[i]) :> args[i]) @@ acc, env,
             [i \in DOMAIN params |-> i])

VisitLambdaCall(fn, ranks, env) == Rank(fn.body, Bind(fn.params, ranks, env))

VisitUdaf(fn, env) ==
    IF fn.upd.ext # "" THEN NoRank
    ELSE VisitLambdaCall(fn.upd, [i \in DOMAIN fn.upd.params |-> NoRank], env)

UdafRank(update, args) ==
    LET iter == \E i \in DOMAIN args : args[i].iter
        own == IF iter /\ update.rank > 0 THEN update.rank + 1 ELSE update.rank
        arg(r) == IF ~iter \/ r.iter \/ r.rank = 0 THEN r.rank ELSE r.rank + 1
    IN [rank |-> Max({own} \cup {arg(args[i]) : i \in DOMAIN args}), iter |-> FALSE]

Rank(e, env) ==
    LET args == Strict([i \in DOMAIN e.a |-> Rank(e.a[i], env)])
    IN CASE e.k = "id" -> IF Key(e) \in DOMAIN env THEN env[Key(e)] ELSE NoRank
         [] e.k = "col" -> [rank |-> 1, iter |-> TRUE]
         [] e.k = "udaf" -> UdafRank(VisitUdaf(e.d, env), args)
         [] e.k = "apply" -> VisitLambdaCall(e.d, args, env)
         [] OTHER -> [rank |-> MaxRank(args), iter |-> FALSE]

(* VisitFunctionLet: the window is the list of the first pass *)
TopRank(e) == Rank(e, Bind(<<Window>>, <<[rank |-> 1, iter |-> TRUE]>>, <<>>))

-----------------------------------------------------------------------------
(* MergeAggregations *)

(* No udaf of the default library has a merge function. *)
WindowArgs(e) ==
    /\ Cardinality({i \in DOMAIN e.a : e.a[i].k = "id"}) = 1
    /\ \A i \in DOMAIN e.a :
         IF e.a[i].k = "id" THEN Key(e.a[i]) = Key(Window) ELSE ~IsListReturn(e.a[i])

IsCandidate(e) ==
    e.k = "udaf" /\ TopRank(e) = [rank |-> 1, iter |-> FALSE] /\ WindowArgs(e)

RECURSIVE CollectUdafCalls(_)
CollectUdafCalls(e) ==
    IF IsCandidate(e) THEN <<e>>
    ELSE FlattenSeq([i \in DOMAIN e.a |-> CollectUdafCalls(e.a[i])])

(* ExprReplacer: replaces variables and nodes among the children; the      *)
(* definition of a called function is not searched.                        *)
RECURSIVE Replace(_, _)
Replace(e, repl) ==
    IF Key(e) \in DOMAIN repl THEN repl[Key(e)]
    ELSE [e EXCEPT !.a = Strict([i \in DOMAIN e.a |-> Replace(e.a[i], repl)])]

ApplyArgs(fn, args) ==
    IF fn.ext # "" THEN MakeFuncNode(fn, args)
    ELSE Replace(fn.body, Bind(fn.params, args, <<>>))

(* mutant: one component per udaf *)
StateBeginOne(calls, i) == i - 1

(* the components of the merged state before those of call i *)
StateBegin(calls, i) == SumFunction([j \in 1..(i - 1) |-> calls[j].d.size])

StateOf(calls, i, state) ==
    LET fields == [j \in 1..calls[i].d.size |-> GetField(state, StateBegin(calls, i) + j)]
    IN IF calls[i].d.size > 1 THEN MakeTuple(fields) ELSE fields[1]
Components(call, e) ==
    IF call.d.size > 1 THEN [j \in 1..call.d.size |-> GetField(e, j)] ELSE <<e>>

(* The calls share the position of the window, the second argument of      *)
(* the merged update.  Other arguments of a call would follow; a candidate *)
(* made by LambdafyProjects has none.                                      *)
MergeUdafCalls(calls) ==
    LET state == Id("merged_state", calls[1].p)
        final == Id("merged_state", Append(calls[1].p, 0))
        row == Id("merged_row", calls[1].p)
        n == Len(calls)
        update(i) == ApplyArgs(calls[i].d.upd, <<StateOf(calls, i, state), row>>)
    IN Node("udaf", "merged_window_agg", 0, <<0>> \o calls[1].p, <<Window>>,
         [name |-> "merged_window_agg",
          init |-> MakeTuple(FlattenSeq([i \in 1..n |-> Components(calls[i], calls[i].d.init)])),
          upd |-> Lambda(<<state, row>>,
                    MakeTuple(FlattenSeq([i \in 1..n |-> Components(calls[i], update(i))]))),
          out |-> Lambda(<<final>>,
                    MakeTuple([i \in 1..n |->
                        ApplyArgs(calls[i].d.out, <<StateOf(calls, i, final)>>)])),
          size |-> StateBegin(calls, n + 1)])

MergeAggregations(exprs) ==
    LET calls == FlattenSeq([i \in DOMAIN exprs |-> CollectUdafCalls(exprs[i])])
        merged == MergeUdafCalls(calls)
        repl == Bind(calls, Strict([i \in DOMAIN calls |-> GetField(merged, i)]), <<>>)
    IN IF Len(calls) < 2 THEN exprs
       ELSE [i \in DOMAIN exprs |-> Replace(exprs[i], repl)]

-----------------------------------------------------------------------------
(* ExprSimplifier: a field of a tuple is its component, a lambda that is   *)
(* called is its body.                                                     *)

RECURSIVE Simplify(_)

VisitGetField(e) ==
    IF e.a[1].k = "tuple" /\ e.n <= Len(e.a[1].a) THEN e.a[1].a[e.n] ELSE e

VisitFnDef(fn) ==
    IF fn.ext # "" THEN fn ELSE [fn EXCEPT !.body = Simplify(fn.body)]

VisitUdafDef(d) ==
    [d EXCEPT !.init = Simplify(d.init), !.upd = VisitFnDef(d.upd), !.out = VisitFnDef(d.out)]

VisitCall(e) ==
    IF Len(e.d.params) = Len(e.a) THEN Simplify(ApplyArgs(VisitFnDef(e.d), e.a)) ELSE e

Simplify(e) ==
    LET x == [e EXCEPT !.a = Strict([i \in DOMAIN e.a |-> Simplify(e.a[i])])]
    IN CASE e.k = "field" -> VisitGetField(x)
         [] e.k = "apply" -> VisitCall(x)
         [] e.k = "udaf" -> [x EXCEPT !.d = VisitUdafDef(x.d)]
         [] OTHER -> x

(* OptimizeFunctionLet: the passes run over the columns of one frame *)
OptimizeFunctionLet(exprs) ==
    LET of(f) == SelectSeq([i \in DOMAIN exprs |-> i], LAMBDA i : select[i].frame = f)
        group == [f \in {select[i].frame : i \in DOMAIN exprs} |->
                    LET m == MergeAggregations([j \in DOMAIN of(f) |-> exprs[of(f)[j]]])
                    IN Strict([j \in DOMAIN m |-> Simplify(m[j])])]
        place(i) == Cardinality({j \in 1..i : select[j].frame = select[i].frame})
    IN [i \in DOMAIN exprs |-> group[select[i].frame][place(i)]]

-----------------------------------------------------------------------------
(* What the compiled function computes.  A value is a term <<f, n, args>>. *)

T(f, n, s) == <<f, n, s>>
RowTerm(i) == T("row", i, <<>>)
List(s) == T("list", 0, s)
SplitParts(t) == <<T("part", 1, <<t>>), T("part", 2, <<t>>)>>

(* the functions whose result matters: lists are walked by others *)
External_(f, args) ==
    CASE f = "fz_split" -> List(SplitParts(args[1]))
      [] f = "fz_window_split_init" -> List(<<>>)
      [] f = "fz_window_split_update" -> List(args[1][3] \o SplitParts(args[2]))
      [] f \in {"identity", "fz_window_split_output"} -> args[1]
      [] OTHER -> T(f, 0, args)

(* BuildUdafCall: the lists are walked in step until one ends *)
Elements(lists) ==
    LET len == Min({Len(lists[i][3]) : i \in DOMAIN lists})
    IN Strict([j \in 1..len |-> Strict([i \in DOMAIN lists |-> lists[i][3][j]])])

RECURSIVE Eval(_, _, _)
CallFn(fn, args, env, w) ==
    IF fn.ext # "" THEN External_(fn.ext, args)
    ELSE Eval(fn.body, Bind(fn.params, args, env), w)

Eval(e, env, w) ==
    LET args == Strict([i \in DOMAIN e.a |-> Eval(e.a[i], env, w)])
    IN CASE e.k = "const" -> T("const", e.n, <<>>)
         [] e.k = "col" -> List([i \in DOMAIN w |-> T("get", e.n, <<w[i]>>)])
         [] e.k = "id" -> env[Key(e)]
         [] e.k = "field" -> IF args[1][1] = "tuple" THEN args[1][3][e.n]
                             ELSE T("get", e.n, args)
         [] e.k = "tuple" -> T("tuple", 0, args)
         [] e.k = "apply" -> CallFn(e.d, args, env, w)
         [] e.k = "udaf" ->
              CallFn(e.d.out,
                     <<FoldLeft(LAMBDA s, x : CallFn(e.d.upd, <<s>> \o x, env, w),
                                Eval(e.d.init, env, w), Elements(args))>>, env, w)
         [] OTHER -> External_(e.v, args)

-----------------------------------------------------------------------------
(* PhysicalPlanContext::InitFnDef *)

Init ==
    /\ select \in Selects
    /\ rowProject \in BOOLEAN
    /\ exprOpt \in BOOLEAN
    /\ stage = "select"
    /\ body = <<>> /\ requireAgg = <<>>

HasAgg == \E i \in DOMAIN requireAgg : requireAgg[i]

Lambdafy ==
    LET cols == FlattenSeq([i \in DOMAIN select |-> Transform(select[i].expr, i)])
        agg == \E i \in DOMAIN cols : cols[i].agg
    IN /\ stage = "select"
       /\ IF (\E i \in DOMAIN cols : ~cols[i].ok) \/ (agg /\ rowProject)
          THEN stage' = "failed" /\ UNCHANGED <<body, requireAgg>>
          ELSE /\ stage' = "lambda"
               /\ body' = [i \in DOMAIN cols |-> cols[i].out]
               /\ requireAgg' = [i \in DOMAIN cols |-> cols[i].agg]
       /\ UNCHANGED <<select, rowProject, exprOpt>>

ResolveLet ==
    /\ stage = "lambda"
    /\ body' = [i \in DOMAIN body |-> Resolve(body[i], <<i>>)]
    /\ stage' = IF Len(body) = Len(select) THEN "resolved" ELSE "failed"
    /\ UNCHANGED <<select, rowProject, exprOpt, requireAgg>>

Optimize ==
    /\ stage = "resolved" /\ exprOpt
    /\ body' = OptimizeFunctionLet(body)
    /\ stage' = "optimized"
    /\ UNCHANGED <<select, rowProject, exprOpt, requireAgg>>

Next == Lambdafy \/ ResolveLet \/ Optimize

Spec == Init /\ [][Next]_vars

-----------------------------------------------------------------------------
(* RowFnLetIRBuilder::Build: a column reads the window through its frame,  *)
(* the newest `frame` rows; the primary frame is the window itself.        *)

Inner(f, big) == SubSeq(big, 1, Min({f, Len(big)}))
PrimaryFrame == IF HasAgg THEN Max({select[i].frame : i \in DOMAIN select}) ELSE 0

BuildWindow(i, big) ==
    LET f == IF HasAgg THEN select[i].frame ELSE 0
    IN IF f \in {0, PrimaryFrame} THEN big ELSE Inner(f, big)

Output(i, big) ==
    LET w == BuildWindow(i, big)
    IN Eval(body[i], Bind(<<Row, Window>>, <<RowTerm(0), List(w)>>, <<>>), w)

(* the windows the operator feeds: as many rows as the widest frame has *)
Windows ==
    LET widest == Max({select[i].frame : i \in DOMAIN select})
    IN {[j \in 1..n |-> RowTerm(j)] : n \in 0..(IF widest = 0 THEN MaxWindow ELSE widest)}

-----------------------------------------------------------------------------
(* What a select item means: an aggregate of the values of its arguments   *)
(* over the rows of the window.                                            *)

UdafValue(f, elems) ==
    LET zero == T("const", 0, <<>>)
        inc(s, x) == T("inc", 0, <<s, x[1]>>)
        add(s, x) == T("add", 0, <<s, x[1]>>)
    IN CASE f = "sum" -> FoldLeft(add, zero, elems)
         [] f = "count" -> FoldLeft(inc, zero, elems)
         [] f = "count_where" ->
              FoldLeft(LAMBDA s, x : T("cond", 0, <<x[2], inc(s, x), s>>), zero, elems)
         [] f = "avg" ->
              T("div", 0, <<FoldLeft(add, zero, elems), FoldLeft(inc, zero, elems)>>)
         [] f = "fz_window_split" -> List(FlattenSeq([i \in DOMAIN elems |-> SplitParts(elems[i][1])]))
         [] OTHER ->
              T(f \o "_output", 0, <<FoldLeft(LAMBDA s, x : T(f \o "_update", 0, <<s>> \o x),
                                              T(f \o "_init", 0, <<>>), elems)>>)

RECURSIVE Meaning(_, _, _)
Meaning(e, row, w) ==
    LET lists == {i \in DOMAIN e.a : RequireListAt(e.v, i) /\ e.a[i].k # "const"}
        list(i) == IF IsListReturn(e.a[i]) /\ e.a[i].k # "col" THEN Meaning(e.a[i], row, w)[3]
                   ELSE [j \in DOMAIN w |-> Meaning(e.a[i], w[j], w)]
        len == Min({Len(list(i)) : i \in lists})
        elem(j) == [i \in DOMAIN e.a |->
                      IF i \in lists THEN list(i)[j] ELSE Meaning(e.a[i], row, w)]
    IN CASE e.k = "const" -> T("const", e.n, <<>>)
         [] e.k = "col" -> T("get", e.n, <<row>>)
         [] e.k = "all" -> row
         [] e.k = "call" /\ IsUdaf(e.v, Len(e.a)) -> UdafValue(e.v, [j \in 1..len |-> elem(j)])
         [] e.k = "call" /\ (e.n = 1 \/ lists # {}) ->
              T(e.v, 0, [i \in DOMAIN e.a |-> IF e.n = 1 \/ i \in lists THEN List(list(i))
                                              ELSE Meaning(e.a[i], row, w)])
         [] OTHER -> External_(e.v, [i \in DOMAIN e.a |-> Meaning(e.a[i], row, w)])

RECURSIVE ReadsWindow(_)
ReadsWindow(e) ==
    \/ e.k = "col" \/ Key(e) = Key(Window)
    \/ \E i \in DOMAIN e.a : ReadsWindow(e.a[i])
    \/ e.k = "udaf" /\ e.d.upd.ext = "" /\ ReadsWindow(e.d.upd.body)
    \/ e.k = "apply" /\ ReadsWindow(e.d.body)

-----------------------------------------------------------------------------
(* Properties *)

Compiled == stage \in {"resolved", "optimized"}

(* LambdafyProjects, MergeAggregations, ExprSimplifier: in every stage the *)
(* compiled function computes for each column what the select item means   *)
(* over its frame, for every window.  The flags of LambdafyProjects must   *)
(* have found an aggregation where there is one: else the frames are       *)
(* dropped (InitFnDef).                                                    *)
LetMeansSelectList ==
    Compiled /\ (HasAgg \/ \A i \in DOMAIN body : ~ReadsWindow(body[i])) =>
        \A big \in Windows : \A i \in DOMAIN body :
            Output(i, big) =
                Meaning(select[i].expr, RowTerm(0),
                        IF select[i].frame = 0 THEN big ELSE Inner(select[i].frame, big))

(* MergeAggregations: afterwards a frame has at most one aggregation that  *)
(* walks the window alone, and it does so once: its update reads the row   *)
(* it is given and never the window.                                       *)
OnePassPerFrame ==
    stage = "optimized" =>
        \A f \in {select[i].frame : i \in DOMAIN select} :
            LET group == SelectSeq([i \in DOMAIN body |-> i], LAMBDA i : select[i].frame = f)
                calls == FlattenSeq([j \in DOMAIN group |-> CollectUdafCalls(body[group[j]])])
            IN /\ Cardinality({calls[j].p : j \in DOMAIN calls}) <= 1
               /\ \A j \in DOMAIN calls :
                     calls[j].d.upd.ext = "" => ~ReadsWindow(calls[j].d.upd.body)
=============================================================================
