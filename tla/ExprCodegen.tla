---------------------------- MODULE ExprCodegen ----------------------------
(***************************************************************************)
(* Expressions: what InferAttr derives for a node (its type, whether it    *)
(* may be NULL) and what the IR builders emit for it (a NativeValue: a raw *)
(* value, a null flag).  An expression is built from the leaves upwards;   *)
(* a state holds, for one expression, both derivations and the meaning SQL *)
(* gives it.  The raw value under a NULL flag is arbitrary.                *)
(*                                                                         *)
(* Integers keep their width (Bits), floating point numbers are the        *)
(* integers that they represent exactly, a text is a number in decimal or  *)
(* one of the codes below.                                                 *)
(***************************************************************************)
EXTENDS Integers, Sequences, FiniteSets

CONSTANTS Bits,           \* width of i16, i32, i64: [{"i16","i32","i64"} -> Nat]
          MaxFloat,       \* bound: the floating point numbers of the model
          Leaves,         \* columns, literals and parameters
          CaseConds, CaseValues, MaxWhens   \* operands of CASE

VARIABLES expr,   \* ExprNode: [type, nullable]
          code,   \* NativeValue: [type, const, null, raw, poison]
          sql,    \* meaning: [null, val, exact]
          gap     \* a form of expression that inference accepts and codegen does not build
vars == <<expr, code, sql, gap>>

Error == "error"
Integer == {"bool", "i16", "i32", "i64"}
Floating == {"float", "double"}
Number == Integer \cup Floating
BaseType == Number \cup {"string", "timestamp", "date"}
Null == {"null"}

Empty == 100
Garbage == 101
TextTrue == 102
TextFalse == 103

WidthOf(t) == CASE t = "bool" -> 1 [] t = "timestamp" -> Bits["i64"] [] OTHER -> Bits[t]
Fits(t, n) ==
  \/ t \notin Integer \cup {"timestamp"}
  \/ t = "bool" /\ n \in {0, 1}
  \/ t # "bool" /\ -(2^(WidthOf(t) - 1)) <= n /\ n < 2^(WidthOf(t) - 1)
(* What a register of type t keeps of n; a bool is read as unsigned. *)
Wrap(t, n) ==
  IF t \notin Integer \cup {"timestamp"} THEN n
  ELSE LET m == n % 2^WidthOf(t)
       IN IF t # "bool" /\ m >= 2^(WidthOf(t) - 1) THEN m - 2^WidthOf(t) ELSE m

-----------------------------------------------------------------------------
(* Type inference: node/expr_node.cc. *)

IsSafeCast(from, to) ==
  \/ from = to
  \/ to \in {"i16", "i32", "i64", "float", "double"} /\ from = "bool"
  \/ to = "i32" /\ from = "i16"
  \/ to \in {"i64", "timestamp"} /\ from \in Integer
  \/ to = "double" /\ from \in Floating

InferNumberCastTypes(l, r) ==
  IF l \notin Number \/ r \notin Number THEN Error
  ELSE IF IsSafeCast(l, r) THEN r
  ELSE IF IsSafeCast(r, l) THEN l
  ELSE IF r \in Floating THEN r
  ELSE IF l \in Floating THEN l ELSE Error

(* NULL takes the type of the other side. *)
NumberOrNull(l, r, set) ==
  IF l \notin set \cup Null \/ r \notin set \cup Null THEN Error
  ELSE IF l = "null" THEN r
  ELSE IF r = "null" THEN l
  ELSE InferNumberCastTypes(l, r)

AddTypeAccept(l, r) ==
  IF l = "timestamp" /\ r \in Integer \cup {"timestamp", "null"} THEN l
  ELSE IF r = "timestamp" /\ l \in Integer \cup {"null"} THEN r
  ELSE NumberOrNull(l, r, Number)
SubTypeAccept(l, r) ==
  IF l = "timestamp" /\ r \in Integer \cup {"timestamp", "null"} THEN l
  ELSE IF r = "timestamp" /\ l = "null" THEN r
  ELSE NumberOrNull(l, r, Number)
FDivTypeAccept(l, r) ==
  IF l \in Number \cup {"null", "timestamp"} /\ r \in Number \cup Null
  THEN "double" ELSE Error
CompareTypeAccept(l, r) ==
  IF l \notin BaseType \cup Null \/ r \notin BaseType \cup Null THEN Error
  ELSE IF \/ "null" \in {l, r}
          \/ {l, r} \subseteq Number
          \/ "string" \in {l, r}
          \/ l = r
       THEN "bool" ELSE Error
LogicalOpTypeAccept(l, r) ==
  IF {l, r} \subseteq BaseType \cup Null THEN "bool" ELSE Error

Arith == {"+", "-", "*", "div", "mod", "/"}
Compare == {"=", "!=", "<", "<=", ">", ">="}
Logic == {"and", "or", "xor"}
BinaryTypeAccept(op, l, r) ==
  CASE op = "+" -> AddTypeAccept(l, r)
    [] op = "-" -> SubTypeAccept(l, r)
    [] op \in {"*", "mod"} -> NumberOrNull(l, r, Number)
    [] op = "div" -> NumberOrNull(l, r, Integer)
    [] op = "/" -> FDivTypeAccept(l, r)
    [] op \in Compare -> CompareTypeAccept(l, r)
    [] op \in Logic -> LogicalOpTypeAccept(l, r)

Node(t, nullable) == [type |-> t, nullable |-> nullable]
BinaryInferAttr(op, a, b) ==
  Node(BinaryTypeAccept(op, a.type, b.type), a.nullable \/ b.nullable)
UnaryInferAttr(op, a) ==
  CASE op = "not" -> Node(IF a.type \in BaseType \cup Null THEN "bool" ELSE Error, a.nullable)
    [] op = "minus" -> Node(IF a.type \in Number THEN a.type ELSE Error, a.nullable)
    [] op = "isnull" -> Node("bool", FALSE)
    [] op = "bracket" -> a
CastInferAttr(to) == Node(to, TRUE)

CaseInferAttr(whens, else) ==
  LET t == whens[1].then.expr.type
      typed(i) == t # "null" /\ whens[i].then.expr.type # "null"
  IN Node(IF /\ \A i \in DOMAIN whens : typed(i) => whens[i].then.expr.type = t
             /\ else.type \in {t, "null"}
          THEN t ELSE Error,
          TRUE)

-----------------------------------------------------------------------------
(* Code generation on raw values: [type, raw, poison]. *)

Raw(t, n) == [type |-> t, raw |-> n, poison |-> FALSE]
RawFail == Raw(Error, 0)
RawBool(b) == Raw("bool", IF b THEN 1 ELSE 0)

(* A truth value of any type: its number, ts or code is not 0, its text not empty. *)
BoolCast(v) == RawBool(IF v.type = "string" THEN v.raw # Empty ELSE v.raw # 0)

(* SafeCastNumber, UnSafeCastNumber: extension, truncation or conversion *)
CastNumber(v, to) == IF to = "bool" THEN BoolCast(v) ELSE Raw(to, Wrap(to, v.raw))

(* The pair of operands in one type; the builders repeat the inference on LLVM types. *)
CommonType(l, r) ==
  IF l = r \/ IsSafeCast(l, r) THEN r
  ELSE IF IsSafeCast(r, l) THEN l
  ELSE IF l \in Integer /\ r \in Floating THEN r
  ELSE IF r \in Integer /\ l \in Floating THEN l ELSE Error
InferAndCastedNumberTypes(a, b) ==
  LET t == IF {a.type, b.type} \subseteq Number THEN CommonType(a.type, b.type) ELSE Error
  IN [type |-> t,
      left |-> IF t = Error THEN 0 ELSE CastNumber(a, t).raw,
      right |-> IF t = Error THEN 0 ELSE CastNumber(b, t).raw]

TimestampAdd(ts, duration) ==
  Raw("timestamp", Wrap("i64", ts.raw + CastNumber(duration, "i64").raw))
NumberOp(a, b, F(_, _)) ==
  LET c == InferAndCastedNumberTypes(a, b)
  IN IF c.type = Error THEN RawFail ELSE Raw(c.type, Wrap(c.type, F(c.left, c.right)))

BuildAddExpr(a, b) ==
  IF a.type = "timestamp" /\ b.type \in Integer THEN TimestampAdd(a, b)
  ELSE IF a.type \in Integer /\ b.type = "timestamp" THEN TimestampAdd(b, a)
  ELSE IF a.type = "timestamp" /\ b.type = "timestamp"
       THEN Raw("timestamp", Wrap("i64", a.raw + b.raw))
  ELSE NumberOp(a, b, LAMBDA x, y : x + y)
BuildMultiExpr(a, b) == NumberOp(a, b, LAMBDA x, y : x * y)
BuildSubExpr(a, b) ==
  IF a.type = "timestamp" /\ b.type \in Integer
  THEN TimestampAdd(a, BuildMultiExpr(Raw("i16", -1), b))
  ELSE NumberOp(a, b, LAMBDA x, y : x - y)

(* C division: towards 0, the remainder has the sign of the dividend. *)
Abs(n) == IF n < 0 THEN -n ELSE n
Quot(x, y) == IF (x < 0) = (y < 0) THEN Abs(x) \div Abs(y) ELSE -(Abs(x) \div Abs(y))
Rem(x, y) == x - y * Quot(x, y)
(* A zero divisor is replaced before the instruction, its result after it. The      *)
(* least value divided by -1 is undefined; the only nonzero i1 is both.             *)
DivOrRem(a, b, F(_, _)) ==
  LET c == InferAndCastedNumberTypes(a, b)
      divisor == IF c.right = 0 THEN 1 ELSE c.right
      overflow == IF c.type = "bool" THEN c.left = 1 /\ divisor = 1 /\ c.right = 1
                  ELSE ~Fits(c.type, Quot(c.left, divisor))
  IN IF c.type = Error THEN RawFail
     ELSE [Raw(c.type, IF c.right = 0 THEN 0 ELSE Wrap(c.type, F(c.left, divisor)))
             EXCEPT !.poison = c.type \in Integer /\ overflow]
BuildSDivExpr(a, b) ==
  IF {a.type, b.type} \subseteq Integer THEN DivOrRem(a, b, Quot) ELSE RawFail
(* FRem by 0 is NaN: no value of the model *)
BuildModExpr(a, b) ==
  LET m == DivOrRem(a, b, Rem)
  IN IF m.type \in Floating /\ b.raw = 0 THEN [m EXCEPT !.poison = TRUE] ELSE m
(* A quotient of doubles is a value of the model only when it is a whole number. *)
BuildFDivExpr(a, b) ==
  IF ~({a.type, b.type} \subseteq Number) THEN RawFail
  ELSE IF b.raw = 0 \/ Rem(a.raw, b.raw) # 0
       THEN [Raw("double", 0) EXCEPT !.poison = TRUE]
       ELSE Raw("double", Quot(a.raw, b.raw))

(* strcmp of two texts: digits in decimal, then the words *)
Collate(n) ==
  LET digits(m) == IF m < 10 THEN m * 20 ELSE (m \div 10) * 20 + 1 + (m % 10)
  IN CASE n = Empty -> -5000
       [] n \in {Garbage, TextTrue, TextFalse} -> 5000 + n
       [] n < 0 -> digits(-n) - 1000
       [] OTHER -> digits(n)
TextOf(v) ==
  IF v.type = "bool" THEN IF v.raw = 1 THEN TextTrue ELSE TextFalse ELSE v.raw

(* Both sides as texts, as numbers of one type (a timestamp is its ts) or as date codes *)
InferAndCastTypes(a, b) ==
  LET ts(t) == IF t = "timestamp" THEN "i64" ELSE t
      t == CommonType(ts(a.type), ts(b.type))
  IN IF "string" \in {a.type, b.type}
     THEN [ok |-> TRUE, left |-> Collate(TextOf(a)), right |-> Collate(TextOf(b))]
     ELSE IF t = Error THEN [ok |-> FALSE, left |-> 0, right |-> 0]
     ELSE IF t = "date" THEN [ok |-> TRUE, left |-> a.raw, right |-> b.raw]
     ELSE [ok |-> TRUE, left |-> CastNumber(a, t).raw, right |-> CastNumber(b, t).raw]
CompareBy(a, b, F(_, _)) ==
  LET c == InferAndCastTypes(a, b)
  IN IF c.ok THEN RawBool(F(c.left, c.right)) ELSE RawFail
BuildEqExpr(a, b) == CompareBy(a, b, LAMBDA x, y : x = y)
BuildNeqExpr(a, b) == CompareBy(a, b, LAMBDA x, y : x # y)
BuildGtExpr(a, b) == CompareBy(a, b, LAMBDA x, y : x > y)
BuildGeExpr(a, b) == CompareBy(a, b, LAMBDA x, y : x >= y)
BuildLtExpr(a, b) == CompareBy(a, b, LAMBDA x, y : x < y)
BuildLeExpr(a, b) == CompareBy(a, b, LAMBDA x, y : x <= y)

RawBinary(op, a, b) ==
  CASE op = "+" -> BuildAddExpr(a, b)
    [] op = "-" -> BuildSubExpr(a, b)
    [] op = "*" -> BuildMultiExpr(a, b)
    [] op = "div" -> BuildSDivExpr(a, b)
    [] op = "mod" -> BuildModExpr(a, b)
    [] op = "/" -> BuildFDivExpr(a, b)
    [] op = "=" -> BuildEqExpr(a, b)
    [] op = "!=" -> BuildNeqExpr(a, b)
    [] op = ">" -> BuildGtExpr(a, b)
    [] op = ">=" -> BuildGeExpr(a, b)
    [] op = "<" -> BuildLtExpr(a, b)
    [] op = "<=" -> BuildLeExpr(a, b)

-----------------------------------------------------------------------------
(* Code generation on NativeValues. *)

Native(r, null) ==
  [type |-> r.type, const |-> FALSE, null |-> null, raw |-> r.raw, poison |-> r.poison]
ConstNull(t) == [type |-> t, const |-> TRUE, null |-> TRUE, raw |-> 0, poison |-> FALSE]
Fail == Native(RawFail, FALSE)
RawOf(v) == [type |-> v.type, raw |-> v.raw, poison |-> v.poison]
Poisoned(r, a, b) == [r EXCEPT !.poison = r.poison \/ a.poison \/ b.poison]

SafeNullBinaryExpr(op, a, b) ==
  IF a.const THEN ConstNull(b.type)
  ELSE IF b.const THEN ConstNull(a.type)
  ELSE Native(Poisoned(RawBinary(op, RawOf(a), RawOf(b)), a, b), a.null \/ b.null)

(* mutant: NULL AND FALSE is NULL *)
LogicNullAny(op, l, r) == l.null \/ r.null

(* the null flag of AND, OR, XOR from the casted operands and their flags *)
LogicNull(op, l, r) ==
  CASE op = "and" -> (l.null /\ (r.null \/ r.raw = 1)) \/ (l.raw = 1 /\ r.null)
    [] op = "or" -> (l.null /\ (r.null \/ r.raw = 0)) \/ (l.raw = 0 /\ r.null)
    [] op = "xor" -> l.null \/ r.null
LogicValue(op, x, y) ==
  CASE op = "and" -> x = 1 /\ y = 1 [] op = "or" -> x = 1 \/ y = 1 [] op = "xor" -> x # y

(* The value of a constant NULL has its type; the NULL literal has none that BoolCast takes. *)
InferAndCastBoolTypes(v) ==
  IF v.type = "null" THEN Fail ELSE [v EXCEPT !.type = "bool", !.raw = BoolCast(v).raw]
BuildLogicExpr(op, a, b) ==
  LET l == InferAndCastBoolTypes(a)
      r == InferAndCastBoolTypes(b)
  IN IF Error \in {l.type, r.type} THEN Fail
     ELSE Native(Poisoned(RawBool(LogicValue(op, l.raw, r.raw)), a, b), LogicNull(op, l, r))

BuildBinaryExpr(op, a, b) ==
  LET v == SafeNullBinaryExpr(op, a, b)
  IN CASE op \in Logic -> BuildLogicExpr(op, a, b)
       [] op \in Compare /\ v.const -> ConstNull("bool")
       [] op = "/" /\ v.const -> ConstNull("double")
       [] OTHER -> v

BuildUnaryExpr(op, node, a) ==
  LET b == InferAndCastBoolTypes(a)
  IN CASE op = "not" -> IF b.type = Error THEN Fail
                        ELSE [b EXCEPT !.raw = 1 - b.raw, !.const = FALSE]
       [] op = "minus" -> IF node.type = "bool" THEN a
                          ELSE SafeNullBinaryExpr("-", Native(Raw("i16", 0), FALSE), a)
       [] op = "isnull" -> Native(Poisoned(RawBool(a.null), a, a), FALSE)
       [] op = "bracket" -> a

(* Texts of dates, timestamps and floating point numbers are conversions of the udf library: *)
(* any NULL flag and any value of the target type.                                            *)
Calendar(from, to) ==
  \/ from = "date" /\ to \in {"timestamp", "string"}
  \/ from = "timestamp" /\ to \in {"date", "string"}
  \/ from = "string" /\ to \in {"date", "timestamp"}
  \/ from \in Floating /\ to = "string"
ParsesAs(text, to) ==
  IF to = "bool" THEN text \in {0, 1, TextTrue, TextFalse}
  ELSE text \notin {Empty, Garbage, TextTrue, TextFalse}
CastToNumber(v, to) ==
  LET n == IF to = "bool" /\ v.raw \in {TextTrue, TextFalse}
           THEN IF v.raw = TextTrue THEN 1 ELSE 0 ELSE v.raw
  IN [Native(Raw(to, IF ParsesAs(v.raw, to) THEN Wrap(to, n) ELSE 0),
             v.null \/ ~ParsesAs(v.raw, to)) EXCEPT !.poison = v.poison]
(* FPToSI of a number that does not fit is undefined. *)
Converts(v, to) == v.type \in Floating /\ to # "bool" => Fits(to, v.raw)
(* a negative number is no timestamp *)
TimestampCastFrom(v) ==
  LET ts == CastNumber(v, "i64").raw
  IN [Native(Raw("timestamp", ts), v.null \/ ts < 0)
        EXCEPT !.poison = v.poison \/ ~Converts(v, "i64")]
BuildCastExpr(v, to, external) ==
  CASE v.const -> ConstNull(to)
    [] ~v.const /\ v.type = to -> v
    [] ~v.const /\ Calendar(v.type, to) ->
         [Native(Raw(to, external.val), v.null \/ external.null) EXCEPT !.poison = v.poison]
    [] ~v.const /\ to = "timestamp" /\ v.type \in Number -> TimestampCastFrom(v)
    [] to = "date" /\ v.type \in Number -> Fail
    [] ~v.const /\ to = "string" /\ v.type \in Integer ->
         [v EXCEPT !.type = "string", !.raw = TextOf(v)]
    [] ~v.const /\ to \in Number /\ v.type = "string" -> CastToNumber(v, to)
    [] ~v.const /\ to \in Number /\ v.type = "date" -> ConstNull(to)
    [] ~v.const /\ to \in Number /\ v.type \in Number \cup {"timestamp"} /\ v.type # to ->
         [v EXCEPT !.type = to, !.raw = CastNumber(v, to).raw,
                   !.poison = v.poison \/ ~Converts(v, to)]

(* CondSelectIRBuilder::Select: a NULL condition is false; the flags are selected alike. *)
(* A value that has no type (both are the NULL literal) cannot be selected.               *)
Select(cond, left, right) ==
  LET l == IF left.const THEN right.type ELSE left.type
      r == IF right.const THEN left.type ELSE right.type
      pick == IF cond.raw = 1 /\ ~cond.null THEN left ELSE right
  IN IF cond.type # "bool" \/ l # r \/ l = "null" THEN Fail
     ELSE [pick EXCEPT !.const = FALSE, !.type = l,
                       !.poison = cond.poison \/ left.poison \/ right.poison]

(* The WHENs are folded from the right into conditionals. *)
BuildCaseExpr(whens, else) ==
  LET Fold[i \in 1..(Len(whens) + 1)] ==
        IF i = Len(whens) + 1 THEN else
        ELSE Select(whens[i].when.code, whens[i].then.code, Fold[i + 1])
  IN Fold[1]

-----------------------------------------------------------------------------
(* The meaning of an expression in SQL, where the model gives one (exact). *)

Meaning(null, val, exact) ==
  IF exact THEN [null |-> null, val |-> IF null THEN 0 ELSE val, exact |-> TRUE]
  ELSE [null |-> FALSE, val |-> 0, exact |-> FALSE]
Truth(m, t) == IF t = "string" THEN m.val # Empty ELSE m.val # 0
Text(m, t) == TextOf(Raw(t, m.val))

(* Arithmetic is that of the integers, as long as the result fits its type. Negating *)
(* the least value, which timestamp - integer does first, does not.                  *)
ArithMeaning(op, a, b, ta, tb, t) ==
  LET zero == b.val = 0
      v == CASE op = "+" -> a.val + b.val
             [] op = "-" -> a.val - b.val
             [] op = "*" -> a.val * b.val
             [] op = "mod" -> IF zero THEN 0 ELSE Rem(a.val, b.val)
             [] op \in {"div", "/"} -> IF zero THEN 0 ELSE Quot(a.val, b.val)
      whole == op = "/" => ~zero /\ Rem(a.val, b.val) = 0
      floatmod == op = "mod" /\ t \in Floating => ~zero
      negated == op = "-" /\ ta = "timestamp" /\ tb \in Integer \ {"bool"} => Fits(tb, -b.val)
  IN Meaning(a.null \/ b.null, v,
             a.exact /\ b.exact
               /\ (a.null \/ b.null \/ (Fits(t, v) /\ whole /\ floatmod /\ negated)))
Holds(op, x, y) ==
  CASE op = "=" -> x = y [] op = "!=" -> x # y [] op = "<" -> x < y
    [] op = "<=" -> x <= y [] op = ">" -> x > y [] op = ">=" -> x >= y
CompareMeaning(op, a, b, ta, tb) ==
  LET text == "string" \in {ta, tb}
      x == IF text THEN Collate(Text(a, ta)) ELSE a.val
      y == IF text THEN Collate(Text(b, tb)) ELSE b.val
      calendar == text /\ {ta, tb} \cap (Floating \cup {"date", "timestamp"}) # {}
  IN Meaning(a.null \/ b.null,
             IF ~a.null /\ ~b.null /\ Holds(op, x, y) THEN 1 ELSE 0,
             a.exact /\ b.exact /\ ~calendar)
(* three-valued logic: what every choice of a truth value for NULL agrees on *)
LogicMeaning(op, a, b, ta, tb) ==
  LET of(m, t) == IF m.null THEN {0, 1} ELSE {IF Truth(m, t) THEN 1 ELSE 0}
      outcomes == { LogicValue(op, x, y) : x \in of(a, ta), y \in of(b, tb) }
  IN Meaning(Cardinality(outcomes) = 2, IF outcomes = {TRUE} THEN 1 ELSE 0,
             a.exact /\ b.exact)
BinaryMeaning(op, a, b, ta, tb, t) ==
  CASE op \in Arith -> ArithMeaning(op, a, b, ta, tb, t)
    [] op \in Compare -> CompareMeaning(op, a, b, ta, tb)
    [] op \in Logic -> LogicMeaning(op, a, b, ta, tb)
UnaryMeaning(op, m, t) ==
  CASE op = "not" -> Meaning(m.null, IF Truth(m, t) THEN 0 ELSE 1, m.exact)
    [] op = "minus" -> Meaning(m.null, -m.val, m.exact /\ (m.null \/ Fits(t, -m.val)))
    [] op = "isnull" -> Meaning(FALSE, IF m.null THEN 1 ELSE 0, m.exact)
    [] op = "bracket" -> m
(* The same number in the new type; a text that is no number, a date as a number  *)
(* and a negative timestamp are NULL.                                              *)
CastMeaning(m, from, to, external) ==
  LET n == IF from = "string" /\ to = "bool" /\ m.val \in {TextTrue, TextFalse}
           THEN IF m.val = TextTrue THEN 1 ELSE 0
           ELSE IF to = "bool" /\ from # "string" THEN IF m.val # 0 THEN 1 ELSE 0
           ELSE IF to = "string" THEN Text(m, from) ELSE m.val
  IN IF from \in {to, "null"} THEN m
     ELSE IF Calendar(from, to)
          THEN Meaning(m.null \/ external.null, external.val, m.exact)
     ELSE IF from = "date" THEN Meaning(TRUE, 0, TRUE)
     ELSE IF from = "string" /\ ~m.null /\ ~ParsesAs(m.val, to) THEN Meaning(TRUE, 0, m.exact)
     ELSE IF to = "timestamp" /\ n < 0 THEN Meaning(TRUE, 0, m.exact)
     ELSE Meaning(m.null, n, m.exact /\ (m.null \/ Fits(to, n)))
(* the THEN of the first WHEN that is true *)
CaseMeaning(whens, else) ==
  LET true == { i \in DOMAIN whens : whens[i].when.sql.val = 1 /\ ~whens[i].when.sql.null }
      first == CHOOSE i \in true : \A j \in true : i <= j
      pick == IF true = {} THEN else.sql ELSE whens[first].then.sql
  IN Meaning(pick.null, pick.val,
             /\ else.sql.exact
             /\ \A i \in DOMAIN whens : whens[i].when.sql.exact /\ whens[i].then.sql.exact)

-----------------------------------------------------------------------------
(* Growing an expression. *)

Current == [expr |-> expr, code |-> code, sql |-> sql]
(* What follows from an undefined operation is any value: none is told apart, and  *)
(* under a NULL flag it does not matter.                                            *)
Any(c) == IF c.poison THEN [c EXCEPT !.raw = 0, !.poison = ~c.null] ELSE c
Becomes(e, c, m, g) ==
  /\ expr' = e /\ gap' = g
  /\ code' = Any(c)
  /\ sql' = IF Any(c).poison THEN Meaning(FALSE, 0, FALSE) ELSE m
Is(e, c, m, g) == expr = e /\ code = c /\ sql = m /\ gap = g
Sound == expr.type # Error /\ code.type # Error /\ ~gap

(* The forms of expression for which the two sides are known to differ: a difference   *)
(* of timestamps, a timestamp divided, an untyped NULL as a truth value, a number as   *)
(* a date, a WHEN that is not a bool, a CASE whose first THEN is the NULL literal, or  *)
(* whose last THEN and ELSE are both constant NULLs.                                   *)
BinaryGap(op, a, b) ==
  \/ op = "-" /\ a.expr.type = "timestamp" /\ b.expr.type = "timestamp"
  \/ op = "/" /\ a.expr.type = "timestamp"
  \/ op \in Logic /\ "null" \in {a.code.type, b.code.type}
CaseGap(whens, else) ==
  \/ whens[1].then.expr.type = "null"
  \/ whens[Len(whens)].then.code.const /\ else.code.const
  \/ \E i \in DOMAIN whens : whens[i].when.code.type # "bool"

BinaryOf(op, a, b) ==
  Becomes(BinaryInferAttr(op, a.expr, b.expr),
          BuildBinaryExpr(op, a.code, b.code),
          BinaryMeaning(op, a.sql, b.sql, a.expr.type, b.expr.type,
                        BinaryTypeAccept(op, a.expr.type, b.expr.type)),
          BinaryGap(op, a, b))
Binary ==
  /\ Sound
  /\ \E op \in Arith \cup Compare \cup Logic, leaf \in Leaves :
       /\ BinaryTypeAccept(op, expr.type, leaf.expr.type) # Error
       /\ BinaryOf(op, Current, leaf) \/ BinaryOf(op, leaf, Current)
       /\ code'.type \in Floating => Abs(code'.raw) <= MaxFloat

Unary ==
  /\ Sound
  /\ \E op \in {"not", "minus", "isnull", "bracket"} :
       LET e == UnaryInferAttr(op, expr)
       IN Becomes(e, IF e.type = Error THEN Fail ELSE BuildUnaryExpr(op, e, code),
                  UnaryMeaning(op, sql, expr.type), op = "not" /\ code.type = "null")

Cast ==
  /\ Sound
  /\ \E to \in BaseType, external \in [null : BOOLEAN, val : {0, 1}] :
       Becomes(CastInferAttr(to), BuildCastExpr(code, to, external),
               CastMeaning(sql, expr.type, to, external),
               to = "date" /\ expr.type \in Number)

CaseOf(whens, else) ==
  Becomes(CaseInferAttr(whens, else.expr), BuildCaseExpr(whens, else.code),
          CaseMeaning(whens, else), CaseGap(whens, else))
Case ==
  /\ Sound
  /\ \E when \in CaseConds \cup {Current}, then, else \in CaseValues \cup {Current} :
       CaseOf(<<[when |-> when, then |-> then]>>, else)

Init ==
  \/ \E leaf \in Leaves : Is(leaf.expr, leaf.code, leaf.sql, FALSE)
  \/ \E n \in 2..MaxWhens : \E whens \in [1..n -> [when : CaseConds, then : CaseValues]],
                                  else \in CaseValues :
       Is(CaseInferAttr(whens, else.expr), BuildCaseExpr(whens, else.code),
          CaseMeaning(whens, else), CaseGap(whens, else))
Next == Binary \/ Unary \/ Cast \/ Case
Spec == Init /\ [][Next]_vars

-----------------------------------------------------------------------------
(* What InferAttr accepts, the builders build, and the LLVM value has the inferred type; a *)
(* constant NULL may carry the type of an operand.                                          *)
BuildsWhatIsInferred ==
  expr.type # Error /\ ~gap => code.type = expr.type \/ code.const

(* The value at run time is the one SQL gives, whatever is in the bytes under a NULL flag: *)
(* NULL is propagated, AND and OR are three-valued, arithmetic is exact where it fits.      *)
ValueIsSql ==
  Sound /\ sql.exact =>
    /\ code.null = sql.null
    /\ ~sql.null => code.raw = sql.val

(* An expression that inference calls not nullable, whose callee takes no null flag, is     *)
(* never NULL.                                                                              *)
NullableIsSound == Sound /\ ~expr.nullable => ~code.null
=============================================================================
