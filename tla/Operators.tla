------------------------------ MODULE Operators ------------------------------
(***************************************************************************)
(* One step of the walks over an expression: what a literal, a symbol or   *)
(* an operator makes of what its operands gave.  The walks themselves are  *)
(* in Expressions; here they are also stated without recursion, as         *)
(* functions on any set of expressions that has their operands.            *)
(* A type is named like the values that have it: sint, uint, real, bool.   *)
(***************************************************************************)
EXTENDS Words

Literal(kind, n) == [kind |-> kind, n |-> n]
Dec(n) == Literal("dec", n)
Hex(n) == Literal("hex", n)
Float == Literal("float", 0)
Flag(b) == Literal("flag", IF b THEN 1 ELSE 0)
Text == Literal("text", 0)
Id(x) == [kind |-> "id", id |-> x]
Neg(e) == [kind |-> "neg", arg |-> e]
Bin(op, l, r) == [kind |-> "bin", op |-> op, left |-> l, right |-> r]

-----------------------------------------------------------------------------
\* Evaluation (ExpressionEvaluator.cpp): the set of the possible outcomes of e.  A
\* logical operator that its left operand decides does not evaluate its right one.

LiteralValue(e) == CASE e.kind = "dec"   -> Decimal(e.n)
                     [] e.kind = "hex"   -> Hexadecimal(e.n)
                     [] e.kind = "float" -> Real
                     [] e.kind = "flag"  -> Truth(e.n = 1)
                     [] e.kind = "text"  -> Mistyped

Decides(op, x) == \/ op = "&&" /\ x = Truth(FALSE)
                  \/ op = "||" /\ x = Truth(TRUE)

NegatedAny(xs) == {IF x \in Failures THEN x ELSE Negated(x) : x \in xs}

BinaryAny(op, xs, ys) ==
    UNION {IF x \in Failures \/ Decides(op, x) THEN {x}
           ELSE IF op \in Logical /\ x.t # "bool" THEN {Mistyped}
           ELSE UNION {IF y \in Failures THEN {y} ELSE Binary(op, x, y) : y \in ys} : x \in xs}

OutcomesFrom(e, env, out(_)) ==
    CASE e.kind = "id"  -> {IF e.id \in DOMAIN env THEN env[e.id] ELSE Fail}
      [] e.kind = "neg" -> NegatedAny(out(e.arg))
      [] e.kind = "bin" -> BinaryAny(e.op, out(e.left), out(e.right))
      [] OTHER          -> {LiteralValue(e)}

\* evaluateSize: a natural number.
Sizes(xs) == {IF x \in Failures THEN x
              ELSE IF ~IsInteger(x) THEN Mistyped
              ELSE IF x.v < 0 THEN Fail ELSE Uint(x.v) : x \in xs}

-----------------------------------------------------------------------------
\* The type of an operation from those of its operands.

Numeric == {"sint", "uint", "real"}
Joined(l, r) == IF "real" \in {l, r} THEN "real"
                ELSE IF "uint" \in {l, r} THEN "uint"
                ELSE IF "unknown" \in {l, r} THEN "unknown" ELSE "sint"

\* inferLiteralExprType
LiteralType(e) ==
    CASE e.kind = "dec"   -> IF e.n > MaxUint THEN "invalid"
                             ELSE IF e.n <= MaxInt THEN "sint" ELSE "uint"
      [] e.kind = "hex"   -> IF e.n > MaxUint THEN "invalid" ELSE "uint"
      [] e.kind = "float" -> "real"
      [] e.kind = "flag"  -> "bool"
      [] e.kind = "text"  -> "string"

\* inferExprType: what is wrong whatever the symbols are.
InferNegated(t) == IF t = "uint" THEN "sint"
                   ELSE IF t \in {"invalid", "unknown", "sint", "real"} THEN t ELSE "invalid"
InferBinary(op, l, r) ==
    IF "invalid" \in {l, r} THEN "invalid"
    ELSE IF op \in Logical
         THEN IF {l, r} \subseteq {"bool", "unknown"} THEN "bool" ELSE "invalid"
    ELSE IF op \in Comparisons
         THEN IF "unknown" \in {l, r} \/ {l, r} \subseteq Numeric THEN "bool" ELSE "invalid"
    ELSE IF {l, r} \subseteq Numeric \cup {"unknown"} /\ ~(op = "%" /\ "real" \in {l, r})
         THEN Joined(l, r) ELSE "invalid"

InferFrom(e, inferred(_)) ==
    CASE e.kind = "id"  -> "unknown"
      [] e.kind = "neg" -> InferNegated(inferred(e.arg))
      [] e.kind = "bin" -> InferBinary(e.op, inferred(e.left), inferred(e.right))
      [] OTHER          -> LiteralType(e)

\* resolvedExpressionType, where `declared` is what the declaration of a symbol says.
TypedNegated(t) == IF t \in Numeric THEN InferNegated(t) ELSE "invalid"

\* Mutant of TypedBinary: signed and unsigned operands give a signed result.
TypedBinarySigned(op, l, r) ==
    IF op \in Logical THEN IF {l, r} = {"bool"} THEN "bool" ELSE "invalid"
    ELSE IF ~({l, r} \subseteq Numeric) THEN "invalid"
    ELSE IF op \in Comparisons THEN "bool"
    ELSE IF "real" \in {l, r} THEN IF op = "%" THEN "invalid" ELSE "real"
    ELSE IF "sint" \in {l, r} THEN "sint" ELSE "uint"

TypedBinary(op, l, r) ==
    IF op \in Logical THEN IF {l, r} = {"bool"} THEN "bool" ELSE "invalid"
    ELSE IF ~({l, r} \subseteq Numeric) THEN "invalid"
    ELSE IF op \in Comparisons THEN "bool"
    ELSE IF op = "%" /\ "real" \in {l, r} THEN "invalid" ELSE Joined(l, r)

TypeFrom(e, declared(_), type(_)) ==
    CASE e.kind = "id"  -> declared(e.id)
      [] e.kind = "neg" -> TypedNegated(type(e.arg))
      [] e.kind = "bin" -> TypedBinary(e.op, type(e.left), type(e.right))
      [] OTHER          -> LiteralType(e)

-----------------------------------------------------------------------------
\* Reference: what an expression means over numbers without end, the result cut
\* to the range of its type.  Floating-point numbers have no values here.

\* The quotient and the remainder that go together: q * b + r = a, r smaller than
\* b and of the sign of a.
Divided(a, b) == CHOOSE d \in [q : MinInt..MaxUint + 1, r : MinInt..MaxUint] :
                    /\ d.q * b + d.r = a /\ Abs(d.r) < Abs(b)
                    /\ d.r # 0 => (d.r < 0) = (a < 0)

InRange(type, n) == n \in IF type = "sint" THEN MinInt..MaxInt ELSE 0..MaxUint

ExactResult(op, a, b) == CASE op = "+" -> a + b
                           [] op = "-" -> a - b
                           [] op = "*" -> a * b
                           [] op = "/" -> Divided(a, b).q
                           [] op = "%" -> Divided(a, b).r

ExactBinary(op, a, b) ==
    LET type == IF "uint" \in {a.t, b.t} THEN "uint" ELSE "sint"
        n == ExactResult(op, a.v, b.v)
    IN  IF op \in Logical
        THEN IF {a.t, b.t} # {"bool"} THEN Fail
             ELSE Truth((op = "&&") = (a.v + b.v = (IF op = "&&" THEN 2 ELSE 0)))
        ELSE IF ~(IsInteger(a) /\ IsInteger(b)) THEN Fail
        ELSE IF ~(InRange(type, a.v) /\ InRange(type, b.v)) THEN Fail
        ELSE IF op \in Comparisons THEN Truth(Compares(op, a.v, b.v))
        ELSE IF op \in {"/", "%"} /\ b.v = 0 THEN Fail
        ELSE IF InRange(type, n) THEN [t |-> type, v |-> n] ELSE Fail

\* `meaning` is that of a symbol.
ExactFrom(e, meaning(_), exact(_)) ==
    CASE e.kind = "id"  -> meaning(e.id)
      [] e.kind = "neg" -> LET x == exact(e.arg)
                           IN  IF IsInteger(x) /\ InRange("sint", -x.v) THEN Sint(-x.v) ELSE Fail
      [] e.kind = "bin" -> LET x == exact(e.left)
                           IN  IF x \in Failures THEN Fail
                               ELSE IF Decides(e.op, x) THEN x
                               ELSE IF exact(e.right) \in Failures THEN Fail
                               ELSE ExactBinary(e.op, x, exact(e.right))
      [] e.kind = "dec" -> IF InRange("sint", e.n) THEN Sint(e.n)
                           ELSE IF InRange("uint", e.n) THEN Uint(e.n) ELSE Fail
      [] e.kind = "hex" -> IF InRange("uint", e.n) THEN Uint(e.n) ELSE Fail
      [] e.kind = "flag" -> Truth(e.n = 1)
      [] OTHER -> Fail

-----------------------------------------------------------------------------
\* The walks without recursion: functions on a set of expressions that agree with
\* the steps.  An expression is a finite tree, so its height can be counted.

Kinds == {"dec", "hex", "float", "flag", "text", "id", "neg", "bin"}
Operands(e) == CASE e.kind = "neg" -> {e.arg}
                 [] e.kind = "bin" -> {e.left, e.right}
                 [] OTHER          -> {}

Trees(es, height) ==
    /\ height \in [es -> Nat]
    /\ \A e \in es : /\ e.kind \in Kinds
                     /\ e.kind \in {"dec", "hex"} => e.n \in Nat
                     /\ e.kind = "bin" => e.op \in Logical \cup Comparisons \cup Arithmetic
                     /\ \A x \in Operands(e) : x \in es /\ height[x] < height[e]

\* The symbols that an expression refers to (collectExprSymbols).
Mentions(es, names) ==
    \A e \in es : names[e] = IF e.kind = "id" THEN {e.id}
                              ELSE UNION {names[x] : x \in Operands(e)}

Evaluates(es, env, out) == \A e \in es : out[e] = OutcomesFrom(e, env, LAMBDA x : out[x])
Infers(es, inferred) == \A e \in es : inferred[e] = InferFrom(e, LAMBDA x : inferred[x])
Types(es, declared, type) ==
    \A e \in es : type[e] = TypeFrom(e, LAMBDA s : declared[s], LAMBDA x : type[x])
Means(es, meaning, exact) ==
    \A e \in es : exact[e] = ExactFrom(e, LAMBDA s : meaning[s], LAMBDA x : exact[x])
=============================================================================
