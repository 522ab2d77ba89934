-------------------------------- MODULE Words --------------------------------
(***************************************************************************)
(* The values an expression of the language may have, and the operators on *)
(* them (src/runtime/ExpressionEvaluator.cpp).  An integer is signed or    *)
(* unsigned, of one width; nothing wraps: an operator whose result does    *)
(* not fit fails.  An operator gives the set of its possible outcomes,     *)
(* which has one element unless a floating-point number takes part: those  *)
(* are all one value.                                                      *)
(***************************************************************************)
EXTENDS Integers

CONSTANT Half     \* 2^63: as many negative numbers are signed

ASSUME HalfAssumption == Half \in Nat \ {0}

MaxInt == Half - 1
MinInt == -Half
MaxUint == 2 * Half - 1

Sint(n) == [t |-> "sint", v |-> n]
Uint(n) == [t |-> "uint", v |-> n]
Truth(b) == [t |-> "bool", v |-> IF b THEN 1 ELSE 0]
Real == [t |-> "real", v |-> 0]
Fail == [t |-> "fail", v |-> 0]           \* overflow, division by zero, mixed signs
Mistyped == [t |-> "mistyped", v |-> 0]   \* an operand of the wrong kind

Sints == {Sint(n) : n \in MinInt..MaxInt}
Uints == {Uint(n) : n \in 0..MaxUint}
Values == Sints \cup Uints \cup {Real} \cup {Truth(b) : b \in BOOLEAN}
Failures == {Fail, Mistyped}

IsInteger(x) == x.t \in {"sint", "uint"}
IsNumeric(x) == x.t \in {"sint", "uint", "real"}

-----------------------------------------------------------------------------
\* Division as in C++, toward zero.

Abs(n) == IF n < 0 THEN -n ELSE n
Quotient(a, b) == LET q == Abs(a) \div Abs(b) IN IF (a < 0) = (b < 0) THEN q ELSE -q
Remainder(a, b) == a - b * Quotient(a, b)

\* checkedSigned: the tests made before an operation, themselves free of overflow.

SumOverflows(a, b) == \/ b > 0 /\ a > MaxInt - b
                      \/ b < 0 /\ a < MinInt - b

\* Mutant of DifferenceOverflows: one of its ends is off by one.
DifferenceOverflowsLate(a, b) == \/ b < 0 /\ a > MaxInt + b + 1
                                 \/ b > 0 /\ a < MinInt + b

DifferenceOverflows(a, b) == \/ b < 0 /\ a > MaxInt + b
                             \/ b > 0 /\ a < MinInt + b

ProductOverflows(a, b) ==
    \/ a = -1 /\ b = MinInt
    \/ b = -1 /\ a = MinInt
    \/ a > 0 /\ b > 0 /\ a > Quotient(MaxInt, b)
    \/ a > 0 /\ b < -1 /\ b < Quotient(MinInt, a)
    \/ a < -1 /\ b > 0 /\ a < Quotient(MinInt, b)
    \/ a < -1 /\ b < -1 /\ a < Quotient(MaxInt, b)

Signed(op, a, b) ==
    CASE op = "+" -> IF SumOverflows(a, b) THEN Fail ELSE Sint(a + b)
      [] op = "-" -> IF DifferenceOverflows(a, b) THEN Fail ELSE Sint(a - b)
      [] op = "*" -> IF ProductOverflows(a, b) THEN Fail ELSE Sint(a * b)
      [] op = "/" -> IF b = 0 \/ (a = MinInt /\ b = -1) THEN Fail ELSE Sint(Quotient(a, b))
      [] op = "%" -> IF b = 0 THEN Fail
                     ELSE IF a = MinInt /\ b = -1 THEN Sint(0) ELSE Sint(Remainder(a, b))

Unsigned(op, a, b) ==
    CASE op = "+" -> IF b > MaxUint - a THEN Fail ELSE Uint(a + b)
      [] op = "-" -> IF b > a THEN Fail ELSE Uint(a - b)
      [] op = "*" -> IF b # 0 /\ a > MaxUint \div b THEN Fail ELSE Uint(a * b)
      [] op = "/" -> IF b = 0 THEN Fail ELSE Uint(a \div b)
      [] op = "%" -> IF b = 0 THEN Fail ELSE Uint(a % b)

\* integerOperands: a signed operand next to an unsigned one is taken as
\* unsigned, unless it is negative.
MixedNegative(a, b) == a.t # b.t /\ (a.v < 0 \/ b.v < 0)
BothSigned(a, b) == a.t = "sint" /\ b.t = "sint"

Compares(op, a, b) == CASE op = "==" -> a = b [] op = "!=" -> a # b
                        [] op = "<"  -> a < b [] op = "<=" -> a <= b
                        [] op = ">"  -> a > b [] op = ">=" -> a >= b

Logical == {"&&", "||"}
Comparisons == {"==", "!=", "<", "<=", ">", ">="}
Arithmetic == {"+", "-", "*", "/", "%"}

Binary(op, a, b) ==
    CASE op \in Logical ->
            {IF {a.t, b.t} # {"bool"} THEN Mistyped
             ELSE Truth(IF op = "&&" THEN a.v = 1 /\ b.v = 1 ELSE a.v = 1 \/ b.v = 1)}
      [] op \in Comparisons ->
            IF ~(IsNumeric(a) /\ IsNumeric(b)) THEN {Mistyped}
            ELSE IF Real \in {a, b} THEN {Truth(TRUE), Truth(FALSE)}
            ELSE {IF MixedNegative(a, b) THEN Fail ELSE Truth(Compares(op, a.v, b.v))}
      [] op \in Arithmetic ->
            IF Real \in {a, b} THEN IF op = "%" THEN {Fail, Mistyped} ELSE {Real, Fail}
            ELSE {IF ~(IsInteger(a) /\ IsInteger(b)) THEN Mistyped
                  ELSE IF MixedNegative(a, b) THEN Fail
                  ELSE IF BothSigned(a, b) THEN Signed(op, a.v, b.v)
                  ELSE Unsigned(op, a.v, b.v)}

Negated(x) == CASE x.t = "sint"  -> IF x.v = MinInt THEN Fail ELSE Sint(-x.v)
                [] x.t = "uint" -> IF x.v > Half THEN Fail ELSE Sint(-x.v)
                [] x.t = "real" -> Real
                [] x.t = "bool" -> Mistyped

\* parseLiteral: a decimal number is signed if it fits, a hexadecimal one never.
Decimal(n) == IF n > MaxUint THEN Fail ELSE IF n <= MaxInt THEN Sint(n) ELSE Uint(n)
Hexadecimal(n) == IF n > MaxUint THEN Fail ELSE Uint(n)
=============================================================================
