----------------------------- MODULE Words_proofs -----------------------------
(***************************************************************************)
(* For words of any size the tests that come before an operation (see      *)
(* checkedSigned and unsignedArithmetic in                                 *)
(* src/runtime/ExpressionEvaluator.cpp) fail exactly when the result would *)
(* not fit, and what they let through is a value.                          *)
(***************************************************************************)
EXTENDS Operators, TLAPS, WellFoundedInduction

SignedRange == MinInt..MaxInt
UnsignedRange == 0..MaxUint

USE HalfAssumption

\* The tests of the signed sum and difference, which do not overflow themselves.
LEMMA SumExact ==
  ASSUME NEW a \in SignedRange, NEW b \in SignedRange
  PROVE  SumOverflows(a, b) <=> a + b \notin SignedRange
  BY DEF SumOverflows, SignedRange, MinInt, MaxInt

LEMMA DifferenceExact ==
  ASSUME NEW a \in SignedRange, NEW b \in SignedRange
  PROVE  DifferenceOverflows(a, b) <=> a - b \notin SignedRange
  BY DEF DifferenceOverflows, SignedRange, MinInt, MaxInt

-----------------------------------------------------------------------------
\* Division toward zero.

\* What the quotient of naturals is, as inequalities.
LEMMA DivBounds ==
  ASSUME NEW a \in Nat, NEW b \in Nat \ {0}
  PROVE  /\ a \div b \in Nat
         /\ b * (a \div b) <= a
         /\ a < b * (a \div b) + b
         /\ a \div b <= a
  BY SMT

\* The quotient of magnitudes is exceeded exactly when the product is too large.
LEMMA ProductWithin ==
  ASSUME NEW a \in Nat, NEW b \in Nat \ {0}, NEW m \in Nat
  PROVE  a > m \div b <=> a * b > m
<1> DEFINE q == m \div b
<1>1. q \in Nat /\ b * q <= m /\ m < b * q + b
  BY DivBounds
<1> HIDE DEF q
<1>2. ASSUME a <= q PROVE a * b <= m
  <2>1. a * b <= q * b BY <1>1, <1>2
  <2> QED BY <2>1, <1>1
<1>3. ASSUME a >= q + 1 PROVE a * b > m
  <2>1. a * b >= (q + 1) * b BY <1>1, <1>3
  <2> QED BY <2>1, <1>1
<1> QED BY <1>1, <1>2, <1>3 DEF q

\* The quotient toward zero is that of the magnitudes, with its sign.
LEMMA Quotients ==
  ASSUME NEW a \in Int, NEW b \in Int \ {0}
  PROVE  /\ Abs(a) \in Nat /\ Abs(b) \in Nat \ {0}
         /\ (a < 0) = (b < 0) => Quotient(a, b) = Abs(a) \div Abs(b)
         /\ (a < 0) # (b < 0) => Quotient(a, b) = -(Abs(a) \div Abs(b))
         /\ Quotient(a, b) \in Int
  BY DivBounds DEF Quotient, Abs

\* The tests of the signed product (checkedSigned) are exact, case by case of the
\* signs.
LEMMA ProductExact ==
  ASSUME NEW a \in SignedRange, NEW b \in SignedRange
  PROVE  ProductOverflows(a, b) <=> a * b \notin SignedRange
<1>1. /\ a \in Int /\ b \in Int /\ MinInt \in Int /\ MaxInt \in Nat /\ Half \in Nat \ {0}
      /\ MinInt = -Half /\ MaxInt = Half - 1
      /\ a >= MinInt /\ a <= MaxInt /\ b >= MinInt /\ b <= MaxInt
  BY DEF SignedRange, MinInt, MaxInt
<1>2. CASE a = 0 \/ b = 0
  BY <1>1, <1>2 DEF ProductOverflows, SignedRange
<1>3. CASE a = -1 \/ b = -1
  BY <1>1, <1>3 DEF ProductOverflows, SignedRange
<1>4. CASE a > 0 /\ b > 0
  <2>1. Quotient(MaxInt, b) = MaxInt \div b
    BY <1>1, <1>4 DEF Quotient, Abs
  <2>2. a > MaxInt \div b <=> a * b > MaxInt
    BY <1>1, <1>4, ProductWithin
  <2>3. a * b > 0
    BY <1>1, <1>4
  <2> QED BY <1>1, <1>4, <2>1, <2>2, <2>3 DEF ProductOverflows, SignedRange
<1>5. CASE a > 0 /\ b < -1
  <2>1. Quotient(MinInt, a) = -(Half \div a)
    BY <1>1, <1>5 DEF Quotient, Abs
  <2>2. -b > Half \div a <=> (-b) * a > Half
    BY <1>1, <1>5, ProductWithin
  <2>3. a * b < 0 /\ (-b) * a = -(a * b)
    BY <1>1, <1>5
  <2>4. Half \div a \in Nat
    BY <1>1, <1>5, DivBounds
  <2> QED BY <1>1, <1>5, <2>1, <2>2, <2>3, <2>4 DEF ProductOverflows, SignedRange
<1>6. CASE a < -1 /\ b > 0
  <2>1. Quotient(MinInt, b) = -(Half \div b)
    BY <1>1, <1>6 DEF Quotient, Abs
  <2>2. -a > Half \div b <=> (-a) * b > Half
    BY <1>1, <1>6, ProductWithin
  <2>3. a * b < 0 /\ (-a) * b = -(a * b)
    BY <1>1, <1>6
  <2>4. Half \div b \in Nat
    BY <1>1, <1>6, DivBounds
  <2> QED BY <1>1, <1>6, <2>1, <2>2, <2>3, <2>4 DEF ProductOverflows, SignedRange
<1>7. CASE a < -1 /\ b < -1
  <2>1. Quotient(MaxInt, b) = -(MaxInt \div (-b))
    BY <1>1, <1>7 DEF Quotient, Abs
  <2>2. -a > MaxInt \div (-b) <=> (-a) * (-b) > MaxInt
    BY <1>1, <1>7, ProductWithin
  <2>3. a * b > 0 /\ (-a) * (-b) = a * b
    BY <1>1, <1>7
  <2>4. MaxInt \div (-b) \in Nat
    BY <1>1, <1>7, DivBounds
  <2> QED BY <1>1, <1>7, <2>1, <2>2, <2>3, <2>4 DEF ProductOverflows, SignedRange
<1> QED BY <1>1, <1>2, <1>3, <1>4, <1>5, <1>6, <1>7

-----------------------------------------------------------------------------
\* What an operation on integers gives.

\* A signed sum, difference or product is exact, or fails because it is out of
\* range: no result ever wraps around.
THEOREM SignedIsExact ==
  ASSUME NEW a \in SignedRange, NEW b \in SignedRange
  PROVE  /\ Signed("+", a, b) = IF a + b \in SignedRange THEN Sint(a + b) ELSE Fail
         /\ Signed("-", a, b) = IF a - b \in SignedRange THEN Sint(a - b) ELSE Fail
         /\ Signed("*", a, b) = IF a * b \in SignedRange THEN Sint(a * b) ELSE Fail
  BY SumExact, DifferenceExact, ProductExact DEF Signed

\* The same for unsigned operands.
THEOREM UnsignedIsExact ==
  ASSUME NEW a \in UnsignedRange, NEW b \in UnsignedRange
  PROVE  /\ Unsigned("+", a, b) = IF a + b \in UnsignedRange THEN Uint(a + b) ELSE Fail
         /\ Unsigned("-", a, b) = IF a - b \in UnsignedRange THEN Uint(a - b) ELSE Fail
         /\ Unsigned("*", a, b) = IF a * b \in UnsignedRange THEN Uint(a * b) ELSE Fail
<1>1. a \in Nat /\ b \in Nat /\ MaxUint \in Nat /\ a <= MaxUint /\ b <= MaxUint
  BY DEF UnsignedRange, MaxUint
<1>2. (b # 0 /\ a > MaxUint \div b) <=> a * b \notin UnsignedRange
  <2>1. CASE b = 0
    BY <1>1, <2>1 DEF UnsignedRange
  <2>2. CASE b # 0
    BY <1>1, <2>2, ProductWithin DEF UnsignedRange
  <2> QED BY <2>1, <2>2
<1> QED BY <1>1, <1>2 DEF Unsigned, UnsignedRange

\* Division and remainder go together, toward zero: the parts add up to the
\* dividend, the remainder is smaller than the divisor and has the sign of the
\* dividend.  They fail for a zero divisor and, the quotient only, for the one
\* result that does not fit.
THEOREM DivisionIsExact ==
  ASSUME NEW a \in SignedRange, NEW b \in SignedRange \ {0}
  PROVE  /\ b * Quotient(a, b) + Remainder(a, b) = a
         /\ Abs(Remainder(a, b)) < Abs(b)
         /\ Remainder(a, b) # 0 => (Remainder(a, b) < 0 <=> a < 0)
         /\ Signed("/", a, b) = IF Quotient(a, b) \in SignedRange
                                THEN Sint(Quotient(a, b)) ELSE Fail
         /\ Signed("%", a, b) = Sint(Remainder(a, b))
<1> DEFINE m == Abs(a)
           n == Abs(b)
           q == m \div n
<1>1. /\ a \in Int /\ b \in Int /\ b # 0 /\ Half \in Nat \ {0}
      /\ -Half <= a /\ a < Half /\ -Half <= b /\ b < Half
      /\ SignedRange = -Half .. Half - 1 /\ MinInt = -Half
  BY DEF SignedRange, MinInt, MaxInt
<1>2. /\ m \in Nat /\ n \in Nat /\ n > 0
      /\ IF a < 0 THEN m = -a ELSE m = a
      /\ IF b < 0 THEN n = -b ELSE n = b
  BY <1>1 DEF Abs
<1>3. q \in Nat /\ n * q <= m /\ m < n * q + n /\ q <= m
  BY <1>2, DivBounds
<1>4. Quotient(a, b) = IF (a < 0) = (b < 0) THEN q ELSE -q
  BY DEF Quotient
<1> HIDE DEF q, m, n
<1>5. b * Quotient(a, b) = IF a < 0 THEN -(n * q) ELSE n * q
  <2>1. CASE b < 0
    BY <1>1, <1>2, <1>3, <1>4, <2>1
  <2>2. CASE ~(b < 0)
    BY <1>1, <1>2, <1>3, <1>4, <2>2
  <2> QED BY <2>1, <2>2
<1>6. Remainder(a, b) = IF a < 0 THEN -(m - n * q) ELSE m - n * q
  BY <1>1, <1>2, <1>3, <1>5 DEF Remainder
<1>7. n * q \in Nat /\ m - n * q \in 0..n - 1
  BY <1>2, <1>3
<1>8. Abs(Remainder(a, b)) < Abs(b)
  BY <1>2, <1>6, <1>7 DEF Abs, n
<1>9. Quotient(a, b) \notin SignedRange <=> a = MinInt /\ b = -1
  <2>1. CASE n = 1
    BY <1>1, <1>2, <1>3, <1>4, <2>1
  <2>2. CASE n > 1
    <3>1. q + q <= n * q
      BY <1>2, <1>3, <2>2
    <3>2. q < Half
      BY <1>1, <1>2, <1>3, <3>1
    <3> QED BY <1>1, <1>2, <1>3, <1>4, <2>2, <3>2
  <2> QED BY <1>2, <2>1, <2>2
<1>10. Signed("/", a, b) = IF Quotient(a, b) \in SignedRange
                           THEN Sint(Quotient(a, b)) ELSE Fail
  <2>1. Signed("/", a, b) = IF b = 0 \/ (a = MinInt /\ b = -1)
                            THEN Fail ELSE Sint(Quotient(a, b))
    BY DEF Signed
  <2> QED BY <1>1, <1>9, <2>1
<1>11. Signed("%", a, b) = Sint(Remainder(a, b))
  <2>1. Signed("%", a, b) = IF b = 0 THEN Fail
                            ELSE IF a = MinInt /\ b = -1 THEN Sint(0) ELSE Sint(Remainder(a, b))
    BY DEF Signed
  <2>2. a = MinInt /\ b = -1 => Remainder(a, b) = 0
    BY <1>1, <1>2, <1>6, <1>7
  <2> QED BY <1>1, <2>1, <2>2
<1> QED BY <1>1, <1>2, <1>3, <1>5, <1>6, <1>7, <1>8, <1>10, <1>11
-----------------------------------------------------------------------------
\* The reference for quotients is met by exactly one pair, that of Quotient and
\* Remainder.

\* Signs and sizes of the remainder toward zero.
LEMMA RemainderOf ==
  ASSUME NEW a \in Int, NEW b \in Int \ {0}
  PROVE  /\ Quotient(a, b) \in Int /\ Remainder(a, b) \in Int
         /\ Quotient(a, b) * b + Remainder(a, b) = a
         /\ Abs(Remainder(a, b)) < Abs(b)
         /\ Remainder(a, b) # 0 => (Remainder(a, b) < 0) = (a < 0)
         /\ Abs(Remainder(a, b)) <= Abs(a) /\ Abs(Quotient(a, b)) <= Abs(a)
<1> DEFINE m == Abs(a)
           n == Abs(b)
           q == m \div n
<1>1. /\ m \in Nat /\ n \in Nat /\ n > 0
      /\ IF a < 0 THEN m = -a ELSE m = a
      /\ IF b < 0 THEN n = -b ELSE n = b
  BY DEF Abs
<1>2. q \in Nat /\ n * q <= m /\ m < n * q + n /\ q <= m
  BY <1>1, DivBounds
<1>3. Quotient(a, b) = IF (a < 0) = (b < 0) THEN q ELSE -q
  BY DEF Quotient
<1> HIDE DEF q, m, n
<1>4. b * Quotient(a, b) = IF a < 0 THEN -(n * q) ELSE n * q
  <2>1. CASE b < 0
    BY <1>1, <1>2, <1>3, <2>1
  <2>2. CASE ~(b < 0)
    BY <1>1, <1>2, <1>3, <2>2
  <2> QED BY <2>1, <2>2
<1>5. Quotient(a, b) \in Int /\ Abs(Quotient(a, b)) <= m
  BY <1>1, <1>2, <1>3 DEF Abs
<1>6. n * q \in Nat /\ m - n * q \in 0..n - 1
  BY <1>1, <1>2
<1>7. Remainder(a, b) = IF a < 0 THEN -(m - n * q) ELSE m - n * q
  BY <1>1, <1>2, <1>4, <1>6 DEF Remainder
<1>8. Quotient(a, b) * b + Remainder(a, b) = a
  BY <1>5 DEF Remainder
<1>9. Abs(Remainder(a, b)) = m - n * q
  BY <1>1, <1>6, <1>7 DEF Abs
<1> QED BY <1>1, <1>5, <1>6, <1>7, <1>8, <1>9 DEF m, n

\* Two numbers of one sign that differ by a multiple of b, both smaller than b,
\* are the same.
LEMMA OneRemainder ==
  ASSUME NEW b \in Int \ {0}, NEW k \in Int, NEW r \in Int, NEW s \in Int,
         k * b = s - r, Abs(r) < Abs(b), Abs(s) < Abs(b),
         (r >= 0 /\ s >= 0) \/ (r <= 0 /\ s <= 0)
  PROVE  k = 0
<1>1. s - r < Abs(b) /\ r - s < Abs(b)
  <2>1. CASE r > 0
    <3>1. s >= 0 BY <2>1
    <3> QED BY <2>1, <3>1 DEF Abs
  <2>2. CASE r < 0
    <3>1. s <= 0 BY <2>2
    <3> QED BY <2>2, <3>1 DEF Abs
  <2>3. CASE r = 0
    BY <2>3 DEF Abs
  <2> QED BY <2>1, <2>2, <2>3
<1>2. ASSUME k # 0 PROVE FALSE
  <2>1. CASE k > 0
    <3>1. CASE b > 0
      <4>1. k * b >= b BY <2>1, <3>1
      <4> QED BY <1>1, <3>1, <4>1 DEF Abs
    <3>2. CASE b < 0
      <4>1. k * b <= b BY <2>1, <3>2
      <4> QED BY <1>1, <3>2, <4>1 DEF Abs
    <3> QED BY <3>1, <3>2
  <2>2. CASE k < 0
    <3>1. CASE b > 0
      <4>1. k * b <= -b BY <2>2, <3>1
      <4> QED BY <1>1, <3>1, <4>1 DEF Abs
    <3>2. CASE b < 0
      <4>1. k * b >= -b BY <2>2, <3>2
      <4> QED BY <1>1, <3>2, <4>1 DEF Abs
    <3> QED BY <3>1, <3>2
  <2> QED BY <1>2, <2>1, <2>2
<1> QED BY <1>2

\* So there is one quotient, and one remainder that goes with it.
LEMMA OneQuotient ==
  ASSUME NEW a \in Int, NEW b \in Int \ {0}, NEW p \in Int, NEW q \in Int,
         NEW r \in Int, NEW s \in Int, p * b + r = a, q * b + s = a,
         Abs(r) < Abs(b), Abs(s) < Abs(b),
         (r >= 0 /\ s >= 0) \/ (r <= 0 /\ s <= 0)
  PROVE  p = q /\ r = s
<1>1. (p - q) * b = p * b - q * b
  OBVIOUS
<1>2. p - q \in Int /\ (p - q) * b = s - r
  BY <1>1
<1>3. p - q = 0
  <2> DEFINE k == p - q
  <2>1. k \in Int /\ k * b = s - r
    BY <1>2
  <2> HIDE DEF k
  <2>2. k = 0
    BY <2>1, OneRemainder
  <2> QED BY <2>2 DEF k
<1>4. p = q
  BY <1>3
<1> QED BY <1>4

LEMMA DividedIs ==
  ASSUME NEW a, NEW b, b # 0,
         {a, b} \subseteq SignedRange \/ {a, b} \subseteq UnsignedRange
  PROVE  Divided(a, b) = [q |-> Quotient(a, b), r |-> Remainder(a, b)]
<1> DEFINE pairs == [q : MinInt..MaxUint + 1, r : MinInt..MaxUint]
           P(d) == /\ d.q * b + d.r = a /\ Abs(d.r) < Abs(b)
                   /\ d.r # 0 => (d.r < 0) = (a < 0)
           ours == [q |-> Quotient(a, b), r |-> Remainder(a, b)]
<1>1. /\ a \in Int /\ b \in Int /\ b # 0 /\ MinInt = -Half /\ MaxUint = 2 * Half - 1
      /\ Half \in Nat \ {0} /\ -Half <= a /\ -Half <= b
      /\ (a < Half /\ b < Half) \/ (0 <= a /\ a < 2 * Half /\ 0 <= b)
  BY DEF MinInt, MaxInt, MaxUint, SignedRange, UnsignedRange
<1>2. ours \in pairs /\ P(ours)
  <2>1. /\ Quotient(a, b) \in Int /\ Remainder(a, b) \in Int
        /\ Quotient(a, b) * b + Remainder(a, b) = a
        /\ Abs(Remainder(a, b)) < Abs(b)
        /\ Remainder(a, b) # 0 => (Remainder(a, b) < 0) = (a < 0)
        /\ Abs(Remainder(a, b)) <= Abs(a) /\ Abs(Quotient(a, b)) <= Abs(a)
    BY <1>1, RemainderOf
  <2>2. Remainder(a, b) \in MinInt..MaxUint
    BY <1>1, <2>1 DEF Abs
  <2>3. Quotient(a, b) \in MinInt..MaxUint + 1
    <3>1. CASE a < Half /\ b < Half
      BY <1>1, <2>1, <3>1 DEF Abs
    <3>2. CASE 0 <= a /\ 0 <= b
      <4>1. Quotient(a, b) = Abs(a) \div Abs(b)
        BY <1>1, <3>2, Quotients
      <4>2. Abs(a) \div Abs(b) \in Nat
        BY <1>1, Quotients, DivBounds
      <4> QED BY <1>1, <2>1, <3>2, <4>1, <4>2 DEF Abs
    <3> QED BY <1>1, <3>1, <3>2
  <2> QED BY <2>1, <2>2, <2>3
<1>3. ASSUME NEW d \in pairs, P(d) PROVE d = ours
  <2>1. d.q \in Int /\ d.r \in Int
    BY <1>1, <1>3
  <2> DEFINE q == Quotient(a, b)
             r == Remainder(a, b)
  <2>2. /\ q \in Int /\ r \in Int /\ q * b + r = a
        /\ Abs(r) < Abs(b)
        /\ r # 0 => (r < 0) = (a < 0)
    BY <1>1, RemainderOf
  <2> HIDE DEF q, r
  <2>3. /\ d.q * b + d.r = a /\ Abs(d.r) < Abs(b)
        /\ (d.r >= 0 /\ r >= 0) \/ (d.r <= 0 /\ r <= 0)
    BY <1>1, <1>3, <2>1, <2>2
  <2>4. d.q = q /\ d.r = r
    BY <1>1, <2>1, <2>2, <2>3, OneQuotient
  <2> QED BY <1>3, <2>4 DEF q, r
<1>4. Divided(a, b) = CHOOSE d \in pairs : P(d)
  BY DEF Divided
<1> QED BY <1>2, <1>3, <1>4

-----------------------------------------------------------------------------
\* What an operator makes of values.

LEMMA TruthValues == {Truth(b) : b \in BOOLEAN} = {Truth(TRUE), Truth(FALSE)}
  OBVIOUS

LEMMA ValueForms ==
  /\ \A x \in Values : /\ x.t \in {"sint", "uint", "real", "bool"} /\ x \notin Failures
                       /\ x.t = "sint" => x = Sint(x.v) /\ x.v \in SignedRange
                       /\ x.t = "uint" => x = Uint(x.v) /\ x.v \in UnsignedRange
                       /\ x.t = "real" <=> x = Real
                       /\ x.t = "bool" => x \in {Truth(TRUE), Truth(FALSE)}
  /\ \A n \in SignedRange : Sint(n) \in Values /\ Sint(n).t = "sint" /\ Sint(n).v = n
  /\ \A n \in UnsignedRange : Uint(n) \in Values /\ Uint(n).t = "uint" /\ Uint(n).v = n
  /\ \A z \in {Truth(TRUE), Truth(FALSE)} : z \in Values /\ z.t = "bool"
  /\ Truth(TRUE).v = 1 /\ Truth(FALSE).v = 0
  /\ Real \in Values /\ Real.t = "real"
  /\ Fail \notin Values /\ Mistyped \notin Values /\ Fail # Mistyped
<1>0. Values = Sints \cup Uints \cup {Real} \cup {Truth(TRUE), Truth(FALSE)}
  BY TruthValues DEF Values
<1> USE DEF Sints, Uints, Sint, Uint, Real, Truth, Fail, Mistyped, Failures,
            SignedRange, UnsignedRange
<1>1. ASSUME NEW x \in Values
      PROVE  /\ x.t \in {"sint", "uint", "real", "bool"} /\ x \notin Failures
             /\ x.t = "sint" => x = Sint(x.v) /\ x.v \in SignedRange
             /\ x.t = "uint" => x = Uint(x.v) /\ x.v \in UnsignedRange
             /\ x.t = "real" <=> x = Real
             /\ x.t = "bool" => x \in {Truth(TRUE), Truth(FALSE)}
  <2>1. CASE x \in Sints BY <2>1
  <2>2. CASE x \in Uints BY <2>2
  <2>3. CASE x = Real BY <2>3
  <2>4. CASE x \in {Truth(TRUE), Truth(FALSE)} BY <2>4
  <2> QED BY <1>0, <2>1, <2>2, <2>3, <2>4
<1> QED BY <1>0, <1>1

\* Arithmetic on words gives one word of the same sign, or fails.
LEMMA ArithmeticGives ==
  ASSUME NEW op \in Arithmetic
  PROVE  /\ \A a \in SignedRange, b \in SignedRange :
               Signed(op, a, b) = Fail \/ Signed(op, a, b) \in Sints
         /\ \A a \in UnsignedRange, b \in UnsignedRange :
               Unsigned(op, a, b) = Fail \/ Unsigned(op, a, b) \in Uints
<1>1. ASSUME NEW a \in SignedRange, NEW b \in SignedRange
      PROVE  Signed(op, a, b) = Fail \/ Signed(op, a, b) \in Sints
  <2>1. CASE op \in {"+", "-", "*"}
    BY <2>1, SignedIsExact DEF Sints, SignedRange
  <2>2. CASE op \in {"/", "%"} /\ b = 0
    BY <2>2 DEF Signed
  <2>3. CASE op = "/" /\ b # 0
    BY <2>3, DivisionIsExact DEF Sints, SignedRange
  <2>4. CASE op = "%" /\ b # 0
    <3>1. Signed("%", a, b) = Sint(Remainder(a, b))
      BY <2>4, DivisionIsExact
    <3>2. a \in Int /\ b \in Int
      BY DEF SignedRange, MinInt, MaxInt
    <3>3. Remainder(a, b) \in Int /\ Abs(Remainder(a, b)) < Abs(b)
      BY <2>4, <3>2, RemainderOf
    <3>4. Remainder(a, b) \in SignedRange
      BY <3>2, <3>3 DEF SignedRange, MinInt, MaxInt, Abs
    <3> QED BY <2>4, <3>1, <3>4 DEF Sints, SignedRange
  <2> QED BY <2>1, <2>2, <2>3, <2>4 DEF Arithmetic
<1>2. ASSUME NEW a \in UnsignedRange, NEW b \in UnsignedRange
      PROVE  Unsigned(op, a, b) = Fail \/ Unsigned(op, a, b) \in Uints
  <2>1. CASE op \in {"+", "-", "*"}
    BY <2>1, UnsignedIsExact DEF Uints, UnsignedRange
  <2>2. CASE op \in {"/", "%"} /\ b = 0
    BY <2>2 DEF Unsigned
  <2>3. CASE op \in {"/", "%"} /\ b # 0
    <3>1. a \in Nat /\ b \in Nat \ {0} /\ a <= MaxUint /\ b <= MaxUint /\ MaxUint \in Nat
      BY <2>3 DEF UnsignedRange, MaxUint
    <3>2. a \div b \in UnsignedRange
      BY <3>1, DivBounds DEF UnsignedRange
    <3>3. a % b \in 0..b - 1
      BY <3>1
    <3>4. a % b \in UnsignedRange
      BY <3>1, <3>3 DEF UnsignedRange
    <3> QED BY <2>3, <3>2, <3>4 DEF Unsigned, Uints, UnsignedRange
  <2> QED BY <2>1, <2>2, <2>3 DEF Arithmetic
<1> QED BY <1>1, <1>2

\* Two integers are computed with as signed words if both are, else as unsigned
\* ones, which a negative number cannot be.
LEMMA WordsOf ==
  ASSUME NEW x \in Values, NEW y \in Values, IsInteger(x), IsInteger(y)
  PROVE  /\ BothSigned(x, y) => x.v \in SignedRange /\ y.v \in SignedRange
         /\ ~BothSigned(x, y) /\ ~MixedNegative(x, y) =>
               x.v \in UnsignedRange /\ y.v \in UnsignedRange
         /\ BothSigned(x, y) => ~MixedNegative(x, y)
<1>1. \A z \in {x, y} : \/ z.t = "sint" /\ z.v \in SignedRange
                        \/ z.t = "uint" /\ z.v \in UnsignedRange
  BY ValueForms DEF IsInteger
<1>2. \A n \in SignedRange : n >= 0 => n \in UnsignedRange
  BY DEF SignedRange, UnsignedRange, MinInt, MaxInt, MaxUint
<1>3. \A n \in SignedRange : n \in Int
  BY DEF SignedRange, MinInt, MaxInt
<1> QED BY <1>1, <1>2, <1>3 DEF BothSigned, MixedNegative

\* An operator whose operands have the types it asks for gives values of the type
\* found for it, or fails for the numbers, and never for the kind of an operand.
LEMMA BinaryTyped ==
  ASSUME NEW op \in Logical \cup Comparisons \cup Arithmetic,
         NEW x \in Values, NEW y \in Values, TypedBinary(op, x.t, y.t) # "invalid"
  PROVE  \A z \in Binary(op, x, y) :
            z = Fail \/ (z \in Values /\ z.t = TypedBinary(op, x.t, y.t))
<1>0. /\ Logical \cap Comparisons = {} /\ Logical \cap Arithmetic = {}
      /\ Comparisons \cap Arithmetic = {}
  BY DEF Logical, Comparisons, Arithmetic
<1>1. CASE op \in Logical
  <2>1. x.t = "bool" /\ y.t = "bool" /\ TypedBinary(op, x.t, y.t) = "bool"
    BY <1>1 DEF TypedBinary
  <2>2. \A z \in Binary(op, x, y) : z \in {Truth(TRUE), Truth(FALSE)}
    BY <1>0, <1>1, <2>1 DEF Binary, Truth
  <2>3. \A z \in {Truth(TRUE), Truth(FALSE)} : z \in Values /\ z.t = "bool"
    BY ValueForms, Zenon
  <2> QED BY <2>1, <2>2, <2>3
<1>2. CASE op \in Comparisons
  <2>1. {x.t, y.t} \subseteq Numeric /\ TypedBinary(op, x.t, y.t) = "bool"
    BY <1>0, <1>2 DEF TypedBinary
  <2>2. IsNumeric(x) /\ IsNumeric(y)
    BY <2>1 DEF IsNumeric, Numeric
  <2>3. Binary(op, x, y) = IF Real \in {x, y} THEN {Truth(TRUE), Truth(FALSE)}
          ELSE {IF MixedNegative(x, y) THEN Fail ELSE Truth(Compares(op, x.v, y.v))}
    BY <1>0, <1>2, <2>2 DEF Binary
  <2>4. Truth(Compares(op, x.v, y.v)) \in {Truth(TRUE), Truth(FALSE)}
    BY DEF Truth
  <2>5. \A z \in Binary(op, x, y) : z \in {Truth(TRUE), Truth(FALSE), Fail}
    BY <2>3, <2>4
  <2>6. \A z \in {Truth(TRUE), Truth(FALSE)} : z \in Values /\ z.t = "bool"
    BY ValueForms, Zenon
  <2> QED BY <2>1, <2>5, <2>6
<1>3. CASE op \in Arithmetic
  <2>1. {x.t, y.t} \subseteq Numeric
    BY <1>0, <1>3 DEF TypedBinary
  <2>2. CASE Real \in {x, y}
    <3>1. "real" \in {x.t, y.t}
      BY <2>2, ValueForms
    <3>2. op # "%" /\ TypedBinary(op, x.t, y.t) = "real"
      BY <1>0, <1>3, <2>1, <3>1 DEF TypedBinary, Joined
    <3>3. Binary(op, x, y) = {Real, Fail}
      BY <1>0, <1>3, <2>2, <3>2 DEF Binary
    <3> QED BY <3>2, <3>3, ValueForms
  <2>3. CASE Real \notin {x, y}
    <3>1. IsInteger(x) /\ IsInteger(y)
      BY <2>1, <2>3, ValueForms DEF IsInteger, Numeric
    <3>2. TypedBinary(op, x.t, y.t) = IF BothSigned(x, y) THEN "sint" ELSE "uint"
      BY <1>0, <1>3, <2>1, <3>1 DEF TypedBinary, Joined, BothSigned, IsInteger, Numeric
    <3>3. Binary(op, x, y) = {IF MixedNegative(x, y) THEN Fail
                              ELSE IF BothSigned(x, y) THEN Signed(op, x.v, y.v)
                              ELSE Unsigned(op, x.v, y.v)}
      BY <1>0, <1>3, <2>3, <3>1 DEF Binary
    <3>4. CASE MixedNegative(x, y)
      BY <3>3, <3>4
    <3>5. CASE ~MixedNegative(x, y) /\ BothSigned(x, y)
      <4>1. Signed(op, x.v, y.v) = Fail \/ Signed(op, x.v, y.v) \in Sints
        BY <1>3, <3>1, <3>5, WordsOf, ArithmeticGives
      <4>2. \A z \in Sints : z \in Values /\ z.t = "sint"
        BY DEF Sints, Sint, Values
      <4> QED BY <3>2, <3>3, <3>5, <4>1, <4>2
    <3>6. CASE ~MixedNegative(x, y) /\ ~BothSigned(x, y)
      <4>1. Unsigned(op, x.v, y.v) = Fail \/ Unsigned(op, x.v, y.v) \in Uints
        BY <1>3, <3>1, <3>6, WordsOf, ArithmeticGives
      <4>2. \A z \in Uints : z \in Values /\ z.t = "uint"
        BY DEF Uints, Uint, Values
      <4> QED BY <3>2, <3>3, <3>6, <4>1, <4>2
    <3> QED BY <3>4, <3>5, <3>6
  <2> QED BY <2>2, <2>3
<1> QED BY <1>1, <1>2, <1>3

LEMMA NegatedTyped ==
  ASSUME NEW x \in Values, TypedNegated(x.t) # "invalid"
  PROVE  Negated(x) = Fail \/ (Negated(x) \in Values /\ Negated(x).t = TypedNegated(x.t))
<1>1. CASE x.t = "sint"
  <2>1. x.v \in SignedRange /\ TypedNegated(x.t) = "sint"
    BY <1>1, ValueForms DEF TypedNegated, InferNegated, Numeric
  <2>2. x.v # MinInt => -x.v \in SignedRange
    BY <2>1 DEF SignedRange, MinInt, MaxInt
  <2> QED BY <1>1, <2>1, <2>2, ValueForms DEF Negated
<1>2. CASE x.t = "uint"
  <2>1. x.v \in UnsignedRange /\ TypedNegated(x.t) = "sint"
    BY <1>2, ValueForms DEF TypedNegated, InferNegated, Numeric
  <2>2. ~(x.v > Half) => -x.v \in SignedRange
    BY <2>1 DEF UnsignedRange, SignedRange, MinInt, MaxInt, MaxUint
  <2> QED BY <1>2, <2>1, <2>2, ValueForms DEF Negated
<1>3. CASE x.t = "real"
  BY <1>3, ValueForms DEF Negated, TypedNegated, InferNegated, Numeric
<1>4. x.t \in {"sint", "uint", "real"}
  BY DEF TypedNegated, Numeric
<1> QED BY <1>1, <1>2, <1>3, <1>4

\* On words, evaluation and the reference agree: one result, and the exact one, or
\* both fail.
Agree(xs, exact) == \E x : xs = {x} /\ exact = IF x \in Failures THEN Fail ELSE x

\* All values but floating-point numbers.
Exacts == Values \ {Real}

LEMMA ResultExact ==
  ASSUME NEW op \in Arithmetic
  PROVE  /\ \A a \in SignedRange, b \in SignedRange :
               Signed(op, a, b) =
                  IF op \in {"/", "%"} /\ b = 0 THEN Fail
                  ELSE IF ExactResult(op, a, b) \in SignedRange
                       THEN Sint(ExactResult(op, a, b)) ELSE Fail
         /\ \A a \in UnsignedRange, b \in UnsignedRange :
               Unsigned(op, a, b) =
                  IF op \in {"/", "%"} /\ b = 0 THEN Fail
                  ELSE IF ExactResult(op, a, b) \in UnsignedRange
                       THEN Uint(ExactResult(op, a, b)) ELSE Fail
<1>1. ASSUME NEW a \in SignedRange, NEW b \in SignedRange
      PROVE  Signed(op, a, b) =
                IF op \in {"/", "%"} /\ b = 0 THEN Fail
                ELSE IF ExactResult(op, a, b) \in SignedRange
                     THEN Sint(ExactResult(op, a, b)) ELSE Fail
  <2>1. CASE op \in {"+", "-", "*"}
    BY <2>1, SignedIsExact DEF ExactResult
  <2>2. CASE op \in {"/", "%"} /\ b = 0
    BY <2>2 DEF Signed
  <2>3. CASE op \in {"/", "%"} /\ b # 0
    <3>1. Divided(a, b) = [q |-> Quotient(a, b), r |-> Remainder(a, b)]
      BY <2>3, DividedIs
    <3>2. CASE op = "/"
      <4>1. ExactResult(op, a, b) = Quotient(a, b)
        BY <3>1, <3>2 DEF ExactResult
      <4> QED BY <2>3, <3>2, <4>1, DivisionIsExact
    <3>3. CASE op = "%"
      <4>1. ExactResult(op, a, b) = Remainder(a, b)
        BY <3>1, <3>3 DEF ExactResult
      <4>2. a \in Int /\ b \in Int
        BY DEF SignedRange, MinInt, MaxInt
      <4>3. Remainder(a, b) \in Int /\ Abs(Remainder(a, b)) < Abs(b)
        BY <2>3, <4>2, RemainderOf
      <4>4. Remainder(a, b) \in SignedRange
        BY <4>2, <4>3 DEF SignedRange, MinInt, MaxInt, Abs
      <4> QED BY <2>3, <3>3, <4>1, <4>4, DivisionIsExact
    <3> QED BY <2>3, <3>2, <3>3
  <2> QED BY <2>1, <2>2, <2>3 DEF Arithmetic
<1>2. ASSUME NEW a \in UnsignedRange, NEW b \in UnsignedRange
      PROVE  Unsigned(op, a, b) =
                IF op \in {"/", "%"} /\ b = 0 THEN Fail
                ELSE IF ExactResult(op, a, b) \in UnsignedRange
                     THEN Uint(ExactResult(op, a, b)) ELSE Fail
  <2>1. CASE op \in {"+", "-", "*"}
    BY <2>1, UnsignedIsExact DEF ExactResult
  <2>2. CASE op \in {"/", "%"} /\ b = 0
    BY <2>2 DEF Unsigned
  <2>3. CASE op \in {"/", "%"} /\ b # 0
    <3>1. a \in Nat /\ b \in Nat \ {0} /\ a <= MaxUint /\ b <= MaxUint /\ MaxUint \in Nat
      BY <2>3 DEF UnsignedRange, MaxUint
    <3>2. Divided(a, b) = [q |-> Quotient(a, b), r |-> Remainder(a, b)]
      BY <2>3, DividedIs
    <3>3. Quotient(a, b) = a \div b
      BY <3>1 DEF Quotient, Abs
    <3>4. Remainder(a, b) = a % b
      BY <3>1, <3>3, DivBounds DEF Remainder
    <3>5. a \div b \in UnsignedRange
      BY <3>1, DivBounds DEF UnsignedRange
    <3>6. a % b \in UnsignedRange
      <4>1. a % b \in 0..b - 1
        BY <3>1
      <4> QED BY <3>1, <4>1 DEF UnsignedRange
    <3> QED BY <2>3, <3>2, <3>3, <3>4, <3>5, <3>6 DEF Unsigned, ExactResult
  <2> QED BY <2>1, <2>2, <2>3 DEF Arithmetic
<1> QED BY <1>1, <1>2

LEMMA BinaryExact ==
  ASSUME NEW op \in Logical \cup Comparisons \cup Arithmetic,
         NEW x \in Exacts, NEW y \in Exacts
  PROVE  Agree(Binary(op, x, y), ExactBinary(op, x, y))
<1>0. /\ Logical \cap Comparisons = {} /\ Logical \cap Arithmetic = {}
      /\ Comparisons \cap Arithmetic = {}
      /\ x \in Values /\ y \in Values /\ x # Real /\ y # Real
      /\ Fail \in Failures /\ Mistyped \in Failures
  BY DEF Logical, Comparisons, Arithmetic, Exacts, Failures
<1>1. CASE op \in Logical
  <2>1. CASE {x.t, y.t} # {"bool"}
    <3>1. Binary(op, x, y) = {Mistyped} /\ ExactBinary(op, x, y) = Fail
      BY <1>0, <1>1, <2>1 DEF Binary, ExactBinary
    <3> QED BY <1>0, <3>1 DEF Agree
  <2>2. CASE {x.t, y.t} = {"bool"}
    <3>1. x.v \in {0, 1} /\ y.v \in {0, 1}
      <4>1. x.t = "bool" /\ y.t = "bool"
        BY <2>2
      <4>2. {x, y} \subseteq {Truth(TRUE), Truth(FALSE)}
        BY <1>0, <4>1, ValueForms
      <4> QED BY <4>2 DEF Truth
    <3>2. Binary(op, x, y) = {ExactBinary(op, x, y)}
      <4>1. Binary(op, x, y) =
               {Truth(IF op = "&&" THEN x.v = 1 /\ y.v = 1 ELSE x.v = 1 \/ y.v = 1)}
        <5>1. op \notin Comparisons /\ op \notin Arithmetic
          BY <1>0, <1>1
        <5> QED BY <1>1, <2>2, <5>1, Zenon DEF Binary
      <4>2. ExactBinary(op, x, y) =
               Truth((op = "&&") = (x.v + y.v = (IF op = "&&" THEN 2 ELSE 0)))
        BY <1>1, <2>2, Zenon DEF ExactBinary
      <4>3. CASE op = "&&"
        BY <3>1, <4>1, <4>2, <4>3 DEF Truth
      <4>4. CASE op # "&&"
        BY <3>1, <4>1, <4>2, <4>4 DEF Truth
      <4> QED BY <4>3, <4>4
    <3>3. ExactBinary(op, x, y) \in {Truth(TRUE), Truth(FALSE)}
      BY <1>0, <1>1, <2>2 DEF ExactBinary, Truth
    <3>4. ExactBinary(op, x, y) \notin Failures
      BY <3>3 DEF Truth, Failures, Fail, Mistyped
    <3> QED BY <3>2, <3>4 DEF Agree
  <2> QED BY <2>1, <2>2
<1>2. CASE op \notin Logical /\ ~(IsInteger(x) /\ IsInteger(y))
  <2>1. ~(IsNumeric(x) /\ IsNumeric(y))
    BY <1>0, <1>2, ValueForms DEF IsInteger, IsNumeric
  <2>2. Binary(op, x, y) = {Mistyped} /\ ExactBinary(op, x, y) = Fail
    BY <1>0, <1>2, <2>1 DEF Binary, ExactBinary
  <2> QED BY <1>0, <2>2 DEF Agree
<1>3. CASE op \notin Logical /\ IsInteger(x) /\ IsInteger(y)
  <2> DEFINE type == IF "uint" \in {x.t, y.t} THEN "uint" ELSE "sint"
  <2>1. /\ IsNumeric(x) /\ IsNumeric(y) /\ type = IF BothSigned(x, y) THEN "sint" ELSE "uint"
        /\ InRange(type, x.v) /\ InRange(type, y.v) <=> ~MixedNegative(x, y)
    <3>1. \A z \in {x, y} : \/ z.t = "sint" /\ z.v \in SignedRange
                            \/ z.t = "uint" /\ z.v \in UnsignedRange
      BY <1>0, <1>3, ValueForms DEF IsInteger
    <3>2. \A n \in SignedRange : n \in Int /\ (n >= 0 <=> n \in UnsignedRange)
      BY DEF SignedRange, UnsignedRange, MinInt, MaxInt, MaxUint
    <3>3. \A n \in UnsignedRange : n \in Int /\ n >= 0
      BY DEF UnsignedRange, MaxUint
    <3>4. \A n : InRange(type, n) <=> n \in IF type = "sint" THEN SignedRange ELSE UnsignedRange
      BY DEF InRange, SignedRange, UnsignedRange
    <3>5. IsNumeric(x) /\ IsNumeric(y) /\ type = IF BothSigned(x, y) THEN "sint" ELSE "uint"
      BY <1>3 DEF IsInteger, IsNumeric, BothSigned
    <3>6. CASE x.t = "sint" /\ y.t = "sint"
      BY <3>1, <3>4, <3>5, <3>6 DEF MixedNegative
    <3>7. CASE x.t = "uint" /\ y.t = "uint"
      BY <3>1, <3>4, <3>5, <3>7 DEF MixedNegative
    <3>8. CASE x.t # y.t
      BY <3>1, <3>2, <3>3, <3>4, <3>5, <3>8 DEF MixedNegative
    <3> QED BY <3>1, <3>5, <3>6, <3>7, <3>8
  <2>2. CASE MixedNegative(x, y)
    <3>1. Binary(op, x, y) = {Fail} /\ ExactBinary(op, x, y) = Fail
      BY <1>0, <1>3, <2>1, <2>2 DEF Binary, ExactBinary
    <3> QED BY <1>0, <3>1 DEF Agree
  <2>3. CASE ~MixedNegative(x, y) /\ op \in Comparisons
    <3>1. Binary(op, x, y) = {Truth(Compares(op, x.v, y.v))}
      BY <1>0, <2>1, <2>3 DEF Binary
    <3>2. ExactBinary(op, x, y) = Truth(Compares(op, x.v, y.v))
      BY <1>0, <1>3, <2>1, <2>3 DEF ExactBinary
    <3>3. Truth(Compares(op, x.v, y.v)) \notin Failures
      BY DEF Truth, Failures, Fail, Mistyped
    <3> QED BY <3>1, <3>2, <3>3 DEF Agree
  <2>4. CASE ~MixedNegative(x, y) /\ op \in Arithmetic
    <3> DEFINE n == ExactResult(op, x.v, y.v)
               m == IF BothSigned(x, y) THEN Signed(op, x.v, y.v) ELSE Unsigned(op, x.v, y.v)
    <3>1. Binary(op, x, y) = {m}
      BY <1>0, <1>3, <2>4 DEF Binary
    <3>2. ExactBinary(op, x, y) =
             IF op \in {"/", "%"} /\ y.v = 0 THEN Fail
             ELSE IF InRange(type, n) THEN [t |-> type, v |-> n] ELSE Fail
      BY <1>0, <1>3, <2>1, <2>4 DEF ExactBinary
    <3>3. m = ExactBinary(op, x, y)
      <4>1. CASE BothSigned(x, y)
        <5>1. x.v \in SignedRange /\ y.v \in SignedRange
          BY <1>0, <1>3, <4>1, WordsOf
        <5>2. m = IF op \in {"/", "%"} /\ y.v = 0 THEN Fail
                  ELSE IF n \in SignedRange THEN Sint(n) ELSE Fail
          BY <2>4, <4>1, <5>1, ResultExact
        <5> QED BY <2>1, <3>2, <4>1, <5>2 DEF InRange, SignedRange, Sint
      <4>2. CASE ~BothSigned(x, y)
        <5>1. x.v \in UnsignedRange /\ y.v \in UnsignedRange
          BY <1>0, <1>3, <2>4, <4>2, WordsOf
        <5>2. m = IF op \in {"/", "%"} /\ y.v = 0 THEN Fail
                  ELSE IF n \in UnsignedRange THEN Uint(n) ELSE Fail
          BY <2>4, <4>2, <5>1, ResultExact
        <5> QED BY <2>1, <3>2, <4>2, <5>2 DEF InRange, UnsignedRange, Uint
      <4> QED BY <4>1, <4>2
    <3>4. m = Fail \/ m \notin Failures
      <4>1. \A z \in Sints \cup Uints : z \notin Failures
        BY DEF Sints, Uints, Sint, Uint, Failures, Fail, Mistyped
      <4>2. CASE BothSigned(x, y)
        BY <1>0, <1>3, <2>4, <4>1, <4>2, WordsOf, ArithmeticGives
      <4>3. CASE ~BothSigned(x, y)
        BY <1>0, <1>3, <2>4, <4>1, <4>3, WordsOf, ArithmeticGives
      <4> QED BY <4>2, <4>3
    <3> HIDE DEF m, n
    <3> QED BY <1>0, <3>1, <3>3, <3>4 DEF Agree
  <2> QED BY <1>3, <2>2, <2>3, <2>4
<1> QED BY <1>1, <1>2, <1>3

LEMMA ExactBinaryGives ==
  ASSUME NEW op \in Logical \cup Comparisons \cup Arithmetic, NEW x, NEW y
  PROVE  ExactBinary(op, x, y) \in Exacts \cup {Fail}
<1> DEFINE type == IF "uint" \in {x.t, y.t} THEN "uint" ELSE "sint"
           n == ExactResult(op, x.v, y.v)
           c == Compares(op, x.v, y.v)
           b == (op = "&&") = (x.v + y.v = (IF op = "&&" THEN 2 ELSE 0))
<1>1. ExactBinary(op, x, y) \in {Fail, Truth(b), Truth(c)} \cup
         {m \in {[t |-> type, v |-> n]} : InRange(type, n)}
  BY DEF ExactBinary
<1> HIDE DEF b, c, n
<1>2. Truth(b) \in {Truth(TRUE), Truth(FALSE)} /\ Truth(c) \in {Truth(TRUE), Truth(FALSE)}
  BY DEF Truth
<1>3. \A z \in {Truth(TRUE), Truth(FALSE)} : z \in Exacts
  <2>1. \A z \in {Truth(TRUE), Truth(FALSE)} : z \in Values /\ z.t = "bool"
    BY ValueForms, Zenon
  <2>2. Real.t # "bool"
    BY DEF Real
  <2> QED BY <2>1, <2>2, Zenon DEF Exacts
<1>4. InRange(type, n) => [t |-> type, v |-> n] \in Exacts
  BY DEF InRange, Exacts, Values, Sints, Uints, Sint, Uint, Real
<1> QED BY <1>1, <1>2, <1>3, <1>4

\* The negation of a word is exact, or fails: there is one number more below zero
\* than above.
LEMMA NegatedExact ==
  ASSUME NEW x \in Exacts
  PROVE  Agree({Negated(x)},
               IF IsInteger(x) /\ InRange("sint", -x.v) THEN Sint(-x.v) ELSE Fail)
<1>0. x \in Values /\ x # Real /\ Fail \in Failures /\ Mistyped \in Failures
  BY DEF Exacts, Failures
<1>1. ASSUME NEW n \in SignedRange PROVE Sint(n) \notin Failures
  BY DEF Sint, Failures, Fail, Mistyped
<1>2. CASE x.t = "sint"
  <2>1. x.v \in SignedRange /\ IsInteger(x)
    BY <1>0, <1>2, ValueForms DEF IsInteger
  <2>2. -x.v \in SignedRange <=> x.v # MinInt
    BY <2>1 DEF SignedRange, MinInt, MaxInt
  <2>3. InRange("sint", -x.v) <=> -x.v \in SignedRange
    BY DEF InRange, SignedRange
  <2> QED BY <1>0, <1>1, <1>2, <2>1, <2>2, <2>3 DEF Agree, Negated
<1>3. CASE x.t = "uint"
  <2>1. x.v \in UnsignedRange /\ IsInteger(x)
    BY <1>0, <1>3, ValueForms DEF IsInteger
  <2>2. -x.v \in SignedRange <=> ~(x.v > Half)
    BY <2>1 DEF SignedRange, UnsignedRange, MinInt, MaxInt, MaxUint
  <2>3. InRange("sint", -x.v) <=> -x.v \in SignedRange
    BY DEF InRange, SignedRange
  <2> QED BY <1>0, <1>1, <1>3, <2>1, <2>2, <2>3 DEF Agree, Negated
<1>4. CASE x.t = "bool"
  BY <1>0, <1>4 DEF Agree, Negated, IsInteger
<1> QED BY <1>0, <1>2, <1>3, <1>4, ValueForms

LEMMA LiteralExact ==
  ASSUME NEW n \in Nat
  PROVE  /\ Decimal(n) = IF InRange("sint", n) THEN Sint(n)
                         ELSE IF InRange("uint", n) THEN Uint(n) ELSE Fail
         /\ Hexadecimal(n) = IF InRange("uint", n) THEN Uint(n) ELSE Fail
         /\ Decimal(n) \in Exacts \cup {Fail} /\ Hexadecimal(n) \in Exacts \cup {Fail}
<1>1. /\ InRange("sint", n) <=> n <= MaxInt
      /\ InRange("uint", n) <=> n <= MaxUint
      /\ MaxInt <= MaxUint /\ MaxInt \in Int /\ MaxUint \in Int
  BY DEF InRange, MinInt, MaxInt, MaxUint
<1>2. /\ n <= MaxInt => Sint(n) \in Exacts
      /\ n <= MaxUint => Uint(n) \in Exacts
  <2>1. n <= MaxInt => n \in SignedRange
    BY DEF SignedRange, MinInt, MaxInt
  <2>2. n <= MaxUint => n \in UnsignedRange
    BY DEF UnsignedRange, MaxUint
  <2>3. Sint(n) # Real /\ Uint(n) # Real
    BY DEF Sint, Uint, Real
  <2> QED BY <2>1, <2>2, <2>3, ValueForms DEF Exacts
<1> QED BY <1>1, <1>2 DEF Decimal, Hexadecimal

-----------------------------------------------------------------------------
\* Whole expressions.

\* What holds of an expression if it holds of all lower ones holds of all.
LEMMA TreeInduction ==
  ASSUME NEW es, NEW height, Trees(es, height), NEW S,
         \A e \in es : (\A x \in es : height[x] < height[e] => x \in S) => e \in S
  PROVE  es \subseteq S
<1>1. SUFFICES ASSUME {e \in es : e \notin S} # {} PROVE FALSE
  OBVIOUS
<1> DEFINE T == {e \in es : e \notin S}
           heights == {height[e] : e \in T}
<1>2. \A e \in es : height[e] \in Nat
  BY DEF Trees
<1>3. heights \subseteq Nat /\ heights # {}
  BY <1>1, <1>2
<1> HIDE DEF heights
<1>4. PICK n \in heights : \A m \in heights : ~ (<<m, n>> \in OpToRel(<, Nat))
  BY <1>3, WFMin, NatLessThanWellFounded, Zenon
<1>5. \A m \in heights : ~ (m < n)
  BY <1>3, <1>4 DEF OpToRel
<1>6. PICK e \in T : n = height[e]
  BY DEF heights
<1>7. \A x \in es : height[x] < height[e] => x \in S
  BY <1>5, <1>6 DEF heights
<1> QED BY <1>6, <1>7

\* The analyzer (inferExprType, from the form alone) never calls an expression wrong
\* for which the plan builder (resolvedExpressionType, from the declarations) finds
\* a type, whatever the declarations of its symbols say.
THEOREM AnalyzerRefusesNoTyped ==
  ASSUME NEW es, NEW height, Trees(es, height), NEW declared,
         NEW inferred, Infers(es, inferred), NEW type, Types(es, declared, type)
  PROVE  \A e \in es : type[e] # "invalid" => inferred[e] # "invalid"
<1> DEFINE Fits(i, t) ==
             t # "invalid" => /\ i # "invalid"
                              /\ i \in {"real", "bool", "string"} => t = i
                              /\ t \in Numeric => i \in Numeric \cup {"unknown"}
                              /\ t = "bool" => i \in {"bool", "unknown"}
           S == {e \in es : Fits(inferred[e], type[e])}
<1>1. ASSUME NEW e \in es, \A x \in es : height[x] < height[e] => x \in S
      PROVE  e \in S
  <2>1. e.kind \in Kinds /\ \A x \in Operands(e) : x \in es /\ height[x] < height[e]
    BY DEF Trees
  <2>2. CASE e.kind = "id"
    <3>1. inferred[e] = "unknown"
      BY <2>2 DEF Infers, InferFrom
    <3> QED BY <3>1
  <2>3. CASE e.kind = "neg"
    <3>1. Fits(inferred[e.arg], type[e.arg])
      BY <1>1, <2>1, <2>3 DEF Operands
    <3>2. inferred[e] = InferNegated(inferred[e.arg]) /\ type[e] = TypedNegated(type[e.arg])
      BY <2>3 DEF Infers, InferFrom, Types, TypeFrom
    <3> QED BY <3>1, <3>2 DEF InferNegated, TypedNegated, Numeric
  <2>4. CASE e.kind = "bin"
    <3>1. Fits(inferred[e.left], type[e.left]) /\ Fits(inferred[e.right], type[e.right])
      BY <1>1, <2>1, <2>4 DEF Operands
    <3>2. /\ inferred[e] = InferBinary(e.op, inferred[e.left], inferred[e.right])
          /\ type[e] = TypedBinary(e.op, type[e.left], type[e.right])
      BY <2>4 DEF Infers, InferFrom, Types, TypeFrom
    <3> QED BY <3>1, <3>2 DEF InferBinary, TypedBinary, Joined, Numeric
  <2>5. CASE e.kind \notin {"id", "neg", "bin"}
    <3>1. inferred[e] = LiteralType(e) /\ type[e] = LiteralType(e)
      BY <2>5 DEF Infers, InferFrom, Types, TypeFrom
    <3>2. LiteralType(e) \in {"invalid", "sint", "uint", "real", "bool", "string"}
      BY <2>1, <2>5 DEF LiteralType, Kinds
    <3> QED BY <3>1, <3>2 DEF Numeric
  <2> QED BY <2>2, <2>3, <2>4, <2>5
<1> HIDE DEF S
<1>2. es \subseteq S
  BY <1>1, TreeInduction
<1> QED BY <1>2 DEF S

\* If symbols have values of the types their declarations say, an expression for
\* which the plan builder finds a type has values of this type, or fails for the
\* numbers in it: the evaluator never meets an operand of the wrong kind.
THEOREM TypesAreKept ==
  ASSUME NEW es, NEW height, Trees(es, height), NEW declared, NEW env,
         \A s \in DOMAIN env : declared[s] \notin {"invalid", "string"} =>
                                  env[s] \in Values /\ env[s].t = declared[s],
         NEW out, Evaluates(es, env, out), NEW type, Types(es, declared, type)
  PROVE  \A e \in es : type[e] \notin {"invalid", "string"} =>
            /\ \A x \in out[e] : x = Fail \/ (x \in Values /\ x.t = type[e])
            /\ type[e] \in {"sint", "uint"} => Mistyped \notin Sizes(out[e])
<1> DEFINE Typed(t, xs) == t \notin {"invalid", "string"} =>
                              \A x \in xs : x = Fail \/ (x \in Values /\ x.t = t)
           S == {e \in es : Typed(type[e], out[e])}
<1>0. Fail \in Failures /\ \A x \in Values : x \notin Failures
  BY ValueForms DEF Failures
<1>1. ASSUME NEW e \in es, \A x \in es : height[x] < height[e] => x \in S
      PROVE  e \in S
  <2>1. /\ e.kind \in Kinds /\ \A x \in Operands(e) : x \in es /\ height[x] < height[e]
        /\ e.kind \in {"dec", "hex"} => e.n \in Nat
        /\ e.kind = "bin" => e.op \in Logical \cup Comparisons \cup Arithmetic
    BY DEF Trees
  <2>2. CASE e.kind = "id"
    <3>1. type[e] = declared[e.id] /\ out[e] = {IF e.id \in DOMAIN env THEN env[e.id] ELSE Fail}
      BY <2>2 DEF Types, TypeFrom, Evaluates, OutcomesFrom
    <3> QED BY <3>1
  <2>3. CASE e.kind = "neg"
    <3>1. Typed(type[e.arg], out[e.arg])
      BY <1>1, <2>1, <2>3 DEF Operands
    <3>2. type[e] = TypedNegated(type[e.arg]) /\ out[e] = NegatedAny(out[e.arg])
      BY <2>3 DEF Types, TypeFrom, Evaluates, OutcomesFrom
    <3>3. ASSUME type[e] \notin {"invalid", "string"}, NEW x \in out[e]
          PROVE  x = Fail \/ (x \in Values /\ x.t = type[e])
      <4>1. type[e.arg] \in Numeric
        BY <3>2, <3>3 DEF TypedNegated
      <4>2. PICK y \in out[e.arg] : x = IF y \in Failures THEN y ELSE Negated(y)
        BY <3>2, <3>3 DEF NegatedAny
      <4>3. y = Fail \/ (y \in Values /\ y.t = type[e.arg])
        BY <3>1, <4>1 DEF Numeric
      <4> QED BY <1>0, <3>2, <3>3, <4>2, <4>3, NegatedTyped
    <3> QED BY <3>3
  <2>4. CASE e.kind = "bin"
    <3>1. Typed(type[e.left], out[e.left]) /\ Typed(type[e.right], out[e.right])
      BY <1>1, <2>1, <2>4 DEF Operands
    <3>2. /\ type[e] = TypedBinary(e.op, type[e.left], type[e.right])
          /\ out[e] = BinaryAny(e.op, out[e.left], out[e.right])
      BY <2>4 DEF Types, TypeFrom, Evaluates, OutcomesFrom
    <3>3. ASSUME type[e] \notin {"invalid", "string"}, NEW z \in out[e]
          PROVE  z = Fail \/ (z \in Values /\ z.t = type[e])
      <4>1. {type[e.left], type[e.right]} \subseteq Numeric \cup {"bool"}
        BY <3>2, <3>3 DEF TypedBinary
      <4>2. PICK x \in out[e.left] :
              z \in IF x \in Failures \/ Decides(e.op, x) THEN {x}
                    ELSE IF e.op \in Logical /\ x.t # "bool" THEN {Mistyped}
                    ELSE UNION {IF y \in Failures THEN {y} ELSE Binary(e.op, x, y) :
                                   y \in out[e.right]}
        BY <3>2, <3>3 DEF BinaryAny
      <4>3. x = Fail \/ (x \in Values /\ x.t = type[e.left])
        BY <3>1, <4>1 DEF Numeric
      <4>4. CASE x = Fail
        BY <1>0, <4>2, <4>4
      <4>5. CASE x \in Values /\ Decides(e.op, x)
        <5>1. x.t = "bool" /\ e.op \in Logical
          BY <4>5 DEF Decides, Truth, Logical
        <5>2. type[e] = "bool"
          BY <3>2, <3>3, <5>1 DEF TypedBinary
        <5> QED BY <1>0, <4>2, <4>5, <5>1, <5>2
      <4>6. CASE x \in Values /\ ~Decides(e.op, x)
        <5>1. x.t = type[e.left] /\ x \notin Failures
          BY <1>0, <4>3, <4>6, ValueForms
        <5>2. e.op \in Logical => x.t = "bool"
          BY <3>2, <3>3, <5>1 DEF TypedBinary
        <5>3. PICK y \in out[e.right] : z \in IF y \in Failures THEN {y} ELSE Binary(e.op, x, y)
          BY <4>2, <4>6, <5>1, <5>2
        <5>4. y = Fail \/ (y \in Values /\ y.t = type[e.right])
          BY <3>1, <4>1 DEF Numeric
        <5>5. CASE y = Fail
          BY <1>0, <5>3, <5>5
        <5>6. CASE y \in Values /\ y.t = type[e.right]
          <6>1. z \in Binary(e.op, x, y)
            BY <1>0, <5>3, <5>6
          <6>2. TypedBinary(e.op, x.t, y.t) = type[e]
            BY <3>2, <5>1, <5>6
          <6> QED BY <2>1, <2>4, <3>3, <4>6, <5>6, <6>1, <6>2, BinaryTyped
        <5> QED BY <5>4, <5>5, <5>6
      <4> QED BY <4>3, <4>4, <4>5, <4>6
    <3> QED BY <3>3
  <2>5. CASE e.kind \notin {"id", "neg", "bin"}
    <3>1. type[e] = LiteralType(e) /\ out[e] = {LiteralValue(e)}
      BY <2>5 DEF Types, TypeFrom, Evaluates, OutcomesFrom
    <3>2. CASE e.kind = "dec"
      <4>1. e.n \in Nat /\ MaxInt \in Int /\ MaxUint \in Int
        BY <2>1, <3>2 DEF MaxInt, MaxUint
      <4>2. LiteralValue(e) = Fail \/ (LiteralValue(e) \in Values /\ LiteralValue(e).t = LiteralType(e))
        <5>1. LiteralValue(e) = Decimal(e.n)
          BY <3>2 DEF LiteralValue
        <5>2. LiteralType(e) = IF e.n > MaxUint THEN "invalid"
                               ELSE IF e.n <= MaxInt THEN "sint" ELSE "uint"
          BY <3>2 DEF LiteralType
        <5>3. e.n <= MaxInt => e.n \in SignedRange
          BY <4>1 DEF SignedRange, MinInt, MaxInt
        <5>4. ~(e.n > MaxUint) => e.n \in UnsignedRange
          BY <4>1 DEF UnsignedRange, MaxUint
        <5> QED BY <5>1, <5>2, <5>3, <5>4, ValueForms DEF Decimal
      <4> QED BY <3>1, <4>2
    <3>3. CASE e.kind = "hex"
      <4>1. e.n \in Nat
        BY <2>1, <3>3
      <4>2. LiteralValue(e) = Hexadecimal(e.n)
        BY <3>3 DEF LiteralValue
      <4>3. LiteralType(e) = IF e.n > MaxUint THEN "invalid" ELSE "uint"
        BY <3>3 DEF LiteralType
      <4>4. ~(e.n > MaxUint) => e.n \in UnsignedRange
        BY <4>1 DEF UnsignedRange, MaxUint
      <4> QED BY <3>1, <4>2, <4>3, <4>4, ValueForms DEF Hexadecimal
    <3>4. CASE e.kind = "float"
      BY <3>1, <3>4, ValueForms DEF LiteralValue, LiteralType
    <3>5. CASE e.kind = "flag"
      <4>1. LiteralValue(e) \in {Truth(TRUE), Truth(FALSE)}
        BY <3>5 DEF LiteralValue, Truth
      <4>2. LiteralType(e) = "bool"
        BY <3>5 DEF LiteralType
      <4>3. \A z \in {Truth(TRUE), Truth(FALSE)} : z \in Values /\ z.t = "bool"
        BY ValueForms, Zenon
      <4> QED BY <3>1, <4>1, <4>2, <4>3
    <3>6. CASE e.kind = "text"
      BY <3>1, <3>6 DEF LiteralType
    <3> QED BY <2>1, <2>5, <3>2, <3>3, <3>4, <3>5, <3>6 DEF Kinds
  <2> QED BY <2>2, <2>3, <2>4, <2>5
<1> HIDE DEF S
<1>2. es \subseteq S
  BY <1>1, TreeInduction
<1>3. ASSUME NEW e \in es, type[e] \in {"sint", "uint"},
             \A x \in out[e] : x = Fail \/ (x \in Values /\ x.t = type[e])
      PROVE  Mistyped \notin Sizes(out[e])
  <2>1. ASSUME NEW x \in out[e]
        PROVE  Mistyped # IF x \in Failures THEN x
                          ELSE IF ~IsInteger(x) THEN Mistyped
                          ELSE IF x.v < 0 THEN Fail ELSE Uint(x.v)
    <3>1. x = Fail \/ (x \notin Failures /\ IsInteger(x))
      BY <1>0, <1>3 DEF IsInteger
    <3> QED BY <1>0, <3>1, ValueForms DEF Mistyped, Uint, Fail
  <2> QED BY <2>1 DEF Sizes
<1> QED BY <1>2, <1>3 DEF S

\* Without floating-point numbers, an expression evaluates to what arithmetic on
\* numbers without end makes of it, and fails exactly if that is not a word of its
\* type: nothing wraps, on any path through operators that decide early.
THEOREM EvaluationIsExact ==
  ASSUME NEW es, NEW height, Trees(es, height), \A e \in es : e.kind # "float",
         NEW env, NEW out, Evaluates(es, env, out),
         NEW meaning, NEW exact, Means(es, meaning, exact),
         \A e \in es : e.kind = "id" => /\ e.id \in DOMAIN env /\ env[e.id] \in Exacts
                                       /\ meaning[e.id] = env[e.id]
  PROVE  \A e \in es : Agree(out[e], exact[e]) /\ exact[e] \in Exacts \cup {Fail}
<1> DEFINE S == {e \in es : Agree(out[e], exact[e]) /\ exact[e] \in Exacts \cup {Fail}}
<1>0. /\ Fail \in Failures /\ Mistyped \in Failures
      /\ Fail \notin Exacts /\ \A x \in Exacts : x \notin Failures
  BY ValueForms DEF Failures, Exacts
<1>1. \A xs, exact1 : Agree(xs, exact1) =>
         \E x : /\ xs = {x}
                /\ x \notin Failures => exact1 = x
                /\ x \in Failures => exact1 = Fail
  BY <1>0 DEF Agree
<1>2. ASSUME NEW e \in es, \A x \in es : height[x] < height[e] => x \in S
      PROVE  e \in S
  <2>1. /\ e.kind \in Kinds /\ \A x \in Operands(e) : x \in es /\ height[x] < height[e]
        /\ e.kind \in {"dec", "hex"} => e.n \in Nat
        /\ e.kind = "bin" => e.op \in Logical \cup Comparisons \cup Arithmetic
    BY DEF Trees
  <2>2. CASE e.kind = "id"
    <3>1. e.id \in DOMAIN env /\ env[e.id] \in Exacts /\ meaning[e.id] = env[e.id]
      BY <2>2
    <3>2. out[e] = {env[e.id]} /\ exact[e] = env[e.id]
      BY <2>2, <3>1 DEF Evaluates, OutcomesFrom, Means, ExactFrom
    <3> QED BY <1>0, <3>1, <3>2 DEF Agree
  <2>3. CASE e.kind = "neg"
    <3>1. Agree(out[e.arg], exact[e.arg]) /\ exact[e.arg] \in Exacts \cup {Fail}
      BY <1>2, <2>1, <2>3 DEF Operands
    <3>2. PICK x : /\ out[e.arg] = {x}
                   /\ x \notin Failures => exact[e.arg] = x
                   /\ x \in Failures => exact[e.arg] = Fail
      BY <1>1, <3>1
    <3> DEFINE y == exact[e.arg]
    <3>3. /\ out[e] = NegatedAny({x})
          /\ exact[e] = IF IsInteger(y) /\ InRange("sint", -y.v) THEN Sint(-y.v) ELSE Fail
      BY <2>3, <3>2 DEF Evaluates, OutcomesFrom, Means, ExactFrom
    <3>4. out[e] = {IF x \in Failures THEN x ELSE Negated(x)}
      BY <3>3 DEF NegatedAny
    <3>5. exact[e] \in Exacts \cup {Fail}
      <4>1. InRange("sint", -y.v) => -y.v \in SignedRange
        BY DEF InRange, SignedRange
      <4>2. Sint(-y.v) # Real
        BY DEF Sint, Real
      <4> HIDE DEF y
      <4> QED BY <3>3, <4>1, <4>2, ValueForms DEF Exacts
    <3>6. CASE x \in Failures
      <4>1. exact[e] = Fail
        BY <3>2, <3>3, <3>6 DEF IsInteger, Fail
      <4> QED BY <1>0, <3>4, <3>5, <3>6, <4>1 DEF Agree
    <3>7. CASE x \notin Failures
      <4>1. y = x /\ x \in Exacts
        BY <1>0, <3>1, <3>2, <3>7
      <4> QED BY <3>3, <3>4, <3>5, <3>7, <4>1, NegatedExact
    <3> QED BY <3>6, <3>7
  <2>4. CASE e.kind = "bin"
    <3>1. /\ Agree(out[e.left], exact[e.left]) /\ exact[e.left] \in Exacts \cup {Fail}
          /\ Agree(out[e.right], exact[e.right]) /\ exact[e.right] \in Exacts \cup {Fail}
      BY <1>2, <2>1, <2>4 DEF Operands
    <3>2. PICK x : /\ out[e.left] = {x}
                   /\ x \notin Failures => exact[e.left] = x
                   /\ x \in Failures => exact[e.left] = Fail
      BY <1>1, <3>1
    <3>3. PICK y : /\ out[e.right] = {y}
                   /\ y \notin Failures => exact[e.right] = y
                   /\ y \in Failures => exact[e.right] = Fail
      BY <1>1, <3>1
    <3>4. out[e] = IF x \in Failures \/ Decides(e.op, x) THEN {x}
                   ELSE IF e.op \in Logical /\ x.t # "bool" THEN {Mistyped}
                   ELSE IF y \in Failures THEN {y} ELSE Binary(e.op, x, y)
      <4>1. out[e] = BinaryAny(e.op, {x}, {y})
        BY <2>4, <3>2, <3>3 DEF Evaluates, OutcomesFrom
      <4> QED BY <4>1 DEF BinaryAny
    <3>5. exact[e] = IF exact[e.left] \in Failures THEN Fail
                     ELSE IF Decides(e.op, exact[e.left]) THEN exact[e.left]
                     ELSE IF exact[e.right] \in Failures THEN Fail
                     ELSE ExactBinary(e.op, exact[e.left], exact[e.right])
      BY <2>4 DEF Means, ExactFrom
    <3>6. CASE x \in Failures
      BY <1>0, <3>2, <3>4, <3>5, <3>6 DEF Agree
    <3>7. CASE x \notin Failures /\ Decides(e.op, x)
      <4>1. out[e] = {x} /\ exact[e] = x /\ x \in Exacts
        BY <1>0, <3>1, <3>2, <3>4, <3>5, <3>7
      <4> QED BY <1>0, <4>1 DEF Agree
    <3>8. CASE x \notin Failures /\ ~Decides(e.op, x) /\ y \in Failures
      <4>1. exact[e] = Fail /\ (out[e] = {Mistyped} \/ out[e] = {y})
        BY <1>0, <3>2, <3>3, <3>4, <3>5, <3>8
      <4> QED BY <1>0, <3>8, <4>1 DEF Agree
    <3>9. CASE x \notin Failures /\ ~Decides(e.op, x) /\ y \notin Failures
      <4>1. x \in Exacts /\ y \in Exacts /\ exact[e] = ExactBinary(e.op, x, y)
        BY <1>0, <3>1, <3>2, <3>3, <3>5, <3>9
      <4>2. Agree(Binary(e.op, x, y), ExactBinary(e.op, x, y))
        BY <2>1, <2>4, <4>1, BinaryExact
      <4>3. ExactBinary(e.op, x, y) \in Exacts \cup {Fail}
        BY <2>1, <2>4, <4>1, ExactBinaryGives
      <4>4. CASE e.op \in Logical /\ x.t # "bool"
        <5>1. out[e] = {Mistyped}
          BY <3>4, <3>9, <4>4
        <5>2. exact[e] = Fail
          BY <4>1, <4>4 DEF ExactBinary
        <5> QED BY <1>0, <5>1, <5>2 DEF Agree
      <4>5. CASE ~(e.op \in Logical /\ x.t # "bool")
        BY <3>4, <3>9, <4>1, <4>2, <4>3, <4>5
      <4> QED BY <4>4, <4>5
    <3> QED BY <3>6, <3>7, <3>8, <3>9
  <2>5. CASE e.kind \in {"dec", "hex"}
    <3>1. /\ e.kind = "dec" => /\ out[e] = {Decimal(e.n)}
                               /\ exact[e] = Decimal(e.n)
          /\ e.kind = "hex" => /\ out[e] = {Hexadecimal(e.n)}
                               /\ exact[e] = Hexadecimal(e.n)
      BY <2>1, <2>5, LiteralExact DEF Evaluates, OutcomesFrom, LiteralValue, Means, ExactFrom
    <3>2. Decimal(e.n) \in Exacts \cup {Fail} /\ Hexadecimal(e.n) \in Exacts \cup {Fail}
      BY <2>1, <2>5, LiteralExact
    <3> QED BY <1>0, <2>5, <3>1, <3>2 DEF Agree
  <2>6. CASE e.kind = "flag"
    <3>1. out[e] = {LiteralValue(e)} /\ LiteralValue(e) = Truth(e.n = 1)
      BY <2>6 DEF Evaluates, OutcomesFrom, LiteralValue
    <3>2. exact[e] = Truth(e.n = 1)
      BY <2>6 DEF Means, ExactFrom
    <3>3. Truth(e.n = 1) \in {Truth(TRUE), Truth(FALSE)}
      BY DEF Truth
    <3>4. \A z \in {Truth(TRUE), Truth(FALSE)} : z \in Values /\ z.t = "bool"
      BY ValueForms, Zenon
    <3>5. exact[e] \in Exacts /\ out[e] = {exact[e]}
      <4>1. Real.t # "bool"
        BY DEF Real
      <4> QED BY <3>1, <3>2, <3>3, <3>4, <4>1, Zenon DEF Exacts
    <3> QED BY <1>0, <3>5 DEF Agree
  <2>7. CASE e.kind = "text"
    <3>1. out[e] = {Mistyped} /\ exact[e] = Fail
      BY <2>7 DEF Evaluates, OutcomesFrom, LiteralValue, Means, ExactFrom
    <3> QED BY <1>0, <3>1 DEF Agree
  <2> QED BY <2>1, <2>2, <2>3, <2>4, <2>5, <2>6, <2>7 DEF Kinds
<1> HIDE DEF S
<1>3. es \subseteq S
  BY <1>2, TreeInduction
<1> QED BY <1>3 DEF S
=============================================================================
