---------------------------- MODULE Reader_proofs ----------------------------
(***************************************************************************)
(* Facts about the reader's methods, for an input of any length: every     *)
(* method that returns keeps the reader valid, restore() included, and     *)
(* restore() refuses no state with at most one limit on its stack.         *)
(***************************************************************************)
EXTENDS Reader, SequenceTheorems, WellFoundedInduction, TLAPS

\* A fresh reader is valid.
LEMMA NewValid == Valid(New)
BY SizeAssumption DEF Valid, New, State, Container, Empty, Endian, Nested

\* The walk in restore() together with its last check leaves no room on the
\* stack for any limit but Size: back() is compared with Size where front()
\* is the outermost entry, and every entry lies between the two.
LEMMA RestorableLimits ==
    ASSUME NEW s \in State, Restorable(s)
    PROVE  \A i \in 1..Len(s.limits) : s.limits[i] = Size
<1> DEFINE n == Len(s.limits)
           Wrong == {k \in Nat : k < n /\ s.limits[n - k] # Size}
<1>1. /\ s.limits \in Seq(Nat) /\ n \in Nat
      /\ \A i \in 1..n : s.limits[i] \in Nat
  BY ElementOfSeq, LenProperties DEF State
<1>2. Wrong = {}
  <2>1. SUFFICES ASSUME Wrong # {} PROVE FALSE
    OBVIOUS
  <2>2. PICK x \in Wrong : \A y \in Wrong : ~ (<<y, x>> \in OpToRel(<, Nat))
    BY <2>1, WFMin, NatLessThanWellFounded, Zenon
  <2>3. \A y \in Wrong : ~ (y < x)
    BY <2>2 DEF OpToRel
  <2>4. x # 0
    <3>1. n >= 1 => s.limits[n] = Size
      BY <1>1 DEF Restorable, Ordered, Last
    <3> QED BY <1>1, <3>1
  <2>5. /\ x - 1 \in Nat /\ x - 1 < x /\ x - 1 < n
        /\ n - x \in 1..n /\ n - x # n
        /\ n - (x - 1) = (n - x) + 1 /\ (n - x) + 1 \in 1..n
    BY <2>4, <1>1
  <2>6. s.limits[(n - x) + 1] = Size
    BY <2>3, <2>5
  <2>7. s.limits[(n - x) + 1] <= s.limits[n - x] /\ s.limits[n - x] <= Size
    BY <2>5 DEF Restorable, Ordered
  <2>8. s.limits[n - x] \in Nat
    BY <2>5, <1>1
  <2> QED BY <2>6, <2>7, <2>8, SizeAssumption
<1> QED
  <2> SUFFICES ASSUME NEW i \in 1..n PROVE s.limits[i] = Size
    OBVIOUS
  <2>1. n - i \in Nat /\ n - i < n /\ n - (n - i) = i
    BY <1>1
  <2> QED BY <2>1, <1>2

\* restore() lets in no state a reader could not have: whatever a client hands
\* to it, the reader that comes out is valid.
LEMMA RestorableValid ==
    ASSUME NEW s \in State, Restorable(s)
    PROVE  Valid(s)
<1>1. \A i \in 1..Len(s.limits) : s.limits[i] = Size
  BY RestorableLimits
<1>2. s.limits \in Seq(Nat) /\ Len(s.limits) \in Nat
  BY LenProperties DEF State
<1>3. Nested(s)
  <2>1. s.limits # <<>> => 1 \in 1..Len(s.limits) /\ Len(s.limits) \in 1..Len(s.limits)
    BY <1>2, EmptySeq
  <2>2. s.limits # <<>> => s.limits[1] = Size /\ s.limits[Len(s.limits)] = Size
    BY <1>1, <2>1
  <2>3. s.limit \in Nat /\ s.limit <= Size /\ (s.limits = <<>> => s.limit = Size)
    BY DEF Restorable, Ordered, State
  <2> QED BY <1>1, <2>2, <2>3, SizeAssumption DEF Nested, Last
<1> QED BY <1>3 DEF Valid, Restorable, Ordered

\* A valid reader with no limit or one on its stack is one restore() accepts.
LEMMA ShallowRestorable ==
    ASSUME NEW s, Valid(s), Len(s.limits) <= 1
    PROVE  Restorable(s)
<1>1. s.limits \in Seq(Nat) /\ (Len(s.limits) = 0 \/ Len(s.limits) = 1)
  <2> DEFINE n == Len(s.limits)
  <2>1. s.limits \in Seq(Nat)
    BY DEF Valid, State
  <2>2. n \in Nat /\ n <= 1
    BY <2>1, LenProperties
  <2>3. n = 0 \/ n = 1
    <3> HIDE DEF n
    <3> QED BY <2>2
  <2> QED BY <2>1, <2>3
<1>2. CASE Len(s.limits) = 0
  BY <1>1, <1>2, EmptySeq DEF Valid, Nested, Restorable, Ordered, State
<1>3. CASE Len(s.limits) = 1
  BY <1>1, <1>3 DEF Valid, Nested, Restorable, Ordered, Last, State
<1> QED BY <1>1, <1>2, <1>3

-----------------------------------------------------------------------------
\* Every other method that returns keeps a valid reader valid.

LEMMA SeekValid ==
    ASSUME NEW rd, Valid(rd), NEW p \in Nat, CanSeek(rd, p)
    PROVE  Valid(Seek(rd, p))
BY DEF Valid, Nested, State, CanSeek, Seek

LEMMA AlignUpNat ==
    ASSUME NEW p \in Nat, NEW a \in Nat, a # 0
    PROVE  AlignUp(p, a) \in Nat
<1>1. p % a \in 0..(a - 1)
  OBVIOUS
<1> QED BY <1>1 DEF AlignUp

LEMMA AlignValid ==
    ASSUME NEW rd, Valid(rd), NEW a \in Nat, CanAlign(rd, a)
    PROVE  Valid(Align(rd, a))
<1>1. rd.pos \in Nat
  BY DEF Valid, State
<1> QED BY <1>1, AlignUpNat, SeekValid DEF CanAlign, Align

LEMMA TakeValid ==
    ASSUME NEW rd, Valid(rd), NEW n \in Nat, n <= Remaining(rd)
    PROVE  Valid(Take(rd, n))
BY SizeAssumption DEF Valid, Nested, State, Remaining, Take

LEMMA SetEndianValid ==
    ASSUME NEW rd, Valid(rd), NEW e \in Endian
    PROVE  Valid(SetEndian(rd, e))
BY DEF Valid, Nested, State, SetEndian

LEMMA BeginBitsValid ==
    ASSUME NEW rd, Valid(rd), NEW w \in Nat, CanBeginBits(rd, w)
    PROVE  Valid(BeginBits(rd, w)) /\ BeginBits(rd, w).bits = w
<1>1. BytesFor(w) \in Nat
  BY DEF BytesFor
<1>2. /\ rd \in State /\ w \in 1..64
      /\ rd.pos + BytesFor(w) \in Nat /\ rd.pos + BytesFor(w) <= rd.limit
  BY <1>1, SizeAssumption DEF Valid, State, CanBeginBits, Remaining
<1>3. BeginBits(rd, w) \in State
  BY <1>2 DEF State, BeginBits, Container
<1>4. BeginBits(rd, w).limits = rd.limits /\ BeginBits(rd, w).limit = rd.limit
      /\ BeginBits(rd, w).pos = rd.pos + BytesFor(w) /\ BeginBits(rd, w).bits = w
  BY <1>2 DEF State, BeginBits
<1> QED BY <1>2, <1>3, <1>4 DEF Valid, Nested

LEMMA BitsValid ==
    ASSUME NEW rd, Valid(rd), NEW w \in Nat, CanBits(rd, w)
    PROVE  Valid(Bits(rd, w))
<1>1. Valid(Loaded(rd, w))
  BY BeginBitsValid DEF CanBits, Loaded
<1> DEFINE ld == Loaded(rd, w)
<1>2. w \in 1..64 /\ w <= ld.bits
  BY DEF CanBits
<1>3. Valid([ld EXCEPT !.bits = @ - w])
  <2> HIDE DEF ld
  <2> QED BY <1>1, <1>2, SMTT(30) DEF Valid, Nested, State, ld
<1> QED BY <1>3 DEF Bits

LEMMA EndBitsValid ==
    ASSUME NEW rd, Valid(rd)
    PROVE  Valid(EndBits(rd))
BY DEF Valid, Nested, State, EndBits, Empty, Container, Endian

LEMMA PushLimitEndValid ==
    ASSUME NEW rd, Valid(rd), NEW end \in Nat, CanPushLimitEnd(rd, end)
    PROVE  Valid(PushLimitEnd(rd, end))
<1> DEFINE n == Len(rd.limits)
           nr == PushLimitEnd(rd, end)
<1>1. /\ rd \in State /\ rd.limits \in Seq(Nat) /\ n \in Nat /\ rd.limit \in Nat
      /\ rd.pos <= end /\ end <= rd.limit
  BY LenProperties DEF Valid, State, CanPushLimitEnd
<1>2. /\ nr \in State /\ nr.limits = Append(rd.limits, rd.limit) /\ nr.limit = end
      /\ nr.pos = rd.pos /\ nr.bits = rd.bits
  BY <1>1, AppendProperties DEF State, PushLimitEnd
<1>3. /\ Len(nr.limits) = n + 1 /\ nr.limits[n + 1] = rd.limit
      /\ \A i \in 1..n : nr.limits[i] = rd.limits[i]
  BY <1>1, <1>2, AppendProperties
<1>4. \A i \in 1..n : rd.limits[i] \in Nat /\ rd.limit <= rd.limits[i]
  <2> TAKE i \in 1..n
  <2>1. rd.limits # <<>> /\ n \in 1..n
    BY <1>1, EmptySeq
  <2>2. rd.limits[i] \in Nat /\ rd.limits[n] \in Nat
    BY <1>1, <2>1, ElementOfSeq
  <2>3. rd.limit <= rd.limits[n] /\ (i < n => rd.limits[n] <= rd.limits[i])
    BY <2>1 DEF Valid, Nested, Last
  <2> QED BY <2>1, <2>2, <2>3, <1>1
<1>5. nr.limits[1] = Size
  BY <1>1, <1>3, EmptySeq DEF Valid, Nested
<1>6. Nested(nr)
  <2>1. nr.limits # <<>> /\ nr.limit <= Last(nr.limits)
    BY <1>1, <1>2, <1>3, EmptySeq DEF Last
  <2>2. ASSUME NEW i \in 1..(n + 1), NEW j \in 1..(n + 1), i < j
        PROVE  nr.limits[j] <= nr.limits[i]
    <3>1. i \in 1..n /\ (j = n + 1 \/ j \in 1..n)
      BY <2>2, <1>1, SMTT(30)
    <3>2. CASE j = n + 1
      BY <3>1, <3>2, <1>3, <1>4
    <3>3. CASE j \in 1..n
      BY <3>1, <3>3, <2>2, <1>3 DEF Valid, Nested
    <3> QED BY <3>1, <3>2, <3>3
  <2> QED BY <2>1, <2>2, <1>3, <1>5 DEF Nested
<1> QED BY <1>1, <1>2, <1>6, SizeAssumption DEF Valid

LEMMA PushLimitValid ==
    ASSUME NEW rd, Valid(rd), NEW n \in Nat, CanPushLimit(rd, n)
    PROVE  Valid(PushLimit(rd, n))
<1>1. rd.pos + n \in Nat
  BY DEF Valid, State
<1> QED BY <1>1, PushLimitEndValid DEF CanPushLimit, PushLimit

LEMMA PopLimitValid ==
    ASSUME NEW rd, Valid(rd), CanPopLimit(rd)
    PROVE  Valid(PopLimit(rd))
<1> DEFINE n == Len(rd.limits)
           nr == PopLimit(rd)
<1>1. /\ rd \in State /\ rd.limits \in Seq(Nat) /\ n \in Nat /\ n # 0
      /\ \A i \in 1..n : rd.limits[i] \in Nat
  BY LenProperties, EmptySeq, ElementOfSeq DEF Valid, State, CanPopLimit
<1>2. /\ Front(rd.limits) \in Seq(Nat) /\ Len(Front(rd.limits)) = n - 1
      /\ \A i \in 1..(n - 1) : Front(rd.limits)[i] = rd.limits[i]
  BY <1>1, SubSeqProperties DEF Front
<1>3. /\ nr \in State /\ nr.limits = Front(rd.limits) /\ nr.limit = rd.limits[n]
      /\ nr.pos = rd.pos /\ nr.bits = rd.bits
  <2>1. Last(rd.limits) = rd.limits[n] /\ Last(rd.limits) \in Nat
    BY <1>1 DEF Last
  <2> QED BY <1>1, <1>2, <2>1 DEF State, PopLimit
<1>4. rd.limits[1] = Size /\ rd.limit <= rd.limits[n] /\ rd.limits[n] <= rd.limits[1]
  BY <1>1, EmptySeq DEF Valid, Nested, Last
<1>5. Nested(nr)
  <2>1. nr.limits = <<>> => nr.limit = Size
    BY <1>1, <1>2, <1>3, <1>4, EmptySeq
  <2>2. nr.limits # <<>> => n - 1 \in 1..n /\ 1 \in 1..(n - 1)
    BY <1>1, <1>2, <1>3, EmptySeq
  <2>3. nr.limits # <<>> => nr.limits[1] = Size /\ nr.limit <= Last(nr.limits)
    <3> SUFFICES ASSUME nr.limits # <<>>
                 PROVE  nr.limits[1] = Size /\ nr.limit <= Last(nr.limits)
      OBVIOUS
    <3>1. nr.limits[1] = rd.limits[1] /\ Last(nr.limits) = rd.limits[n - 1]
      BY <2>2, <1>2, <1>3 DEF Last
    <3>2. n - 1 < n /\ n \in 1..n
      BY <1>1
    <3>3. rd.limits[n] <= rd.limits[n - 1]
      BY <2>2, <3>2 DEF Valid, Nested
    <3> QED BY <3>1, <3>3, <1>3, <1>4
  <2>4. ASSUME NEW i \in 1..Len(nr.limits), NEW j \in 1..Len(nr.limits), i < j
        PROVE  nr.limits[j] <= nr.limits[i]
    <3>0. Len(nr.limits) = n - 1 /\ n \in Nat
      BY <1>1, <1>2, <1>3
    <3>1. i \in 1..(n - 1) /\ j \in 1..(n - 1) /\ i \in 1..n /\ j \in 1..n
      <4> HIDE DEF n, nr
      <4> QED BY <3>0
    <3>2. rd.limits[j] <= rd.limits[i]
      BY <3>1, <2>4 DEF Valid, Nested
    <3> QED BY <3>1, <3>2, <1>2, <1>3
  <2> QED BY <2>1, <2>3, <2>4 DEF Nested
<1>6. rd.pos <= rd.limits[n] /\ rd.limits[n] <= Size
  BY <1>1, <1>4, SizeAssumption DEF Valid, State
<1> QED BY <1>1, <1>3, <1>5, <1>6 DEF Valid
=============================================================================
