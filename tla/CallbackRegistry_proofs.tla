----------------------- MODULE CallbackRegistry_proofs -----------------------
(***************************************************************************)
(* The properties of a reader in the hands of its clients, for inputs of   *)
(* any length, any arguments, any states handed to restore() and any depth *)
(* of limits.                                                              *)
(***************************************************************************)
EXTENDS CallbackRegistry, Reader_proofs

\* What makes Confined inductive.  While the callback keeps to its own limits,
\* the stack it found is at the bottom of the stack, and the limit it found is
\* either the current one or the first one pushed on top of that stack.
OnTop == LET n == Len(entry.limits)
         IN  /\ n <= Len(rd.limits)
             /\ \A i \in 1..n : rd.limits[i] = entry.limits[i]
             /\ Len(rd.limits) = n => rd.limit = entry.limit
             /\ Len(rd.limits) > n => rd.limits[n + 1] = entry.limit

IInv == /\ TypeOK
        /\ Valid(rd)
        /\ Valid(entry)
        /\ running /\ kept => OnTop
        /\ EscapesOnlyNested

-----------------------------------------------------------------------------
\* A method that leaves the limits alone keeps the invariant if it keeps the
\* reader valid.
LEMMA MoveKeepsIInv ==
    ASSUME IInv, NEW next, Valid(next), Moves(next),
           next.limits = rd.limits, next.limit = rd.limit
    PROVE  IInv'
<1>1. rd' = next /\ UNCHANGED <<running, entry, kept, result>>
  BY DEF Moves
<1>2. TypeOK'
  BY <1>1 DEF IInv, TypeOK, Valid
<1>3. Valid(rd)' /\ Valid(entry)'
  BY <1>1 DEF IInv
<1>4. (running /\ kept => OnTop)'
  BY <1>1 DEF IInv, OnTop
<1> QED BY <1>1, <1>2, <1>3, <1>4 DEF IInv, EscapesOnlyNested

LEMMA SameLimits ==
    ASSUME NEW r \in State
    PROVE  /\ \A p : Seek(r, p).limits = r.limits /\ Seek(r, p).limit = r.limit
           /\ \A n : Take(r, n).limits = r.limits /\ Take(r, n).limit = r.limit
           /\ \A w : BeginBits(r, w).limits = r.limits /\ BeginBits(r, w).limit = r.limit
           /\ \A w : Bits(r, w).limits = r.limits /\ Bits(r, w).limit = r.limit
           /\ \A e : SetEndian(r, e).limits = r.limits /\ SetEndian(r, e).limit = r.limit
           /\ EndBits(r).limits = r.limits /\ EndBits(r).limit = r.limit
BY DEF State, Seek, Take, BeginBits, Bits, Loaded, SetEndian, EndBits

LEMMA PushKeepsIInv ==
    ASSUME IInv, NEW end \in Nat, CanPushLimitEnd(rd, end), Moves(PushLimitEnd(rd, end))
    PROVE  IInv'
<1>1. rd' = PushLimitEnd(rd, end) /\ UNCHANGED <<running, entry, kept, result>>
  BY DEF Moves
<1>2. Valid(rd) /\ Valid(entry) /\ TypeOK /\ Valid(rd')
  BY <1>1, PushLimitEndValid DEF IInv
<1> DEFINE m == Len(rd.limits)
           n == Len(entry.limits)
<1>3. /\ rd.limits \in Seq(Nat) /\ m \in Nat /\ n \in Nat /\ rd.limit \in Nat
      /\ entry.limits \in Seq(Nat)
  BY <1>2, LenProperties DEF Valid, State
<1>4. rd'.limits = Append(rd.limits, rd.limit)
  BY <1>1, <1>2 DEF PushLimitEnd, Valid, State
<1>5. /\ Len(rd'.limits) = m + 1 /\ rd'.limits[m + 1] = rd.limit
      /\ \A i \in 1..m : rd'.limits[i] = rd.limits[i]
  BY <1>3, <1>4, AppendProperties
<1>6. (running /\ kept => OnTop)'
  <2> SUFFICES ASSUME running, kept PROVE OnTop'
    BY <1>1
  <2>1. OnTop
    BY DEF IInv
  <2>2. n <= m /\ n < m + 1 /\ (m = n \/ n + 1 \in 1..m)
    BY <2>1, <1>3 DEF OnTop
  <2>3. ASSUME NEW i \in 1..n PROVE rd'.limits[i] = entry.limits[i]
    <3>1. i \in 1..m
      BY <2>2, <1>3
    <3>2. rd.limits[i] = entry.limits[i]
      BY <2>1 DEF OnTop
    <3> QED BY <3>1, <3>2, <1>5
  <2>4. rd'.limits[n + 1] = entry.limit
    <3>1. CASE m = n
      BY <3>1, <2>1, <1>5 DEF OnTop
    <3>2. CASE n + 1 \in 1..m
      <4>1. m > n
        BY <3>2, <1>3
      <4>2. rd.limits[n + 1] = entry.limit
        BY <4>1, <2>1 DEF OnTop
      <4> QED BY <4>2, <3>2, <1>5
    <3> QED BY <3>1, <3>2, <2>2
  <2> QED BY <2>2, <2>3, <2>4, <1>1, <1>3, <1>5 DEF OnTop
<1> QED BY <1>1, <1>2, <1>6 DEF IInv, TypeOK, Valid, EscapesOnlyNested

LEMMA PopKeepsIInv ==
    ASSUME IInv, DoPopLimit
    PROVE  IInv'
<1>1. /\ rd' = PopLimit(rd) /\ CanPopLimit(rd) /\ UNCHANGED <<running, entry, result>>
      /\ kept' = (kept /\ Len(rd.limits) > Len(entry.limits))
  BY DEF DoPopLimit
<1>2. Valid(rd) /\ Valid(entry) /\ TypeOK /\ Valid(rd')
  BY <1>1, PopLimitValid DEF IInv
<1> DEFINE m == Len(rd.limits)
           n == Len(entry.limits)
<1>3. /\ rd.limits \in Seq(Nat) /\ m \in Nat /\ n \in Nat /\ m # 0
      /\ entry.limits \in Seq(Nat)
  BY <1>1, <1>2, LenProperties, EmptySeq DEF Valid, State, CanPopLimit
<1>4. rd'.limits = Front(rd.limits) /\ rd'.limit = rd.limits[m]
  BY <1>1, <1>2 DEF PopLimit, Last, Valid, State
<1>5. Len(rd'.limits) = m - 1 /\ \A i \in 1..(m - 1) : rd'.limits[i] = rd.limits[i]
  BY <1>3, <1>4, SubSeqProperties DEF Front
<1>6. (running /\ kept => OnTop)'
  <2> SUFFICES ASSUME running, kept, m > n PROVE OnTop'
    BY <1>1
  <2>1. OnTop
    BY DEF IInv
  <2>2. n <= m - 1 /\ rd.limits[n + 1] = entry.limit
    BY <2>1, <1>3 DEF OnTop
  <2>3. ASSUME NEW i \in 1..n PROVE rd'.limits[i] = entry.limits[i]
    <3>1. i \in 1..(m - 1)
      BY <2>2, <1>3
    <3>2. rd.limits[i] = entry.limits[i]
      BY <2>1 DEF OnTop
    <3> QED BY <3>1, <3>2, <1>5
  <2>4. m - 1 = n => rd'.limit = entry.limit
    BY <2>2, <1>3, <1>4
  <2>5. m - 1 > n => rd'.limits[n + 1] = entry.limit
    <3>1. m - 1 > n => n + 1 \in 1..(m - 1)
      BY <1>3
    <3> QED BY <3>1, <2>2, <1>5
  <2> QED BY <2>2, <2>3, <2>4, <2>5, <1>1, <1>5 DEF OnTop
<1>7. TypeOK'
  BY <1>1, <1>2 DEF TypeOK, Valid
<1> QED BY <1>1, <1>2, <1>6, <1>7 DEF IInv, EscapesOnlyNested

LEMMA MethodKeepsIInv ==
    ASSUME IInv, Method
    PROVE  IInv'
<1> USE ArgumentAssumption
<1>1. Valid(rd) /\ rd \in State
  BY DEF IInv, Valid
<1>2. CASE DoSeek
  BY <1>1, <1>2, SeekValid, SameLimits, MoveKeepsIInv DEF DoSeek
<1>3. CASE DoSeekRoot
  BY <1>1, <1>3, SeekValid, SameLimits, MoveKeepsIInv DEF DoSeekRoot, CanSeekRoot, CanSeek
<1>4. CASE DoAlign
  BY <1>1, <1>4, AlignValid, SameLimits, MoveKeepsIInv DEF DoAlign, Align
<1>5. CASE DoUint
  BY <1>1, <1>5, TakeValid, SameLimits, MoveKeepsIInv DEF DoUint, CanUint
<1>6. CASE DoBytes
  BY <1>1, <1>6, TakeValid, SameLimits, MoveKeepsIInv DEF DoBytes, CanBytes
<1>7. CASE DoBeginBits
  BY <1>1, <1>7, BeginBitsValid, SameLimits, MoveKeepsIInv DEF DoBeginBits
<1>8. CASE DoBits
  BY <1>1, <1>8, BitsValid, SameLimits, MoveKeepsIInv DEF DoBits
<1>9. CASE DoEndBits
  BY <1>1, <1>9, EndBitsValid, SameLimits, MoveKeepsIInv DEF DoEndBits
<1>10. CASE DoSetEndian
  BY <1>1, <1>10, SetEndianValid, SameLimits, MoveKeepsIInv DEF DoSetEndian
<1>11. CASE DoPushLimit
  <2>1. PICK n \in Sizes : CanPushLimit(rd, n) /\ Moves(PushLimit(rd, n))
    BY <1>11 DEF DoPushLimit
  <2>2. rd.pos + n \in Nat
    BY <1>1 DEF State
  <2> QED BY <2>1, <2>2, PushKeepsIInv DEF CanPushLimit, PushLimit
<1>12. CASE DoPushLimitEnd
  BY <1>12, PushKeepsIInv DEF DoPushLimitEnd
<1>13. CASE DoPopLimit
  BY <1>13, PopKeepsIInv
<1>14. CASE DoRestore
  <2>1. PICK s \in Handed : Restorable(s) /\ rd' = s
    BY <1>14 DEF DoRestore
  <2>2. s \in State /\ Valid(s) /\ kept' = FALSE /\ UNCHANGED <<running, entry, result>>
    BY <1>14, <2>1, RestorableValid DEF DoRestore
  <2> QED BY <2>1, <2>2 DEF IInv, TypeOK, EscapesOnlyNested
<1> QED BY <1>2, <1>3, <1>4, <1>5, <1>6, <1>7, <1>8, <1>9, <1>10, <1>11, <1>12,
           <1>13, <1>14 DEF Method

-----------------------------------------------------------------------------
LEMMA InitIInv == Init => IInv
BY NewValid DEF Init, IInv, TypeOK, Valid, EscapesOnlyNested, OnTop

LEMMA NextIInv == IInv /\ [Next]_vars => IInv'
<1> SUFFICES ASSUME IInv, [Next]_vars PROVE IInv'
  OBVIOUS
<1>1. CASE Method
  BY <1>1, MethodKeepsIInv
<1>2. CASE Call
  BY <1>2 DEF IInv, Call, TypeOK, OnTop, EscapesOnlyNested
<1>3. CASE Succeed
  BY <1>3 DEF IInv, Succeed, TypeOK, EscapesOnlyNested
<1>4. CASE Fail
  BY <1>4 DEF IInv, Fail, TypeOK, EscapesOnlyNested
<1>5. CASE Escape
  <2>1. Len(entry.limits) >= 2
    <3>1. Len(entry.limits) \in Nat
      BY LenProperties DEF IInv, Valid, State
    <3>2. ~ (Len(entry.limits) <= 1)
      BY <1>5, ShallowRestorable DEF IInv, Escape
    <3> QED BY <3>1, <3>2
  <2> QED BY <1>5, <2>1 DEF IInv, Escape, TypeOK, EscapesOnlyNested
<1>6. CASE UNCHANGED vars
  BY <1>6 DEF IInv, vars, TypeOK, OnTop, EscapesOnlyNested
<1> QED BY <1>1, <1>2, <1>3, <1>4, <1>5, <1>6 DEF Next

LEMMA Invariance == Spec => []IInv
BY InitIInv, NextIInv, PTL DEF Spec

\* The variables keep their types: no sequence of method calls makes a cursor,
\* a limit or a bit count negative.
THEOREM TypeCorrect == Spec => []TypeOK
<1>1. IInv => TypeOK
  BY DEF IInv
<1> QED BY <1>1, Invariance, PTL

\* Reads stay inside the input: at any time 0 <= pos <= limit <= size and the
\* limits nest, whatever the clients call and whatever states they hand back.
THEOREM ReaderBounded == Spec => []Bounded
<1>1. IInv => Bounded
  BY DEF IInv, Bounded
<1> QED BY <1>1, Invariance, PTL

\* A callback that keeps to its own limits stays inside the block it was
\* called in.
THEOREM CallbackConfined == Spec => []Confined
<1>1. IInv => Confined
  <2> SUFFICES ASSUME IInv, running, kept PROVE
                 /\ IsPrefix(entry.limits, rd.limits)
                 /\ rd.limit <= entry.limit
                 /\ Len(rd.limits) = Len(entry.limits) => rd.limit = entry.limit
    BY DEF Confined
  <2> DEFINE m == Len(rd.limits)
             n == Len(entry.limits)
  <2>1. OnTop /\ Valid(rd) /\ Valid(entry)
    BY DEF IInv
  <2>2. /\ rd.limits \in Seq(Nat) /\ entry.limits \in Seq(Nat)
        /\ m \in Nat /\ n \in Nat /\ rd.limit \in Nat
    BY <2>1, LenProperties DEF Valid, State
  <2>3. IsPrefix(entry.limits, rd.limits)
    <3>1. /\ SubSeq(rd.limits, 1, n) \in Seq(Nat) /\ Len(SubSeq(rd.limits, 1, n)) = n
          /\ \A i \in 1..n : SubSeq(rd.limits, 1, n)[i] = rd.limits[i]
      BY <2>1, <2>2, SubSeqProperties DEF OnTop
    <3>2. SubSeq(rd.limits, 1, n) = entry.limits
      BY <3>1, <2>1, <2>2, SeqEqual DEF OnTop
    <3>3. SubSeq(entry.limits, 1, n) = entry.limits
      BY <2>2, SubSeqFull
    <3> QED BY <3>2, <3>3, <2>1 DEF OnTop, IsPrefix
  <2>4. rd.limit <= entry.limit
    <3>1. CASE m = n
      BY <3>1, <2>1, <2>2 DEF OnTop
    <3>2. CASE m > n
      <4>1. n + 1 \in 1..m /\ m \in 1..m /\ rd.limits # <<>>
        BY <3>2, <2>2, EmptySeq
      <4>2. rd.limit <= rd.limits[m] /\ rd.limits[m] <= rd.limits[n + 1]
        <5>1. n + 1 = m \/ n + 1 < m
          BY <4>1, <2>2
        <5>2. rd.limits[m] \in Nat
          BY <4>1, <2>2, ElementOfSeq
        <5> QED BY <5>1, <5>2, <4>1, <2>1 DEF Valid, Nested, Last
      <4>3. rd.limits[m] \in Nat /\ rd.limits[n + 1] \in Nat
        BY <4>1, <2>2, ElementOfSeq
      <4> QED BY <4>2, <4>3, <3>2, <2>1, <2>2, SMTT(30) DEF OnTop
    <3> QED BY <3>1, <3>2, <2>1, <2>2 DEF OnTop
  <2> QED BY <2>1, <2>3, <2>4 DEF OnTop
<1> QED BY <1>1, Invariance, PTL

\* Rolling a failed callback back is refused only under two limits or more.
THEOREM RefusedOnlyNested == Spec => []EscapesOnlyNested
<1>1. IInv => EscapesOnlyNested
  BY DEF IInv
<1> QED BY <1>1, Invariance, PTL
=============================================================================
