------------------------------- MODULE Reader -------------------------------
(***************************************************************************)
(* The bounds-checked cursor of the reference runtime, runtime::Reader     *)
(* (src/runtime/Runtime.h and Runtime.cpp).  A reader walks an input of    *)
(* Size bytes under a stack of nested limits: a block or a terminated      *)
(* sequence narrows the limit on entry and gives it back on exit.          *)
(*                                                                         *)
(* A reader is a value of this module; each method is a pair of operators: *)
(* the condition under which the method returns instead of throwing, and   *)
(* the reader it leaves.  A method that throws leaves the reader as it     *)
(* was.  Input bytes are abstracted; the bit container keeps where it was  *)
(* loaded and the byte order in force at that moment.                      *)
(***************************************************************************)
EXTENDS Naturals, Sequences, SequencesExt

CONSTANT Size          \* d_.size(): the length of the input in bytes

ASSUME SizeAssumption == Size \in Nat

Endian == {"Little", "Big", "Native"}

\* The container of a reader with no bit group loaded (bit_container_ = 0).
Empty == [at |-> 0, endian |-> "Little", total |-> 0]

\* Where a bit group was loaded, under which order, and how many bits of it count.
Container == [at : Nat, endian : Endian, total : Nat]

\* Every State a client can build: the fields of Reader::State are public.
State == [pos : Nat, limit : Nat, limits : Seq(Nat), endian : Endian,
          container : Container, bits : Nat]

New == [pos |-> 0, limit |-> Size, limits |-> <<>>, endian |-> "Little",
        container |-> Empty, bits |-> 0]

Remaining(rd) == rd.limit - rd.pos

SetEndian(rd, e) == [rd EXCEPT !.endian = e]

-----------------------------------------------------------------------------
\* Cursor movement.  size_t overflow in checkedAdd throws where the unbounded
\* sum of this model exceeds the limit, so both end in an exception.

CanSeek(rd, p) == p <= rd.limit
CanSeekRoot(rd, p) == p <= Size /\ p <= rd.limit
Seek(rd, p) == [rd EXCEPT !.pos = p]

AlignUp(p, a) == IF p % a = 0 THEN p ELSE p + (a - (p % a))

\* Mutant of CanAlign: padding is not checked against the limit.
CanAlignAnywhere(rd, a) == a # 0

CanAlign(rd, a) == a # 0 /\ CanSeek(rd, AlignUp(rd.pos, a))
Align(rd, a) == Seek(rd, AlignUp(rd.pos, a))

\* Mutant of CanUint: the bytes left in the input, not under the limit.
CanUintOfInput(rd, n) == n \in 1..8 /\ n <= Size - rd.pos

CanUint(rd, n) == n \in 1..8 /\ n <= Remaining(rd)
CanBytes(rd, n) == n <= Remaining(rd)
Take(rd, n) == [rd EXCEPT !.pos = @ + n]

-----------------------------------------------------------------------------
\* Bit groups: a container of `total` bits is loaded with the byte order the
\* reader has at that moment and consumed from its most significant end.

BytesFor(total) == (total + 7) \div 8

CanBeginBits(rd, total) == /\ rd.bits = 0
                           /\ total \in 1..64
                           /\ BytesFor(total) <= Remaining(rd)
BeginBits(rd, total) ==
    [rd EXCEPT !.pos = @ + BytesFor(total), !.bits = total,
               !.container = [at |-> rd.pos, endian |-> rd.endian, total |-> total]]

\* A read with no container active loads one exactly as wide as the request.
Loaded(rd, width) == IF rd.bits = 0 THEN BeginBits(rd, width) ELSE rd

\* Mutant of CanBits: the width is not compared with the bits that are left.
CanBitsUnchecked(rd, width) == rd.bits = 0 => CanBeginBits(rd, width)

CanBits(rd, width) == /\ rd.bits = 0 => CanBeginBits(rd, width)
                      /\ width \in 1..64
                      /\ width <= Loaded(rd, width).bits
Bits(rd, width) == [Loaded(rd, width) EXCEPT !.bits = @ - width]

CanEndBits(rd) == rd.bits = 0
EndBits(rd) == [rd EXCEPT !.container = Empty]

-----------------------------------------------------------------------------
\* The limit stack: limits holds the limits that were in force outside the
\* current one, the outermost first.

CanPushLimitEnd(rd, end) == rd.pos <= end /\ end <= rd.limit
PushLimitEnd(rd, end) == [rd EXCEPT !.limits = Append(@, rd.limit), !.limit = end]
CanPushLimit(rd, n) == CanPushLimitEnd(rd, rd.pos + n)
PushLimit(rd, n) == PushLimitEnd(rd, rd.pos + n)

CanPopLimit(rd) == rd.limits # <<>> /\ rd.pos <= rd.limit

\* Mutant of PopLimit: takes the limit from the wrong end of the stack.
PopOutermost(rd) == [rd EXCEPT !.limit = rd.limits[1], !.limits = Tail(rd.limits)]

PopLimit(rd) == [rd EXCEPT !.limit = Last(rd.limits), !.limits = Front(rd.limits)]

-----------------------------------------------------------------------------
\* state() copies every field; restore(s) accepts the states for which
\* Restorable holds and then overwrites every field.  The walk from rbegin()
\* compares each limit with the one pushed after it; the last two checks look
\* at front() and back(), the outermost and the innermost entry.


\* The limit stack of s is in order, with s.limit under it.
Ordered(s) ==
    \A i \in 1..Len(s.limits) :
        /\ (IF i = Len(s.limits) THEN s.limit ELSE s.limits[i + 1]) <= s.limits[i]
        /\ s.limits[i] <= Size

\* Mutant of Restorable: a state without pushed limits may have any limit.
RestorableAnyLimit(s) == /\ s.pos <= s.limit /\ s.limit <= Size
                         /\ s.bits <= 64
                         /\ Ordered(s)
                         /\ s.limits # <<>> => Last(s.limits) = Size

\* Mutant of Restorable: a limit may not reach the end of the one around it.
RestorableStrict(s) == /\ s.pos <= s.limit /\ s.limit <= Size
                       /\ s.bits <= 64
                       /\ Ordered(s)
                       /\ s.limits = <<>> => s.limit = Size
                       /\ s.limits # <<>> => Last(s.limits) = Size /\ s.limit < Size

Restorable(s) ==
    /\ s.pos <= s.limit
    /\ s.limit <= Size
    /\ s.bits <= 64
    /\ Ordered(s)
    /\ s.limits # <<>> => s.pos <= s.limits[1]
    /\ s.limits = <<>> => s.limit = Size
    /\ s.limits # <<>> => Last(s.limits) = Size

-----------------------------------------------------------------------------
\* What every reader reached through the methods satisfies: the cursor is
\* inside the active limit, the limits nest, and the outermost is the input.

Nested(rd) ==
    /\ rd.limits = <<>> => rd.limit = Size
    /\ rd.limits # <<>> => rd.limits[1] = Size /\ rd.limit <= Last(rd.limits)
    /\ \A i, j \in 1..Len(rd.limits) : i < j => rd.limits[j] <= rd.limits[i]

Valid(rd) == /\ rd \in State
             /\ rd.pos <= rd.limit
             /\ rd.limit <= Size
             /\ rd.bits <= 64
             /\ Nested(rd)
=============================================================================
