------------------------- MODULE DecoderLimits_proofs -------------------------
(***************************************************************************)
(* The limits of the reader are those of the constructs being read, for    *)
(* every plan, input and option, if callbacks leave the limits alone.      *)
(***************************************************************************)
EXTENDS Decoder_proofs, FiniteSetTheorems

\* The limits of a reader, the active one last.
Limits(r) == Append(r.limits, r.limit)

\* What a callback may do: move the cursor or change the byte order.
LeavesLimits == Touches \subseteq {"none", "read", "rewind", "order"}

\* A terminated sequence keeps the reader it goes back to when it fails.
MirrorOK(fs, r) ==
    /\ Mirrors(Limits(r), fs, Len(fs))
    /\ \A i \in 1..Len(fs) :
          fs[i].k = "until" => Mirrors(Limits(fs[i].saved), fs, i - 1)

\* Once a rollback has thrown nothing is promised, but nothing is read either:
\* the decode only unwinds.
LimitInv ==
    /\ Unrestored => ret \in {False, Throw}
    /\ ret = Throw => Unrestored
    /\ ~Unrestored => MirrorOK(frames, rd)

-----------------------------------------------------------------------------
\* The frames that bound the reader.

Bounders == {"block", "until"}

LEMMA BoundingFinite ==
    ASSUME NEW fs, NEW n \in Nat
    PROVE  /\ IsFiniteSet(Bounding(fs, n)) /\ Cardinality(Bounding(fs, n)) \in Nat
           /\ \A i \in 0..n : Cardinality(Bounding(fs, i)) \in Nat
                              /\ Cardinality(Bounding(fs, i)) <= Cardinality(Bounding(fs, n))
<1>1. IsFiniteSet(1..n)
  BY FS_Interval
<1>2. Bounding(fs, n) \in SUBSET (1..n)
  BY DEF Bounding
<1>3. IsFiniteSet(Bounding(fs, n))
  BY <1>1, <1>2, FS_Subset
<1>4. \A i \in 0..n : Bounding(fs, i) \in SUBSET Bounding(fs, n)
  BY DEF Bounding
<1>5. \A i \in 0..n : /\ IsFiniteSet(Bounding(fs, i))
                      /\ Cardinality(Bounding(fs, i)) <= Cardinality(Bounding(fs, n))
  BY <1>3, <1>4, FS_Subset
<1> QED BY <1>3, <1>5, FS_CardinalityType

LEMMA BoundingNext ==
    ASSUME NEW fs, NEW n \in Nat
    PROVE  /\ fs[n + 1].k \notin Bounders => Bounding(fs, n + 1) = Bounding(fs, n)
           /\ fs[n + 1].k \in Bounders =>
                 /\ Bounding(fs, n + 1) = Bounding(fs, n) \cup {n + 1}
                 /\ Cardinality(Bounding(fs, n + 1)) = Cardinality(Bounding(fs, n)) + 1
<1>1. n + 1 \notin Bounding(fs, n)
  BY DEF Bounding
<1>2. \A i : i \in 1..(n + 1) <=> i \in 1..n \/ i = n + 1
  OBVIOUS
<1>3. /\ fs[n + 1].k \notin Bounders => Bounding(fs, n + 1) = Bounding(fs, n)
      /\ fs[n + 1].k \in Bounders => Bounding(fs, n + 1) = Bounding(fs, n) \cup {n + 1}
  BY <1>2 DEF Bounding, Bounders
<1> QED BY <1>1, <1>3, BoundingFinite, FS_AddElement

\* Two stacks bound the reader alike.
SameBound(f, g) ==
    /\ f.k = g.k
    /\ f.k = "block" => f.end = g.end
    /\ f.k = "until" => f.saved = g.saved /\ f.max = g.max /\ f.term = g.term

LEMMA MirrorsSame ==
    ASSUME NEW fs, NEW gs, NEW n \in Nat, NEW limits, Mirrors(limits, fs, n),
           \A i \in 1..n : SameBound(fs[i], gs[i])
    PROVE  Mirrors(limits, gs, n)
<1>1. \A i \in 0..n : Bounding(gs, i) = Bounding(fs, i)
  BY DEF Bounding, SameBound
<1>2. \A i \in Bounding(fs, n) : i \in 1..n /\ i \in 0..n /\ EndOf(gs[i]) = EndOf(fs[i])
  <2> TAKE i \in Bounding(fs, n)
  <2>1. i \in 1..n /\ fs[i].k \in {"block", "until"} /\ SameBound(fs[i], gs[i])
    BY DEF Bounding
  <2> QED BY <2>1 DEF SameBound, EndOf
<1>3. n \in 0..n
  OBVIOUS
<1> QED BY <1>1, <1>2, <1>3 DEF Mirrors

LEMMA MirrorsNext ==
    ASSUME NEW fs, NEW n \in Nat, NEW limits, fs[n + 1].k \notin Bounders
    PROVE  Mirrors(limits, fs, n) <=> Mirrors(limits, fs, n + 1)
BY BoundingNext DEF Mirrors

LEMMA MirrorsEnter ==
    ASSUME NEW fs, NEW n \in Nat, NEW limits \in Seq(Nat), fs[n + 1].k \in Bounders,
           EndOf(fs[n + 1]) \in Nat, Mirrors(limits, fs, n)
    PROVE  Mirrors(Append(limits, EndOf(fs[n + 1])), fs, n + 1)
<1> DEFINE a == Append(limits, EndOf(fs[n + 1]))
           c == Cardinality(Bounding(fs, n))
<1>1. c \in Nat /\ Len(limits) = c + 1 /\ limits[1] = Size
  BY BoundingFinite DEF Mirrors
<1>2. /\ Len(a) = c + 2 /\ a[c + 2] = EndOf(fs[n + 1])
      /\ \A i \in 1..(c + 1) : a[i] = limits[i]
  <2>1. Len(a) = Len(limits) + 1 /\ a[Len(limits) + 1] = EndOf(fs[n + 1])
        /\ \A i \in 1..Len(limits) : a[i] = limits[i]
    BY AppendProperties
  <2> HIDE DEF a, c
  <2> QED BY <1>1, <2>1
<1>3. /\ Bounding(fs, n + 1) = Bounding(fs, n) \cup {n + 1}
      /\ Cardinality(Bounding(fs, n + 1)) = c + 1
  BY BoundingNext
<1>4. \A i \in Bounding(fs, n) : /\ Cardinality(Bounding(fs, i)) + 1 \in 1..(c + 1)
                                 /\ limits[Cardinality(Bounding(fs, i)) + 1] = EndOf(fs[i])
  <2> TAKE i \in Bounding(fs, n)
  <2>1. i \in 0..n
    BY DEF Bounding
  <2>2. Cardinality(Bounding(fs, i)) \in Nat /\ Cardinality(Bounding(fs, i)) <= c
    BY <2>1, BoundingFinite
  <2>3. limits[Cardinality(Bounding(fs, i)) + 1] = EndOf(fs[i])
    BY DEF Mirrors
  <2> HIDE DEF c
  <2> QED BY <1>1, <2>2, <2>3
<1> HIDE DEF a, c
<1>5. a[1] = Size /\ Len(a) = (c + 1) + 1 /\ (c + 1) + 1 = c + 2
  BY <1>1, <1>2
<1>6. \A i \in Bounding(fs, n + 1) : a[Cardinality(Bounding(fs, i)) + 1] = EndOf(fs[i])
  <2>1. \A i \in Bounding(fs, n) : a[Cardinality(Bounding(fs, i)) + 1] = EndOf(fs[i])
    BY <1>2, <1>4
  <2> QED BY <1>2, <1>3, <1>5, <2>1
<1> QED BY <1>3, <1>5, <1>6 DEF Mirrors, a

LEMMA MirrorsLeave ==
    ASSUME NEW fs, NEW n \in Nat, NEW limits \in Seq(Nat), NEW end \in Nat,
           fs[n + 1].k \in Bounders, Mirrors(Append(limits, end), fs, n + 1)
    PROVE  limits # <<>> /\ Mirrors(limits, fs, n)
<1> DEFINE a == Append(limits, end)
           c == Cardinality(Bounding(fs, n))
<1>1. c \in Nat /\ Cardinality(Bounding(fs, n + 1)) = c + 1
      /\ Bounding(fs, n) \subseteq Bounding(fs, n + 1)
  BY BoundingFinite, BoundingNext
<1>2. /\ Len(a) = (c + 1) + 1 /\ a[1] = Size
      /\ \A i \in Bounding(fs, n + 1) : a[Cardinality(Bounding(fs, i)) + 1] = EndOf(fs[i])
  BY <1>1 DEF Mirrors
<1>3. Len(limits) \in Nat /\ Len(a) = Len(limits) + 1
      /\ \A i \in 1..Len(limits) : a[i] = limits[i]
  BY AppendProperties, LenProperties
<1>4. \A i \in Bounding(fs, n) : Cardinality(Bounding(fs, i)) + 1 \in 1..(c + 1)
  <2> TAKE i \in Bounding(fs, n)
  <2>1. i \in 0..n
    BY DEF Bounding
  <2>2. Cardinality(Bounding(fs, i)) \in Nat /\ Cardinality(Bounding(fs, i)) <= c
    BY <2>1, BoundingFinite
  <2> HIDE DEF c
  <2> QED BY <1>1, <2>2
<1> HIDE DEF a, c
<1>5. Len(limits) = c + 1
  BY <1>1, <1>2, <1>3
<1>6. limits[1] = Size /\ limits # <<>>
  BY <1>1, <1>2, <1>3, <1>5, EmptySeq
<1>7. \A i \in Bounding(fs, n) : limits[Cardinality(Bounding(fs, i)) + 1] = EndOf(fs[i])
  BY <1>1, <1>2, <1>3, <1>4, <1>5
<1> QED BY <1>5, <1>6, <1>7 DEF Mirrors, c

-----------------------------------------------------------------------------
\* Stacks and the readers that go with them.

SameLimits(r, s) == s.limits = r.limits /\ s.limit = r.limit

LEMMA LimitsSeq ==
    ASSUME NEW r, Valid(r)
    PROVE  r.limits \in Seq(Nat) /\ r.limit \in Nat /\ Limits(r) \in Seq(Nat)
<1>1. r.limits \in Seq(Nat) /\ r.limit \in Nat
  BY DEF Valid, State
<1> QED BY <1>1, AppendProperties DEF Limits

\* A mirrored stack that changes in what does not bound the reader.
LEMMA MirrorReplace ==
    ASSUME NEW fs, IsSeq(fs), fs # <<>>, NEW r, MirrorOK(fs, r),
           NEW f, SameBound(Last(fs), f)
    PROVE  MirrorOK(Append(Front(fs), f), r)
<1> DEFINE gs == Append(Front(fs), f)
           n == Len(fs)
<1>1. /\ n \in Nat \ {0} /\ Len(gs) = n /\ gs[n] = f /\ fs[n] = Last(fs)
      /\ \A i \in 1..(n - 1) : gs[i] = fs[i]
  <2>1. /\ IsSeq(Front(fs)) /\ n \in Nat \ {0} /\ Len(Front(fs)) = n - 1
        /\ \A i \in 1..(n - 1) : Front(fs)[i] = fs[i]
    BY FrontSeq
  <2>2. /\ Len(gs) = (n - 1) + 1 /\ \A i \in 1..(n - 1) : gs[i] = Front(fs)[i]
        /\ gs[(n - 1) + 1] = f
    BY <2>1, AppendSeq
  <2> QED BY <2>1, <2>2 DEF Last
<1> HIDE DEF gs
<1>2. \A i \in 1..n : i \in 1..(n - 1) \/ i = n
  BY <1>1
<1>3. \A i \in 1..n : SameBound(fs[i], gs[i])
  BY <1>1, <1>2 DEF SameBound
<1>4. Mirrors(Limits(r), gs, n)
  BY <1>1, <1>3, MirrorsSame DEF MirrorOK
<1>5. ASSUME NEW i \in 1..n, gs[i].k = "until"
      PROVE  Mirrors(Limits(gs[i].saved), gs, i - 1)
  <2>1. fs[i].k = "until" /\ gs[i].saved = fs[i].saved
    BY <1>3, <1>5 DEF SameBound
  <2>2. i - 1 \in Nat /\ \A j \in 1..(i - 1) : j \in 1..n
    BY <1>1
  <2> QED BY <1>3, <2>1, <2>2, MirrorsSame DEF MirrorOK
<1> QED BY <1>1, <1>4, <1>5 DEF MirrorOK, gs

\* What is under a stack is bounded as it was.
LEMMA Undisturbed ==
    ASSUME NEW fs, NEW gs, NEW n \in Nat, \A i \in 1..n : gs[i] = fs[i],
           \A i \in 1..n : fs[i].k = "until" => Mirrors(Limits(fs[i].saved), fs, i - 1)
    PROVE  /\ \A limits : Mirrors(limits, fs, n) => Mirrors(limits, gs, n)
           /\ \A i \in 1..n : gs[i].k = "until" => Mirrors(Limits(gs[i].saved), gs, i - 1)
<1>1. \A i \in 1..n : SameBound(fs[i], gs[i])
  BY DEF SameBound
<1>2. ASSUME NEW i \in 1..n, gs[i].k = "until"
      PROVE  Mirrors(Limits(gs[i].saved), gs, i - 1)
  <2>1. i - 1 \in Nat /\ \A j \in 1..(i - 1) : j \in 1..n
    OBVIOUS
  <2> QED BY <1>1, <1>2, <2>1, MirrorsSame
<1> QED BY <1>1, <1>2, MirrorsSame

LEMMA MirrorPush ==
    ASSUME NEW fs, IsSeq(fs), NEW r, MirrorOK(fs, r), NEW f, f.k \notin Bounders
    PROVE  MirrorOK(Append(fs, f), r)
<1> DEFINE gs == Append(fs, f)
           n == Len(fs)
<1>1. n \in Nat /\ Len(gs) = n + 1 /\ gs[n + 1] = f /\ \A i \in 1..n : gs[i] = fs[i]
  BY AppendSeq, SeqLen
<1> HIDE DEF gs
<1>2. /\ Mirrors(Limits(r), gs, n)
      /\ \A i \in 1..n : gs[i].k = "until" => Mirrors(Limits(gs[i].saved), gs, i - 1)
  BY <1>1, Undisturbed DEF MirrorOK
<1>3. Mirrors(Limits(r), gs, n + 1)
  BY <1>1, <1>2, MirrorsNext
<1>4. \A i \in 1..(n + 1) : i \in 1..n \/ i = n + 1
  BY <1>1
<1> QED BY <1>1, <1>2, <1>3, <1>4 DEF MirrorOK, Bounders, gs

\* A construct that pushes its limit.
LEMMA MirrorEnter ==
    ASSUME NEW fs, IsSeq(fs), NEW r, Valid(r), MirrorOK(fs, r),
           NEW f, f.k \in Bounders, f.k = "until" => f.saved = r,
           EndOf(f) \in Nat, NEW s, Limits(s) = Append(Limits(r), EndOf(f))
    PROVE  MirrorOK(Append(fs, f), s)
<1> DEFINE gs == Append(fs, f)
           n == Len(fs)
<1>1. n \in Nat /\ Len(gs) = n + 1 /\ gs[n + 1] = f /\ \A i \in 1..n : gs[i] = fs[i]
  BY AppendSeq, SeqLen
<1> HIDE DEF gs
<1>2. /\ Mirrors(Limits(r), gs, n)
      /\ \A i \in 1..n : gs[i].k = "until" => Mirrors(Limits(gs[i].saved), gs, i - 1)
  BY <1>1, Undisturbed DEF MirrorOK
<1>3. Mirrors(Limits(s), gs, n + 1)
  BY <1>1, <1>2, LimitsSeq, MirrorsEnter
<1>4. \A i \in 1..(n + 1) : i \in 1..n \/ (i = n + 1 /\ i - 1 = n)
  BY <1>1
<1> QED BY <1>1, <1>2, <1>3, <1>4 DEF MirrorOK, gs

\* What is under a stack, for every reader that mirrors it there.
LEMMA MirrorUnder ==
    ASSUME NEW fs, IsSeq(fs), fs # <<>>, NEW r, MirrorOK(fs, r),
           NEW s, Mirrors(Limits(s), fs, Len(fs) - 1)
    PROVE  MirrorOK(Front(fs), s)
<1>1. /\ Len(fs) \in Nat \ {0} /\ Len(Front(fs)) = Len(fs) - 1 /\ Len(fs) - 1 \in Nat
      /\ \A i \in 1..(Len(fs) - 1) : Front(fs)[i] = fs[i] /\ i \in 1..Len(fs)
  BY FrontSeq
<1> DEFINE n == Len(fs) - 1
           gs == Front(fs)
<1>2. \A i \in 1..n : fs[i].k = "until" => Mirrors(Limits(fs[i].saved), fs, i - 1)
  BY <1>1 DEF MirrorOK
<1>3. n \in Nat /\ Len(gs) = n /\ Mirrors(Limits(s), fs, n) /\ \A i \in 1..n : gs[i] = fs[i]
  BY <1>1
<1> HIDE DEF n, gs
<1>4. /\ Mirrors(Limits(s), gs, n)
      /\ \A i \in 1..n : gs[i].k = "until" => Mirrors(Limits(gs[i].saved), gs, i - 1)
  BY <1>2, <1>3, Undisturbed
<1> QED BY <1>3, <1>4 DEF MirrorOK, gs

LEMMA MirrorPop ==
    ASSUME NEW fs, IsSeq(fs), fs # <<>>, NEW r, MirrorOK(fs, r), Last(fs).k \notin Bounders
    PROVE  MirrorOK(Front(fs), r)
<1>1. Len(fs) - 1 \in Nat /\ (Len(fs) - 1) + 1 = Len(fs) /\ Last(fs) = fs[Len(fs)]
  BY FrontSeq
<1>2. Mirrors(Limits(r), fs, Len(fs) - 1)
  BY <1>1, MirrorsNext DEF MirrorOK
<1> QED BY <1>2, MirrorUnder

\* A construct that pops its limit can, and is back under the one around it.
LEMMA MirrorLeave ==
    ASSUME NEW fs, IsSeq(fs), fs # <<>>, NEW r, Valid(r), MirrorOK(fs, r),
           Last(fs).k \in Bounders
    PROVE  /\ r.limits # <<>>
           /\ \A s : SameLimits(PopLimit(r), s) => MirrorOK(Front(fs), s)
<1>1. Len(fs) - 1 \in Nat /\ (Len(fs) - 1) + 1 = Len(fs) /\ Last(fs) = fs[Len(fs)]
  BY FrontSeq
<1>2. r.limits \in Seq(Nat) /\ r.limit \in Nat
  BY LimitsSeq
<1>3. r.limits # <<>> /\ Mirrors(r.limits, fs, Len(fs) - 1)
  BY <1>1, <1>2, MirrorsLeave DEF MirrorOK, Limits
<1>4. PopLimit(r).limits = Front(r.limits) /\ PopLimit(r).limit = Last(r.limits)
  BY DEF PopLimit, Valid, State
<1>5. Append(Front(r.limits), Last(r.limits)) = r.limits
  <2>1. IsSeq(r.limits)
    BY <1>2, SeqOfRange DEF IsSeq
  <2> QED BY <1>3, <2>1, FrontSeq
<1>6. \A s : SameLimits(PopLimit(r), s) => Limits(s) = r.limits
  BY <1>4, <1>5 DEF SameLimits, Limits
<1> QED BY <1>3, <1>6, MirrorUnder

\* A terminated sequence that goes back to the reader it kept.
LEMMA MirrorUndo ==
    ASSUME NEW fs, IsSeq(fs), fs # <<>>, NEW r, MirrorOK(fs, r), Last(fs).k = "until"
    PROVE  MirrorOK(Front(fs), Last(fs).saved)
<1>1. Len(fs) \in 1..Len(fs) /\ Last(fs) = fs[Len(fs)]
  BY FrontSeq
<1>2. Mirrors(Limits(Last(fs).saved), fs, Len(fs) - 1)
  BY <1>1 DEF MirrorOK
<1> QED BY <1>2, MirrorUnder

LEMMA MirrorMoves ==
    ASSUME NEW fs, NEW r, MirrorOK(fs, r), NEW s, SameLimits(r, s)
    PROVE  MirrorOK(fs, s)
BY DEF MirrorOK, SameLimits, Limits

-----------------------------------------------------------------------------
\* Ways for a step to end.

LEMMA MovesKeep ==
    ASSUME NEW r, Valid(r)
    PROVE  /\ SameLimits(r, r)
           /\ \A p : SameLimits(r, Seek(r, p))
           /\ \A n : SameLimits(r, Take(r, n))
           /\ \A e : SameLimits(r, SetEndian(r, e))
           /\ \A w : SameLimits(r, BeginBits(r, w))
           /\ \A e, w : /\ SameLimits(r, Bits(SetEndian(r, e), w))
                        /\ SameLimits(r, EndBits(Bits(SetEndian(r, e), w)))
           /\ SameLimits(r, EndBits(r))
<1>1. {"pos", "limit", "limits", "endian", "container", "bits"} = DOMAIN r
  BY DEF Valid, State
<1>2. ASSUME NEW e, NEW w
      PROVE  LET b == Bits(SetEndian(r, e), w)
             IN  SameLimits(r, b) /\ "limits" \in DOMAIN b /\ "limit" \in DOMAIN b
  <2> DEFINE o == SetEndian(r, e)
             l == Loaded(o, w)
             b == [l EXCEPT !.bits = @ - w]
  <2>1. SameLimits(r, o) /\ {"limits", "limit"} \subseteq DOMAIN o
    BY <1>1 DEF SetEndian, SameLimits
  <2> HIDE DEF o
  <2>2. SameLimits(r, l) /\ {"limits", "limit"} \subseteq DOMAIN l
    BY <2>1 DEF Loaded, BeginBits, SameLimits
  <2> HIDE DEF l
  <2>3. SameLimits(r, b) /\ {"limits", "limit"} \subseteq DOMAIN b
    BY <2>2 DEF SameLimits
  <2> QED BY <2>3 DEF Bits, o, l
<1>3. \A e, w : SameLimits(r, EndBits(Bits(SetEndian(r, e), w)))
  <2> TAKE e, w
  <2> DEFINE b == Bits(SetEndian(r, e), w)
  <2>1. SameLimits(r, b) /\ "limits" \in DOMAIN b /\ "limit" \in DOMAIN b
    BY <1>2
  <2> HIDE DEF b
  <2>2. SameLimits(r, EndBits(b))
    BY <2>1 DEF SameLimits, EndBits
  <2> QED BY <2>2 DEF b
<1>4. /\ \A p : SameLimits(r, Seek(r, p)) /\ SameLimits(r, Take(r, p))
      /\ \A e : SameLimits(r, SetEndian(r, e))
      /\ \A w : SameLimits(r, BeginBits(r, w))
      /\ SameLimits(r, EndBits(r)) /\ SameLimits(r, r)
  BY <1>1 DEF SameLimits, Seek, Take, SetEndian, BeginBits, EndBits
<1> QED BY <1>2, <1>3, <1>4

\* The step leaves stack fs and no exception.
Ended(fs) == frames' = fs /\ ret' # Throw /\ (err' = err \/ ret' = False)

LEMMA EndedBy ==
    ASSUME NEW fs
    PROVE  /\ \A next : Goes(fs, next) /\ next # Throw => Ended(fs)
           /\ \A why : Fails(fs, why) \/ Caught(fs, why) => Ended(fs)
BY DEF Goes, Fails, Caught, Ended, False, Throw

\* What the top frame goes on with is no exception.
LEMMA NoThrow ==
    /\ Step # Throw /\ False # Throw
    /\ \A v : Return(v) # Throw
    /\ \A type : CallType(type) # Throw
BY DEF Step, False, Return, CallType, Throw

LEMMA Lost ==
    ASSUME NEW fs, NEW why \in {"restore", "limit", "rollback"},
           Fails(fs, why) \/ Caught(fs, why) \/ Throws(fs, why)
    PROVE  LimitInv'
BY DEF Fails, Caught, Throws, LimitInv, Unrestored

\* Nothing was lost where the decode still reads.
Quiet == LimitInv /\ ~Unrestored /\ MirrorOK(frames, rd) /\ Valid(rd)

LEMMA Reading ==
    ASSUME DecoderInv, LimitInv, ret.is \in {"step", "type", "value"}
    PROVE  Quiet /\ IsSeq(frames)
BY DEF DecoderInv, LimitInv, False, Throw, Quiet, StackOK

LEMMA QuietKept ==
    ASSUME Quiet, NEW fs, Ended(fs), MirrorOK(fs, rd')
    PROVE  LimitInv'
BY DEF Quiet, Ended, LimitInv, Unrestored

LEMMA StaysQuiet ==
    ASSUME Quiet, SameLimits(rd, rd'), Ended(frames)
    PROVE  LimitInv'
BY MirrorMoves, QuietKept DEF Quiet

LEMMA PushQuiet ==
    ASSUME DecoderInv, Quiet, SameLimits(rd, rd'), NEW f, f.k \notin Bounders,
           Ended(Append(frames, f))
    PROVE  LimitInv'
<1>1. MirrorOK(Append(frames, f), rd)
  BY MirrorPush DEF Quiet, DecoderInv, StackOK
<1> QED BY <1>1, MirrorMoves, QuietKept

LEMMA PopQuiet ==
    ASSUME DecoderInv, Quiet, SameLimits(rd, rd'), frames # <<>>, Top.k \notin Bounders,
           Ended(Below)
    PROVE  LimitInv'
<1>1. MirrorOK(Below, rd)
  BY MirrorPop DEF Quiet, DecoderInv, StackOK, Top, Below
<1> QED BY <1>1, MirrorMoves, QuietKept

\* The members of a body frame change, and what it still has to do.
LEMMA SameBody ==
    ASSUME NEW p, NEW f, FrameOK(p, f), f.k \in Bodies
    PROVE  /\ \A obj : SameBound(f, [f EXCEPT !.obj = obj])
           /\ \A todo : SameBound(f, [f EXCEPT !.todo = todo])
           /\ \A obj, todo : SameBound(f, [[f EXCEPT !.todo = todo] EXCEPT !.obj = obj])
<1>1. f.k # "until" /\ "k" \in DOMAIN f /\ (f.k = "block" => "end" \in DOMAIN f)
  BY DEF FrameOK, PlaceOK, Bodies
<1> QED BY <1>1 DEF SameBound

LEMMA DoneQuiet ==
    ASSUME DecoderInv, Quiet, NEW kind, Doing(kind), NEW obj
    PROVE  /\ MirrorOK(Replace(Rest1), rd)
           /\ MirrorOK(Replace([Rest1 EXCEPT !.obj = obj]), rd)
<1>1. /\ frames # <<>> /\ IsSeq(frames) /\ FrameOK(plan, Top) /\ Top.k \in Bodies
      /\ MirrorOK(frames, rd) /\ Top = Last(frames)
  BY DoingFacts, InsideFacts DEF DecoderInv, StackOK, Quiet, Top
<1> DEFINE t == Top
           rest == Tail(t.todo)
           g == [t EXCEPT !.todo = rest]
           h == [g EXCEPT !.obj = obj]
<1>2. FrameOK(plan, t) /\ t.k \in Bodies
  BY <1>1
<1>3. SameBound(t, g)
  <2> HIDE DEF t, rest
  <2> QED BY <1>2, SameBody
<1>4. SameBound(t, h)
  <2> HIDE DEF t, rest
  <2> QED BY <1>2, SameBody
<1>5. MirrorOK(Append(Front(frames), g), rd) /\ MirrorOK(Append(Front(frames), h), rd)
  <2> HIDE DEF g, h
  <2> QED BY <1>1, <1>3, <1>4, MirrorReplace
<1>6. Rest1 = g
  BY DEF Rest1
<1>7. Replace(Rest1) = Append(Front(frames), g)
      /\ Replace([Rest1 EXCEPT !.obj = obj]) = Append(Front(frames), h)
  <2> HIDE DEF g
  <2> QED BY <1>6 DEF Replace, Below
<1> HIDE DEF g, h
<1> QED BY <1>5, <1>7

LEMMA DoneKeeps ==
    ASSUME DecoderInv, Quiet, SameLimits(rd, rd'), NEW kind, Doing(kind), NEW name, NEW v,
           Ended(Replace(Rest1)) \/ Ended(Replace(Stored(Rest1, name, v)))
    PROVE  LimitInv'
<1> DEFINE members == Put(Rest1.obj, name, v)
           stored == [Rest1 EXCEPT !.obj = members]
<1>1. MirrorOK(Replace(Rest1), rd) /\ MirrorOK(Replace(stored), rd)
  <2> HIDE DEF members
  <2> QED BY DoneQuiet
<1>2. Stored(Rest1, name, v) = stored
  BY DEF Stored
<1> HIDE DEF stored
<1>3. MirrorOK(Replace(Rest1), rd') /\ MirrorOK(Replace(Stored(Rest1, name, v)), rd')
  BY <1>1, <1>2, MirrorMoves
<1> QED BY <1>3, QuietKept

LEMMA BeginQuiet ==
    ASSUME DecoderInv, Quiet, SameLimits(rd, rd'), NEW kind, Doing(kind),
           NEW f, f.k \notin Bounders, Ended(Append(Replace(Rest1), f))
    PROVE  LimitInv'
<1>1. MirrorOK(Replace(Rest1), rd) /\ IsSeq(Replace(Rest1))
  BY DoneQuiet, Done DEF StackOK
<1>2. MirrorOK(Append(Replace(Rest1), f), rd)
  BY <1>1, MirrorPush
<1> QED BY <1>2, MirrorMoves, QuietKept

\* A frame ends into the one below it, whatever its members become.
LEMMA IntoBelow ==
    ASSUME DecoderInv, frames # <<>>, Top.k \notin Enclosed, NEW r, MirrorOK(Below, r), NEW obj
    PROVE  /\ MirrorOK(Popped([Last(Below) EXCEPT !.obj = obj]), r)
           /\ IsSeq(Popped([Last(Below) EXCEPT !.obj = obj]))
<1>1. /\ Below # <<>> /\ IsSeq(Below) /\ Last(Below).k \in Bodies /\ FrameOK(plan, Last(Below))
  BY BelowBody DEF StackOK
<1> DEFINE last == Last(Below)
           g == [last EXCEPT !.obj = obj]
<1>2. FrameOK(plan, last) /\ last.k \in Bodies
  BY <1>1
<1>3. SameBound(last, g)
  <2> HIDE DEF last
  <2> QED BY <1>2, SameBody
<1>4. MirrorOK(Append(Front(Below), g), r)
  <2> HIDE DEF g
  <2> QED BY <1>1, <1>3, MirrorReplace
<1> QED BY <1>4, Stores DEF Popped, StackOK

LEMMA IntoQuiet ==
    ASSUME DecoderInv, Quiet, SameLimits(rd, rd'), frames # <<>>,
           Top.k \notin Enclosed, Top.k \notin Bounders, NEW name, NEW v,
           Ended(MergedBelow) \/ Ended(StoredBelow(name, v))
    PROVE  LimitInv'
<1>1. MirrorOK(Below, rd)
  BY MirrorPop DEF Quiet, DecoderInv, StackOK, Top, Below
<1>2. MirrorOK(MergedBelow, rd) /\ MirrorOK(StoredBelow(name, v), rd)
  BY <1>1, IntoBelow DEF MergedBelow, StoredBelow, Stored
<1> QED BY <1>2, MirrorMoves, QuietKept

LEMMA ReplaceQuiet ==
    ASSUME DecoderInv, Quiet, SameLimits(rd, rd'), frames # <<>>,
           NEW f, SameBound(Top, f), Ended(Replace(f))
    PROVE  LimitInv'
<1>1. MirrorOK(Replace(f), rd)
  BY MirrorReplace DEF Quiet, DecoderInv, StackOK, Top, Below, Replace
<1> QED BY <1>1, MirrorMoves, QuietKept

\* The reader under the limit that a block or a terminated sequence pushes.
LEMMA Pushes ==
    ASSUME NEW r, Valid(r), NEW n
    PROVE  Limits(PushLimit(r, n)) = Append(Limits(r), r.pos + n)
<1>1. PushLimit(r, n).limits = Limits(r) /\ PushLimit(r, n).limit = r.pos + n
  BY DEF PushLimit, PushLimitEnd, Limits, Valid, State
<1> QED BY <1>1 DEF Limits

LEMMA EnterQuiet ==
    ASSUME DecoderInv, Quiet, NEW fs, IsSeq(fs), MirrorOK(fs, rd),
           NEW f, f.k \in Bounders, f.k = "until" => f.saved = rd, EndOf(f) \in Nat,
           NEW n, EndOf(f) = rd.pos + n, rd' = PushLimit(rd, n), Ended(Append(fs, f))
    PROVE  LimitInv'
<1>1. Valid(rd) /\ Limits(rd') = Append(Limits(rd), EndOf(f))
  BY Pushes DEF Quiet
<1>2. MirrorOK(Append(fs, f), rd')
  BY <1>1, MirrorEnter
<1> QED BY <1>2, QuietKept

LEMMA LeaveQuiet ==
    ASSUME DecoderInv, Quiet, frames # <<>>, Top.k \in Bounders,
           SameLimits(PopLimit(rd), rd'), Ended(Below)
    PROVE  LimitInv'
<1>1. MirrorOK(Below, rd')
  BY MirrorLeave DEF Quiet, DecoderInv, StackOK, Top, Below
<1> QED BY <1>1, QuietKept

LEMMA UndoQuiet ==
    ASSUME DecoderInv, Quiet, frames # <<>>, Top.k = "until",
           rd' = Top.saved, Ended(Below)
    PROVE  LimitInv'
<1>1. MirrorOK(Below, rd')
  BY MirrorUndo DEF Quiet, DecoderInv, StackOK, Top, Below
<1> QED BY <1>1, QuietKept

\* Where the cursor goes before or after a limit is popped does not matter.
LEMMA PopMoves ==
    ASSUME NEW r, Valid(r), NEW p
    PROVE  /\ SameLimits(PopLimit(r), PopLimit(r))
           /\ SameLimits(PopLimit(r), PopLimit(Seek(r, p)))
           /\ SameLimits(PopLimit(r), PopLimit(Take(r, p)))
           /\ SameLimits(PopLimit(r), Seek(PopLimit(r), p))
BY DEF SameLimits, PopLimit, Seek, Take, Valid, State

\* What is done of a decode that only unwinds.
LEMMA StaysLost ==
    ASSUME Unrestored, err' = err, ret' \in {False, Throw}
    PROVE  LimitInv'
BY DEF LimitInv, Unrestored

LEMMA Unwinding ==
    ASSUME DecoderInv, LimitInv, ret = False
    PROVE  Unrestored \/ Quiet
BY DEF LimitInv, Quiet, DecoderInv, False, Throw

-----------------------------------------------------------------------------
\* The steps of readType and readStruct.

LEMMA StructLimits ==
    ASSUME DecoderInv, LimitInv, TypeStruct
    PROVE  LimitInv'
<1> DEFINE f == StructFrame(ret.type.ref)
<1>1. Quiet
  BY Reading DEF TypeStruct, Calling
<1>2. SameLimits(rd, rd')
  BY <1>1, MovesKeep DEF TypeStruct, Quiet
<1>3. Fails(frames, "depth") \/ Goes(Append(frames, f), Step)
  BY DEF TypeStruct, Push
<1>4. f.k \notin Bounders
  BY DEF StructFrame, Bounders
<1> HIDE DEF f
<1> QED BY <1>1, <1>2, <1>3, <1>4, EndedBy, NoThrow, StaysQuiet, PushQuiet

LEMMA EndStructLimits ==
    ASSUME DecoderInv, LimitInv, EndStruct
    PROVE  LimitInv'
<1>1. /\ Quiet /\ frames # <<>> /\ Top.k = "struct" /\ SameLimits(rd, rd')
      /\ Top.k \notin Bounders
  BY Reading DEF EndStruct, Ending, Running, Step, SameLimits, Bounders
<1>2. Goes(Below, Return(Object(Top.obj))) \/ \E why : Fails(frames, why)
  BY DEF EndStruct
<1> QED BY <1>1, <1>2, EndedBy, NoThrow, StaysQuiet, PopQuiet

LEMMA ScalarLimits ==
    ASSUME DecoderInv, LimitInv, TypeScalar
    PROVE  LimitInv'
<1>1. Quiet
  BY Reading DEF TypeScalar, Calling
<1>2. SameLimits(rd, rd')
  BY <1>1, MovesKeep DEF TypeScalar, Quiet
<1>3. (\E v : Goes(frames, Return(v))) \/ Fails(frames, "truncated")
  BY DEF TypeScalar
<1> QED BY <1>1, <1>2, <1>3, EndedBy, NoThrow, StaysQuiet

LEMMA BytesLimits ==
    ASSUME DecoderInv, LimitInv, TypeBytes
    PROVE  LimitInv'
<1>1. Quiet
  BY Reading DEF TypeBytes, Calling
<1>2. rd' = rd \/ \E n : rd' = Take(rd, n)
  BY DEF TypeBytes
<1>3. SameLimits(rd, rd')
  BY <1>1, <1>2, MovesKeep DEF Quiet
<1>4. (\E v : Goes(frames, Return(v))) \/ \E why : Fails(frames, why)
  BY DEF TypeBytes
<1> QED BY <1>1, <1>3, <1>4, EndedBy, NoThrow, StaysQuiet

LEMMA ArrayLimits ==
    ASSUME DecoderInv, LimitInv, TypeArray
    PROVE  LimitInv'
<1>1. Quiet /\ SameLimits(rd, rd')
  BY Reading DEF TypeArray, Calling, SameLimits
<1>2. \/ \E why : Fails(frames, why)
      \/ \E f : f.k \notin Bounders /\ Goes(Append(frames, f), Step)
  BY DEF TypeArray, Push, Bounders
<1> QED BY <1>1, <1>2, EndedBy, NoThrow, StaysQuiet, PushQuiet

LEMMA ArrayStepLimits ==
    ASSUME DecoderInv, LimitInv, ArrayStep
    PROVE  LimitInv'
<1>1. /\ Quiet /\ frames # <<>> /\ SameLimits(rd, rd') /\ Top.k \notin Bounders
  BY Reading DEF ArrayStep, Running, Step, SameLimits, Bounders
<1>2. Goes(Below, Return(List(Top.vals))) \/ Goes(frames, CallType(Top.elem))
  BY DEF ArrayStep
<1> QED BY <1>1, <1>2, EndedBy, NoThrow, StaysQuiet, PopQuiet

LEMMA ArrayValueLimits ==
    ASSUME DecoderInv, LimitInv, ArrayValue
    PROVE  LimitInv'
<1> DEFINE f == [Top EXCEPT !.left = @ - 1, !.vals = Keep(@, ret.value)]
<1>1. /\ Quiet /\ frames # <<>> /\ SameLimits(rd, rd') /\ Top.k = "array"
      /\ Goes(Replace(f), Step)
  BY Reading DEF ArrayValue, Getting, Running, SameLimits
<1>2. SameBound(Top, f)
  <2>1. "k" \in DOMAIN Top
    BY <1>1, InsideFacts DEF FrameOK
  <2> QED BY <1>1, <2>1 DEF SameBound
<1> HIDE DEF f
<1> QED BY <1>1, <1>2, EndedBy, NoThrow, ReplaceQuiet

LEMMA UntilBytesLimits ==
    ASSUME DecoderInv, LimitInv, TypeUntilBytes
    PROVE  LimitInv'
<1>1. Quiet
  BY Reading DEF TypeUntilBytes, Calling
<1>2. rd' = rd \/ \E n : rd' = Take(rd, n)
  BY DEF TypeUntilBytes
<1>3. SameLimits(rd, rd')
  BY <1>1, <1>2, MovesKeep DEF Quiet
<1>4. \/ (\E v : Goes(frames, Return(v)))
      \/ Fails(frames, "unterminated") \/ Throws(frames, "restore")
  BY DEF TypeUntilBytes
<1> QED BY <1>1, <1>3, <1>4, EndedBy, NoThrow, StaysQuiet, Lost

LEMMA UntilLimits ==
    ASSUME DecoderInv, LimitInv, TypeUntil
    PROVE  LimitInv'
<1> DEFINE type == ret.type
           n == Minimum(type.max + Len(type.term), Remaining(rd))
           f == [k |-> "until", elem |-> Until(Dims(type, <<>>), <<>>, 0),
                 term |-> type.term, max |-> type.max, saved |-> rd, vals |-> <<>>]
<1>1. Quiet /\ IsSeq(frames) /\ Valid(rd) /\ MirrorOK(frames, rd)
  BY Reading DEF TypeUntil, Calling, Quiet
<1>2. \/ rd' = rd /\ Fails(frames, "invalid")
      \/ rd' = PushLimit(rd, n) /\ Goes(Append(frames, f), Step)
  BY DEF TypeUntil, Push
<1>3. CASE rd' = rd /\ Fails(frames, "invalid")
  <2>1. SameLimits(rd, rd')
    BY <1>3 DEF SameLimits
  <2> QED BY <1>1, <1>3, <2>1, EndedBy, StaysQuiet
<1>4. CASE rd' = PushLimit(rd, n) /\ Goes(Append(frames, f), Step)
  <2>1. EndOf(f) = rd.pos + n /\ f.k \in Bounders /\ f.saved = rd
    BY DEF EndOf, Bounders
  <2>2. rd.pos \in Nat /\ n \in Nat
    <3>1. ExecutableType(plan, type)
      BY CallingFacts DEF TypeUntil
    <3>2. type.max \in Nat /\ Len(type.term) \in Nat
      BY <3>1, LenProperties DEF ExecutableType
    <3>3. type.max + Len(type.term) \in Nat
      BY <3>2
    <3> QED BY <1>1, <3>3, RemainingNat, MinimumNat
  <2>3. rd.pos + n \in Nat
    BY <2>2
  <2>4. Ended(Append(frames, f))
    BY <1>4, EndedBy, NoThrow
  <2> HIDE DEF f, n
  <2> QED BY <1>1, <1>4, <2>1, <2>3, <2>4, EnterQuiet
<1> QED BY <1>2, <1>3, <1>4

LEMMA UndoLimits ==
    ASSUME DecoderInv, Quiet, frames # <<>>, Top.k = "until", NEW why, Undo(why)
    PROVE  LimitInv'
<1>1. (rd' = Top.saved /\ Fails(Below, why)) \/ Throws(Below, "restore")
  BY DEF Undo
<1> QED BY <1>1, EndedBy, UndoQuiet, Lost

LEMMA UntilStepLimits ==
    ASSUME DecoderInv, LimitInv, UntilStep
    PROVE  LimitInv'
<1> DEFINE after == Take(rd, Len(Top.term))
<1>1. Quiet /\ Valid(rd) /\ frames # <<>> /\ Top.k = "until" /\ Top.k \in Bounders
  BY Reading DEF UntilStep, Running, Step, Quiet, Bounders
<1>2. \/ \E why \in {"restore", "limit"} : Throws(Below, why)
      \/ rd' = PopLimit(after) /\ Goes(Below, Return(List(Top.vals)))
      \/ Undo("unterminated")
      \/ rd' = rd /\ Goes(frames, CallType(Top.elem))
  BY DEF UntilStep
<1>3. SameLimits(PopLimit(rd), PopLimit(after)) /\ SameLimits(rd, rd)
  BY <1>1, PopMoves DEF SameLimits
<1> HIDE DEF after
<1> QED BY <1>1, <1>2, <1>3, EndedBy, NoThrow, StaysQuiet, LeaveQuiet, UndoLimits, Lost

LEMMA UntilValueLimits ==
    ASSUME DecoderInv, LimitInv, UntilValue
    PROVE  LimitInv'
<1> DEFINE f == [Top EXCEPT !.vals = Keep(@, ret.value)]
<1>1. Quiet /\ frames # <<>> /\ Top.k = "until"
  BY Reading DEF UntilValue, Getting, Running
<1>2. Undo("unterminated") \/ (rd' = rd /\ Goes(Replace(f), Step))
  BY DEF UntilValue
<1>3. SameBound(Top, f) /\ SameLimits(rd, rd)
  <2>1. "k" \in DOMAIN Top
    BY <1>1, InsideFacts DEF FrameOK
  <2> QED BY <1>1, <2>1 DEF SameBound, SameLimits
<1> HIDE DEF f
<1> QED BY <1>1, <1>2, <1>3, EndedBy, NoThrow, ReplaceQuiet, UndoLimits

-----------------------------------------------------------------------------
\* member(): values and bit groups.

LEMMA DoingReads ==
    ASSUME DecoderInv, LimitInv, NEW kind, Doing(kind)
    PROVE  Quiet /\ Valid(rd) /\ SameLimits(rd, rd) /\ IsSeq(frames) /\ frames # <<>>
BY Reading DEF Doing, Running, Step, Quiet, SameLimits

LEMMA VirtualLimits ==
    ASSUME DecoderInv, LimitInv, DoVirtual
    PROVE  LimitInv'
<1>1. Doing("virtual") /\ rd' = rd
  BY DEF DoVirtual
<1>2. Fails(frames, "expression") \/ \E name, v : Goes(Replace(Stored(Rest1, name, v)), Step)
  BY DEF DoVirtual
<1> QED BY <1>1, <1>2, DoingReads, EndedBy, NoThrow, StaysQuiet, DoneKeeps

LEMMA AliasLimits ==
    ASSUME DecoderInv, LimitInv, DoAlias
    PROVE  LimitInv'
<1>1. Doing("alias") /\ rd' = rd
  BY DEF DoAlias
<1>2. Fails(frames, "alias") \/ \E name, v : Goes(Replace(Stored(Rest1, name, v)), Step)
  BY DEF DoAlias
<1> QED BY <1>1, <1>2, DoingReads, EndedBy, NoThrow, StaysQuiet, DoneKeeps

LEMMA FieldLimits ==
    ASSUME DecoderInv, LimitInv, BeginField
    PROVE  LimitInv'
<1> DEFINE f == [k |-> "field", field |-> Op]
<1>1. Doing("field") /\ rd' = SetEndian(rd, Op.endian)
      /\ Goes(Append(Replace(Rest1), f), CallType(Op.type))
  BY DEF BeginField
<1>2. Quiet /\ SameLimits(rd, rd') /\ f.k \notin Bounders
  BY <1>1, DoingReads, MovesKeep DEF Bounders
<1> HIDE DEF f
<1> QED BY <1>1, <1>2, EndedBy, NoThrow, BeginQuiet

LEMMA FieldValueLimits ==
    ASSUME DecoderInv, LimitInv, FieldValue
    PROVE  LimitInv'
<1>1. /\ Quiet /\ frames # <<>> /\ SameLimits(rd, rd')
      /\ Top.k \notin Bounders /\ Top.k \notin Enclosed
  BY Reading DEF FieldValue, Getting, Running, SameLimits, Bounders, Enclosed
<1>2. (\E name, v : Goes(StoredBelow(name, v), Step)) \/ Fails(Below, "assert")
  BY DEF FieldValue
<1> QED BY <1>1, <1>2, EndedBy, NoThrow, IntoQuiet, PopQuiet

LEMMA GroupLimits ==
    ASSUME DecoderInv, LimitInv, BeginGroup
    PROVE  LimitInv'
<1> DEFINE f == [k |-> "bits", todo |-> Op.fields, order |-> Op.fields[1].endian]
<1>1. Doing("bits")
      /\ \/ rd' = BeginBits(rd, Op.total) /\ Goes(Append(Replace(Rest1), f), Step)
         \/ rd' = rd /\ Caught(frames, "truncated")
  BY DEF BeginGroup
<1>2. Quiet /\ SameLimits(rd, rd') /\ f.k \notin Bounders
  BY <1>1, DoingReads, MovesKeep DEF Bounders
<1> HIDE DEF f
<1> QED BY <1>1, <1>2, EndedBy, NoThrow, StaysQuiet, BeginQuiet

LEMMA GroupFieldLimits ==
    ASSUME DecoderInv, LimitInv, GroupField
    PROVE  LimitInv'
<1> DEFINE f == Head(Top.todo)
           r == Bits(SetEndian(rd, f.endian), f.width)
           t == [Top EXCEPT !.todo = Tail(@)]
<1>1. /\ Quiet /\ Valid(rd) /\ frames # <<>> /\ Top.k = "bits"
      /\ Top.k \notin Bounders /\ Top.k \notin Enclosed
  BY Reading DEF GroupField, Running, Step, Bounders, Enclosed, Quiet
<1>2. \/ rd' = r /\ \E name, v : Goes(Append(StoredBelow(name, v), t), Step)
      \/ rd' = EndBits(r) /\ Fails(Below, "assert")
      \/ rd' = r /\ Caught(Below, "bits")
  BY DEF GroupField
<1>3. SameLimits(rd, r) /\ SameLimits(rd, EndBits(r))
  BY <1>1, MovesKeep
<1>4. t.k \notin Bounders
  <2>1. "k" \in DOMAIN Top
    BY <1>1, InsideFacts DEF FrameOK
  <2> QED BY <1>1, <2>1
<1> HIDE DEF r, t
<1>5. ASSUME NEW name, NEW v, rd' = r, Goes(Append(StoredBelow(name, v), t), Step)
      PROVE  LimitInv'
  <2> DEFINE members == Put(Last(Below).obj, name, v)
             under == Popped([Last(Below) EXCEPT !.obj = members])
  <2>1. MirrorOK(Below, rd)
    BY <1>1, MirrorPop DEF Quiet, DecoderInv, StackOK, Top, Below
  <2>2. MirrorOK(under, rd) /\ IsSeq(under)
    <3> HIDE DEF members
    <3> QED BY <1>1, <2>1, IntoBelow
  <2>3. StoredBelow(name, v) = under
    BY DEF StoredBelow, Stored
  <2> HIDE DEF under
  <2>4. MirrorOK(Append(under, t), rd)
    BY <1>4, <2>2, MirrorPush
  <2>5. MirrorOK(Append(under, t), rd')
    BY <1>3, <1>5, <2>4, MirrorMoves
  <2> QED BY <1>1, <1>5, <2>3, <2>5, EndedBy, NoThrow, QuietKept
<1> QED BY <1>1, <1>2, <1>3, <1>5, EndedBy, PopQuiet

LEMMA EndGroupLimits ==
    ASSUME DecoderInv, LimitInv, EndGroup
    PROVE  LimitInv'
<1>1. Quiet /\ Valid(rd) /\ frames # <<>> /\ Top.k \notin Bounders
  BY Reading DEF EndGroup, Running, Step, Bounders, Quiet
<1>2. \/ rd' = EndBits(rd) /\ Goes(Below, Step)
      \/ rd' = rd /\ Caught(Below, "bits")
  BY DEF EndGroup
<1>3. SameLimits(rd, rd')
  BY <1>1, <1>2, MovesKeep
<1> QED BY <1>1, <1>2, <1>3, EndedBy, NoThrow, PopQuiet

-----------------------------------------------------------------------------
\* member(): position.

LEMMA AlignLimits ==
    ASSUME DecoderInv, LimitInv, DoAlign
    PROVE  LimitInv'
<1>1. Doing("align")
      /\ \/ rd' = Align(rd, Op.to) /\ Goes(Replace(Rest1), Step)
         \/ rd' = rd /\ Caught(frames, "seek")
  BY DEF DoAlign
<1>2. Quiet /\ SameLimits(rd, rd')
  BY <1>1, DoingReads, MovesKeep DEF Align
<1> QED BY <1>1, <1>2, EndedBy, NoThrow, StaysQuiet, DoneKeeps

LEMMA AtLimits ==
    ASSUME DecoderInv, LimitInv, BeginAt
    PROVE  LimitInv'
<1> DEFINE f == [k |-> "at", todo |-> Op.body, obj |-> NoMembers, back |-> rd.pos]
<1>1. Doing("at")
      /\ \/ (\E p : rd' = Seek(rd, p)) /\ Goes(Append(Replace(Rest1), f), Step)
         \/ rd' = rd /\ (Fails(frames, "expression") \/ Caught(frames, "seek"))
  BY DEF BeginAt
<1>2. Quiet /\ SameLimits(rd, rd') /\ f.k \notin Bounders
  BY <1>1, DoingReads, MovesKeep DEF Bounders
<1> HIDE DEF f
<1> QED BY <1>1, <1>2, EndedBy, NoThrow, StaysQuiet, BeginQuiet

LEMMA EndAtLimits ==
    ASSUME DecoderInv, LimitInv, EndAt
    PROVE  LimitInv'
<1>1. /\ Quiet /\ Valid(rd) /\ frames # <<>>
      /\ Top.k \notin Bounders /\ Top.k \notin Enclosed
  BY Reading DEF EndAt, Ending, Running, Step, Bounders, Enclosed, Quiet
<1>2. \/ rd' = Seek(rd, Top.back) /\ Goes(MergedBelow, Step)
      \/ rd' = rd /\ Caught(Below, "seek")
  BY DEF EndAt
<1>3. SameLimits(rd, rd')
  BY <1>1, <1>2, MovesKeep
<1> QED BY <1>1, <1>2, <1>3, EndedBy, NoThrow, IntoQuiet, PopQuiet

LEMMA BlockLimits ==
    ASSUME DecoderInv, LimitInv, BeginBlock
    PROVE  LimitInv'
<1> DEFINE size == Chosen(Op.static, Op.size)
           n == Eval(size, env)
           f == [k |-> "block", todo |-> Op.body, obj |-> NoMembers,
                 start |-> rd.pos, end |-> rd.pos + n]
<1>1. /\ Doing("block") /\ Quiet /\ Valid(rd) /\ SameLimits(rd, rd)
  BY DoingReads DEF BeginBlock
<1>2. \/ rd' = rd /\ \E why : Fails(frames, why)
      \/ /\ CanSize(size, env) /\ rd' = PushLimit(rd, n)
         /\ Goes(Append(Replace(Rest1), f), Step)
  BY DEF BeginBlock
<1>3. CASE CanSize(size, env) /\ rd' = PushLimit(rd, n) /\ Goes(Append(Replace(Rest1), f), Step)
  <2>1. EndOf(f) = rd.pos + n /\ f.k \in Bounders /\ f.k # "until"
    BY DEF EndOf, Bounders
  <2>2. rd.pos \in Nat /\ n \in Nat
    BY <1>1, <1>3, RemainingNat DEF CanSize
  <2>3. rd.pos + n \in Nat
    BY <2>2
  <2>4. MirrorOK(Replace(Rest1), rd) /\ IsSeq(Replace(Rest1))
    BY <1>1, DoneQuiet, Done DEF StackOK
  <2>5. Ended(Append(Replace(Rest1), f))
    BY <1>3, EndedBy, NoThrow
  <2> HIDE DEF f, n
  <2> QED BY <1>1, <1>3, <2>1, <2>3, <2>4, <2>5, EnterQuiet
<1>4. CASE rd' = rd /\ \E why : Fails(frames, why)
  BY <1>1, <1>4, EndedBy, StaysQuiet
<1> QED BY <1>2, <1>3, <1>4

LEMMA EndBlockLimits ==
    ASSUME DecoderInv, LimitInv, EndBlock
    PROVE  LimitInv'
<1>1. /\ Quiet /\ Valid(rd) /\ IsSeq(frames) /\ frames # <<>> /\ Top.k = "block"
      /\ Top.k \in Bounders /\ Top.k \notin Enclosed
  BY Reading DEF EndBlock, Ending, Running, Step, Bounders, Enclosed, Quiet
<1>2. \/ rd' = Seek(PopLimit(rd), Top.start) /\ Fails(Below, "block")
      \/ Caught(Below, "limit")
      \/ rd' = PopLimit(Seek(rd, Top.end)) /\ Goes(MergedBelow, Step)
  BY DEF EndBlock
<1>3. \A p : /\ SameLimits(PopLimit(rd), Seek(PopLimit(rd), p))
             /\ SameLimits(PopLimit(rd), PopLimit(Seek(rd, p)))
  BY <1>1, PopMoves
<1>4. CASE rd' = PopLimit(Seek(rd, Top.end)) /\ Goes(MergedBelow, Step)
  <2> DEFINE members == Merge(Last(Below).obj, Top.obj)
  <2>1. MirrorOK(Below, rd')
    BY <1>1, <1>3, <1>4, MirrorLeave DEF Quiet, Top, Below
  <2>2. MirrorOK(Popped([Last(Below) EXCEPT !.obj = members]), rd')
    <3> HIDE DEF members
    <3> QED BY <1>1, <2>1, IntoBelow
  <2>3. MergedBelow = Popped([Last(Below) EXCEPT !.obj = members])
    BY DEF MergedBelow
  <2> QED BY <1>1, <1>4, <2>2, <2>3, EndedBy, NoThrow, QuietKept
<1> QED BY <1>1, <1>2, <1>3, <1>4, EndedBy, LeaveQuiet, Lost

-----------------------------------------------------------------------------
\* member(): choice and callbacks.

LEMMA IfLimits ==
    ASSUME DecoderInv, LimitInv, BeginIf
    PROVE  LimitInv'
<1>1. Doing("if") /\ rd' = rd
  BY DEF BeginIf
<1>2. \/ Fails(frames, "expression")
      \/ \E f : f.k \notin Bounders /\ Goes(Append(Replace(Rest1), f), Step)
  BY DEF BeginIf, Body, Bounders
<1> QED BY <1>1, <1>2, DoingReads, EndedBy, NoThrow, StaysQuiet, BeginQuiet

LEMMA EndBranchLimits ==
    ASSUME DecoderInv, LimitInv, EndBranch
    PROVE  LimitInv'
<1>1. /\ Quiet /\ frames # <<>> /\ SameLimits(rd, rd')
      /\ Top.k \notin Bounders /\ Top.k \notin Enclosed
  BY Reading DEF EndBranch, Ending, Running, Step, SameLimits, Bounders, Enclosed
<1>2. Goes(MergedBelow, Step)
  BY DEF EndBranch
<1> QED BY <1>1, <1>2, EndedBy, NoThrow, IntoQuiet

LEMMA VariantLimits ==
    ASSUME DecoderInv, LimitInv, BeginVariant
    PROVE  LimitInv'
<1>1. Doing("variant") /\ rd' = rd
  BY DEF BeginVariant
<1>2. \/ \E why : Fails(frames, why)
      \/ \E f, next : /\ f.k \notin Bounders /\ next # Throw
                      /\ Goes(Append(Replace(Rest1), f), next)
  BY NoThrow DEF BeginVariant, Bounders
<1>3. ASSUME NEW f, NEW next, f.k \notin Bounders, next # Throw,
             Goes(Append(Replace(Rest1), f), next)
      PROVE  LimitInv'
  BY <1>1, <1>3, DoingReads, EndedBy, BeginQuiet
<1> QED BY <1>1, <1>2, <1>3, DoingReads, EndedBy, StaysQuiet

LEMMA EndCaseLimits ==
    ASSUME DecoderInv, LimitInv, EndCase
    PROVE  LimitInv'
<1>1. /\ Quiet /\ frames # <<>> /\ SameLimits(rd, rd')
      /\ Top.k \notin Bounders /\ Top.k \notin Enclosed
  BY Reading DEF EndCase, Ending, Running, Step, SameLimits, Bounders, Enclosed
<1>2. \E name, v : Goes(StoredBelow(name, v), Step)
  BY DEF EndCase
<1> QED BY <1>1, <1>2, EndedBy, NoThrow, IntoQuiet

LEMMA TypedLimits ==
    ASSUME DecoderInv, LimitInv, TypedValue
    PROVE  LimitInv'
<1>1. /\ Quiet /\ frames # <<>> /\ SameLimits(rd, rd')
      /\ Top.k \notin Bounders /\ Top.k \notin Enclosed
  BY Reading DEF TypedValue, Getting, Running, SameLimits, Bounders, Enclosed
<1>2. \E name, v : Goes(StoredBelow(name, v), Step)
  BY DEF TypedValue
<1> QED BY <1>1, <1>2, EndedBy, NoThrow, IntoQuiet

\* A callback that stays clear of the limits leaves them as they are.
LEMMA TouchesKeep ==
    ASSUME LeavesLimits, Valid(rd), NEW how \in Touches
    PROVE  SameLimits(rd, Touched(how))
<1>1. how \in {"none", "read", "rewind", "order"}
  BY DEF LeavesLimits
<1> QED BY <1>1, MovesKeep DEF Touched

LEMMA CallbackLimits ==
    ASSUME DecoderInv, LimitInv, LeavesLimits, Callbacks
    PROVE  LimitInv'
<1>1. Doing("callback")
  BY DEF Callbacks, CallbackRefused, CallbackSucceeds, CallbackFails, CallbackEscapes
<1>2. \/ rd' = rd /\ Fails(frames, "callback")
      \/ (\E how \in Touches : rd' = Touched(how)) /\ Goes(Replace(Rest1), Step)
      \/ Caught(frames, "restore")
  BY DEF Callbacks, CallbackRefused, CallbackSucceeds, CallbackFails, CallbackEscapes
<1> QED BY <1>1, <1>2, DoingReads, TouchesKeep, EndedBy, NoThrow, StaysQuiet, DoneKeeps, Lost

-----------------------------------------------------------------------------
\* Unwinding: every construct takes back the limit it pushed.

LEMMA FailStructLimits ==
    ASSUME DecoderInv, LimitInv, FailStruct
    PROVE  LimitInv'
<1>1. frames # <<>> /\ ret = False /\ Top.k \notin Bounders
  BY DEF FailStruct, Running, Bounders
<1>2. \/ err' = err /\ ret' = False /\ frames' = Below /\ rd' = Seek(rd, Top.start)
      \/ err' = "rollback" /\ ret' = Throw
  BY DEF FailStruct
<1>3. CASE err' = "rollback" /\ ret' = Throw
  BY <1>3 DEF LimitInv, Unrestored
<1>4. CASE Quiet /\ err' = err /\ ret' = False /\ frames' = Below /\ rd' = Seek(rd, Top.start)
  <2>1. SameLimits(rd, rd')
    BY <1>4, MovesKeep DEF Quiet
  <2>2. Ended(Below)
    BY <1>4, NoThrow DEF Ended
  <2> QED BY <1>1, <1>4, <2>1, <2>2, PopQuiet
<1> QED BY <1>1, <1>2, <1>3, <1>4, Unwinding, StaysLost

LEMMA FailUntilLimits ==
    ASSUME DecoderInv, LimitInv, FailUntil
    PROVE  LimitInv'
<1>1. frames # <<>> /\ ret = False /\ Top.k = "until"
  BY DEF FailUntil, Running
<1>2. \/ rd' = Top.saved /\ Goes(Below, False)
      \/ Throws(Below, "restore")
  BY DEF FailUntil
<1>3. Goes(Below, False) => err' = err /\ ret' = False /\ Ended(Below)
  BY EndedBy, NoThrow DEF Goes
<1> QED BY <1>1, <1>2, <1>3, Unwinding, StaysLost, UndoQuiet, Lost

LEMMA FailAtLimits ==
    ASSUME DecoderInv, LimitInv, FailAt
    PROVE  LimitInv'
<1>1. frames # <<>> /\ ret = False /\ Top.k \notin Bounders
  BY DEF FailAt, Running, Bounders
<1>2. \/ rd' = Seek(rd, Top.back) /\ Goes(Below, False)
      \/ Caught(Below, "rollback")
  BY DEF FailAt
<1>3. Goes(Below, False) => err' = err /\ ret' = False /\ Ended(Below)
  BY EndedBy, NoThrow DEF Goes
<1>4. Quiet => SameLimits(rd, Seek(rd, Top.back))
  BY MovesKeep DEF Quiet
<1> QED BY <1>1, <1>2, <1>3, <1>4, Unwinding, StaysLost, PopQuiet, Lost

LEMMA FailBlockLimits ==
    ASSUME DecoderInv, LimitInv, FailBlock
    PROVE  LimitInv'
<1>1. frames # <<>> /\ ret = False /\ Top.k \in Bounders
  BY DEF FailBlock, Running, Bounders
<1>2. \/ rd' = Seek(PopLimit(rd), Top.start) /\ Goes(Below, False)
      \/ Caught(Below, "limit")
  BY DEF FailBlock
<1>3. Goes(Below, False) => err' = err /\ ret' = False /\ Ended(Below)
  BY EndedBy, NoThrow DEF Goes
<1>4. Quiet => SameLimits(PopLimit(rd), Seek(PopLimit(rd), Top.start))
  BY PopMoves DEF Quiet
<1> QED BY <1>1, <1>2, <1>3, <1>4, Unwinding, StaysLost, LeaveQuiet, Lost

LEMMA FailThroughLimits ==
    ASSUME DecoderInv, LimitInv, FailThrough
    PROVE  LimitInv'
<1>1. frames # <<>> /\ ret = False /\ Top.k \notin Bounders /\ SameLimits(rd, rd')
  BY DEF FailThrough, Running, Bounders, SameLimits
<1>2. err' = err /\ ret' = False /\ Ended(Below)
  BY EndedBy, NoThrow DEF FailThrough, Goes
<1> QED BY <1>1, <1>2, Unwinding, StaysLost, PopQuiet

LEMMA ThrowLimits ==
    ASSUME LimitInv, CatchThrow \/ PassThrow
    PROVE  LimitInv'
<1>1. ret = Throw /\ err' = err /\ ret' \in {False, Throw}
  BY DEF CatchThrow, PassThrow, Goes
<1> QED BY <1>1, StaysLost DEF LimitInv

-----------------------------------------------------------------------------
\* The decode.

LEMMA StartLimits ==
    ASSUME DecoderInv, LimitInv, Start
    PROVE  LimitInv'
<1>1. ret = Step
  BY DEF DecoderInv, Start, RootOK, StackOK
<1>2. ~Unrestored /\ MirrorOK(frames, rd)
  BY <1>1, Reading DEF Quiet, Step
<1>3. frames' = frames /\ rd' = rd /\ ret' # Throw /\ (err' = err \/ err' = "parameters")
  BY NoThrow DEF Start
<1> QED BY <1>2, <1>3 DEF LimitInv, Unrestored

LEMMA FinishLimits ==
    ASSUME LimitInv, Finish
    PROVE  LimitInv'
<1>1. frames' = frames /\ rd' = rd /\ ret' = ret
      /\ (err' = err \/ (err' = "trailing" /\ ret # False /\ ret.is = "value"))
  BY DEF Finish
<1> QED BY <1>1 DEF LimitInv, Unrestored, False, Throw

LEMMA StepLimits ==
    ASSUME DecoderInv, LimitInv, LeavesLimits, [Next]_vars
    PROVE  LimitInv'
<1>1. CASE Types
  BY <1>1, StructLimits, ScalarLimits, BytesLimits, ArrayLimits, UntilBytesLimits,
     UntilLimits DEF Types
<1>2. CASE Loops
  BY <1>2, ArrayStepLimits, ArrayValueLimits, UntilStepLimits, UntilValueLimits DEF Loops
<1>3. CASE Values
  BY <1>3, VirtualLimits, AliasLimits, FieldLimits, FieldValueLimits DEF Values
<1>4. CASE Groups
  BY <1>4, GroupLimits, GroupFieldLimits, EndGroupLimits DEF Groups
<1>5. CASE Places
  BY <1>5, AlignLimits, AtLimits, EndAtLimits, BlockLimits, EndBlockLimits DEF Places
<1>6. CASE Branching
  BY <1>6, IfLimits, EndBranchLimits, VariantLimits, EndCaseLimits, TypedLimits DEF Branching
<1>7. CASE Unwinds
  BY <1>7, FailStructLimits, FailUntilLimits, FailAtLimits, FailBlockLimits,
     FailThroughLimits, ThrowLimits DEF Unwinds
<1>8. CASE UNCHANGED vars
  BY <1>8 DEF vars, LimitInv, Unrestored
<1> QED BY <1>1, <1>2, <1>3, <1>4, <1>5, <1>6, <1>7, <1>8, EndStructLimits, CallbackLimits,
           StartLimits, FinishLimits DEF Next

LEMMA InitLimits ==
    ASSUME Init
    PROVE  LimitInv
<1>1. /\ frames = <<>> /\ rd = New /\ ret = Step /\ err = "none"
  BY DEF Init
<1>2. Len(<<>>) = 0 /\ Limits(New) = <<Size>>
  BY DEF Limits, New
<1>3. Bounding(<<>>, 0) = {} /\ Cardinality({}) = 0
  BY FS_EmptySet DEF Bounding
<1>4. Len(Limits(New)) = 0 + 1 /\ Limits(New)[1] = Size
  BY <1>2
<1>5. Mirrors(Limits(New), <<>>, 0)
  BY <1>3, <1>4, Zenon DEF Mirrors
<1> QED BY <1>1, <1>2, <1>5, NoThrow DEF LimitInv, MirrorOK, Unrestored

\* If callbacks leave the limits of the reader alone, its stack of limits is at
\* every step of every decode the windows of the constructs being read: every
\* path through Decoder.cpp, a failed one too, pops what it pushed and no more.
THEOREM LimitsAreMirrored ==
    ASSUME LeavesLimits
    PROVE  Spec => []LimitsMirrorFrames
<1>1. Init => DecoderInv /\ LimitInv
  BY InitInv, InitLimits
<1>2. DecoderInv /\ LimitInv /\ [Next]_vars => (DecoderInv /\ LimitInv)'
  BY InvStep, StepLimits
<1>3. LimitInv => LimitsMirrorFrames
  BY DEF LimitInv, LimitsMirrorFrames, MirrorOK, Limits
<1> QED BY <1>1, <1>2, <1>3, PTL DEF Spec
-----------------------------------------------------------------------------
\* The payload of a terminated sequence.  Callbacks may move the cursor while an
\* element is read, so what was consumed is known only between two elements.

PayloadInv == frames # <<>> /\ Top.k = "until" /\ ret = Step => Consumed \in 0..Top.max

\* Only a terminated sequence itself goes on with its loop.
Elsewhere == ret' = Step /\ frames' # <<>> => Last(frames').k # "until"

LEMMA PushesElsewhere ==
    ASSUME NEW fs, IsSeq(fs), NEW f, f.k # "until", frames' = Append(fs, f)
    PROVE  Elsewhere
BY AppendSeq DEF Elsewhere

LEMMA BeginsElsewhere ==
    ASSUME DecoderInv, NEW kind, Doing(kind), NEW f, f.k # "until",
           frames' = Append(Replace(Rest1), f)
    PROVE  Elsewhere
<1>1. IsSeq(Replace(Rest1))
  BY Done DEF StackOK
<1> HIDE DEF Replace
<1> QED BY <1>1, PushesElsewhere

\* An operation that is done stays in its body.
LEMMA DoneElsewhere ==
    ASSUME DecoderInv, NEW kind, Doing(kind),
           frames' = Replace(Rest1) \/ \E obj : frames' = Replace([Rest1 EXCEPT !.obj = obj])
    PROVE  Elsewhere
<1>1. Last(Replace(Rest1)).k \in Bodies
  BY Done
<1>2. ASSUME NEW obj PROVE Last(Replace([Rest1 EXCEPT !.obj = obj])).k \in Bodies
  BY Done
<1>3. Last(frames').k \in Bodies
  BY <1>1, <1>2
<1> QED BY <1>3 DEF Elsewhere, Bodies

\* The end of what member() runs is in the body below it.
LEMMA EndsElsewhere ==
    ASSUME DecoderInv, frames # <<>>, Top.k \notin Enclosed,
           frames' = Below \/ \E obj : frames' = Popped([Last(Below) EXCEPT !.obj = obj])
    PROVE  Elsewhere
<1>1. Last(Below).k \in Bodies
  BY BelowBody
<1>2. ASSUME NEW obj PROVE Last(Popped([Last(Below) EXCEPT !.obj = obj])).k \in Bodies
  BY Stores
<1>3. Last(frames').k \in Bodies
  BY <1>1, <1>2
<1> QED BY <1>3 DEF Elsewhere, Bodies

LEMMA CallsElsewhere ==
    ASSUME DecoderInv, TypeStruct \/ TypeScalar \/ TypeBytes \/ TypeArray \/ TypeUntilBytes
    PROVE  Elsewhere
<1>1. False # Step /\ Throw # Step /\ \A v : Return(v) # Step
  BY DEF False, Throw, Step, Return
<1>2. IsSeq(frames)
  BY DEF DecoderInv, StackOK
<1>3. CASE TypeScalar \/ TypeBytes \/ TypeUntilBytes
  <2>1. CASE TypeScalar
    BY <1>1, <2>1 DEF TypeScalar, Goes, Fails, Elsewhere
  <2>2. CASE TypeBytes
    BY <1>1, <2>2 DEF TypeBytes, Goes, Fails, Elsewhere
  <2>3. CASE TypeUntilBytes
    BY <1>1, <2>3 DEF TypeUntilBytes, Goes, Fails, Throws, Elsewhere
  <2> QED BY <1>3, <2>1, <2>2, <2>3
<1>4. CASE TypeStruct
  <2> DEFINE f == StructFrame(ret.type.ref)
  <2>1. ret' # Step \/ frames' = Append(frames, f)
    BY <1>1, <1>4 DEF TypeStruct, Goes, Fails, Push
  <2>2. f.k # "until"
    BY DEF StructFrame
  <2> HIDE DEF f
  <2> QED BY <1>2, <2>1, <2>2, PushesElsewhere DEF Elsewhere
<1>5. CASE TypeArray
  <2> DEFINE f == [k |-> "array", elem |-> [ret.type EXCEPT !.dims = Tail(@)],
                   left |-> Extents(ret.type.dims)[1], vals |-> <<>>]
  <2>1. ret' # Step \/ frames' = Append(frames, f)
    BY <1>1, <1>5 DEF TypeArray, Goes, Fails, Push
  <2>2. f.k # "until"
    OBVIOUS
  <2> HIDE DEF f
  <2> QED BY <1>2, <2>1, <2>2, PushesElsewhere DEF Elsewhere
<1> QED BY <1>3, <1>4, <1>5

LEMMA OthersElsewhere ==
    ASSUME DecoderInv, Start \/ Finish \/ EndStruct \/ ArrayStep \/ ArrayValue \/ Unwinds
    PROVE  Elsewhere
<1>1. /\ False # Step /\ Throw # Step
      /\ \A v : Return(v) # Step /\ CallType(v) # Step
  BY DEF False, Throw, Step, Return, CallType
<1>2. CASE Start \/ Finish \/ EndStruct \/ ArrayStep \/ Unwinds
  <2>1. frames' = <<>> \/ ret' # Step
    BY <1>1, <1>2 DEF Start, Finish, EndStruct, ArrayStep, Unwinds, FailStruct, FailUntil,
                      FailAt, FailBlock, FailThrough, CatchThrow, PassThrow, Goes, Fails,
                      Caught, Throws
  <2> QED BY <2>1 DEF Elsewhere
<1>3. CASE ArrayValue
  <2> DEFINE f == [Top EXCEPT !.left = @ - 1, !.vals = Keep(@, ret.value)]
  <2>1. frames # <<>> /\ Top.k = "array" /\ frames' = Append(Below, f)
    BY <1>3 DEF ArrayValue, Getting, Running, Goes, Replace
  <2>2. IsSeq(Below) /\ FrameOK(plan, Top)
    BY <2>1, InsideFacts DEF StackOK
  <2>3. f.k # "until"
    BY <2>1, <2>2 DEF FrameOK
  <2> HIDE DEF f
  <2> QED BY <2>1, <2>2, <2>3, PushesElsewhere
<1> QED BY <1>2, <1>3

LEMMA ValuesElsewhere ==
    ASSUME DecoderInv, Values
    PROVE  Elsewhere
<1>1. False # Step /\ \A type : CallType(type) # Step
  BY DEF False, Step, CallType
<1>2. CASE DoVirtual \/ DoAlias
  <2>1. PICK kind \in {"virtual", "alias"} : Doing(kind)
    BY <1>2 DEF DoVirtual, DoAlias
  <2>2. ret' # Step \/ \E obj : frames' = Replace([Rest1 EXCEPT !.obj = obj])
    BY <1>1, <1>2 DEF DoVirtual, DoAlias, Goes, Fails, Stored
  <2> QED BY <2>1, <2>2, DoneElsewhere DEF Elsewhere
<1>3. CASE BeginField
  <2>1. ret' # Step
    BY <1>1, <1>3 DEF BeginField, Goes
  <2> QED BY <2>1 DEF Elsewhere
<1>4. CASE FieldValue
  <2>1. frames # <<>> /\ Top.k \notin Enclosed
    BY <1>4 DEF FieldValue, Getting, Running, Enclosed
  <2>2. ret' # Step \/ \E obj : frames' = Popped([Last(Below) EXCEPT !.obj = obj])
    BY <1>1, <1>4 DEF FieldValue, Goes, Fails, StoredBelow, Stored
  <2> QED BY <2>1, <2>2, EndsElsewhere DEF Elsewhere
<1> QED BY <1>2, <1>3, <1>4 DEF Values

LEMMA GroupsElsewhere ==
    ASSUME DecoderInv, Groups
    PROVE  Elsewhere
<1>1. False # Step
  BY DEF False, Step
<1>2. CASE BeginGroup
  <2> DEFINE f == [k |-> "bits", todo |-> Op.fields, order |-> Op.fields[1].endian]
  <2>1. Doing("bits") /\ (ret' # Step \/ frames' = Append(Replace(Rest1), f))
    BY <1>1, <1>2 DEF BeginGroup, Goes, Caught
  <2>2. f.k # "until"
    OBVIOUS
  <2> HIDE DEF f, Replace
  <2> QED BY <2>1, <2>2, BeginsElsewhere DEF Elsewhere
<1>3. CASE GroupField
  <2> DEFINE f == [Top EXCEPT !.todo = Tail(@)]
             g(obj) == Popped([Last(Below) EXCEPT !.obj = obj])
  <2>1. frames # <<>> /\ Top.k = "bits" /\ FrameOK(plan, Top)
    BY <1>3, InsideFacts DEF GroupField, Running
  <2>2. ret' # Step \/ \E obj : frames' = Append(g(obj), f)
    BY <1>1, <1>3 DEF GroupField, Goes, Fails, Caught, StoredBelow, Stored
  <2>3. \A obj : IsSeq(g(obj))
    BY <2>1, Stores DEF Enclosed, StackOK
  <2>4. f.k # "until"
    BY <2>1 DEF FrameOK
  <2> HIDE DEF f, g
  <2> QED BY <2>2, <2>3, <2>4, PushesElsewhere DEF Elsewhere
<1>4. CASE EndGroup
  <2>1. frames # <<>> /\ Top.k \notin Enclosed /\ frames' = Below
    BY <1>4 DEF EndGroup, Running, Goes, Caught, Enclosed
  <2> QED BY <2>1, EndsElsewhere
<1> QED BY <1>2, <1>3, <1>4 DEF Groups

LEMMA PlacesElsewhere ==
    ASSUME DecoderInv, Places \/ Callbacks
    PROVE  Elsewhere
<1>1. False # Step
  BY DEF False, Step
<1>2. CASE DoAlign \/ Callbacks
  <2>1. PICK kind \in {"align", "callback"} : Doing(kind)
    BY <1>2 DEF DoAlign, Callbacks, CallbackRefused, CallbackSucceeds, CallbackFails,
                CallbackEscapes
  <2>2. ret' # Step \/ frames' = Replace(Rest1)
    BY <1>1, <1>2 DEF DoAlign, Callbacks, CallbackRefused, CallbackSucceeds, CallbackFails,
                      CallbackEscapes, Goes, Fails, Caught
  <2> QED BY <2>1, <2>2, DoneElsewhere DEF Elsewhere
<1>3. CASE BeginAt
  <2> DEFINE f == [k |-> "at", todo |-> Op.body, obj |-> NoMembers, back |-> rd.pos]
  <2>1. Doing("at") /\ (ret' # Step \/ frames' = Append(Replace(Rest1), f))
    BY <1>1, <1>3 DEF BeginAt, Goes, Fails, Caught
  <2>2. f.k # "until"
    OBVIOUS
  <2> HIDE DEF f, Replace
  <2> QED BY <2>1, <2>2, BeginsElsewhere DEF Elsewhere
<1>4. CASE BeginBlock
  <2> DEFINE f(n) == [k |-> "block", todo |-> Op.body, obj |-> NoMembers,
                      start |-> rd.pos, end |-> rd.pos + n]
  <2>1. Doing("block") /\ (ret' # Step \/ \E n : frames' = Append(Replace(Rest1), f(n)))
    BY <1>1, <1>4 DEF BeginBlock, Goes, Fails
  <2>2. \A n : f(n).k # "until"
    OBVIOUS
  <2> HIDE DEF f, Replace
  <2> QED BY <2>1, <2>2, BeginsElsewhere DEF Elsewhere
<1>5. CASE EndAt \/ EndBlock
  <2>1. frames # <<>> /\ Top.k \notin Enclosed
    BY <1>5 DEF EndAt, EndBlock, Ending, Running, Enclosed
  <2>2. ret' # Step \/ \E obj : frames' = Popped([Last(Below) EXCEPT !.obj = obj])
    BY <1>1, <1>5 DEF EndAt, EndBlock, Goes, Fails, Caught, MergedBelow
  <2> QED BY <2>1, <2>2, EndsElsewhere DEF Elsewhere
<1> QED BY <1>2, <1>3, <1>4, <1>5 DEF Places

LEMMA BranchingElsewhere ==
    ASSUME DecoderInv, Branching
    PROVE  Elsewhere
<1>1. False # Step /\ \A type : CallType(type) # Step
  BY DEF False, Step, CallType
<1>2. CASE BeginIf \/ BeginVariant
  <2>1. PICK kind \in {"if", "variant"} : Doing(kind)
    BY <1>2 DEF BeginIf, BeginVariant
  <2>2. ret' # Step \/ \E f : f.k # "until" /\ frames' = Append(Replace(Rest1), f)
    <3>1. CASE BeginIf
      BY <1>1, <3>1 DEF BeginIf, Goes, Fails, Body
    <3>2. CASE BeginVariant
      BY <1>1, <3>2 DEF BeginVariant, Goes, Fails
    <3> QED BY <1>2, <3>1, <3>2
  <2> QED BY <2>1, <2>2, BeginsElsewhere DEF Elsewhere
<1>3. CASE EndBranch \/ EndCase \/ TypedValue
  <2>1. frames # <<>> /\ Top.k \notin Enclosed
    BY <1>3 DEF EndBranch, EndCase, TypedValue, Ending, Getting, Running, Enclosed
  <2>2. \E obj : frames' = Popped([Last(Below) EXCEPT !.obj = obj])
    BY <1>3 DEF EndBranch, EndCase, TypedValue, Goes, MergedBelow, StoredBelow, Stored
  <2> QED BY <2>1, <2>2, EndsElsewhere
<1> QED BY <1>2, <1>3 DEF Branching

\* A sequence begins with nothing consumed, and a turn of its loop ends with at
\* most its maximum.
LEMMA PayloadBegins ==
    ASSUME DecoderInv, TypeUntil
    PROVE  PayloadInv'
<1> DEFINE type == ret.type
           f == [k |-> "until", elem |-> Until(Dims(type, <<>>), <<>>, 0),
                 term |-> type.term, max |-> type.max, saved |-> rd, vals |-> <<>>]
           n == Minimum(type.max + Len(type.term), Remaining(rd))
<1>1. Calling /\ Valid(rd) /\ ExecutableType(plan, type) /\ IsSeq(frames)
  BY CallingFacts DEF TypeUntil, StackOK
<1>2. ret' # Step \/ (frames' = Append(frames, f) /\ rd' = PushLimit(rd, n))
  BY DEF TypeUntil, Goes, Fails, Push, False, Step
<1>3. rd.pos \in Nat /\ type.max \in Nat
  BY <1>1, PosInInput, SizeAssumption DEF ExecutableType
<1>4. f.k = "until" /\ f.saved = rd /\ f.max = type.max
  OBVIOUS
<1>5. PushLimit(rd, n).pos = rd.pos
  BY <1>1 DEF PushLimit, PushLimitEnd, Valid, State
<1> HIDE DEF f, n
<1>6. frames' = Append(frames, f) => Top' = f
  BY <1>1, AppendSeq DEF Top
<1> QED BY <1>2, <1>3, <1>4, <1>5, <1>6 DEF PayloadInv, Consumed

LEMMA PayloadTurns ==
    ASSUME DecoderInv, PayloadInv, UntilStep \/ UntilValue
    PROVE  PayloadInv'
<1> DEFINE f == [Top EXCEPT !.vals = Keep(@, ret.value)]
<1>1. /\ frames # <<>> /\ Top.k = "until" /\ IsSeq(Below) /\ FrameOK(plan, Top)
      /\ rd.pos \in Nat /\ Top.saved.pos \in Nat /\ Top.max \in Nat
  <2>1. frames # <<>> /\ Top.k = "until"
    BY DEF UntilStep, UntilValue, Getting, Running
  <2> QED BY <2>1, UntilFacts, PosInInput, SizeAssumption DEF StackOK
<1>2. \/ ret' # Step
      \/ frames' = Append(Below, f) /\ rd' = rd /\ ~Exceeds(Consumed, Top.max)
  BY DEF UntilStep, UntilValue, Undo, Goes, Fails, Throws, Replace, Return, CallType, False,
         Throw, Step
<1>3. f.saved = Top.saved /\ f.max = Top.max
  BY <1>1 DEF FrameOK
<1> HIDE DEF f
<1>4. frames' = Append(Below, f) => Top' = f
  BY <1>1, AppendSeq DEF Top
<1>5. ~Exceeds(Consumed, Top.max) => Consumed \in 0..Top.max
  BY <1>1 DEF Exceeds, Consumed
<1> QED BY <1>2, <1>3, <1>4, <1>5 DEF PayloadInv, Consumed

LEMMA PayloadStep ==
    ASSUME DecoderInv, PayloadInv, [Next]_vars
    PROVE  PayloadInv'
<1>1. CASE Elsewhere
  BY <1>1 DEF Elsewhere, PayloadInv, Top
<1>2. CASE Types \/ Loops
  BY <1>1, <1>2, CallsElsewhere, OthersElsewhere, PayloadBegins, PayloadTurns DEF Types, Loops
<1>3. CASE UNCHANGED vars
  BY <1>3 DEF vars, PayloadInv, Top, Consumed
<1> QED BY <1>1, <1>2, <1>3, OthersElsewhere, ValuesElsewhere, GroupsElsewhere, PlacesElsewhere,
           BranchingElsewhere DEF Next

\* Between two elements only the loop itself takes a step.
LEMMA SequenceReturns ==
    ASSUME DecoderInv, [Next]_vars, Running, ret = Step, Top.k = "until"
    PROVE  UntilStep \/ UNCHANGED vars
<1>1. ret.is = "step" /\ ret # False /\ ret # Throw /\ frames # <<>>
  BY DEF Step, False, Throw, Running
<1>2. \A kind : ~Doing(kind) /\ ~Getting(kind)
  BY <1>1 DEF Doing, Getting, Bodies
<1>3. ~Calling /\ \A kind : Ending(kind) => kind = "until"
  BY <1>1 DEF Calling, Ending
<1>4. ~Start /\ ~Finish /\ ~EndStruct
  BY <1>1, <1>3 DEF Start, Finish, EndStruct, Running
<1>5. ~Types
  BY <1>3 DEF Types, TypeStruct, TypeScalar, TypeBytes, TypeArray, TypeUntilBytes, TypeUntil
<1>6. Loops => UntilStep
  BY <1>2 DEF Loops, ArrayStep, ArrayValue, UntilValue
<1>7. ~Values /\ ~Groups
  BY <1>2 DEF Values, Groups, DoVirtual, DoAlias, BeginField, FieldValue, BeginGroup,
              GroupField, EndGroup
<1>8. ~Places /\ ~Branching
  BY <1>2, <1>3 DEF Places, Branching, DoAlign, BeginAt, EndAt, BeginBlock, EndBlock, BeginIf,
                    EndBranch, BeginVariant, EndCase, TypedValue
<1>9. ~Callbacks /\ ~Unwinds
  BY <1>1, <1>2 DEF Callbacks, CallbackRefused, CallbackSucceeds, CallbackFails,
                    CallbackEscapes, Unwinds, FailStruct, FailUntil, FailAt, FailBlock,
                    FailThrough, CatchThrow, PassThrow
<1> QED BY <1>4, <1>5, <1>6, <1>7, <1>8, <1>9 DEF Next

LEMMA PayloadReturned ==
    ASSUME DecoderInv, PayloadInv, [Next]_vars,
           Running, ret = Step, Top.k = "until", ret'.is = "value"
    PROVE  rd'.pos - Top.saved.pos - Len(Top.term) \in 0..Top.max
<1> DEFINE size == Len(Top.term)
           after == Take(rd, size)
<1>1. /\ frames # <<>> /\ Valid(rd) /\ size \in Nat /\ rd.pos \in Nat /\ Top.saved.pos \in Nat
      /\ Top.max \in Nat /\ Consumed \in 0..Top.max
  BY UntilFacts, PosInInput, SizeAssumption DEF Running, PayloadInv
<1>2. ret'.is = "value" /\ ret.is # "value"
  BY DEF Step
<1>3. UntilStep
  BY <1>2, SequenceReturns DEF vars
<1>4. rd' = PopLimit(after)
  BY <1>2, <1>3 DEF UntilStep, Undo, Goes, Fails, Throws, CallType, False, Throw
<1>5. PopLimit(after).pos = rd.pos + size
  BY <1>1 DEF PopLimit, Take, Valid, State
<1> HIDE DEF after, size
<1>6. rd'.pos - Top.saved.pos - size = Consumed
  BY <1>1, <1>4, <1>5 DEF Consumed
<1> QED BY <1>1, <1>6 DEF size

\* A terminated sequence that is read has taken at most its maximum of payload, and
\* its terminator, from where it began, wherever callbacks moved the cursor in
\* between (Decoder.cpp, readTerminated()).
THEOREM PayloadsWithinMax == Spec => PayloadWithinMax
<1>1. Init => PayloadInv
  BY DEF Init, PayloadInv
<1>2. DecoderInv /\ PayloadInv /\ [Next]_vars => PayloadInv'
  BY PayloadStep
<1>3. DecoderInv /\ PayloadInv /\ [Next]_vars =>
          [Running /\ ret = Step /\ Top.k = "until" /\ ret'.is = "value"
           => rd'.pos - Top.saved.pos - Len(Top.term) \in 0..Top.max]_vars
  BY PayloadReturned
<1> QED BY <1>1, <1>2, <1>3, DecoderInvariant, PTL DEF Spec, PayloadWithinMax
=============================================================================
