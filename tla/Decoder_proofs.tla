---------------------------- MODULE Decoder_proofs ----------------------------
(***************************************************************************)
(* What holds of the decoder for every plan build() publishes, every       *)
(* input, every option and whatever callbacks do to the reader.            *)
(***************************************************************************)
EXTENDS Decoder, Reader_proofs

-----------------------------------------------------------------------------
\* Sequences of frames of different shapes.

IsSeq(s) == s \in Seq(Range(s))

LEMMA SeqLen ==
    ASSUME NEW s, IsSeq(s)
    PROVE  Len(s) \in Nat /\ (s = <<>> <=> Len(s) = 0) /\ DOMAIN s = 1..Len(s)
<1>1. Len(s) \in Nat /\ DOMAIN s = 1..Len(s)
  BY LenProperties DEF IsSeq
<1>2. s = <<>> => Len(s) = 0
  BY EmptySeq DEF IsSeq
<1>3. s # <<>> => Len(s) # 0
  BY EmptySeq DEF IsSeq
<1> QED BY <1>1, <1>2, <1>3

LEMMA AppendSeq ==
    ASSUME NEW s, IsSeq(s), NEW e
    PROVE  /\ IsSeq(Append(s, e)) /\ Append(s, e) # <<>>
           /\ Len(Append(s, e)) = Len(s) + 1
           /\ \A i \in 1..Len(s) : Append(s, e)[i] = s[i]
           /\ Append(s, e)[Len(s) + 1] = e
           /\ Last(Append(s, e)) = e
           /\ Front(Append(s, e)) = s
<1> DEFINE T == Range(s) \cup {e}
           a == Append(s, e)
<1>1. s \in Seq(T) /\ e \in T /\ Len(s) \in Nat
  BY SeqMonotonic, LenProperties DEF IsSeq
<1>2. /\ a \in Seq(T) /\ a # <<>> /\ Len(a) = Len(s) + 1
      /\ \A i \in 1..Len(s) : a[i] = s[i]
      /\ a[Len(s) + 1] = e
  BY <1>1, AppendProperties
<1>3. IsSeq(a)
  BY <1>2, SeqOfRange DEF IsSeq
<1>4. Front(a) = s
  <2>1. Front(a) = SubSeq(a, 1, Len(s))
    BY <1>1, <1>2 DEF Front
  <2>2. /\ SubSeq(a, 1, Len(s)) \in Seq(T)
        /\ Len(SubSeq(a, 1, Len(s))) = Len(s)
        /\ \A i \in 1..Len(s) : SubSeq(a, 1, Len(s))[i] = a[i]
    <3>1. \A i \in 1..Len(s) : a[i] \in T
      BY <1>1, <1>2, ElementOfSeq
    <3> HIDE DEF a, T
    <3> QED BY <3>1, <1>1, SubSeqProperties
  <2>3. SubSeq(a, 1, Len(s)) = s
    BY <2>2, <1>1, <1>2, SeqEqual
  <2> QED BY <2>1, <2>3
<1> QED BY <1>1, <1>2, <1>3, <1>4 DEF Last

LEMMA TailSeq ==
    ASSUME NEW s, IsSeq(s), s # <<>>
    PROVE  /\ IsSeq(Tail(s)) /\ Range(Tail(s)) \subseteq Range(s)
           /\ \A S : s \in Seq(S) => Tail(s) \in Seq(S)
<1>1. Tail(s) \in Seq(Range(s))
  BY HeadTailProperties DEF IsSeq
<1>2. \A S : s \in Seq(S) => Tail(s) \in Seq(S)
  BY HeadTailProperties
<1>3. IsSeq(Tail(s))
  BY <1>1, SeqOfRange DEF IsSeq
<1>4. Range(Tail(s)) \subseteq Range(s)
  BY <1>1, RangeOfSeq
<1> QED BY <1>2, <1>3, <1>4

LEMMA FrontSeq ==
    ASSUME NEW s, IsSeq(s), s # <<>>
    PROVE  /\ IsSeq(Front(s))
           /\ Len(s) \in Nat \ {0} /\ Len(Front(s)) = Len(s) - 1
           /\ \A i \in 1..(Len(s) - 1) : Front(s)[i] = s[i]
           /\ Last(s) = s[Len(s)]
           /\ Append(Front(s), Last(s)) = s
<1>1. Len(s) \in Nat \ {0}
  BY EmptySeq DEF IsSeq
<1>2. /\ Front(s) \in Seq(Range(s)) /\ Len(Front(s)) = Len(s) - 1
      /\ \A i \in 1..(Len(s) - 1) : Front(s)[i] = s[i]
  <2>1. \A i \in 1..(Len(s) - 1) : s[i] \in Range(s)
    BY <1>1, ElementOfSeq DEF IsSeq
  <2> DEFINE n == Len(s) - 1
  <2>2. n \in Nat
    BY <1>1
  <2>3. /\ SubSeq(s, 1, n) \in Seq(Range(s)) /\ Len(SubSeq(s, 1, n)) = n
        /\ \A i \in 1..n : SubSeq(s, 1, n)[i] = s[i]
    <3>1. \A i \in 1..n : s[i] \in Range(s)
      BY <2>1
    <3> HIDE DEF n
    <3> QED BY <3>1, <2>2, SubSeqProperties
  <2> QED BY <2>3 DEF Front
<1>3. IsSeq(Front(s))
  BY <1>2, SeqOfRange DEF IsSeq
<1>4. Append(Front(s), Last(s)) = s
  <2>1. Last(s) \in Range(s)
    BY <1>1, ElementOfSeq DEF IsSeq, Last
  <2>2. /\ Append(Front(s), Last(s)) \in Seq(Range(s))
        /\ Len(Append(Front(s), Last(s))) = Len(s)
        /\ \A i \in 1..Len(s) : Append(Front(s), Last(s))[i] = s[i]
    BY <1>1, <1>2, <2>1, AppendProperties DEF Last
  <2> QED BY <2>2, SeqEqual DEF IsSeq
<1> QED BY <1>1, <1>2, <1>3, <1>4 DEF Last

-----------------------------------------------------------------------------
\* The inductive invariant.  A frame keeps what its code kept on the C++ stack,
\* and every construct is called by one that may call it.

AllOps(p) == UNION {Operations(p)[s] : s \in DOMAIN p.structs}

\* What the caller and the module bind before anything is read.
Base == Merge(plan.given, plan.consts)

\* Frames that call readType, and so the ones readType and readStruct return to.
Callers == {"field", "typed", "array", "until"}
Enclosed == {"struct", "array", "until"}

\* The widest group of bits, and the widest field of one.
Widest == 64
Widths == 1..Widest

\* Bits are left for the fields still to be read, and no more.
Enough(fields, n) ==
    \E total \in 0..Widest : \E left \in [1..(Len(fields) + 1) -> 0..total] :
        /\ left[1] = n /\ left[Len(fields) + 1] = 0
        /\ \A i \in 1..Len(fields) : /\ fields[i].width \in Widths
                                     /\ left[i + 1] = left[i] - fields[i].width

BodyOK(p, f) == f.k \in Bodies =>
    /\ {"todo", "obj"} \subseteq DOMAIN f
    /\ f.todo \in Seq(AllOps(p))

PlaceOK(f) ==
    /\ f.k = "struct" => {"start", "env", "name"} \subseteq DOMAIN f /\ f.start \in Nat
    /\ f.k = "block" => {"start", "end"} \subseteq DOMAIN f /\ f.start \in Nat /\ f.end \in Nat
    /\ f.k = "at" => f.back \in Nat
    /\ f.k = "until" => Valid(f.saved)

LoopOK(p, f) ==
    /\ f.k \in {"array", "until"} => ExecutableType(p, f.elem)
    /\ f.k = "until" => f.term \in Seq(Nat) /\ f.max \in Nat

GroupOK(f) == f.k = "bits" =>
    /\ "todo" \in DOMAIN f
    /\ f.todo \in Seq(Range(f.todo))
    /\ \A i \in 1..Len(f.todo) : f.todo[i].endian \in Orders

FrameOK(p, f) ==
    /\ f.k \in Bodies \cup Callers \cup {"bits"}
    /\ "k" \in DOMAIN f
    /\ BodyOK(p, f) /\ PlaceOK(f) /\ LoopOK(p, f) /\ GroupOK(f)

\* Which frame may be under which.
Follows(under, over) == IF over \in Enclosed THEN under \in Callers ELSE under \in Bodies

StackOK(p, fs) ==
    /\ IsSeq(fs)
    /\ \A i \in 1..Len(fs) : FrameOK(p, fs[i])
    /\ fs # <<>> => /\ fs[1].k = "struct" /\ fs[1].start = 0
                    /\ fs[1].env = Merge(p.given, p.consts)
    /\ \A i \in 1..(Len(fs) - 1) : Follows(fs[i].k, fs[i + 1].k)

\* What the top frame is told fits the frame.
TopOK(p, top, what, reader) ==
    /\ what.is \in {"step", "type", "value", "false", "throw"}
    /\ what.is = "type" => ExecutableType(p, what.type)
    /\ what.is \in {"type", "throw"} => top.k \in Callers
    /\ top.k = "bits" => what = Step /\ Enough(top.todo, reader.bits)

\* Outside the root struct nothing is read yet, or the decode is over.
RootOK ==
    /\ ret.is \in {"step", "type", "value", "false"}
    /\ status = "idle" => rd = New /\ ret = Step /\ err = "none"
    /\ status = "running" =>
          /\ ret.is = "type" => /\ ret.type = Named(plan.root) /\ rd.pos = 0
                                /\ env = Base /\ err # "parameters"
          /\ ret = False => /\ rd.pos = 0
                            /\ env = (IF err = "parameters" THEN plan.given ELSE Base)

DecoderInv ==
    /\ plan \in Plans /\ input \in Inputs
    /\ Valid(rd)
    /\ err \in Reasons /\ status \in {"idle", "running", "decoded", "failed"}
    /\ diag \in {NoDiag} \cup 0..Size
    /\ StackOK(plan, frames)
    /\ frames # <<>> => /\ status = "running" /\ err # "parameters"
                        /\ TopOK(plan, Top, ret, rd)
    /\ frames = <<>> => RootOK
    /\ FailureLeavesNothing

-----------------------------------------------------------------------------
\* Plans and stacks.

LEMMA PlanFacts ==
    ASSUME NEW p \in Plans
    PROVE  /\ p.root \in DOMAIN p.structs
           /\ \A s \in DOMAIN p.structs : /\ p.structs[s].endian \in Endian
                                          /\ p.structs[s].body \in Seq(AllOps(p))
           /\ \A op \in AllOps(p) : ExecutableOp(p, AllOps(p), op)
<1>1. ExecutablePlan(p, Operations(p))
  BY PlanAssumption
<1>2. \A s \in DOMAIN p.structs : Operations(p)[s] \subseteq AllOps(p)
  BY DEF AllOps
<1>3. \A s \in DOMAIN p.structs : \A body \in Seq(Operations(p)[s]) : body \in Seq(AllOps(p))
  BY <1>2, SeqMonotonic
<1>4. ASSUME NEW op \in AllOps(p) PROVE ExecutableOp(p, AllOps(p), op)
  <2>1. PICK s \in DOMAIN p.structs : op \in Operations(p)[s]
    BY DEF AllOps
  <2>2. ExecutableOp(p, Operations(p)[s], op)
    BY <1>1, <2>1 DEF ExecutablePlan
  <2> QED BY <2>1, <2>2, <1>3 DEF ExecutableOp
<1> QED BY <1>1, <1>3, <1>4 DEF ExecutablePlan, Orders, Endian

\* The frame on top, and what is under it.
LEMMA TopFacts ==
    ASSUME NEW p, NEW fs, StackOK(p, fs), fs # <<>>
    PROVE  /\ FrameOK(p, Last(fs))
           /\ Front(fs) = <<>> =>
                 /\ Last(fs).k = "struct" /\ Last(fs).start = 0
                 /\ Last(fs).env = Merge(p.given, p.consts)
           /\ Front(fs) # <<>> =>
                 Follows(Last(Front(fs)).k, Last(fs).k)
<1>1. /\ Len(fs) \in Nat \ {0} /\ Last(fs) = fs[Len(fs)] /\ IsSeq(Front(fs))
      /\ Len(Front(fs)) = Len(fs) - 1
      /\ \A i \in 1..(Len(fs) - 1) : Front(fs)[i] = fs[i]
  BY FrontSeq DEF StackOK
<1>2. Front(fs) = <<>> <=> Len(fs) = 1
  BY <1>1, SeqLen
<1>3. Front(fs) # <<>> => /\ Len(fs) - 1 \in 1..(Len(fs) - 1)
                          /\ Last(Front(fs)) = fs[Len(fs) - 1]
                          /\ (Len(fs) - 1) + 1 = Len(fs)
  BY <1>1, <1>2 DEF Last
<1> QED BY <1>1, <1>2, <1>3 DEF StackOK

LEMMA StackPop ==
    ASSUME NEW p, NEW fs, StackOK(p, fs), fs # <<>>
    PROVE  StackOK(p, Front(fs))
<1>1. /\ Len(fs) \in Nat \ {0} /\ IsSeq(Front(fs))
      /\ Len(Front(fs)) = Len(fs) - 1
      /\ \A i \in 1..(Len(fs) - 1) : Front(fs)[i] = fs[i]
  BY FrontSeq DEF StackOK
<1>2. Front(fs) # <<>> => 1 \in 1..(Len(fs) - 1)
  BY <1>1, SeqLen
<1>3. \A i \in 1..(Len(fs) - 1 - 1) : /\ i \in 1..(Len(fs) - 1) /\ i + 1 \in 1..(Len(fs) - 1)
  BY <1>1
<1>4. \A i \in 1..(Len(fs) - 1) : i \in 1..Len(fs)
  BY <1>1
<1> QED BY <1>1, <1>2, <1>3, <1>4 DEF StackOK

LEMMA StackPush ==
    ASSUME NEW p, NEW fs, StackOK(p, fs), NEW f, FrameOK(p, f),
           fs # <<>> => Follows(Last(fs).k, f.k),
           fs = <<>> => f.k = "struct" /\ f.start = 0 /\ f.env = Merge(p.given, p.consts)
    PROVE  StackOK(p, Append(fs, f)) /\ Append(fs, f) # <<>> /\ Last(Append(fs, f)) = f
           /\ Front(Append(fs, f)) = fs
<1> DEFINE a == Append(fs, f)
           n == Len(fs)
<1>1. /\ IsSeq(a) /\ a # <<>> /\ Len(a) = n + 1 /\ n \in Nat
      /\ \A i \in 1..n : a[i] = fs[i]
      /\ a[n + 1] = f /\ Last(a) = f /\ Front(a) = fs
      /\ (fs = <<>> <=> n = 0)
      /\ Last(fs) = fs[n]
  BY AppendSeq, SeqLen DEF StackOK, Last
<1> HIDE DEF a
<1>2. \A i \in 1..(n + 1) : i \in 1..n \/ i = n + 1
  BY <1>1
<1>3. \A i \in 1..Len(a) : FrameOK(p, a[i])
  BY <1>1, <1>2 DEF StackOK
<1>4. a[1].k = "struct" /\ a[1].start = 0 /\ a[1].env = Merge(p.given, p.consts)
  BY <1>1 DEF StackOK
<1>5. ASSUME NEW i \in 1..(Len(a) - 1) PROVE Follows(a[i].k, a[i + 1].k)
  <2>1. i \in 1..n /\ (i = n \/ (i \in 1..(n - 1) /\ i + 1 \in 1..n))
    BY <1>1
  <2> QED BY <2>1, <1>1 DEF StackOK
<1> QED BY <1>1, <1>3, <1>4, <1>5 DEF StackOK, a

\* A frame may change, but neither its kind nor what a struct goes back to.
Alike(f, g) == /\ f.k = g.k
               /\ f.k = "struct" => f.start = g.start /\ f.env = g.env

LEMMA StackReplace ==
    ASSUME NEW p, NEW fs, StackOK(p, fs), fs # <<>>,
           NEW f, FrameOK(p, f), Alike(f, Last(fs))
    PROVE  StackOK(p, Append(Front(fs), f)) /\ Append(Front(fs), f) # <<>>
           /\ Last(Append(Front(fs), f)) = f /\ Front(Append(Front(fs), f)) = Front(fs)
<1>1. StackOK(p, Front(fs))
  BY StackPop
<1>2. /\ Front(fs) = <<>> => f.k = "struct" /\ f.start = 0 /\ f.env = Merge(p.given, p.consts)
      /\ Front(fs) # <<>> => Follows(Last(Front(fs)).k, f.k)
  BY TopFacts DEF Alike
<1> HIDE DEF Front
<1> QED BY <1>1, <1>2, StackPush

-----------------------------------------------------------------------------
\* Ways for a step to end: what each needs to keep the invariant.

LEMMA Kept ==
    ASSUME DecoderInv, status = "running", UNCHANGED outcome,
           Valid(rd'), diag' \in {NoDiag} \cup 0..Size,
           err' \in Reasons, err' # "parameters",
           StackOK(plan, frames'), frames' # <<>>, TopOK(plan, Last(frames'), ret', rd')
    PROVE  DecoderInv'
<1>1. FailureLeavesNothing'
  BY DEF FailureLeavesNothing, outcome
<1> QED BY <1>1 DEF DecoderInv, outcome, Top

LEMMA InsideFacts ==
    ASSUME DecoderInv, frames # <<>>
    PROVE  /\ status = "running" /\ err # "parameters" /\ TopOK(plan, Top, ret, rd)
           /\ StackOK(plan, frames) /\ FrameOK(plan, Top) /\ StackOK(plan, Below)
           /\ plan \in Plans /\ Valid(rd)
BY TopFacts, StackPop DEF DecoderInv, Top, Below

\* The step goes on, or returns a value, with stack fs.
LEMMA GoesKept ==
    ASSUME DecoderInv, frames # <<>>, Valid(rd'),
           NEW fs, NEW next, Goes(fs, next),
           StackOK(plan, fs), fs # <<>>, TopOK(plan, Last(fs), next, rd')
    PROVE  DecoderInv'
<1>1. /\ status = "running" /\ err \in Reasons /\ err # "parameters"
      /\ diag \in {NoDiag} \cup 0..Size
  BY InsideFacts DEF DecoderInv
<1> QED BY <1>1, Kept DEF Goes

LEMMA PosInInput ==
    ASSUME NEW r, Valid(r)
    PROVE  r.pos \in 0..Size
BY SizeAssumption DEF Valid, State

\* The callee returned false to stack fs, or a throw was caught there.
LEMMA FailsKept ==
    ASSUME DecoderInv, frames # <<>>, Valid(rd'),
           NEW fs, NEW why \in Failures,
           Fails(fs, why) \/ Caught(fs, why),
           StackOK(plan, fs), fs # <<>>, Last(fs).k # "bits"
    PROVE  DecoderInv'
<1>1. /\ status = "running" /\ diag \in {NoDiag} \cup 0..Size /\ UNCHANGED outcome
      /\ frames' = fs /\ ret' = False /\ err' = why
  BY InsideFacts DEF DecoderInv, Fails, Caught
<1>2. rd'.pos \in 0..Size
  BY PosInInput
<1>3. diag' \in {NoDiag} \cup 0..Size
  BY <1>1, <1>2 DEF Fails, Caught
<1>4. TopOK(plan, Last(fs), False, rd')
  BY DEF TopOK, False
<1> QED BY <1>1, <1>3, <1>4, Kept DEF Failures, Reasons

\* The same where the callee was called, and nothing was read.
LEMMA FailsHere ==
    ASSUME DecoderInv, frames # <<>>, UNCHANGED rd, Top.k # "bits",
           NEW why \in Failures,
           Fails(frames, why) \/ Caught(frames, why)
    PROVE  DecoderInv'
<1>1. Valid(rd') /\ StackOK(plan, frames) /\ Last(frames).k # "bits"
  BY InsideFacts DEF Top
<1> QED BY <1>1, FailsKept

\* An exception reached stack fs, whose top lets it pass or catches it.
LEMMA ThrowsKept ==
    ASSUME DecoderInv, frames # <<>>, Valid(rd'),
           NEW fs, NEW why \in Failures,
           Throws(fs, why),
           StackOK(plan, fs), fs # <<>>, Last(fs).k \in Callers
    PROVE  DecoderInv'
<1>1. /\ status = "running" /\ diag \in {NoDiag} \cup 0..Size /\ UNCHANGED outcome
      /\ frames' = fs /\ ret' = Throw /\ err' = why /\ diag' = diag
  BY InsideFacts DEF DecoderInv, Throws
<1>2. TopOK(plan, Last(fs), Throw, rd')
  BY DEF TopOK, Throw, Callers
<1> QED BY <1>1, <1>2, Kept DEF Failures, Reasons

\* The frame below one of readType or readStruct calls readType; the frame
\* below any other runs operations.
LEMMA BelowCalled ==
    ASSUME DecoderInv, frames # <<>>, Top.k \in Enclosed, Below # <<>>
    PROVE  StackOK(plan, Below) /\ Last(Below).k \in Callers /\ Last(Below).k # "bits"
<1>1. StackOK(plan, Below) /\ Follows(Last(Below).k, Top.k)
  BY InsideFacts, TopFacts DEF Top, Below
<1> QED BY <1>1 DEF Follows, Callers

LEMMA BelowBody ==
    ASSUME DecoderInv, frames # <<>>, Top.k \notin Enclosed
    PROVE  /\ Below # <<>> /\ StackOK(plan, Below)
           /\ Last(Below).k \in Bodies /\ Last(Below).k \notin Callers \cup {"bits"}
           /\ FrameOK(plan, Last(Below))
<1>1. StackOK(plan, Below) /\ Below # <<>> /\ Follows(Last(Below).k, Top.k)
  BY InsideFacts, TopFacts DEF Top, Below, Enclosed
<1>2. FrameOK(plan, Last(Below))
  BY <1>1, TopFacts
<1> QED BY <1>1, <1>2 DEF Follows, Callers, Bodies

\* Only the root struct has nothing below it.
LEMMA BelowRoot ==
    ASSUME DecoderInv, frames # <<>>, Below = <<>>
    PROVE  Top.k = "struct" /\ Top.start = 0 /\ Top.env = Base
BY InsideFacts, TopFacts DEF Top, Below, Base

\* A body frame keeps its shape when its members change.
LEMMA WithMembers ==
    ASSUME NEW p, NEW f, FrameOK(p, f), f.k \in Bodies, NEW obj
    PROVE  LET g == [f EXCEPT !.obj = obj]
           IN  FrameOK(p, g) /\ Alike(g, f) /\ g.k = f.k
<1> DEFINE g == [f EXCEPT !.obj = obj]
<1>1. DOMAIN g = DOMAIN f /\ g.k = f.k /\ {"todo", "obj", "k"} \subseteq DOMAIN f
  BY DEF FrameOK, BodyOK
<1>2. g.todo = f.todo /\ g.start = f.start /\ g.env = f.env /\ g.end = f.end /\ g.back = f.back
  OBVIOUS
<1> HIDE DEF g
<1> QED BY <1>1, <1>2 DEF FrameOK, BodyOK, PlaceOK, LoopOK, GroupOK, Bodies, Alike

LEMMA Stores ==
    ASSUME DecoderInv, frames # <<>>, Top.k \notin Enclosed, NEW obj
    PROVE  LET fs == Popped([Last(Below) EXCEPT !.obj = obj])
           IN  /\ StackOK(plan, fs) /\ fs # <<>>
               /\ Last(fs).k \in Bodies /\ Last(fs).k # "bits" /\ Last(fs).k \notin Callers
<1> DEFINE g == [Last(Below) EXCEPT !.obj = obj]
<1>1. FrameOK(plan, g) /\ Alike(g, Last(Below)) /\ g.k = Last(Below).k
  BY BelowBody, WithMembers
<1>2. /\ StackOK(plan, Below) /\ Below # <<>>
      /\ Last(Below).k \in Bodies /\ Last(Below).k \notin Callers \cup {"bits"}
  BY BelowBody
<1> HIDE DEF g
<1>3. /\ StackOK(plan, Append(Front(Below), g)) /\ Append(Front(Below), g) # <<>>
      /\ Last(Append(Front(Below), g)) = g
  BY <1>1, <1>2, StackReplace
<1> QED BY <1>1, <1>2, <1>3 DEF Popped, g

\* An operation that member() runs: what the plan holds of it, and the stack
\* with it done, its member stored, or its frame pushed.
LEMMA DoingFacts ==
    ASSUME DecoderInv, NEW kind, Doing(kind)
    PROVE  /\ frames # <<>> /\ Top.k \in Bodies /\ ret = Step /\ status = "running"
           /\ Op.op = kind /\ ExecutableOp(plan, AllOps(plan), Op)
           /\ StackOK(plan, frames) /\ Last(frames) = Top /\ Top.k # "bits"
<1>1. /\ frames # <<>> /\ Top.k \in Bodies /\ ret = Step /\ status = "running"
      /\ Top.todo # <<>> /\ Op.op = kind
  BY DEF Doing, Running, Op
<1>2. Top.todo \in Seq(AllOps(plan)) /\ StackOK(plan, frames) /\ plan \in Plans
  BY <1>1, InsideFacts DEF FrameOK, BodyOK
<1>3. Op \in AllOps(plan)
  BY <1>1, <1>2, HeadTailProperties DEF Op
<1> QED BY <1>1, <1>2, <1>3, PlanFacts DEF Top, Bodies

LEMMA Done ==
    ASSUME DecoderInv, NEW kind, Doing(kind), NEW obj
    PROVE  LET f == [Rest1 EXCEPT !.obj = obj]
           IN  /\ StackOK(plan, Replace(f)) /\ Replace(f) # <<>>
               /\ StackOK(plan, Replace(Rest1)) /\ Replace(Rest1) # <<>>
               /\ Last(Replace(f)).k \in Bodies \ (Callers \cup {"bits"})
               /\ Last(Replace(Rest1)).k \in Bodies \ (Callers \cup {"bits"})
<1>1. /\ frames # <<>> /\ Top.k \in Bodies /\ FrameOK(plan, Top) /\ Top.todo # <<>>
      /\ StackOK(plan, frames)
  BY DoingFacts, InsideFacts DEF Doing
<1>2. Tail(Top.todo) \in Seq(AllOps(plan)) /\ {"todo", "obj", "k"} \subseteq DOMAIN Top
  BY <1>1, HeadTailProperties DEF FrameOK, BodyOK
<1> DEFINE r == Rest1
           f == [r EXCEPT !.obj = obj]
<1>3. /\ DOMAIN r = DOMAIN Top /\ r.k = Top.k /\ r.todo = Tail(Top.todo)
      /\ r.start = Top.start /\ r.env = Top.env /\ r.end = Top.end /\ r.back = Top.back
  BY <1>2 DEF Rest1
<1> HIDE DEF r
<1>4. FrameOK(plan, r) /\ Alike(r, Top) /\ r.k \in Bodies
  BY <1>1, <1>2, <1>3 DEF FrameOK, BodyOK, PlaceOK, LoopOK, GroupOK, Bodies, Alike
<1>5. FrameOK(plan, f) /\ Alike(f, r) /\ f.k = r.k
  BY <1>4, WithMembers
<1> HIDE DEF f
<1>6. Alike(f, Top) /\ f.k \in Bodies
  BY <1>4, <1>5 DEF Alike
<1>7. /\ StackOK(plan, Append(Below, r)) /\ Append(Below, r) # <<>>
      /\ Last(Append(Below, r)) = r
      /\ StackOK(plan, Append(Below, f)) /\ Append(Below, f) # <<>>
      /\ Last(Append(Below, f)) = f
  BY <1>1, <1>4, <1>5, <1>6, StackReplace DEF Top, Below
<1> QED BY <1>4, <1>6, <1>7 DEF Replace, f, r, Bodies, Callers

\* An operation whose frame is pushed: the frame it leaves is under it.
LEMMA Begun ==
    ASSUME DecoderInv, NEW kind, Doing(kind),
           NEW f, FrameOK(plan, f), f.k \notin Enclosed
    PROVE  LET fs == Append(Replace(Rest1), f)
           IN  StackOK(plan, fs) /\ fs # <<>> /\ Last(fs) = f
<1>1. /\ StackOK(plan, Replace(Rest1)) /\ Replace(Rest1) # <<>>
      /\ Last(Replace(Rest1)).k \in Bodies
  BY Done
<1> HIDE DEF Replace
<1> QED BY <1>1, StackPush DEF Follows

-----------------------------------------------------------------------------
\* readType and readStruct.

\* What a call of readType is given: by a frame, or by run() for the root.
LEMMA CallingFacts ==
    ASSUME DecoderInv, Calling
    PROVE  /\ plan \in Plans /\ status = "running" /\ Valid(rd) /\ StackOK(plan, frames)
           /\ ExecutableType(plan, ret.type)
           /\ frames # <<>> => Top.k \in Callers /\ Last(frames) = Top /\ err # "parameters"
           /\ frames = <<>> => /\ ret.type.form = "struct" /\ ret.type.dims = <<>>
                               /\ ret.type.term = <<>> /\ rd.pos = 0 /\ env = Base
                               /\ err # "parameters"
<1>1. /\ plan \in Plans /\ status = "running" /\ Valid(rd) /\ StackOK(plan, frames)
      /\ ret.is = "type"
  BY DEF DecoderInv, Calling
<1>2. CASE frames # <<>>
  BY <1>1, <1>2 DEF DecoderInv, TopOK, Top
<1>3. CASE frames = <<>>
  <2>1. ret.type = Named(plan.root) /\ rd.pos = 0 /\ env = Base /\ err # "parameters"
    BY <1>1, <1>3 DEF DecoderInv, RootOK
  <2>2. /\ Named(plan.root).form = "struct" /\ Named(plan.root).dims = <<>>
        /\ Named(plan.root).term = <<>> /\ Named(plan.root).max = 0
        /\ Named(plan.root).ref = plan.root
        /\ DOMAIN Named(plan.root) = {"form", "width", "signed", "ref", "dims", "loose",
                                      "term", "max"}
    BY DEF Named, U8, Scalar
  <2>3. <<>> \in Seq(Nat) /\ <<>> \in Seq(Range(<<>>))
    BY EmptySeq
  <2> HIDE DEF Named
  <2> QED BY <1>1, <1>3, <2>1, <2>2, <2>3, PlanFacts DEF ExecutableType
<1> QED BY <1>1, <1>2, <1>3

LEMMA CallingInside ==
    ASSUME DecoderInv, Calling,
           ret.type.form # "struct" \/ ret.type.dims # <<>> \/ ret.type.term # <<>>
    PROVE  /\ frames # <<>> /\ StackOK(plan, frames) /\ Last(frames) = Top
           /\ Top.k \in Callers /\ Top.k # "bits" /\ Valid(rd) /\ plan \in Plans
           /\ ExecutableType(plan, ret.type)
BY CallingFacts DEF Callers

LEMMA StructFrameOK ==
    ASSUME DecoderInv, Calling, ret.type.form = "struct"
    PROVE  LET f == StructFrame(ret.type.ref)
           IN  /\ FrameOK(plan, f) /\ f.k = "struct" /\ f.start = rd.pos /\ f.env = env
               /\ plan.structs[ret.type.ref].endian \in Endian
<1>1. /\ plan.structs[ret.type.ref].endian \in Endian
      /\ plan.structs[ret.type.ref].body \in Seq(AllOps(plan))
  BY CallingFacts, PlanFacts DEF ExecutableType
<1>2. rd.pos \in Nat
  BY CallingFacts DEF Valid, State
<1> QED BY <1>1, <1>2 DEF StructFrame, FrameOK, BodyOK, PlaceOK, LoopOK, GroupOK, Bodies

LEMMA StructStep ==
    ASSUME DecoderInv, TypeStruct
    PROVE  DecoderInv'
<1> DEFINE f == StructFrame(ret.type.ref)
<1>1. Calling /\ ret.type.form = "struct"
  BY DEF TypeStruct
<1>2. /\ FrameOK(plan, f) /\ f.k = "struct" /\ f.start = rd.pos /\ f.env = env
      /\ plan.structs[ret.type.ref].endian \in Endian
  BY <1>1, StructFrameOK
<1> HIDE DEF f
<1>3. CASE Depth + 1 > MaxRecursionDepth
  <2>1. UNCHANGED rd /\ Fails(frames, "depth")
    BY <1>3 DEF TypeStruct
  <2>2. CASE frames # <<>>
    <3>1. Top.k # "bits"
      BY <1>1, <2>2, CallingFacts DEF Callers
    <3> QED BY <2>1, <2>2, <3>1, FailsHere DEF Failures
  <2>3. CASE frames = <<>>
    <3>1. /\ frames' = <<>> /\ ret' = False /\ err' = "depth" /\ UNCHANGED <<env, diag, rd>>
          /\ UNCHANGED outcome /\ status = "running" /\ rd.pos = 0 /\ env = Base
      BY <1>1, <2>1, <2>3, CallingFacts DEF Fails
    <3>2. RootOK'
      BY <3>1 DEF RootOK, False, Base, outcome
    <3>3. StackOK(plan, frames')
      BY <1>1, <2>3, <3>1, CallingFacts
    <3> QED BY <3>1, <3>2, <3>3 DEF DecoderInv, FailureLeavesNothing, outcome, Reasons, Failures
  <2> QED BY <2>2, <2>3
<1>4. CASE ~(Depth + 1 > MaxRecursionDepth)
  <2>1. /\ rd' = SetEndian(rd, plan.structs[ret.type.ref].endian)
        /\ Goes(Append(frames, f), Step)
    BY <1>4 DEF TypeStruct, Push, f
  <2>2. Valid(rd')
    BY <1>1, <1>2, <2>1, CallingFacts, SetEndianValid
  <2>3. /\ StackOK(plan, Append(frames, f)) /\ Append(frames, f) # <<>>
        /\ Last(Append(frames, f)) = f
    BY <1>1, <1>2, CallingFacts, StackPush DEF Follows, Enclosed, Base
  <2>4. TopOK(plan, f, Step, rd')
    BY <1>2 DEF TopOK, Step
  <2>5. /\ status = "running" /\ UNCHANGED outcome /\ frames' = Append(frames, f)
        /\ ret' = Step /\ err' = err /\ diag' = diag /\ err # "parameters"
    BY <1>1, <2>1, CallingFacts DEF Goes
  <2> QED BY <2>2, <2>3, <2>4, <2>5, Kept DEF DecoderInv
<1> QED BY <1>3, <1>4

LEMMA EndStructStep ==
    ASSUME DecoderInv, EndStruct
    PROVE  DecoderInv'
<1>1. /\ frames # <<>> /\ ret = Step /\ Top.k = "struct" /\ UNCHANGED rd
      /\ Valid(rd) /\ Valid(rd') /\ status = "running" /\ err # "parameters"
      /\ StackOK(plan, frames)
  BY InsideFacts DEF EndStruct, Ending, Running
<1>2. CASE \E why \in {"requires", "expression"} : Fails(frames, why)
  BY <1>1, <1>2, FailsHere DEF Failures
<1>3. CASE Goes(Below, Return(Object(Top.obj)))
  <2> DEFINE v == Return(Object(Top.obj))
  <2>1. v.is = "value" /\ v # Step /\ v # False
    BY DEF Return, Step, False
  <2> HIDE DEF v
  <2>2. CASE Below # <<>>
    <3>1. StackOK(plan, Below) /\ Last(Below).k # "bits"
      BY <1>1, <2>2, BelowCalled DEF Enclosed
    <3>2. TopOK(plan, Last(Below), v, rd')
      BY <2>1, <3>1 DEF TopOK
    <3> QED BY <1>1, <1>3, <2>2, <3>1, <3>2, GoesKept DEF v
  <2>3. CASE Below = <<>>
    <3>1. /\ frames' = <<>> /\ ret' = v /\ UNCHANGED <<err, diag, outcome>>
      BY <1>3, <2>3 DEF Goes, v
    <3>2. RootOK'
      BY <1>1, <2>1, <3>1 DEF RootOK, outcome
    <3>3. StackOK(plan, <<>>)
      BY <1>1, <2>3, StackPop DEF Below
    <3> QED BY <1>1, <3>1, <3>2, <3>3 DEF DecoderInv, FailureLeavesNothing, outcome
  <2> QED BY <2>2, <2>3
<1> QED BY <1>2, <1>3 DEF EndStruct

-----------------------------------------------------------------------------
\* Scalars, bytes and arrays.

\* A readType that pushed no frame returns to the frame that called it.
LEMMA ReturnsHere ==
    ASSUME DecoderInv, Calling,
           ret.type.form # "struct" \/ ret.type.dims # <<>> \/ ret.type.term # <<>>,
           Valid(rd'), NEW v, Goes(frames, Return(v))
    PROVE  DecoderInv'
<1>1. /\ frames # <<>> /\ StackOK(plan, frames) /\ Last(frames).k \in Callers
  BY CallingInside
<1>2. TopOK(plan, Last(frames), Return(v), rd')
  BY <1>1 DEF TopOK, Return, Callers
<1> QED BY <1>1, <1>2, GoesKept

LEMMA FailsCalled ==
    ASSUME DecoderInv, Calling,
           ret.type.form # "struct" \/ ret.type.dims # <<>> \/ ret.type.term # <<>>,
           UNCHANGED rd, NEW why \in Failures, Fails(frames, why)
    PROVE  DecoderInv'
BY CallingInside, FailsHere

LEMMA ScalarStep ==
    ASSUME DecoderInv, TypeScalar
    PROVE  DecoderInv'
<1>1. Calling /\ ret.type.form = "scalar"
  BY DEF TypeScalar
<1>2. CASE CanUint(rd, ret.type.width)
  <2>1. rd' = Take(rd, ret.type.width) /\ Goes(frames, Return(Num(ScalarValue(ret.type))))
    BY <1>2 DEF TypeScalar
  <2>2. Valid(rd')
    BY <1>1, <1>2, <2>1, CallingInside, TakeValid DEF CanUint
  <2> QED BY <1>1, <2>1, <2>2, ReturnsHere
<1>3. CASE ~CanUint(rd, ret.type.width)
  BY <1>1, <1>3, FailsCalled DEF TypeScalar, Failures
<1> QED BY <1>2, <1>3

LEMMA RemainingNat ==
    ASSUME NEW r, Valid(r)
    PROVE  Remaining(r) \in Nat /\ r.pos \in Nat /\ r.pos + Remaining(r) <= Size
BY SizeAssumption DEF Valid, State, Remaining

LEMMA BytesStep ==
    ASSUME DecoderInv, TypeBytes
    PROVE  DecoderInv'
<1> DEFINE type == ret.type
           rest == type.dims # <<>> /\ type.dims[1] = Rest
           n == IF rest THEN Remaining(rd) ELSE Eval(type.dims[1], env)
<1>1. Calling /\ ret.type.form = "bytes" /\ ret.type.form # "struct"
  BY DEF TypeBytes
<1>2. \/ UNCHANGED rd /\ (Fails(frames, "unsized") \/ Fails(frames, "expression")
                           \/ Fails(frames, "truncated"))
      \/ /\ n \in Nat /\ n <= Remaining(rd) /\ rd' = Take(rd, n)
         /\ Goes(frames, Return(Raw(SubSeq(input, rd.pos + 1, rd.pos + n))))
  <2>1. Remaining(rd) \in Nat
    BY <1>1, CallingInside, RemainingNat
  <2>2. CASE type.dims = <<>>
    BY <2>2 DEF TypeBytes
  <2>3. CASE type.dims # <<>> /\ ~rest /\ ~CanSize(type.dims[1], env)
    BY <2>3 DEF TypeBytes
  <2>4. CASE type.dims # <<>> /\ (rest \/ CanSize(type.dims[1], env))
    <3>1. n \in Nat
      BY <2>1, <2>4 DEF CanSize
    <3> QED BY <2>4, <3>1 DEF TypeBytes, CanBytes
  <2> QED BY <2>2, <2>3, <2>4
<1> HIDE DEF n
<1>3. CASE n \in Nat /\ n <= Remaining(rd) /\ rd' = Take(rd, n)
           /\ Goes(frames, Return(Raw(SubSeq(input, rd.pos + 1, rd.pos + n))))
  <2>1. Valid(rd')
    BY <1>1, <1>3, CallingInside, TakeValid
  <2> QED BY <1>1, <1>3, <2>1, ReturnsHere
<1> QED BY <1>1, <1>2, <1>3, FailsCalled DEF Failures

\* The type of an element is a type of the plan.
LEMMA ElementType ==
    ASSUME NEW p, NEW type, ExecutableType(p, type), NEW dims, IsSeq(dims)
    PROVE  /\ ExecutableType(p, [type EXCEPT !.dims = dims])
           /\ ExecutableType(p, Until(Dims(type, dims), <<>>, 0))
<1> DEFINE d == [type EXCEPT !.dims = dims]
           u == [d EXCEPT !.term = <<>>, !.max = 0]
<1>1. /\ DOMAIN d = DOMAIN type /\ d.form = type.form /\ d.ref = type.ref
      /\ d.term = type.term /\ d.max = type.max /\ d.dims = dims
  BY DEF ExecutableType
<1>2. ExecutableType(p, d)
  <2> HIDE DEF d
  <2> QED BY <1>1 DEF ExecutableType, IsSeq
<1> HIDE DEF d
<1>3. /\ DOMAIN u = DOMAIN d /\ u.form = d.form /\ u.ref = d.ref /\ u.dims = d.dims /\ u.term = <<>> /\ u.max = 0
  BY <1>2 DEF ExecutableType
<1>4. <<>> \in Seq(Nat)
  BY EmptySeq
<1>5. ExecutableType(p, u)
  <2> HIDE DEF u
  <2> QED BY <1>2, <1>3, <1>4 DEF ExecutableType
<1> QED BY <1>2, <1>5 DEF Until, Dims, d

LEMMA ArrayBegins ==
    ASSUME DecoderInv, TypeArray
    PROVE  DecoderInv'
<1> DEFINE f == [k |-> "array", elem |-> [ret.type EXCEPT !.dims = Tail(@)],
                 left |-> Extents(ret.type.dims)[1], vals |-> <<>>]
<1>1. Calling /\ ret.type.dims # <<>> /\ UNCHANGED rd
  BY DEF TypeArray
<1>2. \/ Fails(frames, "remaining") \/ Fails(frames, "expression") \/ Fails(frames, "array")
      \/ Goes(Append(frames, f), Step)
  BY DEF TypeArray, Push
<1>3. CASE Goes(Append(frames, f), Step)
  <2>1. FrameOK(plan, f) /\ f.k = "array"
    <3> DEFINE dims == ret.type.dims
               inner == Tail(dims)
    <3>1. ExecutableType(plan, ret.type)
      BY <1>1, CallingInside
    <3>2. IsSeq(inner)
      <4>1. IsSeq(dims)
        BY <3>1 DEF ExecutableType, IsSeq
      <4> HIDE DEF dims
      <4> QED BY <1>1, <4>1, TailSeq DEF dims
    <3>3. ExecutableType(plan, [ret.type EXCEPT !.dims = inner])
      <4> HIDE DEF inner
      <4> QED BY <3>1, <3>2, ElementType
    <3>4. ExecutableType(plan, f.elem) /\ f.k = "array" /\ "k" \in DOMAIN f
      BY <3>1, <3>3 DEF ExecutableType
    <3> HIDE DEF f
    <3> QED BY <3>4 DEF FrameOK, BodyOK, PlaceOK, LoopOK, GroupOK, Bodies, Callers
  <2> HIDE DEF f
  <2>2. /\ StackOK(plan, Append(frames, f)) /\ Append(frames, f) # <<>>
        /\ Last(Append(frames, f)) = f
    BY <1>1, <2>1, CallingInside, StackPush DEF Follows, Enclosed
  <2>3. TopOK(plan, f, Step, rd') /\ Valid(rd')
    BY <1>1, <2>1, CallingInside DEF TopOK, Step
  <2> QED BY <1>1, <1>3, <2>2, <2>3, CallingInside, GoesKept
<1> QED BY <1>1, <1>2, <1>3, FailsCalled DEF Failures

LEMMA ArrayTurns ==
    ASSUME DecoderInv, ArrayStep
    PROVE  DecoderInv'
<1>1. /\ frames # <<>> /\ Top.k = "array" /\ UNCHANGED rd /\ Valid(rd)
      /\ StackOK(plan, frames) /\ FrameOK(plan, Top)
  BY InsideFacts DEF ArrayStep, Running
<1>2. CASE Top.left = 0
  <2>1. Goes(Below, Return(List(Top.vals)))
    BY <1>2 DEF ArrayStep
  <2>2. StackOK(plan, Below) /\ Below # <<>> /\ Last(Below).k \in Callers
    BY <1>1, BelowCalled, BelowRoot DEF Enclosed
  <2>3. TopOK(plan, Last(Below), Return(List(Top.vals)), rd')
    BY <2>2 DEF TopOK, Return, Callers
  <2> QED BY <1>1, <2>1, <2>2, <2>3, GoesKept
<1>3. CASE Top.left # 0
  <2>1. Goes(frames, CallType(Top.elem))
    BY <1>3 DEF ArrayStep
  <2>2. TopOK(plan, Last(frames), CallType(Top.elem), rd')
    BY <1>1 DEF TopOK, CallType, Callers, FrameOK, LoopOK, Top
  <2> QED BY <1>1, <2>1, <2>2, GoesKept
<1> QED BY <1>2, <1>3

LEMMA ArrayTakes ==
    ASSUME DecoderInv, ArrayValue
    PROVE  DecoderInv'
<1> DEFINE f == [Top EXCEPT !.left = @ - 1, !.vals = Keep(@, ret.value)]
<1>1. /\ frames # <<>> /\ Top.k = "array" /\ UNCHANGED rd /\ Valid(rd)
      /\ StackOK(plan, frames) /\ FrameOK(plan, Top) /\ Goes(Append(Below, f), Step)
  BY InsideFacts DEF ArrayValue, Getting, Running, Replace
<1>2. f.k = "array" /\ f.elem = Top.elem /\ DOMAIN f = DOMAIN Top
  BY <1>1 DEF FrameOK
<1> HIDE DEF f
<1>3. FrameOK(plan, f) /\ Alike(f, Top)
  BY <1>1, <1>2 DEF FrameOK, BodyOK, PlaceOK, LoopOK, GroupOK, Bodies, Alike
<1>4. StackOK(plan, Append(Below, f)) /\ Append(Below, f) # <<>> /\ Last(Append(Below, f)) = f
  BY <1>1, <1>3, StackReplace DEF Below, Top
<1>5. TopOK(plan, f, Step, rd')
  BY <1>2 DEF TopOK, Step
<1> QED BY <1>1, <1>4, <1>5, GoesKept

-----------------------------------------------------------------------------
\* Terminated sequences.

LEMMA MinIn ==
    ASSUME NEW S, S \subseteq Nat, S # {}
    PROVE  Min(S) \in S
<1>1. PICK x \in S : \A y \in S : ~ (<<y, x>> \in OpToRel(<, Nat))
  BY WFMin, NatLessThanWellFounded, Zenon
<1>2. \A y \in S : x <= y
  <2> TAKE y \in S
  <2>1. ~ (y < x)
    BY <1>1 DEF OpToRel
  <2> QED BY <2>1
<1> QED BY <1>2 DEF Min

LEMMA InputBytes ==
    ASSUME DecoderInv, NEW n \in Nat, n <= Remaining(rd)
    PROVE  Len(SubSeq(input, rd.pos + 1, rd.pos + n)) = n
<1> DEFINE len == Len(SubSeq(input, rd.pos + 1, rd.pos + n))
<1>1. rd.pos \in Nat /\ rd.pos + n <= Size /\ input \in [1..Size -> 0..255]
  <2>1. Valid(rd) /\ input \in [1..Size -> 0..255]
    BY InputAssumption DEF DecoderInv
  <2>2. Remaining(rd) \in Nat /\ rd.pos \in Nat /\ rd.pos + Remaining(rd) <= Size
    BY <2>1, RemainingNat
  <2>3. ASSUME NEW p \in Nat, NEW left \in Nat, p + left <= Size, n <= left
        PROVE  p + n <= Size
    BY <2>3, SizeAssumption
  <2> QED BY <2>1, <2>2, <2>3
<1>2. \A i \in (rd.pos + 1)..(rd.pos + n) : input[i] \in 0..255
  BY <1>1, SizeAssumption
<1>3. len = IF rd.pos + 1 <= rd.pos + n THEN (rd.pos + n) - (rd.pos + 1) + 1 ELSE 0
  BY <1>1, <1>2, SubSeqProperties
<1> HIDE DEF len
<1>4. len = n
  BY <1>1, <1>3
<1> QED BY <1>4 DEF len

LEMMA MinimumNat ==
    ASSUME NEW m \in Nat, NEW n \in Nat
    PROVE  Minimum(m, n) \in Nat /\ Minimum(m, n) <= n /\ Minimum(m, n) <= m
BY DEF Minimum

LEMMA UntilBytesStep ==
    ASSUME DecoderInv, TypeUntilBytes
    PROVE  DecoderInv'
<1> DEFINE type == ret.type
           size == Len(type.term)
           m == Minimum(type.max + size, Remaining(rd))
           window == SubSeq(input, rd.pos + 1, rd.pos + m)
           ends == {i \in size..Len(window) : SubSeq(window, i - size + 1, i) = type.term}
<1>1. /\ Calling /\ ret.type.term # <<>>
      /\ frames # <<>> /\ StackOK(plan, frames) /\ Last(frames).k \in Callers /\ Valid(rd)
  BY CallingInside DEF TypeUntilBytes
<1>2. size \in Nat /\ type.max \in Nat
  BY <1>1, CallingInside, LenProperties DEF ExecutableType
<1>3. m \in Nat /\ m <= Remaining(rd)
  <2>1. type.max + size \in Nat /\ Remaining(rd) \in Nat
    BY <1>1, <1>2, RemainingNat
  <2> QED BY <2>1, MinimumNat
<1> HIDE DEF m
<1>4. Len(window) = m
  BY <1>3, InputBytes
<1> HIDE DEF window, size
<1>5. ends # {} => Min(ends) \in Nat /\ Min(ends) <= Remaining(rd)
  <2>1. ends \subseteq Nat /\ ends \subseteq size..m
    BY <1>2, <1>4
  <2>2. ends # {} => Min(ends) \in ends
    <3> HIDE DEF ends
    <3> QED BY <2>1, MinIn
  <2> DEFINE first == Min(ends)
  <2> HIDE DEF ends
  <2>3. Remaining(rd) \in Nat
    BY <1>1, RemainingNat
  <2>4. ends # {} => first \in Nat /\ first \in size..m
    BY <2>1, <2>2
  <2> HIDE DEF first
  <2>5. ends # {} => first \in Nat /\ first <= Remaining(rd)
    BY <1>2, <1>3, <2>3, <2>4
  <2> QED BY <2>5 DEF first
<1>6. \/ ends # {} /\ rd' = Take(rd, Min(ends))
         /\ Goes(frames, Return(Raw(SubSeq(window, 1, Min(ends) - size))))
      \/ UNCHANGED rd /\ Fails(frames, "unterminated")
      \/ rd' = Take(rd, m) /\ Throws(frames, "restore")
  BY <1>4 DEF TypeUntilBytes, size, window, m
<1> HIDE DEF ends
<1>7. CASE ends # {} /\ rd' = Take(rd, Min(ends))
           /\ Goes(frames, Return(Raw(SubSeq(window, 1, Min(ends) - size))))
  <2>1. Valid(rd')
    BY <1>1, <1>5, <1>7, TakeValid
  <2> QED BY <1>1, <1>7, <2>1, ReturnsHere
<1>8. CASE rd' = Take(rd, m) /\ Throws(frames, "restore")
  <2>1. Valid(rd')
    BY <1>1, <1>3, <1>8, TakeValid
  <2> QED BY <1>1, <1>8, <2>1, ThrowsKept DEF Failures
<1> QED BY <1>1, <1>6, <1>7, <1>8, FailsCalled DEF Failures

LEMMA UntilBegins ==
    ASSUME DecoderInv, TypeUntil
    PROVE  DecoderInv'
<1> DEFINE type == ret.type
           n == Minimum(type.max + Len(type.term), Remaining(rd))
           f == [k |-> "until", elem |-> Until(Dims(type, <<>>), <<>>, 0),
                 term |-> type.term, max |-> type.max, saved |-> rd, vals |-> <<>>]
<1>1. /\ Calling /\ ret.type.term # <<>>
      /\ frames # <<>> /\ StackOK(plan, frames) /\ Last(frames).k \in Callers /\ Valid(rd)
      /\ ExecutableType(plan, type)
  BY CallingInside DEF TypeUntil
<1>2. n \in Nat /\ n <= Remaining(rd) /\ Remaining(rd) \in Nat
  <2>1. type.max + Len(type.term) \in Nat /\ Remaining(rd) \in Nat
    BY <1>1, RemainingNat, LenProperties DEF ExecutableType
  <2> QED BY <2>1, MinimumNat
<1>3. \/ rd' = PushLimit(rd, n) /\ Goes(Append(frames, f), Step)
      \/ UNCHANGED rd /\ Fails(frames, "invalid")
  BY DEF TypeUntil, Push
<1> HIDE DEF n
<1>4. CASE rd' = PushLimit(rd, n) /\ Goes(Append(frames, f), Step)
  <2>1. CanPushLimit(rd, n)
    BY <1>1, <1>2 DEF CanPushLimit, CanPushLimitEnd, Remaining, Valid, State
  <2>2. Valid(rd')
    BY <1>1, <1>2, <1>4, <2>1, PushLimitValid
  <2>3. FrameOK(plan, f) /\ f.k = "until"
    <3>1. ExecutableType(plan, f.elem)
      BY <1>1, ElementType, EmptySeq DEF IsSeq
    <3>2. /\ f.k = "until" /\ "k" \in DOMAIN f /\ Valid(f.saved)
          /\ f.term \in Seq(Nat) /\ f.max \in Nat
      BY <1>1 DEF ExecutableType
    <3> HIDE DEF f
    <3> QED BY <3>1, <3>2 DEF FrameOK, BodyOK, PlaceOK, LoopOK, GroupOK, Bodies, Callers
  <2> HIDE DEF f
  <2>4. /\ StackOK(plan, Append(frames, f)) /\ Append(frames, f) # <<>>
        /\ Last(Append(frames, f)) = f
    BY <1>1, <2>3, StackPush DEF Follows, Enclosed
  <2>5. TopOK(plan, f, Step, rd')
    BY <2>3 DEF TopOK, Step
  <2> QED BY <1>1, <1>4, <2>2, <2>4, <2>5, GoesKept
<1> QED BY <1>1, <1>3, <1>4, FailsCalled DEF Failures

\* The frames of a terminated sequence: what it kept, and who called it.
LEMMA UntilFacts ==
    ASSUME DecoderInv, frames # <<>>, Top.k = "until"
    PROVE  /\ Valid(rd) /\ StackOK(plan, frames) /\ Last(frames) = Top /\ FrameOK(plan, Top)
           /\ Valid(Top.saved) /\ Top.term \in Seq(Nat) /\ Len(Top.term) \in Nat
           /\ Top.max \in Nat /\ ExecutableType(plan, Top.elem)
           /\ Below # <<>> /\ StackOK(plan, Below) /\ Last(Below).k \in Callers
           /\ Last(Below).k # "bits"
<1>1. Valid(rd) /\ StackOK(plan, frames) /\ FrameOK(plan, Top)
  BY InsideFacts
<1>2. Below # <<>> /\ StackOK(plan, Below) /\ Last(Below).k \in Callers
  BY BelowCalled, BelowRoot DEF Enclosed
<1> QED BY <1>1, <1>2, LenProperties DEF FrameOK, PlaceOK, LoopOK, Top, Callers

LEMMA PopsValid ==
    ASSUME NEW r, Valid(r)
    PROVE  Valid(IF CanPopLimit(r) THEN PopLimit(r) ELSE r)
BY PopLimitValid

LEMMA Undoes ==
    ASSUME DecoderInv, frames # <<>>, Top.k = "until", NEW why \in Failures, Undo(why)
    PROVE  DecoderInv'
<1>1. CASE rd' = Top.saved /\ Fails(Below, why)
  <2>1. Valid(rd')
    BY <1>1, UntilFacts
  <2> QED BY <1>1, <2>1, UntilFacts, FailsKept
<1>2. CASE /\ rd' = (IF CanPopLimit(rd) THEN PopLimit(rd) ELSE rd)
           /\ Throws(Below, "restore")
  <2>1. Valid(rd')
    BY <1>2, UntilFacts, PopsValid
  <2> QED BY <1>2, <2>1, UntilFacts, ThrowsKept DEF Failures
<1> QED BY <1>1, <1>2 DEF Undo

LEMMA UntilTurns ==
    ASSUME DecoderInv, UntilStep
    PROVE  DecoderInv'
<1> DEFINE size == Len(Top.term)
           after == Take(rd, size)
<1>1. /\ frames # <<>> /\ Top.k = "until" /\ Valid(rd) /\ size \in Nat
      /\ Remaining(rd) \in Nat /\ Top.term \in Seq(Nat)
  BY UntilFacts, RemainingNat DEF UntilStep, Running
<1>2. CASE Remaining(rd) >= size /\ ~Restorable(rd)
  <2> DEFINE differ == {i \in DOMAIN Top.term : input[rd.pos + i] # Top.term[i]}
  <2>1. DOMAIN Top.term = 1..size
    BY <1>1, LenProperties
  <2>2. differ # {} => Min(differ) \in 1..size
    <3>1. differ \subseteq 1..size /\ differ \subseteq Nat
      BY <1>1, <2>1
    <3> HIDE DEF differ
    <3> QED BY <3>1, MinIn
  <2>3. Probed(Top.term) = IF differ = {} THEN size ELSE Min(differ)
    BY DEF Probed
  <2>4. Probed(Top.term) \in Nat /\ Probed(Top.term) <= Remaining(rd)
    <3> HIDE DEF differ, size
    <3> QED BY <1>1, <1>2, <2>2, <2>3
  <2>5. rd' = Take(rd, Probed(Top.term)) /\ Throws(Below, "restore")
    BY <1>2 DEF UntilStep
  <2>6. Valid(rd')
    BY <1>1, <2>4, <2>5, TakeValid
  <2> QED BY <1>1, <2>5, <2>6, UntilFacts, ThrowsKept DEF Failures
<1>3. CASE ~(Remaining(rd) >= size /\ ~Restorable(rd)) /\ AtTerminator
  <2>1. Valid(after)
    BY <1>1, <1>3, TakeValid DEF AtTerminator
  <2>2. CASE CanPopLimit(after)
    <3>1. rd' = PopLimit(after) /\ Goes(Below, Return(List(Top.vals)))
      BY <1>3, <2>2 DEF UntilStep
    <3>2. Valid(rd')
      BY <2>1, <2>2, <3>1, PopLimitValid
    <3>3. TopOK(plan, Last(Below), Return(List(Top.vals)), rd')
      BY <1>1, UntilFacts DEF TopOK, Return, Callers
    <3> QED BY <1>1, <3>1, <3>2, <3>3, UntilFacts, GoesKept
  <2>3. CASE ~CanPopLimit(after)
    <3>1. rd' = after /\ Throws(Below, "limit")
      BY <1>3, <2>3 DEF UntilStep
    <3> QED BY <1>1, <2>1, <3>1, UntilFacts, ThrowsKept DEF Failures
  <2> QED BY <2>2, <2>3
<1>4. CASE ~(Remaining(rd) >= size /\ ~Restorable(rd)) /\ ~AtTerminator
  <2>1. CASE Undo("unterminated")
    BY <1>1, <2>1, Undoes DEF Failures
  <2>2. CASE Goes(frames, CallType(Top.elem)) /\ UNCHANGED rd
    <3>1. TopOK(plan, Last(frames), CallType(Top.elem), rd')
      BY <1>1, UntilFacts DEF TopOK, CallType, Callers
    <3> QED BY <1>1, <2>2, <3>1, UntilFacts, GoesKept
  <2> QED BY <1>4, <2>1, <2>2 DEF UntilStep
<1> QED BY <1>2, <1>3, <1>4

LEMMA UntilTakes ==
    ASSUME DecoderInv, UntilValue
    PROVE  DecoderInv'
<1> DEFINE f == [Top EXCEPT !.vals = Keep(@, ret.value)]
<1>1. frames # <<>> /\ Top.k = "until" /\ FrameOK(plan, Top)
  BY InsideFacts DEF UntilValue, Getting, Running
<1>2. CASE Undo("unterminated")
  BY <1>1, <1>2, Undoes DEF Failures
<1>3. CASE Goes(Append(Below, f), Step) /\ UNCHANGED rd
  <2>1. /\ f.k = "until" /\ f.elem = Top.elem /\ f.saved = Top.saved /\ f.term = Top.term
        /\ f.max = Top.max /\ DOMAIN f = DOMAIN Top
    BY <1>1 DEF FrameOK
  <2> HIDE DEF f
  <2>2. FrameOK(plan, f) /\ Alike(f, Top)
    BY <1>1, <2>1 DEF FrameOK, BodyOK, PlaceOK, LoopOK, GroupOK, Bodies, Alike
  <2>3. StackOK(plan, Append(Below, f)) /\ Append(Below, f) # <<>>
        /\ Last(Append(Below, f)) = f
    BY <1>1, <2>2, UntilFacts, StackReplace DEF Below, Top
  <2>4. TopOK(plan, f, Step, rd') /\ Valid(rd')
    BY <1>1, <1>3, <2>1, UntilFacts DEF TopOK, Step
  <2> QED BY <1>1, <1>3, <2>3, <2>4, GoesKept
<1> QED BY <1>2, <1>3 DEF UntilValue, Replace

LEMMA UntilFails ==
    ASSUME DecoderInv, FailUntil
    PROVE  DecoderInv'
<1>1. frames # <<>> /\ Top.k = "until"
  BY DEF FailUntil, Running
<1>2. CASE rd' = Top.saved /\ Goes(Below, False)
  <2>1. Valid(rd')
    BY <1>1, <1>2, UntilFacts
  <2>2. TopOK(plan, Last(Below), False, rd')
    BY <1>1, UntilFacts DEF TopOK, False
  <2> QED BY <1>1, <1>2, <2>1, <2>2, UntilFacts, GoesKept
<1>3. CASE /\ rd' = (IF CanPopLimit(rd) THEN PopLimit(rd) ELSE rd)
           /\ Throws(Below, "restore")
  <2>1. Valid(rd')
    BY <1>1, <1>3, UntilFacts, PopsValid
  <2> QED BY <1>1, <1>3, <2>1, UntilFacts, ThrowsKept DEF Failures
<1> QED BY <1>2, <1>3 DEF FailUntil

-----------------------------------------------------------------------------
\* member(): values, and operations whose frame is pushed.

\* The step goes on with a body frame that is not a group of bits.
LEMMA GoesOn ==
    ASSUME DecoderInv, frames # <<>>, Valid(rd'), NEW fs, Goes(fs, Step),
           StackOK(plan, fs), fs # <<>>, Last(fs).k # "bits"
    PROVE  DecoderInv'
<1>1. TopOK(plan, Last(fs), Step, rd')
  BY DEF TopOK, Step
<1> QED BY <1>1, GoesKept

\* An operation is done, and perhaps its member stored.
LEMMA GoesDone ==
    ASSUME DecoderInv, NEW kind, Doing(kind), Valid(rd'), NEW name, NEW v,
           Goes(Replace(Rest1), Step) \/ Goes(Replace(Stored(Rest1, name, v)), Step)
    PROVE  DecoderInv'
<1> DEFINE g == [Rest1 EXCEPT !.obj = Put(@, name, v)]
<1>1. /\ StackOK(plan, Replace(Rest1)) /\ Replace(Rest1) # <<>>
      /\ Last(Replace(Rest1)).k # "bits"
  BY Done
<1>2. /\ StackOK(plan, Replace(g)) /\ Replace(g) # <<>> /\ Last(Replace(g)).k # "bits"
  BY Done
<1>3. Stored(Rest1, name, v) = g
  BY DEF Stored
<1>4. frames # <<>>
  BY DoingFacts
<1> HIDE DEF g, Replace, Rest1
<1> QED BY <1>1, <1>2, <1>3, <1>4, GoesOn

LEMMA FailsDoing ==
    ASSUME DecoderInv, NEW kind, Doing(kind), UNCHANGED rd,
           NEW why \in Failures, Fails(frames, why) \/ Caught(frames, why)
    PROVE  DecoderInv'
BY DoingFacts, FailsHere

LEMMA VirtualStep ==
    ASSUME DecoderInv, DoVirtual
    PROVE  DecoderInv'
<1>1. Doing("virtual") /\ UNCHANGED rd /\ Valid(rd')
  BY DEF DoVirtual, DecoderInv
<1>2. CASE Evaluable(Op.expr, env)
  BY <1>1, <1>2, GoesDone DEF DoVirtual
<1>3. CASE ~Evaluable(Op.expr, env)
  BY <1>1, <1>3, FailsDoing DEF DoVirtual, Failures
<1> QED BY <1>2, <1>3

LEMMA AliasStep ==
    ASSUME DecoderInv, DoAlias
    PROVE  DecoderInv'
<1>1. Doing("alias") /\ UNCHANGED rd /\ Valid(rd')
  BY DEF DoAlias, DecoderInv
<1>2. CASE Op.target \in DOMAIN env
  BY <1>1, <1>2, GoesDone DEF DoAlias
<1>3. CASE Op.target \notin DOMAIN env
  BY <1>1, <1>3, FailsDoing DEF DoAlias, Failures
<1> QED BY <1>2, <1>3

LEMMA FieldBegins ==
    ASSUME DecoderInv, BeginField
    PROVE  DecoderInv'
<1> DEFINE f == [k |-> "field", field |-> Op]
<1>1. Doing("field") /\ rd' = SetEndian(rd, Op.endian)
      /\ Goes(Append(Replace(Rest1), f), CallType(Op.type))
  BY DEF BeginField
<1>2. Op.endian \in Endian /\ ExecutableType(plan, Op.type) /\ frames # <<>>
  BY <1>1, DoingFacts DEF ExecutableOp, Orders, Endian
<1>3. Valid(rd')
  BY <1>1, <1>2, SetEndianValid DEF DecoderInv
<1>4. f.k = "field" /\ "k" \in DOMAIN f
  OBVIOUS
<1> HIDE DEF f
<1>5. FrameOK(plan, f) /\ f.k \notin Enclosed
  BY <1>4 DEF FrameOK, BodyOK, PlaceOK, LoopOK, GroupOK, Bodies, Callers, Enclosed
<1>6. /\ StackOK(plan, Append(Replace(Rest1), f)) /\ Append(Replace(Rest1), f) # <<>>
      /\ Last(Append(Replace(Rest1), f)) = f
  BY <1>1, <1>5, Begun
<1>7. TopOK(plan, f, CallType(Op.type), rd')
  BY <1>2, <1>4 DEF TopOK, CallType, Callers
<1> QED BY <1>1, <1>2, <1>3, <1>6, <1>7, GoesKept

\* A frame of member() ends: its member, or its members, go to the frame below.
LEMMA EndsInto ==
    ASSUME DecoderInv, frames # <<>>, Top.k \notin Enclosed, Valid(rd'),
           NEW name, NEW v, Goes(MergedBelow, Step) \/ Goes(StoredBelow(name, v), Step)
    PROVE  DecoderInv'
<1> DEFINE merged == Popped([Last(Below) EXCEPT !.obj = Merge(@, Top.obj)])
           stored == Popped([Last(Below) EXCEPT !.obj = Put(@, name, v)])
<1>1. StackOK(plan, merged) /\ merged # <<>> /\ Last(merged).k # "bits"
  BY Stores
<1>2. StackOK(plan, stored) /\ stored # <<>> /\ Last(stored).k # "bits"
  BY Stores
<1>3. MergedBelow = merged /\ StoredBelow(name, v) = stored
  BY DEF MergedBelow, StoredBelow, Stored
<1> HIDE DEF merged, stored
<1> QED BY <1>1, <1>2, <1>3, GoesOn

LEMMA FieldEnds ==
    ASSUME DecoderInv, FieldValue
    PROVE  DecoderInv'
<1>1. frames # <<>> /\ Top.k = "field" /\ UNCHANGED rd /\ Valid(rd') /\ Top.k \notin Enclosed
  BY DEF FieldValue, Getting, Running, DecoderInv, Enclosed
<1>2. CASE Asserted(Top.field, ret.value)
  BY <1>1, <1>2, EndsInto DEF FieldValue
<1>3. CASE ~Asserted(Top.field, ret.value)
  BY <1>1, <1>3, BelowBody, FailsKept DEF FieldValue, Failures
<1> QED BY <1>2, <1>3

-----------------------------------------------------------------------------
\* member(): a bit group.

LEMMA WidthsNat == /\ Widest \in Nat
                   /\ \A w : w \in Widths <=> w \in 1..64
                   /\ \A w \in Widths : w \in Nat /\ w # 0 /\ w <= Widest
<1>1. Widest = 64 /\ Widths = 1..Widest
  BY DEF Widest, Widths
<1>2. \A w \in Widths : w \in Nat /\ w # 0 /\ w <= Widest
  <2> HIDE DEF Widest, Widths
  <2>1. Widest \in Nat
    BY <1>1
  <2> QED BY <1>1, <2>1
<1> QED BY <1>1, <1>2

LEMMA GroupEnough ==
    ASSUME NEW op, ExecutableBits(op)
    PROVE  op.total \in Widths /\ Enough(op.fields, op.total)
<1>1. op.total \in 1..64 /\ AddUp(op.fields, op.total)
  BY DEF ExecutableBits
<1>2. op.total \in Widths /\ op.total \in 0..Widest
  <2>1. op.total \in Widths
    BY <1>1, WidthsNat
  <2>2. op.total \in Nat /\ op.total <= Widest /\ Widest \in Nat
    BY <2>1, WidthsNat
  <2> QED BY <2>1, <2>2
<1>3. \A f : f.width \in 1..64 <=> f.width \in Widths
  BY WidthsNat
<1>4. Enough(op.fields, op.total)
  BY <1>1, <1>2, <1>3, Zenon DEF AddUp, Enough
<1> QED BY <1>2, <1>4

LEMMA EnoughTail ==
    ASSUME NEW fields, fields \in Seq(Range(fields)), fields # <<>>,
           NEW n \in Nat, Enough(fields, n)
    PROVE  /\ Head(fields).width \in Widths /\ Head(fields).width <= n
           /\ Enough(Tail(fields), n - Head(fields).width)
<1> DEFINE w == Head(fields).width
           len == Len(fields)
<1>1. /\ len \in Nat \ {0} /\ Head(fields) = fields[1] /\ Tail(fields) \in Seq(Range(fields))
      /\ Len(Tail(fields)) = len - 1
      /\ \A i \in 1..(len - 1) : Tail(fields)[i] = fields[i + 1]
  BY EmptySeq, HeadTailProperties DEF Head
<1>2. PICK total \in 0..Widest : \E left \in [1..(len + 1) -> 0..total] :
          /\ left[1] = n /\ left[len + 1] = 0
          /\ \A i \in 1..len : /\ fields[i].width \in Widths
                               /\ left[i + 1] = left[i] - fields[i].width
  BY DEF Enough
<1>3. PICK left \in [1..(len + 1) -> 0..total] :
          /\ left[1] = n /\ left[len + 1] = 0
          /\ \A i \in 1..len : /\ fields[i].width \in Widths
                               /\ left[i + 1] = left[i] - fields[i].width
  BY <1>2
<1>0. total \in Nat
  BY <1>2, WidthsNat
<1> HIDE DEF len, w
<1>4. w \in Widths /\ left[2] = n - w /\ w <= n
  <2>1. 1 \in 1..len /\ 2 \in 1..(len + 1) /\ 1 + 1 = 2
    BY <1>1
  <2>2. /\ left[2] = left[1] - fields[1].width /\ left[2] \in 0..total
        /\ fields[1].width \in Widths
    BY <1>3, <2>1
  <2>3. w \in Widths /\ left[2] = n - w
    BY <1>1, <1>3, <2>2 DEF w
  <2>4. w \in Nat /\ left[2] \in Nat
    BY <1>0, <2>2, <2>3, WidthsNat
  <2> QED BY <2>3, <2>4
<1> DEFINE rest == [i \in 1..len |-> left[i + 1]]
<1>5. rest \in [1..len -> 0..total]
  <2>1. \A i \in 1..len : i + 1 \in 1..(len + 1)
    BY <1>1
  <2> QED BY <1>3, <2>1
<1>6. rest[1] = n - w /\ rest[len] = 0
  BY <1>1, <1>3, <1>4
<1>7. \A i \in 1..(len - 1) : /\ Tail(fields)[i].width \in Widths
                              /\ rest[i + 1] = rest[i] - Tail(fields)[i].width
  BY <1>1, <1>3
<1> HIDE DEF rest, w
<1>8. (len - 1) + 1 = len
  BY <1>1
<1>9. Enough(Tail(fields), n - w)
  <2>1. /\ rest \in [1..(Len(Tail(fields)) + 1) -> 0..total]
        /\ rest[1] = n - w /\ rest[Len(Tail(fields)) + 1] = 0
        /\ \A i \in 1..Len(Tail(fields)) : /\ Tail(fields)[i].width \in Widths
                                           /\ rest[i + 1] = rest[i] - Tail(fields)[i].width
    BY <1>1, <1>5, <1>6, <1>7, <1>8
  <2> QED BY <1>2, <2>1 DEF Enough
<1> QED BY <1>4, <1>9 DEF w

LEMMA GroupBegins ==
    ASSUME DecoderInv, BeginGroup
    PROVE  DecoderInv'
<1> DEFINE f == [k |-> "bits", todo |-> Op.fields, order |-> Op.fields[1].endian]
<1>1. Doing("bits") /\ frames # <<>> /\ Valid(rd) /\ ExecutableBits(Op)
  BY DoingFacts DEF BeginGroup, DecoderInv, ExecutableOp
<1>2. CASE CanBeginBits(rd, Op.total)
  <2>1. rd' = BeginBits(rd, Op.total) /\ Goes(Append(Replace(Rest1), f), Step)
    BY <1>2 DEF BeginGroup
  <2>2. Op.total \in Nat /\ Enough(Op.fields, Op.total)
    BY <1>1, GroupEnough, WidthsNat
  <2>3. Valid(rd') /\ rd'.bits = Op.total
    BY <1>1, <1>2, <2>1, <2>2, BeginBitsValid
  <2>4. f.k = "bits" /\ f.todo = Op.fields /\ {"k", "todo"} \subseteq DOMAIN f
    OBVIOUS
  <2> HIDE DEF f
  <2>5. FrameOK(plan, f) /\ f.k \notin Enclosed
    BY <1>1, <2>4 DEF FrameOK, BodyOK, PlaceOK, LoopOK, GroupOK, Bodies, Callers, Enclosed,
                      ExecutableBits
  <2>6. /\ StackOK(plan, Append(Replace(Rest1), f)) /\ Append(Replace(Rest1), f) # <<>>
        /\ Last(Append(Replace(Rest1), f)) = f
    BY <1>1, <2>5, Begun
  <2>7. TopOK(plan, f, Step, rd')
    BY <2>2, <2>3, <2>4 DEF TopOK, Step
  <2> QED BY <1>1, <2>1, <2>3, <2>6, <2>7, GoesKept
<1>3. CASE ~CanBeginBits(rd, Op.total)
  BY <1>1, <1>3, FailsDoing DEF BeginGroup, Failures
<1> QED BY <1>2, <1>3

\* The group that is read, in whatever order the reader has.
LEMMA GroupFacts ==
    ASSUME DecoderInv, frames # <<>>, Top.k = "bits"
    PROVE  /\ Valid(rd) /\ rd.bits \in Nat /\ FrameOK(plan, Top)
           /\ Top.todo \in Seq(Range(Top.todo)) /\ Enough(Top.todo, rd.bits)
           /\ Top.k \notin Enclosed
<1>1. Valid(rd) /\ FrameOK(plan, Top) /\ Enough(Top.todo, rd.bits)
  BY InsideFacts DEF TopOK
<1> QED BY <1>1 DEF FrameOK, GroupOK, Valid, State, Enclosed

\* The bits of a field are there, and leave enough for the others.
LEMMA FieldBits ==
    ASSUME DecoderInv, frames # <<>>, Top.k = "bits", Top.todo # <<>>
    PROVE  LET f == Head(Top.todo)
               r == Bits(SetEndian(rd, f.endian), f.width)
           IN  Valid(r) /\ Enough(Tail(Top.todo), r.bits)
<1> DEFINE f == Head(Top.todo)
           o == SetEndian(rd, f.endian)
<1>1. /\ Valid(rd) /\ rd.bits \in Nat /\ Top.todo \in Seq(Range(Top.todo))
      /\ Enough(Top.todo, rd.bits)
      /\ \A i \in 1..Len(Top.todo) : Top.todo[i].endian \in Orders
  BY GroupFacts DEF FrameOK, GroupOK
<1>2. f.endian \in Endian
  <2>1. Len(Top.todo) \in Nat \ {0} /\ f = Top.todo[1]
    BY <1>1, EmptySeq DEF Head
  <2> QED BY <1>1, <2>1 DEF Orders, Endian
<1>3. /\ f.width \in Widths /\ f.width <= rd.bits
      /\ Enough(Tail(Top.todo), rd.bits - f.width)
  BY <1>1, EnoughTail
<1>4. f.width \in Nat /\ f.width # 0 /\ f.width \in 1..64
  BY <1>3, WidthsNat
<1>5. Valid(o) /\ o.bits = rd.bits /\ "bits" \in DOMAIN o
  BY <1>1, <1>2, SetEndianValid DEF SetEndian, Valid, State
<1> HIDE DEF f, o
<1>6. o.bits # 0 /\ f.width <= o.bits
  BY <1>1, <1>3, <1>4, <1>5
<1>7. Loaded(o, f.width) = o /\ CanBits(o, f.width)
  BY <1>4, <1>6 DEF Loaded, CanBits
<1>8. Valid(Bits(o, f.width))
  BY <1>4, <1>5, <1>7, BitsValid
<1>9. Bits(o, f.width).bits = rd.bits - f.width
  BY <1>5, <1>7 DEF Bits
<1> QED BY <1>3, <1>8, <1>9 DEF o, f

LEMMA GroupGoesOn ==
    ASSUME DecoderInv, GroupField
    PROVE  DecoderInv'
<1> DEFINE f == Head(Top.todo)
           r == Bits(SetEndian(rd, f.endian), f.width)
           v == BitsValue(Loaded(SetEndian(rd, f.endian), f.width), f.width)
           t == [Top EXCEPT !.todo = Tail(@)]
           under == StoredBelow(f.sym, Num(v))
<1>1. /\ frames # <<>> /\ Top.k = "bits" /\ Top.todo # <<>> /\ FrameOK(plan, Top)
      /\ Top.k \notin Enclosed /\ Top.todo \in Seq(Range(Top.todo))
  BY GroupFacts DEF GroupField, Running
<1>2. Valid(r) /\ Enough(Tail(Top.todo), r.bits)
  BY <1>1, FieldBits
<1>3. \/ rd' = r /\ Goes(Append(under, t), Step)
      \/ rd' = EndBits(r) /\ Fails(Below, "assert")
      \/ rd' = r /\ Caught(Below, "bits")
  BY DEF GroupField
<1> HIDE DEF f, r, v
<1>4. CASE rd' = r /\ Goes(Append(under, t), Step)
  <2>1. t.k = "bits" /\ t.todo = Tail(Top.todo) /\ {"k", "todo"} \subseteq DOMAIN t
    BY <1>1 DEF FrameOK, GroupOK
  <2> HIDE DEF t
  <2>2. t.todo \in Seq(Range(t.todo)) /\ (\A i \in 1..Len(t.todo) : t.todo[i].endian \in Orders)
    <3>1. /\ Tail(Top.todo) \in Seq(Range(Top.todo))
          /\ Len(Tail(Top.todo)) = Len(Top.todo) - 1
          /\ \A i \in 1..Len(Tail(Top.todo)) : Tail(Top.todo)[i] = Top.todo[i + 1]
      BY <1>1, HeadTailProperties
    <3>2. \A i \in 1..(Len(Top.todo) - 1) : i + 1 \in 1..Len(Top.todo)
      BY <1>1, LenProperties
    <3>3. Tail(Top.todo) \in Seq(Range(Tail(Top.todo)))
      BY <3>1, SeqOfRange
    <3> QED BY <1>1, <2>1, <3>1, <3>2, <3>3 DEF FrameOK, GroupOK
  <2>3. FrameOK(plan, t)
    BY <2>1, <2>2 DEF FrameOK, BodyOK, PlaceOK, LoopOK, GroupOK, Bodies, Callers
  <2>4. StackOK(plan, under) /\ under # <<>> /\ Last(under).k \in Bodies
    BY <1>1, Stores DEF StoredBelow, Stored
  <2> HIDE DEF under
  <2>5. StackOK(plan, Append(under, t)) /\ Append(under, t) # <<>> /\ Last(Append(under, t)) = t
    BY <2>1, <2>3, <2>4, StackPush DEF Follows, Enclosed
  <2>6. TopOK(plan, t, Step, rd')
    BY <1>2, <1>4, <2>1 DEF TopOK, Step
  <2> QED BY <1>1, <1>2, <1>4, <2>5, <2>6, GoesKept
<1>5. CASE rd' = EndBits(r) /\ Fails(Below, "assert")
  <2>1. Valid(rd')
    BY <1>2, <1>5, EndBitsValid
  <2> QED BY <1>1, <1>5, <2>1, BelowBody, FailsKept DEF Failures
<1>6. CASE rd' = r /\ Caught(Below, "bits")
  BY <1>1, <1>2, <1>6, BelowBody, FailsKept DEF Failures
<1> QED BY <1>3, <1>4, <1>5, <1>6

LEMMA GroupEnds ==
    ASSUME DecoderInv, EndGroup
    PROVE  DecoderInv'
<1>1. frames # <<>> /\ Top.k = "bits" /\ Top.k \notin Enclosed /\ Valid(rd)
  BY GroupFacts DEF EndGroup, Running
<1>2. CASE CanEndBits(rd)
  <2>1. Valid(rd')
    BY <1>1, <1>2, EndBitsValid DEF EndGroup
  <2> QED BY <1>1, <1>2, <2>1, BelowBody, GoesOn DEF EndGroup
<1>3. CASE ~CanEndBits(rd)
  BY <1>1, <1>3, BelowBody, FailsKept DEF EndGroup, Failures
<1> QED BY <1>2, <1>3

-----------------------------------------------------------------------------
\* member(): position.

LEMMA AlignStep ==
    ASSUME DecoderInv, DoAlign
    PROVE  DecoderInv'
<1>1. Doing("align") /\ Valid(rd) /\ Op.to \in Nat /\ Op.to # 0
  BY DoingFacts DEF DoAlign, DecoderInv, ExecutableOp
<1>2. CASE CanAlign(rd, Op.to)
  <2>1. rd' = Align(rd, Op.to) /\ Goes(Replace(Rest1), Step)
    BY <1>2 DEF DoAlign
  <2>2. Valid(rd')
    BY <1>1, <1>2, <2>1, AlignValid
  <2> QED BY <1>1, <2>1, <2>2, GoesDone
<1>3. CASE ~CanAlign(rd, Op.to)
  BY <1>1, <1>3, FailsDoing DEF DoAlign, Failures
<1> QED BY <1>2, <1>3

\* A body of operations of the plan may be pushed.
LEMMA GoesInto ==
    ASSUME DecoderInv, NEW kind, Doing(kind), Valid(rd'),
           NEW f, "k" \in DOMAIN f, f.k \in {"block", "at", "branch", "case"},
           BodyOK(plan, f), PlaceOK(f),
           Goes(Append(Replace(Rest1), f), Step)
    PROVE  DecoderInv'
<1>1. FrameOK(plan, f) /\ f.k \notin Enclosed /\ f.k # "bits"
  BY DEF FrameOK, LoopOK, GroupOK, Bodies, Enclosed
<1>2. /\ StackOK(plan, Append(Replace(Rest1), f)) /\ Append(Replace(Rest1), f) # <<>>
      /\ Last(Append(Replace(Rest1), f)) = f
  BY <1>1, Begun
<1> QED BY <1>1, <1>2, DoingFacts, GoesOn

LEMMA AtBegins ==
    ASSUME DecoderInv, BeginAt
    PROVE  DecoderInv'
<1> DEFINE known == Put(env, "$next", rd.pos)
           offset == Chosen(Op.static, Op.offset)
           f == [k |-> "at", todo |-> Op.body, obj |-> NoMembers, back |-> rd.pos]
<1>1. Doing("at") /\ Valid(rd) /\ rd.pos \in Nat /\ Op.body \in Seq(AllOps(plan))
  BY DoingFacts DEF BeginAt, DecoderInv, ExecutableOp, Valid, State
<1>2. CASE ~CanSize(offset, known)
  BY <1>1, <1>2, FailsDoing DEF BeginAt, Failures
<1>3. CASE CanSize(offset, known) /\ ~CanSeekRoot(rd, Eval(offset, known))
  BY <1>1, <1>3, FailsDoing DEF BeginAt, Failures
<1>4. CASE CanSize(offset, known) /\ CanSeekRoot(rd, Eval(offset, known))
  <2>1. /\ rd' = Seek(rd, Eval(offset, known)) /\ Eval(offset, known) \in Nat
        /\ CanSeek(rd, Eval(offset, known))
        /\ Goes(Append(Replace(Rest1), f), Step)
    BY <1>4 DEF BeginAt, CanSize, CanSeekRoot, CanSeek
  <2>2. Valid(rd')
    BY <1>1, <2>1, SeekValid
  <2>3. BodyOK(plan, f) /\ PlaceOK(f) /\ f.k = "at" /\ "k" \in DOMAIN f
    BY <1>1 DEF BodyOK, PlaceOK
  <2> HIDE DEF f
  <2> QED BY <1>1, <2>1, <2>2, <2>3, GoesInto
<1> QED BY <1>2, <1>3, <1>4

LEMMA BlockBegins ==
    ASSUME DecoderInv, BeginBlock
    PROVE  DecoderInv'
<1> DEFINE size == Chosen(Op.static, Op.size)
           n == Eval(size, env)
           f == [k |-> "block", todo |-> Op.body, obj |-> NoMembers,
                 start |-> rd.pos, end |-> rd.pos + n]
<1>1. /\ Doing("block") /\ Valid(rd) /\ rd.pos \in Nat /\ Op.body \in Seq(AllOps(plan))
      /\ Remaining(rd) \in Nat
  BY DoingFacts, RemainingNat DEF BeginBlock, DecoderInv, ExecutableOp
<1>2. CASE ~CanSize(size, env)
  BY <1>1, <1>2, FailsDoing DEF BeginBlock, Failures
<1>3. CASE CanSize(size, env) /\ n > Remaining(rd)
  BY <1>1, <1>3, FailsDoing DEF BeginBlock, Failures
<1>4. CASE CanSize(size, env) /\ ~(n > Remaining(rd))
  <2>1. rd' = PushLimit(rd, n) /\ n \in Nat /\ Goes(Append(Replace(Rest1), f), Step)
    BY <1>4 DEF BeginBlock, CanSize
  <2> HIDE DEF n
  <2>2. n <= Remaining(rd)
    BY <1>1, <1>4, <2>1
  <2>3. CanPushLimit(rd, n)
    BY <1>1, <2>1, <2>2 DEF CanPushLimit, CanPushLimitEnd, Remaining, Valid, State
  <2>4. Valid(rd')
    BY <1>1, <2>1, <2>3, PushLimitValid
  <2>5. BodyOK(plan, f) /\ PlaceOK(f) /\ f.k = "block" /\ "k" \in DOMAIN f
    BY <1>1, <2>1 DEF BodyOK, PlaceOK
  <2> HIDE DEF f
  <2> QED BY <1>1, <2>1, <2>4, <2>5, GoesInto
<1> QED BY <1>2, <1>3, <1>4

LEMMA PlaceFacts ==
    ASSUME DecoderInv, frames # <<>>, Top.k \in {"at", "block"}
    PROVE  /\ Valid(rd) /\ Top.k \notin Enclosed
           /\ Top.k = "at" => Top.back \in Nat
           /\ Top.k = "block" => Top.start \in Nat /\ Top.end \in Nat
BY InsideFacts DEF FrameOK, PlaceOK, Enclosed

LEMMA AtEnds ==
    ASSUME DecoderInv, EndAt
    PROVE  DecoderInv'
<1>1. frames # <<>> /\ Top.k = "at" /\ Valid(rd) /\ Top.k \notin Enclosed /\ Top.back \in Nat
  BY PlaceFacts DEF EndAt, Ending, Running
<1>2. CASE CanSeek(rd, Top.back)
  <2>1. Valid(rd')
    BY <1>1, <1>2, SeekValid DEF EndAt
  <2> QED BY <1>1, <1>2, <2>1, EndsInto DEF EndAt
<1>3. CASE ~CanSeek(rd, Top.back)
  BY <1>1, <1>3, BelowBody, FailsKept DEF EndAt, Failures
<1> QED BY <1>2, <1>3

\* A frame of member() is left with false.
LEMMA FailsInto ==
    ASSUME DecoderInv, frames # <<>>, Top.k \notin Enclosed, Valid(rd'), Goes(Below, False)
    PROVE  DecoderInv'
<1>1. TopOK(plan, Last(Below), False, rd')
  BY BelowBody DEF TopOK, False
<1> QED BY <1>1, BelowBody, GoesKept

LEMMA AtFails ==
    ASSUME DecoderInv, FailAt
    PROVE  DecoderInv'
<1>1. frames # <<>> /\ Top.k = "at" /\ Valid(rd) /\ Top.k \notin Enclosed /\ Top.back \in Nat
  BY PlaceFacts DEF FailAt, Running
<1>2. CASE CanSeek(rd, Top.back)
  <2>1. Valid(rd')
    BY <1>1, <1>2, SeekValid DEF FailAt
  <2> QED BY <1>1, <1>2, <2>1, FailsInto DEF FailAt
<1>3. CASE ~CanSeek(rd, Top.back)
  BY <1>1, <1>3, BelowBody, FailsKept DEF FailAt, Failures
<1> QED BY <1>2, <1>3

\* The reader that leaves a block for its start, or as far as that went.
LEMMA BlockLeft ==
    ASSUME DecoderInv, frames # <<>>, Top.k = "block"
    PROVE  /\ CanPopLimit(rd) /\ CanSeek(PopLimit(rd), Top.start)
                => Valid(Seek(PopLimit(rd), Top.start))
           /\ Valid(IF CanPopLimit(rd) THEN PopLimit(rd) ELSE rd)
<1>1. Valid(rd) /\ Top.start \in Nat
  BY PlaceFacts
<1> QED BY <1>1, PopLimitValid, SeekValid

LEMMA BlockEnds ==
    ASSUME DecoderInv, EndBlock
    PROVE  DecoderInv'
<1> DEFINE atEnd == Seek(rd, Top.end)
<1>1. frames # <<>> /\ Top.k = "block" /\ Valid(rd) /\ Top.k \notin Enclosed /\ Top.end \in Nat
  BY PlaceFacts DEF EndBlock, Ending, Running
<1>2. CanSeek(rd, Top.end) => Valid(atEnd) /\ (CanPopLimit(atEnd) => Valid(PopLimit(atEnd)))
  BY <1>1, SeekValid, PopLimitValid
<1>3. Valid(rd') /\ (\/ Fails(Below, "block") \/ Caught(Below, "limit")
                     \/ Goes(MergedBelow, Step))
  BY <1>1, <1>2, BlockLeft DEF EndBlock
<1> QED BY <1>1, <1>3, BelowBody, FailsKept, EndsInto DEF Failures

LEMMA BlockFails ==
    ASSUME DecoderInv, FailBlock
    PROVE  DecoderInv'
<1>1. frames # <<>> /\ Top.k = "block" /\ Valid(rd) /\ Top.k \notin Enclosed
  BY PlaceFacts DEF FailBlock, Running
<1>2. Valid(rd') /\ (Goes(Below, False) \/ Caught(Below, "limit"))
  BY <1>1, BlockLeft DEF FailBlock
<1> QED BY <1>1, <1>2, BelowBody, FailsKept, FailsInto DEF Failures

-----------------------------------------------------------------------------
\* member(): choice and callbacks.

LEMMA IfBegins ==
    ASSUME DecoderInv, BeginIf
    PROVE  DecoderInv'
<1> DEFINE f == Body("branch", IF Eval(Op.cond, env) THEN Op.then ELSE Op.else)
<1>1. /\ Doing("if") /\ UNCHANGED rd /\ Valid(rd')
      /\ Op.then \in Seq(AllOps(plan)) /\ Op.else \in Seq(AllOps(plan))
  BY DoingFacts DEF BeginIf, DecoderInv, ExecutableOp
<1>2. CASE Evaluable(Op.cond, env)
  <2>1. Goes(Append(Replace(Rest1), f), Step)
    BY <1>2 DEF BeginIf
  <2>2. BodyOK(plan, f) /\ PlaceOK(f) /\ f.k = "branch" /\ "k" \in DOMAIN f
    BY <1>1 DEF BodyOK, PlaceOK, Body
  <2> HIDE DEF f
  <2> QED BY <1>1, <2>1, <2>2, GoesInto
<1>3. CASE ~Evaluable(Op.cond, env)
  BY <1>1, <1>3, FailsDoing DEF BeginIf, Failures
<1> QED BY <1>2, <1>3

LEMMA BodyEnds ==
    ASSUME DecoderInv, EndBranch \/ EndCase \/ TypedValue
    PROVE  DecoderInv'
<1>1. frames # <<>> /\ Top.k \in {"branch", "case", "typed"} /\ UNCHANGED rd
  BY DEF EndBranch, EndCase, TypedValue, Ending, Getting, Running
<1>2. Valid(rd') /\ Top.k \notin Enclosed
  BY <1>1 DEF DecoderInv, Enclosed
<1> QED BY <1>1, <1>2, EndsInto DEF EndBranch, EndCase, TypedValue

LEMMA ChosenCase ==
    ASSUME DecoderInv, Doing("variant"), NEW tag
    PROVE  LET matching == {i \in DOMAIN Op.cases : Op.cases[i].tag = tag}
               chosen == IF matching = {} THEN Op.default ELSE <<Op.cases[Min(matching)]>>
           IN  chosen # <<>> => /\ ExecutableType(plan, Head(chosen).type)
                                /\ Head(chosen).body \in Seq(AllOps(plan))
<1> DEFINE matching == {i \in DOMAIN Op.cases : Op.cases[i].tag = tag}
           Good(c) == ExecutableType(plan, c.type) /\ c.body \in Seq(AllOps(plan))
<1>1. /\ DOMAIN Op.cases = 1..Len(Op.cases) /\ Len(Op.cases) \in Nat
      /\ Op.default # <<>> => 1 \in DOMAIN Op.default
      /\ \A c \in Range(Op.cases) \cup Range(Op.default) : Good(c)
  BY DoingFacts DEF ExecutableOp
<1>2. matching # {} => Good(Op.cases[Min(matching)])
  <2>1. matching \subseteq Nat /\ matching \subseteq DOMAIN Op.cases
    BY <1>1
  <2>2. matching # {} => Min(matching) \in DOMAIN Op.cases
    <3> HIDE DEF matching
    <3> QED BY <2>1, MinIn
  <2> HIDE DEF Good, matching
  <2> QED BY <1>1, <2>2 DEF Range
<1>3. Op.default # <<>> => Good(Op.default[1])
  <2> HIDE DEF Good
  <2> QED BY <1>1 DEF Range
<1>4. Head(Op.default) = Op.default[1]
  BY DEF Head
<1>5. \A c : Head(<<c>>) = c
  BY DEF Head
<1> DEFINE chosen == IF matching = {} THEN Op.default ELSE <<Op.cases[Min(matching)]>>
<1>6. chosen # <<>> => Good(Head(chosen))
  <2> HIDE DEF Good, matching
  <2> QED BY <1>2, <1>3, <1>4, <1>5
<1> QED BY <1>6

LEMMA VariantBegins ==
    ASSUME DecoderInv, BeginVariant
    PROVE  DecoderInv'
<1> DEFINE tag == Eval(Op.tag, env)
           matching == {i \in DOMAIN Op.cases : Op.cases[i].tag = tag}
           chosen == IF matching = {} THEN Op.default ELSE <<Op.cases[Min(matching)]>>
           typed == [k |-> "typed", name |-> Op.sym]
           body == [k |-> "case", todo |-> Head(chosen).body, obj |-> NoMembers, name |-> Op.sym]
<1>1. Doing("variant") /\ UNCHANGED rd /\ Valid(rd') /\ frames # <<>>
  BY DoingFacts DEF BeginVariant, DecoderInv
<1>2. chosen # <<>> => /\ ExecutableType(plan, Head(chosen).type)
                       /\ Head(chosen).body \in Seq(AllOps(plan))
  BY <1>1, ChosenCase
<1>3. \/ Fails(frames, "expression") \/ Fails(frames, "variant")
      \/ chosen # <<>> /\ Goes(Append(Replace(Rest1), typed), CallType(Head(chosen).type))
      \/ chosen # <<>> /\ Goes(Append(Replace(Rest1), body), Step)
  BY DEF BeginVariant
<1> HIDE DEF chosen
<1>4. CASE chosen # <<>> /\ Goes(Append(Replace(Rest1), typed), CallType(Head(chosen).type))
  <2>1. typed.k = "typed" /\ "k" \in DOMAIN typed
    OBVIOUS
  <2> HIDE DEF typed
  <2>2. FrameOK(plan, typed) /\ typed.k \notin Enclosed
    BY <2>1 DEF FrameOK, BodyOK, PlaceOK, LoopOK, GroupOK, Bodies, Callers, Enclosed
  <2>3. /\ StackOK(plan, Append(Replace(Rest1), typed)) /\ Append(Replace(Rest1), typed) # <<>>
        /\ Last(Append(Replace(Rest1), typed)) = typed
    BY <1>1, <2>2, Begun
  <2>4. TopOK(plan, typed, CallType(Head(chosen).type), rd')
    BY <1>2, <1>4, <2>1 DEF TopOK, CallType, Callers
  <2> QED BY <1>1, <1>4, <2>3, <2>4, GoesKept
<1>5. CASE chosen # <<>> /\ Goes(Append(Replace(Rest1), body), Step)
  <2>1. BodyOK(plan, body) /\ PlaceOK(body) /\ body.k = "case" /\ "k" \in DOMAIN body
    BY <1>2, <1>5 DEF BodyOK, PlaceOK
  <2> HIDE DEF body
  <2> QED BY <1>1, <1>5, <2>1, GoesInto
<1> QED BY <1>1, <1>3, <1>4, <1>5, FailsDoing DEF Failures

\* A callback may do to the reader what its methods allow, and no more.
LEMMA TouchedValid ==
    ASSUME Valid(rd), NEW how, CanTouch(how)
    PROVE  Valid(Touched(how))
<1>0. rd.pos \in Nat /\ rd.limit \in Nat /\ rd.pos <= rd.limit
  BY DEF Valid, State
<1>1. CASE how = "read"
  BY <1>1, TakeValid DEF CanTouch, Touched, CanUint
<1>2. CASE how = "push"
  BY <1>2, PushLimitValid DEF CanTouch, Touched
<1>3. CASE how = "pop"
  BY <1>3, PopLimitValid DEF CanTouch, Touched
<1>4. Valid(Seek(rd, 0))
  BY <1>0, SeekValid DEF CanSeek
<1>5. CASE how = "rewind"
  BY <1>4, <1>5 DEF Touched
<1>6. CASE how = "trap"
  <2>1. CanPushLimit(Seek(rd, 0), 0)
    BY <1>0 DEF CanPushLimit, CanPushLimitEnd, Seek, Valid, State
  <2>2. Touched(how) = PushLimit(Seek(rd, 0), 0)
    BY <1>6 DEF Touched
  <2> QED BY <1>4, <2>1, <2>2, PushLimitValid
<1>7. CASE how = "order"
  BY <1>7, SetEndianValid DEF Touched, Endian
<1>8. CASE how \notin {"read", "push", "pop", "rewind", "trap", "order"}
  BY <1>8 DEF Touched
<1> QED BY <1>1, <1>2, <1>3, <1>5, <1>6, <1>7, <1>8

LEMMA CallbackSteps ==
    ASSUME DecoderInv, Callbacks
    PROVE  DecoderInv'
<1>1. Doing("callback") /\ Valid(rd) /\ frames # <<>> /\ Top.k # "bits"
      /\ StackOK(plan, frames) /\ Last(frames) = Top
  BY DoingFacts DEF Callbacks, CallbackRefused, CallbackSucceeds, CallbackFails,
                    CallbackEscapes, DecoderInv
<1>2. CASE CallbackRefused \/ CallbackFails
  BY <1>1, <1>2, FailsDoing DEF CallbackRefused, CallbackFails, Failures
<1>3. CASE CallbackSucceeds
  <2>1. Valid(rd') /\ Goes(Replace(Rest1), Step)
    BY <1>1, <1>3, TouchedValid DEF CallbackSucceeds
  <2> QED BY <1>1, <2>1, GoesDone
<1>4. CASE CallbackEscapes
  <2>1. Valid(rd') /\ Caught(frames, "restore")
    BY <1>1, <1>4, TouchedValid DEF CallbackEscapes
  <2> QED BY <1>1, <2>1, FailsKept DEF Failures
<1> QED BY <1>2, <1>3, <1>4 DEF Callbacks

-----------------------------------------------------------------------------
\* Unwinding.

\* A struct that fails goes back to where it began; the root does so always,
\* for it began at the start of the input.
LEMMA StructFails ==
    ASSUME DecoderInv, FailStruct
    PROVE  DecoderInv'
<1>1. /\ frames # <<>> /\ ret = False /\ Top.k = "struct" /\ Valid(rd) /\ status = "running"
      /\ Top.start \in Nat /\ err \in Reasons /\ err # "parameters"
      /\ diag \in {NoDiag} \cup 0..Size
      /\ frames' = Below /\ UNCHANGED outcome /\ Top.k \in Enclosed
      /\ rd.pos \in 0..Size
  BY InsideFacts, PosInInput DEF FailStruct, Running, DecoderInv, FrameOK, PlaceOK, Enclosed
<1>2. diag' \in {NoDiag} \cup 0..Size
  BY <1>1 DEF FailStruct
<1>3. CASE CanSeek(rd, Top.start)
  <2>1. rd' = Seek(rd, Top.start) /\ env' = Top.env /\ ret' = False /\ err' = err
    BY <1>3 DEF FailStruct
  <2>2. Valid(rd')
    BY <1>1, <1>3, <2>1, SeekValid
  <2>3. CASE Below # <<>>
    <3>1. StackOK(plan, Below) /\ Last(Below).k # "bits"
      BY <1>1, <2>3, BelowCalled
    <3>2. TopOK(plan, Last(Below), False, rd')
      BY <3>1 DEF TopOK, False
    <3> QED BY <1>1, <1>2, <2>1, <2>2, <2>3, <3>1, <3>2, Kept
  <2>4. CASE Below = <<>>
    <3>1. rd'.pos = 0 /\ env' = Base
      BY <1>1, <2>1, <2>4, BelowRoot DEF Seek, Valid, State
    <3>2. RootOK'
      BY <1>1, <2>1, <3>1 DEF RootOK, False, Base, outcome
    <3>3. StackOK(plan, frames')
      BY <1>1, InsideFacts
    <3> QED BY <1>1, <1>2, <2>1, <2>2, <2>4, <3>2, <3>3
            DEF DecoderInv, FailureLeavesNothing, outcome
  <2> QED BY <2>3, <2>4
<1>4. CASE ~CanSeek(rd, Top.start)
  <2>1. ret' = Throw /\ err' = "rollback" /\ rd' = rd
    BY <1>4 DEF FailStruct
  <2>2. Below # <<>>
    BY <1>1, <1>4, BelowRoot DEF CanSeek, Valid, State
  <2>3. StackOK(plan, Below) /\ Last(Below).k \in Callers
    BY <1>1, <2>2, BelowCalled
  <2>4. TopOK(plan, Last(Below), Throw, rd')
    BY <2>3 DEF TopOK, Throw, Callers
  <2>5. "rollback" \in Reasons /\ "rollback" # "parameters"
    BY DEF Reasons, Failures
  <2> QED BY <1>1, <1>2, <2>1, <2>2, <2>3, <2>4, <2>5, Kept
<1> QED BY <1>3, <1>4

LEMMA FailsPast ==
    ASSUME DecoderInv, FailThrough
    PROVE  DecoderInv'
<1>1. /\ frames # <<>> /\ Top.k \in {"branch", "case", "field", "typed", "array"}
      /\ UNCHANGED rd /\ Goes(Below, False) /\ Valid(rd')
  BY DEF FailThrough, Running, DecoderInv
<1>2. CASE Top.k = "array"
  <2>1. Below # <<>> /\ StackOK(plan, Below) /\ Last(Below).k # "bits"
    BY <1>1, <1>2, BelowCalled, BelowRoot DEF Enclosed
  <2>2. TopOK(plan, Last(Below), False, rd')
    BY <2>1 DEF TopOK, False
  <2> QED BY <1>1, <2>1, <2>2, GoesKept
<1>3. CASE Top.k # "array"
  BY <1>1, <1>3, FailsInto DEF Enclosed
<1> QED BY <1>2, <1>3

\* A throw stops at a member(): the frames above one are those of readType.
LEMMA ThrowsPast ==
    ASSUME DecoderInv, CatchThrow \/ PassThrow
    PROVE  DecoderInv'
<1>1. /\ frames # <<>> /\ ret = Throw /\ Top.k \in Callers /\ Valid(rd) /\ rd' = rd
      /\ status = "running" /\ err \in Reasons /\ err # "parameters"
      /\ diag \in {NoDiag} \cup 0..Size /\ frames' = Below /\ err' = err /\ UNCHANGED outcome
      /\ rd.pos \in 0..Size
  BY InsideFacts, PosInInput
     DEF CatchThrow, PassThrow, Goes, Running, DecoderInv, TopOK, Throw, Top
<1>2. CASE CatchThrow
  <2>1. Top.k \notin Enclosed /\ ret' = False /\ diag' \in {NoDiag} \cup 0..Size
    BY <1>1, <1>2 DEF CatchThrow, MemberFrames, Enclosed
  <2>2. TopOK(plan, Last(Below), False, rd')
    BY <1>1, <2>1, BelowBody DEF TopOK, False
  <2> QED BY <1>1, <2>1, <2>2, BelowBody, Kept
<1>3. CASE PassThrow
  <2>1. Top.k \in Enclosed /\ Top.k # "struct" /\ ret' = Throw /\ diag' = diag
    BY <1>1, <1>3 DEF PassThrow, Goes, MemberFrames, Callers, Enclosed
  <2>2. Below # <<>> /\ StackOK(plan, Below) /\ Last(Below).k \in Callers
    BY <1>1, <2>1, BelowCalled, BelowRoot
  <2>3. TopOK(plan, Last(Below), Throw, rd')
    BY <2>2 DEF TopOK, Throw, Callers
  <2> QED BY <1>1, <2>1, <2>2, <2>3, Kept
<1> QED BY <1>2, <1>3

-----------------------------------------------------------------------------
\* decode() from its call to its return.

LEMMA InitInv ==
    ASSUME Init
    PROVE  DecoderInv
<1>1. StackOK(plan, frames)
  <2>1. IsSeq(<<>>) /\ Len(<<>>) = 0
    BY EmptySeq DEF IsSeq
  <2> QED BY <2>1 DEF Init, StackOK
<1>2. RootOK
  BY DEF Init, RootOK, Step
<1>3. Valid(rd)
  BY NewValid DEF Init
<1>4. err \in Reasons
  BY DEF Init, Reasons
<1> QED BY <1>1, <1>2, <1>3, <1>4 DEF Init, DecoderInv, FailureLeavesNothing

LEMMA StartStep ==
    ASSUME DecoderInv, Start
    PROVE  DecoderInv'
<1>1. frames = <<>> /\ rd.pos = 0 /\ err = "none" /\ rd' = rd /\ frames' = <<>>
      /\ plan' = plan /\ input' = input /\ diag' = diag /\ status' = "running"
  BY DEF Start, DecoderInv, RootOK, New
<1>2. CASE GoodParameters
  <2>1. env' = Base /\ ret' = CallType(Named(plan.root)) /\ err' = "none"
    BY <1>1, <1>2 DEF Start, Base
  <2>2. RootOK'
    BY <1>1, <2>1 DEF RootOK, CallType, False, Base
  <2> QED BY <1>1, <2>1, <2>2 DEF DecoderInv, FailureLeavesNothing
<1>3. CASE ~GoodParameters
  <2>1. env' = plan.given /\ ret' = False /\ err' = "parameters"
    BY <1>3 DEF Start
  <2>2. RootOK'
    BY <1>1, <2>1 DEF RootOK, False
  <2>3. err' \in Reasons
    BY <2>1 DEF Reasons
  <2> QED BY <1>1, <2>1, <2>2, <2>3 DEF DecoderInv, FailureLeavesNothing
<1> QED BY <1>2, <1>3

LEMMA FinishStep ==
    ASSUME DecoderInv, Finish
    PROVE  DecoderInv'
<1> DEFINE trailing == ret # False /\ RequireFullInput /\ rd.pos # Size
<1>1. /\ frames = <<>> /\ status = "running" /\ RootOK /\ rd.pos \in 0..Size
      /\ plan' = plan /\ input' = input /\ rd' = rd /\ env' = env /\ frames' = frames
      /\ ret' = ret /\ consumed' = rd.pos
      /\ status' \in {"failed", "decoded"} /\ err' = (IF trailing THEN "trailing" ELSE err)
      /\ status' = (IF ret = False \/ trailing THEN "failed" ELSE "decoded")
  BY PosInInput DEF Finish, DecoderInv
<1>2. diag' \in {NoDiag} \cup 0..Size
  BY <1>1 DEF Finish, DecoderInv
<1>3. RootOK'
  BY <1>1 DEF RootOK
<1>4. FailureLeavesNothing'
  BY <1>1 DEF FailureLeavesNothing, RootOK, Base
<1>5. err' \in Reasons
  BY <1>1 DEF DecoderInv, Reasons
<1> QED BY <1>1, <1>2, <1>3, <1>4, <1>5 DEF DecoderInv

LEMMA InvStep ==
    ASSUME DecoderInv, [Next]_vars
    PROVE  DecoderInv'
<1>1. CASE Start \/ Finish \/ EndStruct
  BY <1>1, StartStep, FinishStep, EndStructStep
<1>2. CASE Types
  BY <1>2, StructStep, ScalarStep, BytesStep, ArrayBegins, UntilBytesStep, UntilBegins DEF Types
<1>3. CASE Loops
  BY <1>3, ArrayTurns, ArrayTakes, UntilTurns, UntilTakes DEF Loops
<1>4. CASE Values
  BY <1>4, VirtualStep, AliasStep, FieldBegins, FieldEnds DEF Values
<1>5. CASE Groups
  BY <1>5, GroupBegins, GroupGoesOn, GroupEnds DEF Groups
<1>6. CASE Places
  BY <1>6, AlignStep, AtBegins, AtEnds, BlockBegins, BlockEnds DEF Places
<1>7. CASE Branching
  BY <1>7, IfBegins, VariantBegins, BodyEnds DEF Branching
<1>8. CASE Callbacks
  BY <1>8, CallbackSteps
<1>9. CASE Unwinds
  BY <1>9, StructFails, UntilFails, AtFails, BlockFails, FailsPast, ThrowsPast DEF Unwinds
<1>10. CASE UNCHANGED vars
  BY <1>10 DEF vars, DecoderInv, StackOK, TopOK, Top, RootOK, Base, FailureLeavesNothing
<1> QED BY <1>1, <1>2, <1>3, <1>4, <1>5, <1>6, <1>7, <1>8, <1>9, <1>10 DEF Next

THEOREM DecoderInvariant == Spec => []DecoderInv
<1>1. Init => DecoderInv
  BY InitInv
<1>2. DecoderInv /\ [Next]_vars => DecoderInv'
  BY InvStep
<1> QED BY <1>1, <1>2, PTL DEF Spec

\* The reader is in a state its methods allow and the stack one that the code
\* can build, whatever plan, input, options and callbacks: src/decoder/Decoder.cpp
\* leaves no limit under the cursor and no bit left over where it does not look.
THEOREM DecoderTypeOK == Spec => []TypeOK
<1>1. DecoderInv => TypeOK
  <2> SUFFICES ASSUME DecoderInv PROVE TypeOK
    OBVIOUS
  <2>1. ret.is \in {"step", "type", "value", "false", "throw"}
    BY DEF DecoderInv, TopOK, RootOK
  <2>2. frames # <<>> => frames[1].k = "struct" /\ status = "running"
    BY DEF DecoderInv, StackOK
  <2>3. ASSUME NEW i \in 2..Len(frames), frames[i].k = "struct"
        PROVE  frames[i - 1].k \in {"field", "typed", "array", "until"}
    <3>1. Len(frames) \in Nat
      BY SeqLen DEF DecoderInv, StackOK
    <3>2. i - 1 \in 1..(Len(frames) - 1) /\ (i - 1) + 1 = i
      BY <3>1
    <3> QED BY <2>3, <3>2 DEF DecoderInv, StackOK, Follows, Enclosed, Callers
  <2> QED BY <2>1, <2>2, <2>3 DEF DecoderInv, TypeOK
<1> QED BY <1>1, DecoderInvariant, PTL

\* No exception leaves decode() (src/decoder/Decoder.cpp): every throw of the
\* reader, those of rollbacks included, finds the try block of a member() below
\* it, for only readType and the root struct run outside one, and the rollback
\* of the root struct goes to the start of the input and cannot throw.
THEOREM NoExceptionEscapes == Spec => []ExceptionsContained
<1>1. DecoderInv => ExceptionsContained
  BY DEF DecoderInv, RootOK, ExceptionsContained, Throw
<1> QED BY <1>1, DecoderInvariant, PTL

\* A decode that fails has consumed nothing and leaves the environment of the
\* caller: the root struct undoes whatever the frames above it undid in part or,
\* their rollbacks throwing, not at all.
THEOREM FailuresLeaveNothing == Spec => []FailureLeavesNothing
<1>1. DecoderInv => FailureLeavesNothing
  BY DEF DecoderInv
<1> QED BY <1>1, DecoderInvariant, PTL
=============================================================================
