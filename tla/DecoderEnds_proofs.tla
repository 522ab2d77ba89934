-------------------------- MODULE DecoderEnds_proofs --------------------------
(***************************************************************************)
(* That decode() ends: what is left to do falls with every step but those  *)
(* of elements that take no bytes, it can fall only so often for a stack   *)
(* of any depth, and the stack is no deeper than the plan nests.           *)
(***************************************************************************)
EXTENDS Decoder_proofs

-----------------------------------------------------------------------------
\* What the loops keep.  An array counts down; the element of a terminated
\* sequence is a scalar, bytes or a struct, and only a struct has a frame.

Sound(f) ==
    /\ f.k = "array" => "left" \in DOMAIN f /\ f.left \in Nat
    /\ f.k = "until" => f.elem.dims = <<>> /\ f.elem.term = <<>>
    /\ f.k = "struct" => f.start \in 0..Size

Waits(under, over) == /\ under.k = "array" => under.left # 0
                      /\ under.k = "until" => over.k = "struct"

Awaits(top, next) == /\ top.k = "array" /\ next.is \in {"type", "value"} => top.left # 0
                     /\ top.k = "until" /\ next.is = "type" =>
                           next.type.dims = <<>> /\ next.type.term = <<>>

LoopStack(fs) == /\ \A i \in 1..Len(fs) : Sound(fs[i])
                 /\ \A i \in 1..(Len(fs) - 1) : Waits(fs[i], fs[i + 1])

LoopInv == LoopStack(frames) /\ (frames # <<>> => Awaits(Top, ret))

\* What every step is shown to do.
Ahead == LoopInv' /\ (Stalls \/ Precedes(Works', Works))

LEMMA LoopPop ==
    ASSUME NEW fs, IsSeq(fs), fs # <<>>, LoopStack(fs)
    PROVE  /\ LoopStack(Front(fs)) /\ Sound(Last(fs))
           /\ Front(fs) # <<>> => Waits(Last(Front(fs)), Last(fs)) /\ Sound(Last(Front(fs)))
<1> DEFINE gs == Front(fs)
           n == Len(fs)
<1>1. /\ IsSeq(gs) /\ n \in Nat \ {0} /\ Len(gs) = n - 1 /\ Last(fs) = fs[n]
      /\ \A i \in 1..(n - 1) : gs[i] = fs[i]
  BY FrontSeq
<1>2. gs # <<>> => n - 1 \in 1..(n - 1) /\ Last(gs) = fs[n - 1] /\ (n - 1) + 1 = n
  BY <1>1, SeqLen DEF Last
<1> HIDE DEF gs
<1>3. \A i \in 1..((n - 1) - 1) : i \in 1..(n - 1) /\ i + 1 \in 1..(n - 1)
  BY <1>1
<1>4. \A i \in 1..(n - 1) : i \in 1..n
  BY <1>1
<1>5. LoopStack(gs)
  BY <1>1, <1>3, <1>4 DEF LoopStack
<1> QED BY <1>1, <1>2, <1>4, <1>5 DEF LoopStack, gs

LEMMA LoopPush ==
    ASSUME NEW fs, IsSeq(fs), LoopStack(fs), NEW f, Sound(f),
           fs # <<>> => Waits(Last(fs), f)
    PROVE  LoopStack(Append(fs, f))
<1> DEFINE gs == Append(fs, f)
           n == Len(fs)
<1>1. /\ n \in Nat /\ Len(gs) = n + 1 /\ gs[n + 1] = f /\ \A i \in 1..n : gs[i] = fs[i]
      /\ (fs = <<>> <=> n = 0) /\ Last(fs) = fs[n]
  BY AppendSeq, SeqLen DEF Last
<1> HIDE DEF gs
<1>2. \A i \in 1..n : i = n \/ (i \in 1..(n - 1) /\ i + 1 \in 1..n)
  BY <1>1
<1>3. \A i \in 1..(n + 1) : i \in 1..n \/ i = n + 1
  BY <1>1
<1>4. \A i \in 1..((n + 1) - 1) : Waits(gs[i], gs[i + 1])
  BY <1>1, <1>2 DEF LoopStack
<1> QED BY <1>1, <1>3, <1>4 DEF LoopStack, gs

\* The frame on top and the one below it.
LEMMA LoopTop ==
    ASSUME DecoderInv, LoopInv, frames # <<>>
    PROVE  /\ Len(frames) \in Nat \ {0} /\ Top = frames[Len(frames)] /\ status = "running"
           /\ IsSeq(frames) /\ LoopStack(frames) /\ Sound(Top) /\ Awaits(Top, ret)
           /\ IsSeq(Below) /\ LoopStack(Below) /\ Len(Below) = Len(frames) - 1
           /\ \A i \in 1..(Len(frames) - 1) : Below[i] = frames[i]
           /\ Below # <<>> =>
                 /\ Len(frames) - 1 \in 1..(Len(frames) - 1)
                 /\ Last(Below) = frames[Len(frames) - 1]
                 /\ Waits(Last(Below), Top) /\ Sound(Last(Below))
                 /\ Follows(Last(Below).k, Top.k)
<1>1. IsSeq(frames) /\ LoopStack(frames) /\ status = "running" /\ Awaits(Top, ret)
  BY DEF DecoderInv, StackOK, LoopInv
<1>2. /\ IsSeq(Below) /\ Len(frames) \in Nat \ {0} /\ Len(Below) = Len(frames) - 1
      /\ Top = frames[Len(frames)]
      /\ \A i \in 1..(Len(frames) - 1) : Below[i] = frames[i]
  BY <1>1, FrontSeq DEF Below, Top
<1>3. /\ LoopStack(Below) /\ Sound(Top)
      /\ Below # <<>> => Waits(Last(Below), Top) /\ Sound(Last(Below))
  BY <1>1, LoopPop DEF Below, Top
<1>4. Below # <<>> => Len(frames) - 1 \in 1..(Len(frames) - 1)
  BY <1>2, SeqLen
<1>5. Below # <<>> => Last(Below) = frames[Len(frames) - 1]
  BY <1>2, <1>4 DEF Last
<1>6. Below # <<>> => Follows(Last(Below).k, Top.k)
  BY TopFacts DEF DecoderInv, Below, Top
<1> QED BY <1>1, <1>2, <1>3, <1>4, <1>5, <1>6

-----------------------------------------------------------------------------
\* Less work, by the shape of the step.

\* Frames with the same loop, which goes as far.
Like(f, g) == /\ DOMAIN f = DOMAIN g
              /\ f.k = g.k /\ f.todo = g.todo /\ f.left = g.left /\ f.start = g.start
              /\ f.elem = g.elem

LEMMA Falls ==
    ASSUME Len(frames) \in Nat, Len(frames') \in Nat, frames # <<>>, frames' # <<>>,
           status = "running", status' = "running",
           NEW k \in 1..Len(frames), k <= Len(frames'),
           frames'[k].start = frames[k].start,
           \A j \in 1..(k - 1) : Like(frames'[j], frames[j]),
           Work(frames', ret', rd'.pos, k) < Work(frames, ret, rd.pos, k)
    PROVE  Precedes(Works', Works)
<1> DEFINE u == Works'
           v == Works
<1>1. /\ DOMAIN u = 0..Len(frames') /\ DOMAIN v = 0..Len(frames)
      /\ u[0] = RootWork' /\ v[0] = RootWork
      /\ \A i \in 1..Len(frames') : u[i] = Work(frames', ret', rd'.pos, i)
      /\ \A i \in 1..Len(frames) : v[i] = Work(frames, ret, rd.pos, i)
  BY DEF Works
<1>2. RootWork' = 3 /\ RootWork = 3
  BY DEF RootWork
<1>3. ASSUME NEW j \in 1..(k - 1)
      PROVE  Work(frames', ret', rd'.pos, j) = Work(frames, ret, rd.pos, j)
  <2>1. /\ j < Len(frames) /\ j < Len(frames') /\ j # Len(frames) /\ j # Len(frames')
        /\ Like(frames'[j], frames[j])
        /\ (j + 1 = k \/ j + 1 \in 1..(k - 1))
    OBVIOUS
  <2>2. frames'[j + 1].start = frames[j + 1].start
    BY <2>1 DEF Like
  <2>3. Turns(frames', rd'.pos, j) = Turns(frames, rd.pos, j)
    BY <2>1, <2>2 DEF Turns, Like
  <2>4. Stage(frames', ret', j) = Stage(frames, ret, j)
    BY <2>1 DEF Stage, Like
  <2> QED BY <2>1, <2>3, <2>4 DEF Work
<1>4. \A j \in 0..(k - 1) : j = 0 \/ j \in 1..(k - 1)
  OBVIOUS
<1>5. \A j \in 0..(k - 1) : j \in DOMAIN v /\ u[j] = v[j]
  <2> HIDE DEF u, v
  <2>1. ASSUME NEW j \in 1..(k - 1) PROVE j \in DOMAIN v /\ u[j] = v[j]
    <3>1. j \in 1..Len(frames) /\ j \in 1..Len(frames')
      OBVIOUS
    <3> QED BY <1>1, <1>3, <3>1
  <2> QED BY <1>1, <1>2, <1>4, <2>1
<1>6. k \in DOMAIN u /\ u[k] < v[k]
  <2>1. k \in 1..Len(frames') /\ k \in 1..Len(frames)
    OBVIOUS
  <2> HIDE DEF u, v
  <2> QED BY <1>1, <2>1
<1> HIDE DEF u, v
<1>7. Precedes(u, v)
  BY <1>5, <1>6 DEF Precedes
<1> QED BY <1>7 DEF u, v

\* Every frame has a natural number of turns left.
LEMMA WorkNat ==
    ASSUME DecoderInv, LoopInv, NEW i \in 1..Len(frames)
    PROVE  /\ Turns(frames, rd.pos, i) \in Nat
           /\ Work(frames, ret, rd.pos, i) \in Nat
           /\ i < Len(frames) => Work(frames, ret, rd.pos, i) >= 2
           /\ i = Len(frames) /\ ~GivingUp(ret) => Work(frames, ret, rd.pos, i) >= 1
<1> DEFINE turns == Turns(frames, rd.pos, i)
           stage == Stage(frames, ret, i)
           w == Work(frames, ret, rd.pos, i)
           n == Len(frames)
<1>1. n \in Nat /\ FrameOK(plan, frames[i]) /\ Sound(frames[i])
  BY SeqLen DEF DecoderInv, StackOK, LoopInv, LoopStack
<1>2. i # n => /\ i < n /\ i \in 1..(n - 1) /\ i + 1 \in 1..n
               /\ Waits(frames[i], frames[i + 1]) /\ Sound(frames[i + 1])
  BY <1>1 DEF LoopInv, LoopStack
<1>3. rd.pos \in 0..Size
  BY PosInInput DEF DecoderInv
<1>4. frames[i].k \in Bodies \cup Callers \cup {"bits"}
  BY <1>1 DEF FrameOK
<1>5. turns \in Nat
  <2>1. CASE frames[i].k \in Bodies \cup {"bits"}
    <3>1. Len(frames[i].todo) \in Nat
      BY <1>1, <2>1, LenProperties DEF FrameOK, BodyOK, GroupOK
    <3> QED BY <2>1, <3>1 DEF Turns, Bodies
  <2>2. CASE frames[i].k = "array"
    BY <1>1, <2>2 DEF Turns, Sound, Bodies
  <2>3. CASE frames[i].k = "until"
    <3>1. (IF i = n THEN rd.pos ELSE frames[i + 1].start) \in 0..Size
      BY <1>2, <1>3, <2>3 DEF Waits, Sound
    <3>2. turns = Size - (IF i = n THEN rd.pos ELSE frames[i + 1].start)
      BY <2>3 DEF Turns, Bodies
    <3> QED BY <3>1, <3>2, SizeAssumption
  <2>4. CASE frames[i].k \in {"field", "typed"}
    BY <2>4 DEF Turns, Bodies
  <2> QED BY <1>4, <2>1, <2>2, <2>3, <2>4 DEF Callers
<1>6. stage \in 1..5 /\ (i < n => stage \in 2..5)
  BY <1>1 DEF Stage
<1>7. w = IF i = n /\ GivingUp(ret) THEN 0 ELSE 6 * turns + stage
  BY DEF Work
<1> HIDE DEF turns, stage, w, n
<1>8. w \in Nat /\ (i < n => w >= 2) /\ (i = n /\ ~GivingUp(ret) => w >= 1)
  BY <1>1, <1>5, <1>6, <1>7
<1> QED BY <1>5, <1>8 DEF turns, w, n

\* Nothing is left of the root struct.
LEMMA RootFalls ==
    ASSUME Len(frames) \in Nat, Len(frames') \in Nat, RootWork' < RootWork
    PROVE  Precedes(Works', Works)
<1> DEFINE u == Works'
           v == Works
<1>1. DOMAIN u = 0..Len(frames') /\ DOMAIN v = 0..Len(frames) /\ u[0] = RootWork' /\ v[0] = RootWork
  BY DEF Works
<1>2. 0 \in DOMAIN u /\ 0 \in DOMAIN v /\ \A j \in 0..(0 - 1) : FALSE
  BY <1>1
<1> HIDE DEF u, v
<1>3. Precedes(u, v)
  BY <1>1, <1>2 DEF Precedes
<1> QED BY <1>3 DEF u, v

LEMMA NewLen ==
    ASSUME DecoderInv, DecoderInv'
    PROVE  /\ Len(frames) \in Nat /\ Len(frames') \in Nat /\ IsSeq(frames) /\ IsSeq(frames')
           /\ (frames = <<>> <=> Len(frames) = 0) /\ (frames' = <<>> <=> Len(frames') = 0)
           /\ plan' = plan => \A i \in 1..Len(frames') : FrameOK(plan, frames'[i])
<1>1. IsSeq(frames) /\ IsSeq(frames')
  BY DEF DecoderInv, StackOK
<1> QED BY <1>1, SeqLen DEF DecoderInv, StackOK

\* The stack is the same but for its top: more, the same or less is on it.
LEMMA AheadAt ==
    ASSUME DecoderInv, LoopInv, DecoderInv', frames # <<>>, frames' # <<>>, status' = status,
           LoopStack(frames'), Awaits(Last(frames'), ret'),
           NEW k \in 1..Len(frames), k <= Len(frames'),
           frames'[k].start = frames[k].start,
           \A j \in 1..(k - 1) : Like(frames'[j], frames[j]),
           Work(frames', ret', rd'.pos, k) < Work(frames, ret, rd.pos, k)
    PROVE  Ahead
<1>1. status = "running"
  BY LoopTop
<1>2. Precedes(Works', Works)
  BY <1>1, NewLen, Falls
<1>3. LoopInv'
  BY DEF LoopInv, Top
<1> QED BY <1>2, <1>3 DEF Ahead

LEMMA FailsAhead ==
    ASSUME DecoderInv, LoopInv, DecoderInv', frames # <<>>, status' = status, GivingUp(ret'),
           (frames' = frames /\ ~GivingUp(ret)) \/ frames' = Below
    PROVE  Ahead
<1> DEFINE n == Len(frames)
<1>1. /\ n \in Nat \ {0} /\ status = "running" /\ LoopStack(frames) /\ LoopStack(Below)
      /\ \A i \in 1..(n - 1) : Below[i] = frames[i]
      /\ Len(Below) = n - 1
      /\ Below # <<>> => n - 1 \in 1..(n - 1)
  BY LoopTop
<1>2. \A top : Awaits(top, ret')
  BY DEF Awaits, GivingUp
<1>3. \A fs, pos, i : i = Len(fs) => Work(fs, ret', pos, i) = 0
  BY DEF Work
<1>4. \A f : Like(f, f)
  BY DEF Like
<1>5. CASE frames' = frames /\ ~GivingUp(ret)
  <2>1. n \in 1..n /\ n <= n /\ \A j \in 1..(n - 1) : j \in 1..n
    BY <1>1
  <2>2. Work(frames, ret, rd.pos, n) \in Nat /\ Work(frames, ret, rd.pos, n) >= 1
    BY <1>5, <2>1, WorkNat
  <2>3. Work(frames', ret', rd'.pos, n) = 0
    BY <1>3, <1>5
  <2> QED BY <1>1, <1>2, <1>4, <1>5, <2>1, <2>2, <2>3, AheadAt
<1>6. CASE frames' = Below /\ Below # <<>>
  <2>1. n - 1 \in 1..n /\ n - 1 < n /\ n - 1 <= n - 1 /\ \A j \in 1..((n - 1) - 1) : j \in 1..(n - 1)
    BY <1>1, <1>6
  <2>2. Work(frames, ret, rd.pos, n - 1) \in Nat /\ Work(frames, ret, rd.pos, n - 1) >= 2
    BY <2>1, WorkNat
  <2>3. Work(frames', ret', rd'.pos, n - 1) = 0
    BY <1>1, <1>3, <1>6
  <2>4. frames'[n - 1] = frames[n - 1] /\ \A j \in 1..((n - 1) - 1) : frames'[j] = frames[j]
    BY <1>1, <1>6, <2>1
  <2>5. 0 < Work(frames, ret, rd.pos, n - 1)
    BY <2>2
  <2>6. Len(frames') = n - 1 /\ frames' # <<>>
    BY <1>1, <1>6
  <2> DEFINE k == n - 1
  <2> HIDE DEF k
  <2>7. /\ k \in 1..n /\ k <= Len(frames') /\ frames'[k].start = frames[k].start
        /\ \A j \in 1..(k - 1) : Like(frames'[j], frames[j])
        /\ Work(frames', ret', rd'.pos, k) < Work(frames, ret, rd.pos, k)
    BY <1>4, <2>1, <2>3, <2>4, <2>5, <2>6 DEF k
  <2> QED BY <1>1, <1>2, <1>6, <2>6, <2>7, AheadAt
<1>7. CASE frames' = Below /\ Below = <<>>
  <2>1. RootWork = 3 /\ RootWork' = 1
    BY <1>1, <1>7 DEF RootWork, GivingUp
  <2>2. Precedes(Works', Works)
    BY <2>1, NewLen, RootFalls
  <2> QED BY <1>1, <1>7, <2>2 DEF Ahead, LoopInv
<1> QED BY <1>5, <1>6, <1>7

-----------------------------------------------------------------------------
\* Steps that go on, by what they do to the stack.

LEMMA LikeKeeps ==
    ASSUME NEW f, NEW g, Like(f, g)
    PROVE  /\ Sound(g) => Sound(f)
           /\ \A x : (Waits(x, g) => Waits(x, f)) /\ (Waits(g, x) => Waits(f, x))
BY DEF Like, Sound, Waits

\* The top frame changes in place.
LEMMA StayAhead ==
    ASSUME DecoderInv, LoopInv, DecoderInv', frames # <<>>, status' = status,
           NEW f, frames' = Append(Below, f), f.k = Top.k, f.start = Top.start,
           Sound(f), Awaits(f, ret'),
           Work(frames', ret', rd'.pos, Len(frames)) < Work(frames, ret, rd.pos, Len(frames))
    PROVE  Ahead
<1> DEFINE n == Len(frames)
<1>1. /\ n \in Nat \ {0} /\ Top = frames[n] /\ IsSeq(Below) /\ LoopStack(Below)
      /\ Len(Below) = n - 1 /\ \A i \in 1..(n - 1) : Below[i] = frames[i]
      /\ Below # <<>> => Waits(Last(Below), Top)
  BY LoopTop
<1>2. /\ Len(frames') = (n - 1) + 1 /\ frames'[(n - 1) + 1] = f /\ Last(frames') = f
      /\ \A i \in 1..(n - 1) : frames'[i] = Below[i]
      /\ frames' # <<>>
  BY <1>1, AppendSeq
<1>3. Below # <<>> => Waits(Last(Below), f)
  BY <1>1 DEF Waits
<1>4. LoopStack(frames')
  BY <1>1, <1>3, LoopPush
<1>5. n \in 1..n /\ Len(frames') = n /\ frames'[n] = f
  BY <1>1, <1>2
<1>6. \A j \in 1..(n - 1) : Like(frames'[j], frames[j])
  BY <1>1, <1>2 DEF Like
<1> HIDE DEF n
<1> QED BY <1>1, <1>2, <1>4, <1>5, <1>6, AheadAt DEF n

\* The top frame ends, and the one below goes on.
LEMMA IntoAhead ==
    ASSUME DecoderInv, LoopInv, DecoderInv', frames # <<>>, Below # <<>>, status' = status,
           NEW g, Like(g, Last(Below)), Awaits(g, ret'),
           frames' = Popped(g) \/ (frames' = Below /\ g = Last(Below)),
           LET k == Len(frames) - 1
           IN  Work(frames', ret', rd'.pos, k) < Work(frames, ret, rd.pos, k)
    PROVE  Ahead
<1> DEFINE k == Len(frames) - 1
<1>1. /\ Len(frames) \in Nat \ {0} /\ IsSeq(Below) /\ LoopStack(Below) /\ Len(Below) = k
      /\ k \in 1..k /\ Last(Below) = frames[k]
      /\ \A i \in 1..k : Below[i] = frames[i]
  BY LoopTop
<1>2. /\ IsSeq(Front(Below)) /\ Len(Front(Below)) = k - 1
      /\ \A i \in 1..(k - 1) : Front(Below)[i] = Below[i]
      /\ Append(Front(Below), Last(Below)) = Below
      /\ LoopStack(Front(Below)) /\ Sound(Last(Below))
      /\ Front(Below) # <<>> => Waits(Last(Front(Below)), Last(Below))
  BY <1>1, FrontSeq, LoopPop
<1>3. frames' = Append(Front(Below), g)
  BY <1>2 DEF Popped
<1>4. /\ Len(frames') = (k - 1) + 1 /\ frames'[(k - 1) + 1] = g /\ Last(frames') = g
      /\ \A i \in 1..(k - 1) : frames'[i] = Front(Below)[i]
      /\ frames' # <<>>
  BY <1>2, <1>3, AppendSeq
<1>5. LoopStack(frames')
  BY <1>2, <1>3, LikeKeeps, LoopPush
<1>6. k \in 1..Len(frames) /\ k <= Len(frames') /\ (k - 1) + 1 = k /\ \A j \in 1..(k - 1) : j \in 1..k
  BY <1>1, <1>4
<1>7. frames'[k].start = frames[k].start /\ \A j \in 1..(k - 1) : Like(frames'[j], frames[j])
  BY <1>1, <1>2, <1>4, <1>6 DEF Like
<1>8. Work(frames', ret', rd'.pos, k) < Work(frames, ret, rd.pos, k)
  OBVIOUS
<1> HIDE DEF k
<1> QED BY <1>4, <1>5, <1>6, <1>7, <1>8, AheadAt

\* A frame is pushed on the top one, which may have changed.
LEMMA PushAhead ==
    ASSUME DecoderInv, LoopInv, DecoderInv', frames # <<>>, status' = status,
           NEW r, NEW f, frames' = Append(Append(Below, r), f),
           r.k = Top.k, r.start = Top.start, Sound(r), Sound(f), Waits(r, f), Awaits(f, ret'),
           Work(frames', ret', rd'.pos, Len(frames)) < Work(frames, ret, rd.pos, Len(frames))
    PROVE  Ahead
<1> DEFINE n == Len(frames)
           gs == Append(Below, r)
<1>1. /\ n \in Nat \ {0} /\ Top = frames[n] /\ IsSeq(Below) /\ LoopStack(Below)
      /\ Len(Below) = n - 1 /\ \A i \in 1..(n - 1) : Below[i] = frames[i]
      /\ Below # <<>> => Waits(Last(Below), Top)
  BY LoopTop
<1>2. /\ IsSeq(gs) /\ Len(gs) = (n - 1) + 1 /\ gs[(n - 1) + 1] = r /\ Last(gs) = r
      /\ \A i \in 1..(n - 1) : gs[i] = Below[i]
  BY <1>1, AppendSeq
<1>3. Below # <<>> => Waits(Last(Below), r)
  BY <1>1 DEF Waits
<1>4. LoopStack(gs)
  BY <1>1, <1>3, LoopPush
<1>5. frames' = Append(gs, f)
  OBVIOUS
<1> HIDE DEF gs
<1>6. /\ Len(frames') = Len(gs) + 1 /\ Last(frames') = f /\ frames' # <<>>
      /\ \A i \in 1..Len(gs) : frames'[i] = gs[i]
  BY <1>2, <1>5, AppendSeq
<1>7. LoopStack(frames')
  BY <1>2, <1>4, <1>5, LoopPush
<1>8. n \in 1..n /\ n <= Len(frames') /\ Len(gs) = n /\ gs[n] = r /\ \A j \in 1..(n - 1) : j \in 1..n
  BY <1>1, <1>2, <1>6
<1>9. frames'[n].start = frames[n].start /\ \A j \in 1..(n - 1) : Like(frames'[j], frames[j])
  BY <1>1, <1>2, <1>6, <1>8 DEF Like
<1> HIDE DEF n
<1> QED BY <1>6, <1>7, <1>8, <1>9, AheadAt DEF n

-----------------------------------------------------------------------------
\* How much is left in the frame on top, and in the one below it.

Within(next, k) == CASE next.is = "step"  -> 4
                     [] next.is = "type"  -> 3
                     [] OTHER -> IF k = "until" THEN 5 ELSE 1

LEMMA WorkOnTop ==
    ASSUME NEW fs, NEW next, ~GivingUp(next), NEW pos, Len(fs) \in Nat
    PROVE  LET n == Len(fs)
           IN  Work(fs, next, pos, n) = 6 * Turns(fs, pos, n) + Within(next, fs[n].k)
BY DEF Work, Stage, Within

LEMMA WorkBelow ==
    ASSUME NEW fs, NEW next, NEW pos, Len(fs) \in Nat, NEW i \in 1..Len(fs), i < Len(fs)
    PROVE  Work(fs, next, pos, i) =
               6 * Turns(fs, pos, i) + (IF fs[i].k \in Bodies THEN 5 ELSE 2)
BY DEF Work, Stage

\* A body with one operation less.
LEMMA RestFacts ==
    ASSUME DecoderInv, NEW kind, Doing(kind)
    PROVE  /\ frames # <<>> /\ Top.k \in Bodies /\ ret = Step /\ status = "running"
           /\ \A obj : LET f == [Rest1 EXCEPT !.obj = obj]
                       IN  f.k = Top.k /\ f.start = Top.start /\ f.todo = Tail(Top.todo)
           /\ Rest1.k = Top.k /\ Rest1.start = Top.start /\ Rest1.todo = Tail(Top.todo)
           /\ Len(Top.todo) \in Nat \ {0} /\ Len(Tail(Top.todo)) = Len(Top.todo) - 1
<1>1. /\ frames # <<>> /\ Top.k \in Bodies /\ ret = Step /\ status = "running"
      /\ Top.todo # <<>>
  BY DEF Doing, Running
<1>2. FrameOK(plan, Top)
  BY <1>1, InsideFacts
<1>3. Top.todo \in Seq(AllOps(plan)) /\ {"todo", "obj", "k"} \subseteq DOMAIN Top
  BY <1>1, <1>2 DEF FrameOK, BodyOK
<1>4. Len(Top.todo) \in Nat \ {0} /\ Len(Tail(Top.todo)) = Len(Top.todo) - 1
  BY <1>1, <1>3, HeadTailProperties, EmptySeq, LenProperties
<1> DEFINE r == Rest1
<1>5. r.k = Top.k /\ r.start = Top.start /\ r.todo = Tail(Top.todo) /\ DOMAIN r = DOMAIN Top
  BY <1>3 DEF Rest1
<1> HIDE DEF r
<1>6. \A obj : LET f == [r EXCEPT !.obj = obj]
               IN  f.k = r.k /\ f.start = r.start /\ f.todo = r.todo
  BY <1>3, <1>5
<1> QED BY <1>1, <1>4, <1>5, <1>6 DEF r

\* What a body frame is sound by: the start of a struct.
LEMMA BodySound ==
    ASSUME NEW f, NEW g, f.k = g.k, f.start = g.start, g.k \in Bodies, Sound(g)
    PROVE  /\ Sound(f) /\ \A next : Awaits(f, next)
           /\ \A x : Waits(f, x)
BY DEF Sound, Awaits, Waits, Bodies

\* The work of a frame on top, by its kind.
LEMMA BodyTurns ==
    ASSUME NEW fs, NEW pos, NEW i, fs[i].k \in Bodies \cup {"bits"}
    PROVE  Turns(fs, pos, i) = Len(fs[i].todo)
BY DEF Turns, Bodies

LEMMA DoneAhead ==
    ASSUME DecoderInv, LoopInv, DecoderInv', NEW kind, Doing(kind), NEW name, NEW v,
           Goes(Replace(Rest1), Step) \/ Goes(Replace(Stored(Rest1, name, v)), Step)
    PROVE  Ahead
<1> DEFINE n == Len(frames)
           m == Len(Top.todo)
<1>1. PICK f : /\ frames' = Append(Below, f) /\ f.k = Top.k /\ f.start = Top.start
               /\ f.todo = Tail(Top.todo)
  <2> DEFINE g == [Rest1 EXCEPT !.obj = Put(@, name, v)]
  <2>1. g.k = Top.k /\ g.start = Top.start /\ g.todo = Tail(Top.todo) /\ Stored(Rest1, name, v) = g
    BY RestFacts DEF Stored
  <2> HIDE DEF g
  <2> QED BY <2>1, RestFacts DEF Goes, Replace
<1>2. /\ frames # <<>> /\ Top.k \in Bodies /\ ret = Step /\ ret' = Step /\ status' = status
      /\ m \in Nat \ {0} /\ Len(f.todo) = m - 1
  BY <1>1, RestFacts DEF Goes, outcome
<1>3. /\ n \in Nat \ {0} /\ Top = frames[n] /\ Sound(Top)
      /\ Len(frames') = n /\ frames'[n] = f
  <2>1. /\ n \in Nat \ {0} /\ Top = frames[n] /\ IsSeq(Below) /\ Len(Below) = n - 1 /\ Sound(Top)
    BY <1>2, LoopTop
  <2>2. Len(frames') = (n - 1) + 1 /\ frames'[(n - 1) + 1] = f
    BY <1>1, <2>1, AppendSeq
  <2> QED BY <2>1, <2>2
<1>4. Sound(f) /\ Awaits(f, ret')
  BY <1>1, <1>2, <1>3, BodySound
<1>5. ~GivingUp(ret) /\ ~GivingUp(ret') /\ \A k : Within(ret, k) = 4 /\ Within(ret', k) = 4
  BY <1>2 DEF GivingUp, Within, Step
<1>6. Work(frames, ret, rd.pos, n) = 6 * m + 4
  BY <1>2, <1>3, <1>5, WorkOnTop, BodyTurns
<1>7. Work(frames', ret', rd'.pos, n) = 6 * (m - 1) + 4
  <2> DEFINE gs == frames'
             pos == rd'.pos
  <2>0. gs[n].k \in Bodies \cup {"bits"} /\ Len(gs[n].todo) = m - 1
    BY <1>1, <1>2, <1>3
  <2>1. Turns(gs, pos, n) = m - 1
    <3> HIDE DEF gs, pos
    <3> QED BY <2>0, BodyTurns
  <2>2. Work(frames', ret', rd'.pos, n) = 6 * Turns(frames', rd'.pos, n) + Within(ret', frames'[n].k)
    BY <1>3, <1>5, WorkOnTop
  <2> QED BY <1>5, <2>1, <2>2
<1>8. Work(frames', ret', rd'.pos, n) < Work(frames, ret, rd.pos, n)
  <2> HIDE DEF m
  <2> QED BY <1>2, <1>6, <1>7
<1> QED BY <1>1, <1>2, <1>4, <1>8, StayAhead

LEMMA BeginsAhead ==
    ASSUME DecoderInv, LoopInv, DecoderInv', NEW kind, Doing(kind), NEW f, NEW next,
           Goes(Append(Replace(Rest1), f), next), f.k \notin {"struct", "array", "until"}
    PROVE  Ahead
<1> DEFINE n == Len(frames)
           m == Len(Top.todo)
           r == Rest1
<1>1. /\ frames # <<>> /\ Top.k \in Bodies /\ ret = Step /\ status' = status
      /\ frames' = Append(Append(Below, r), f)
      /\ r.k = Top.k /\ r.start = Top.start /\ r.todo = Tail(Top.todo)
      /\ m \in Nat \ {0} /\ Len(r.todo) = m - 1
  BY RestFacts DEF Goes, outcome, Replace
<1> HIDE DEF r
<1>2. /\ n \in Nat \ {0} /\ Top = frames[n] /\ Sound(Top) /\ IsSeq(Below) /\ Len(Below) = n - 1
  BY <1>1, LoopTop
<1>3. Len(frames') = n + 1 /\ frames'[n] = r
  <2> DEFINE gs == Append(Below, r)
  <2>1. IsSeq(gs) /\ Len(gs) = (n - 1) + 1 /\ gs[(n - 1) + 1] = r
    BY <1>2, AppendSeq
  <2>2. Len(gs) = n /\ gs[n] = r /\ n \in 1..n
    BY <1>2, <2>1
  <2> HIDE DEF gs
  <2>3. Len(Append(gs, f)) = Len(gs) + 1 /\ \A i \in 1..Len(gs) : Append(gs, f)[i] = gs[i]
    BY <2>1, AppendSeq
  <2> QED BY <1>1, <2>2, <2>3 DEF gs
<1>4. Sound(r) /\ Waits(r, f)
  BY <1>1, <1>2, BodySound
<1>5. Sound(f) /\ Awaits(f, ret')
  BY DEF Sound, Awaits
<1>6. Work(frames, ret, rd.pos, n) = 6 * m + 4
  BY <1>1, <1>2, WorkOnTop, BodyTurns DEF GivingUp, Within, Step
<1>7. Work(frames', ret', rd'.pos, n) = 6 * (m - 1) + 5
  <2>1. n \in 1..Len(frames') /\ n < Len(frames') /\ Len(frames') \in Nat
    BY <1>2, <1>3
  <2> DEFINE gs == frames'
             pos == rd'.pos
  <2>0. gs[n].k \in Bodies \cup {"bits"} /\ Len(gs[n].todo) = m - 1
    BY <1>1, <1>3
  <2>2. Turns(gs, pos, n) = m - 1
    <3> HIDE DEF gs, pos
    <3> QED BY <2>0, BodyTurns
  <2>3. Work(frames', ret', rd'.pos, n) =
            6 * Turns(frames', rd'.pos, n) + (IF frames'[n].k \in Bodies THEN 5 ELSE 2)
    BY <2>1, WorkBelow
  <2> QED BY <1>1, <1>3, <2>2, <2>3
<1>8. Work(frames', ret', rd'.pos, n) < Work(frames, ret, rd.pos, n)
  <2> HIDE DEF m
  <2> QED BY <1>1, <1>6, <1>7
<1> QED BY <1>1, <1>4, <1>5, <1>8, PushAhead

LEMMA LikeTurns ==
    ASSUME NEW fs, NEW gs, NEW p, NEW q, NEW i, Like(fs[i], gs[i]), gs[i].k # "until"
    PROVE  Turns(fs, p, i) = Turns(gs, q, i)
BY DEF Like, Turns

\* The frame below the top one, once it is on top.
LEMMA Under ==
    ASSUME DecoderInv, LoopInv, frames # <<>>, Below # <<>>, NEW g,
           frames' = Popped(g) \/ (frames' = Below /\ g = Last(Below))
    PROVE  LET k == Len(frames) - 1
           IN  /\ k \in Nat \ {0} /\ k \in 1..Len(frames) /\ k < Len(frames)
               /\ Len(frames) \in Nat /\ Last(Below) = frames[k]
               /\ Len(frames') = k /\ frames'[k] = g
               /\ Turns(frames, rd.pos, k) \in Nat
<1> DEFINE k == Len(frames) - 1
<1>1. /\ Len(frames) \in Nat \ {0} /\ IsSeq(Below) /\ Len(Below) = k /\ k \in 1..k
      /\ Last(Below) = frames[k] /\ \A i \in 1..k : Below[i] = frames[i]
  BY LoopTop
<1>2. k \in Nat \ {0} /\ k \in 1..Len(frames) /\ k < Len(frames)
  BY <1>1
<1>3. Turns(frames, rd.pos, k) \in Nat
  BY <1>2, WorkNat
<1>4. CASE frames' = Below /\ g = Last(Below)
  BY <1>1, <1>2, <1>3, <1>4
<1>5. CASE frames' = Popped(g)
  <2>1. IsSeq(Front(Below)) /\ Len(Front(Below)) = k - 1
    BY <1>1, FrontSeq
  <2>2. Len(frames') = (k - 1) + 1 /\ frames'[(k - 1) + 1] = g
    BY <1>5, <2>1, AppendSeq DEF Popped
  <2> QED BY <1>1, <1>2, <1>3, <2>2
<1> QED BY <1>4, <1>5

\* A construct ends, and the operations after it go on.
LEMMA EndsAhead ==
    ASSUME DecoderInv, LoopInv, DecoderInv', frames # <<>>, Top.k \notin Enclosed,
           NEW g, Like(g, Last(Below)),
           Goes(Popped(g), Step) \/ (Goes(Below, Step) /\ g = Last(Below))
    PROVE  Ahead
<1> DEFINE k == Len(frames) - 1
           gs == frames'
           turns == Turns(frames, rd.pos, k)
<1>1. /\ Below # <<>> /\ ret' = Step /\ status' = status
      /\ frames' = Popped(g) \/ (frames' = Below /\ g = Last(Below))
  BY BelowBody DEF Goes, outcome
<1>2. /\ k \in Nat \ {0} /\ k \in 1..Len(frames) /\ k < Len(frames) /\ Len(frames) \in Nat
      /\ Last(Below) = frames[k] /\ Len(gs) = k /\ gs[k] = g /\ turns \in Nat
  BY <1>1, Under
<1>3. g.k \in Bodies /\ frames[k].k \in Bodies /\ frames[k].k # "until"
  BY <1>2, BelowBody DEF Like, Callers
<1>4. Work(frames, ret, rd.pos, k) = 6 * turns + 5
  BY <1>2, <1>3, WorkBelow
<1>5. Work(frames', ret', rd'.pos, k) = 6 * turns + 4
  <2> DEFINE p == rd'.pos
             next == ret'
  <2>1. ~GivingUp(next) /\ Within(next, g.k) = 4
    BY <1>1 DEF GivingUp, Within, Step
  <2> HIDE DEF gs, p, next
  <2>2. Turns(gs, p, k) = turns
    BY <1>2, <1>3, LikeTurns
  <2>3. Work(gs, next, p, k) = 6 * Turns(gs, p, k) + Within(next, gs[k].k)
    BY <1>2, <2>1, WorkOnTop
  <2>4. Work(gs, next, p, k) = 6 * turns + 4
    BY <1>2, <2>1, <2>2, <2>3
  <2> QED BY <2>4 DEF gs, p, next
<1>6. Work(frames', ret', rd'.pos, k) < Work(frames, ret, rd.pos, k)
  <2> HIDE DEF turns
  <2> QED BY <1>2, <1>4, <1>5
<1>7. Awaits(g, ret')
  BY <1>3 DEF Awaits, Bodies
<1> QED BY <1>1, <1>6, <1>7, IntoAhead

\* readType returns to the frame that called it, which is not a sequence's.
LEMMA ReturnsAhead ==
    ASSUME DecoderInv, LoopInv, DecoderInv', frames # <<>>, Below # <<>>,
           Top.k \in Enclosed, Last(Below).k # "until",
           NEW v, Goes(Below, Return(v))
    PROVE  Ahead
<1> DEFINE k == Len(frames) - 1
           gs == frames'
           turns == Turns(frames, rd.pos, k)
           g == Last(Below)
<1>1. /\ ret' = Return(v) /\ ret'.is = "value" /\ status' = status /\ frames' = Below
  BY DEF Goes, outcome, Return
<1>2. /\ k \in Nat \ {0} /\ k \in 1..Len(frames) /\ k < Len(frames) /\ Len(frames) \in Nat
      /\ Last(Below) = frames[k] /\ Len(gs) = k /\ gs[k] = g /\ turns \in Nat
  BY <1>1, Under
<1>3. g.k \in Callers /\ g.k \notin Bodies /\ Waits(g, Top) /\ Like(g, g)
  <2>1. Last(Below).k \in Callers /\ Last(Below).k \notin Bodies
    BY BelowCalled DEF Callers, Bodies
  <2> QED BY <2>1, LoopTop DEF Like
<1> HIDE DEF g
<1>4. Work(frames, ret, rd.pos, k) = 6 * turns + 2
  BY <1>2, <1>3, WorkBelow DEF g
<1>5. Work(frames', ret', rd'.pos, k) = 6 * turns + 1
  <2> DEFINE p == rd'.pos
             next == ret'
  <2>1. ~GivingUp(next) /\ Within(next, g.k) = 1
    BY <1>1 DEF GivingUp, Within, g
  <2> HIDE DEF gs, p, next
  <2>2. Turns(gs, p, k) = turns
    BY <1>2, <1>3, LikeTurns DEF g
  <2>3. Work(gs, next, p, k) = 6 * Turns(gs, p, k) + Within(next, gs[k].k)
    BY <1>2, <2>1, WorkOnTop
  <2>4. Work(gs, next, p, k) = 6 * turns + 1
    BY <1>2, <2>1, <2>2, <2>3
  <2> QED BY <2>4 DEF gs, p, next
<1>6. Work(frames', ret', rd'.pos, k) < Work(frames, ret, rd.pos, k)
  <2> HIDE DEF turns
  <2> QED BY <1>2, <1>4, <1>5
<1>7. Awaits(g, ret')
  BY <1>1, <1>3 DEF Awaits, Waits
<1> QED BY <1>1, <1>3, <1>6, <1>7, IntoAhead DEF g

LEMMA EndStructAhead ==
    ASSUME DecoderInv, LoopInv, DecoderInv', EndStruct
    PROVE  Ahead
<1> DEFINE v == Object(Top.obj)
           k == Len(frames) - 1
           g == Last(Below)
<1>1. /\ frames # <<>> /\ Top.k = "struct" /\ ret = Step /\ rd' = rd /\ status = "running"
      /\ \/ GivingUp(ret') /\ frames' = frames
         \/ Goes(Below, Return(v)) /\ ret' = Return(v) /\ frames' = Below
      /\ status' = status
  BY DEF EndStruct, Ending, Running, Fails, Goes, GivingUp, False, outcome
<1>2. CASE GivingUp(ret') /\ frames' = frames
  BY <1>1, <1>2, FailsAhead DEF GivingUp, Step
<1>3. CASE Goes(Below, Return(v)) /\ Below # <<>> /\ Last(Below).k # "until"
  BY <1>1, <1>3, ReturnsAhead DEF Enclosed
<1>4. CASE Goes(Below, Return(v)) /\ Below = <<>>
  <2>1. frames' = <<>> /\ ret'.is = "value"
    BY <1>1, <1>4 DEF Goes, Return
  <2>2. RootWork = 3 /\ RootWork' = 2
    <3>1. RootWork = 3
      BY <1>1 DEF RootWork
    <3>2. RootWork' = 2
      BY <1>1, <2>1 DEF RootWork, GivingUp
    <3> QED BY <3>1, <3>2
  <2>3. LoopInv'
    BY <1>4, <2>1, LoopTop, <1>1 DEF LoopInv
  <2> QED BY <2>2, <2>3, NewLen, RootFalls DEF Ahead
<1>5. CASE Goes(Below, Return(v)) /\ Below # <<>> /\ Last(Below).k = "until"
  <2>1. /\ ret'.is = "value" /\ frames' = Below
        /\ k \in Nat \ {0} /\ k \in 1..Len(frames) /\ k < Len(frames) /\ Len(frames) \in Nat
        /\ Last(Below) = frames[k] /\ Len(frames') = k /\ frames'[k] = g
        /\ Turns(frames, rd.pos, k) \in Nat /\ Top = frames[Len(frames)] /\ k + 1 = Len(frames)
        /\ k # Len(frames)
    <3>1. ret'.is = "value" /\ frames' = Below
      BY <1>1, <1>5 DEF Goes, Return
    <3>2. /\ k \in Nat \ {0} /\ k \in 1..Len(frames) /\ k < Len(frames) /\ Len(frames) \in Nat
          /\ Last(Below) = frames[k] /\ Len(frames') = k /\ frames'[k] = g
          /\ Turns(frames, rd.pos, k) \in Nat
      BY <1>1, <1>5, <3>1, Under
    <3>3. Top = frames[Len(frames)]
      BY <1>1, LoopTop
    <3> QED BY <3>1, <3>2, <3>3
  <2>2. Top.start \in 0..Size /\ rd.pos \in 0..Size /\ Size \in Nat
    BY <1>1, LoopTop, PosInInput, SizeAssumption DEF Sound, DecoderInv
  <2>3. CASE rd.pos <= Top.start
    <3>1. Stalls
      BY <1>1, <1>5, <2>1, <2>3 DEF Stalls, EndStruct
    <3>2. Awaits(Last(frames'), ret')
      BY <1>5, <2>1 DEF Awaits
    <3>3. LoopInv'
      BY <1>1, <2>1, <3>2, LoopTop DEF LoopInv, Top
    <3> QED BY <3>1, <3>3 DEF Ahead
  <2>4. CASE ~(rd.pos <= Top.start)
    <3>1. Turns(frames, rd.pos, k) = Size - Top.start
      BY <1>5, <2>1 DEF Turns, Bodies
    <3>2. Work(frames, ret, rd.pos, k) = 6 * (Size - Top.start) + 2
      BY <1>5, <2>1, <3>1, WorkBelow DEF Bodies
    <3> DEFINE gs == frames'
               p == rd'.pos
               next == ret'
    <3>3. ~GivingUp(next) /\ Within(next, g.k) = 5 /\ p = rd.pos /\ gs[k].k = "until"
      BY <1>1, <1>5, <2>1 DEF GivingUp, Within
    <3> HIDE DEF gs, p, next, g
    <3>4. Turns(gs, p, k) = Size - rd.pos
      BY <2>1, <3>3 DEF Turns, Bodies, gs
    <3>5. Work(gs, next, p, k) = 6 * Turns(gs, p, k) + Within(next, gs[k].k)
      BY <2>1, <3>3, WorkOnTop DEF gs
    <3>6. Work(gs, next, p, k) = 6 * (Size - rd.pos) + 5
      BY <2>1, <3>3, <3>4, <3>5 DEF gs
    <3>7. 6 * (Size - rd.pos) + 5 < 6 * (Size - Top.start) + 2
      BY <2>2, <2>4
    <3>8. Work(gs, next, p, k) < Work(frames, ret, rd.pos, k)
      BY <3>2, <3>6, <3>7
    <3>9. Awaits(g, ret') /\ Like(g, g)
      BY <1>5, <2>1 DEF Awaits, Like, g
    <3> QED BY <1>1, <1>5, <2>1, <3>8, <3>9, IntoAhead DEF gs, p, next, g
  <2> QED BY <2>3, <2>4
<1> QED BY <1>1, <1>2, <1>3, <1>4, <1>5

-----------------------------------------------------------------------------
\* readType and readStruct.

\* The frame that called, while it is on top.
LEMMA CallerTop ==
    ASSUME DecoderInv, LoopInv, Calling, frames # <<>>
    PROVE  LET n == Len(frames)
           IN  /\ n \in Nat \ {0} /\ n \in 1..n /\ Top = frames[n] /\ Top.k \in Callers
               /\ Turns(frames, rd.pos, n) \in Nat
               /\ Work(frames, ret, rd.pos, n) = 6 * Turns(frames, rd.pos, n) + 3
               /\ Append(Below, Top) = frames /\ Sound(Top) /\ Like(Top, Top)
               /\ Awaits(Top, ret) /\ ret.is = "type" /\ status = "running"
               /\ Top.k = "array" => Top.left # 0
               /\ Top.k = "until" => /\ ret.type.dims = <<>> /\ ret.type.term = <<>>
                                     /\ Turns(frames, rd.pos, n) = Size - rd.pos
<1> DEFINE n == Len(frames)
<1>1. /\ n \in Nat \ {0} /\ n \in 1..n /\ Top = frames[n] /\ Top.k \in Callers
      /\ Sound(Top) /\ Awaits(Top, ret) /\ ret.is = "type" /\ status = "running"
  BY LoopTop, CallingFacts DEF Calling
<1>2. Turns(frames, rd.pos, n) \in Nat
  BY <1>1, WorkNat
<1>3. Work(frames, ret, rd.pos, n) = 6 * Turns(frames, rd.pos, n) + 3
  BY <1>1, WorkOnTop DEF GivingUp, Within
<1>4. Append(Below, Top) = frames
  BY FrontSeq DEF DecoderInv, StackOK, Below, Top
<1>5. Top.k = "until" => Turns(frames, rd.pos, n) = Size - rd.pos
  BY <1>1 DEF Turns, Bodies
<1> QED BY <1>1, <1>2, <1>3, <1>4, <1>5 DEF Awaits, Like

\* readType pushes a frame for what it reads.
LEMMA CallsAhead ==
    ASSUME DecoderInv, LoopInv, DecoderInv', Calling, frames # <<>>,
           NEW f, Goes(Append(frames, f), Step), Sound(f), Awaits(f, Step),
           Top.k = "until" => f.k = "struct" /\ f.start = rd.pos
    PROVE  Ahead
<1> DEFINE n == Len(frames)
           gs == frames'
           p == rd'.pos
           next == ret'
           turns == Turns(frames, rd.pos, n)
<1>1. /\ n \in Nat \ {0} /\ n \in 1..n /\ Top = frames[n] /\ Top.k \in Callers /\ turns \in Nat
      /\ Work(frames, ret, rd.pos, n) = 6 * turns + 3
      /\ Append(Below, Top) = frames /\ Sound(Top) /\ Like(Top, Top)
      /\ Top.k = "array" => Top.left # 0
      /\ Top.k = "until" => turns = Size - rd.pos
  BY CallerTop
<1>2. /\ gs = Append(frames, f) /\ next = Step /\ status' = status /\ IsSeq(frames)
  BY NewLen DEF Goes, outcome
<1>3. /\ Len(gs) = n + 1 /\ gs[n] = Top /\ gs[n + 1] = f /\ n \in 1..Len(gs) /\ n < Len(gs)
      /\ Len(gs) \in Nat /\ n # Len(gs)
  <2>1. Len(gs) = n + 1 /\ gs[n] = frames[n] /\ gs[n + 1] = f
    BY <1>1, <1>2, AppendSeq
  <2> HIDE DEF gs, n
  <2> QED BY <1>1, <2>1
<1>4. Waits(Top, f)
  BY <1>1 DEF Waits
<1> HIDE DEF gs, p, next, turns
<1>5. Turns(gs, p, n) = turns
  <2>1. CASE Top.k = "until"
    BY <1>1, <1>3, <2>1 DEF Turns, Bodies
  <2>2. CASE Top.k # "until"
    BY <1>1, <1>3, <2>2, LikeTurns DEF turns
  <2> QED BY <2>1, <2>2
<1>6. Work(gs, next, p, n) = 6 * turns + 2
  BY <1>1, <1>3, <1>5, WorkBelow DEF Callers, Bodies
<1>7. Work(gs, next, p, n) < Work(frames, ret, rd.pos, n)
  BY <1>1, <1>6
<1> QED BY <1>1, <1>2, <1>4, <1>7, PushAhead DEF gs, p, next

\* readType returns what it read without a frame.
LEMMA HereAhead ==
    ASSUME DecoderInv, LoopInv, DecoderInv', Calling, frames # <<>>,
           NEW v, Goes(frames, Return(v)),
           Top.k = "until" => rd'.pos > rd.pos
    PROVE  Ahead
<1> DEFINE n == Len(frames)
           gs == frames'
           p == rd'.pos
           next == ret'
           turns == Turns(frames, rd.pos, n)
<1>1. /\ n \in Nat \ {0} /\ n \in 1..n /\ Top = frames[n] /\ Top.k \in Callers /\ turns \in Nat
      /\ Work(frames, ret, rd.pos, n) = 6 * turns + 3
      /\ Append(Below, Top) = frames /\ Sound(Top) /\ Like(Top, Top)
      /\ Top.k = "array" => Top.left # 0
      /\ Top.k = "until" => turns = Size - rd.pos
  BY CallerTop
<1>2. /\ gs = frames /\ next.is = "value" /\ status' = status
  BY DEF Goes, Return, outcome
<1>3. Len(gs) = n /\ gs[n] = Top /\ Len(gs) \in Nat
  BY <1>1, <1>2
<1>4. rd.pos \in 0..Size /\ p \in 0..Size /\ Size \in Nat
  BY PosInInput, SizeAssumption DEF DecoderInv
<1>5. ~GivingUp(next) /\ Within(next, Top.k) = IF Top.k = "until" THEN 5 ELSE 1
  BY <1>2 DEF GivingUp, Within
<1>6. Awaits(Top, next)
  BY <1>1, <1>2 DEF Awaits
<1> HIDE DEF gs, p, next, turns
<1>7. Work(gs, next, p, n) = 6 * Turns(gs, p, n) + Within(next, Top.k)
  BY <1>3, <1>5, WorkOnTop
<1>8. Work(gs, next, p, n) < Work(frames, ret, rd.pos, n)
  <2>1. CASE Top.k = "until"
    <3>1. Turns(gs, p, n) = Size - p /\ p > rd.pos
      BY <1>3, <2>1 DEF Turns, Bodies, p
    <3> DEFINE w == Work(gs, next, p, n)
               z == Work(frames, ret, rd.pos, n)
    <3>2. w = 6 * (Size - p) + 5 /\ z = 6 * (Size - rd.pos) + 3
      BY <1>1, <1>5, <1>7, <2>1, <3>1
    <3>3. ASSUME NEW a \in 0..Size, NEW b \in 0..Size, b > a
          PROVE  6 * (Size - b) + 5 < 6 * (Size - a) + 3
      BY <1>4, <3>3
    <3> HIDE DEF w, z
    <3>4. w < z
      BY <1>4, <3>1, <3>2, <3>3
    <3> QED BY <3>4 DEF w, z
  <2>2. CASE Top.k # "until"
    <3>1. Turns(gs, p, n) = turns
      BY <1>1, <1>3, <2>2, LikeTurns DEF turns
    <3>2. Work(gs, next, p, n) = 6 * turns + 1
      BY <1>5, <1>7, <2>2, <3>1
    <3> QED BY <1>1, <3>2
  <2> QED BY <2>1, <2>2
<1>9. frames' = Append(Below, Top)
  BY <1>1, <1>2 DEF gs
<1> QED BY <1>1, <1>2, <1>6, <1>8, <1>9, StayAhead DEF gs, p, next

\* A callee that read nothing failed.
LEMMA FailsCalling ==
    ASSUME DecoderInv, LoopInv, DecoderInv', Calling, frames # <<>>,
           NEW why, Fails(frames, why) \/ Throws(frames, why)
    PROVE  Ahead
<1>1. /\ frames' = frames /\ GivingUp(ret') /\ status' = status /\ ~GivingUp(ret)
  BY DEF Fails, Throws, Calling, GivingUp, False, Throw, outcome
<1> QED BY <1>1, FailsAhead

LEMMA StructAhead ==
    ASSUME DecoderInv, LoopInv, DecoderInv', TypeStruct
    PROVE  Ahead
<1> DEFINE f == StructFrame(ret.type.ref)
<1>1. Calling /\ ret.type.form = "struct" /\ ret.is = "type" /\ status = "running"
  BY DEF TypeStruct, Calling
<1>2. f.k = "struct" /\ f.start = rd.pos /\ Sound(f) /\ Awaits(f, Step)
  <2>1. f.k = "struct" /\ f.start = rd.pos /\ rd.pos \in 0..Size
    BY <1>1, StructFrameOK, PosInInput DEF DecoderInv
  <2> HIDE DEF f
  <2> QED BY <2>1 DEF Sound, Awaits
<1> HIDE DEF f
<1>3. Fails(frames, "depth") \/ Goes(Append(frames, f), Step)
  BY DEF TypeStruct, Push, f
<1>4. CASE frames # <<>>
  <2>1. CASE Fails(frames, "depth")
    BY <1>1, <1>4, <2>1, FailsCalling
  <2>2. CASE Goes(Append(frames, f), Step)
    BY <1>1, <1>2, <1>4, <2>2, CallsAhead
  <2> QED BY <1>3, <2>1, <2>2
<1>5. CASE frames = <<>>
  <2>1. RootWork = 4 /\ status' = "running"
    BY <1>1, <1>3, <1>5 DEF RootWork, GivingUp, Fails, Goes, outcome
  <2>2. CASE Fails(frames, "depth")
    <3>1. frames' = <<>> /\ ret' = False
      BY <1>5, <2>2 DEF Fails
    <3>2. RootWork' = 1
      BY <2>1, <3>1 DEF RootWork, GivingUp, False
    <3>3. LoopInv'
      BY <1>5, <3>1 DEF LoopInv
    <3> QED BY <2>1, <3>2, <3>3, NewLen, RootFalls DEF Ahead
  <2>3. CASE Goes(Append(frames, f), Step)
    <3>1. frames' = Append(frames, f) /\ ret' = Step
      BY <2>3 DEF Goes
    <3>2. IsSeq(frames) /\ frames' # <<>> /\ Last(frames') = f
      BY <3>1, NewLen, AppendSeq
    <3>3. RootWork' = 3
      BY <2>1, <3>1, <3>2 DEF RootWork, Step
    <3>4. LoopStack(frames')
      BY <1>2, <1>5, <3>1, <3>2, LoopPush DEF LoopInv
    <3>5. LoopInv'
      BY <1>2, <3>1, <3>2, <3>4 DEF LoopInv, Top
    <3> QED BY <2>1, <3>3, <3>5, NewLen, RootFalls DEF Ahead
  <2> QED BY <1>3, <2>2, <2>3
<1> QED BY <1>4, <1>5

LEMMA ScalarAhead ==
    ASSUME DecoderInv, LoopInv, DecoderInv', TypeScalar \/ TypeBytes \/ TypeUntilBytes
    PROVE  Ahead
<1>1. Calling /\ frames # <<>>
  BY CallingInside DEF TypeScalar, TypeBytes, TypeUntilBytes
<1>2. CASE \E why : Fails(frames, why) \/ Throws(frames, why)
  BY <1>1, <1>2, FailsCalling
<1>3. CASE TypeScalar /\ CanUint(rd, ret.type.width)
  <2>1. rd' = Take(rd, ret.type.width) /\ ret.type.width \in 1..8
        /\ Goes(frames, Return(Num(ScalarValue(ret.type))))
    BY <1>3 DEF TypeScalar, CanUint
  <2>2. rd'.pos > rd.pos
    <3>1. rd \in State /\ rd.pos \in Nat
      BY DEF DecoderInv, Valid, State
    <3>2. rd'.pos = rd.pos + ret.type.width
      BY <2>1, <3>1 DEF Take, State
    <3> QED BY <2>1, <3>1, <3>2
  <2> QED BY <1>1, <2>1, <2>2, HereAhead
<1>4. ASSUME TypeBytes \/ TypeUntilBytes, NEW v, Goes(frames, Return(v))
      PROVE  Ahead
  <2>1. Top.k # "until"
    <3>1. CASE TypeUntilBytes
      BY <1>1, <3>1, CallerTop DEF TypeUntilBytes
    <3>2. CASE TypeBytes
      <4>1. ret.type.dims # <<>>
        <5>1. SUFFICES ASSUME ret.type.dims = <<>> PROVE FALSE
          OBVIOUS
        <5>2. Fails(frames, "unsized")
          BY <3>2, <5>1 DEF TypeBytes
        <5> QED BY <1>4, <5>2 DEF Goes, Fails, Return, False
      <4> QED BY <1>1, <4>1, CallerTop
    <3> QED BY <1>4, <3>1, <3>2
  <2> QED BY <1>1, <1>4, <2>1, HereAhead
<1>5. CASE TypeScalar
  BY <1>2, <1>3, <1>5 DEF TypeScalar
<1>6. CASE TypeBytes
  <2>1. (\E why : Fails(frames, why)) \/ (\E v : Goes(frames, Return(v)))
    <3> DEFINE type == ret.type
               rest == type.dims # <<>> /\ type.dims[1] = Rest
    <3>1. CASE type.dims = <<>>
      BY <1>6, <3>1 DEF TypeBytes
    <3>2. CASE type.dims # <<>> /\ ~rest /\ ~CanSize(type.dims[1], env)
      BY <1>6, <3>2 DEF TypeBytes
    <3>3. CASE type.dims # <<>> /\ (rest \/ CanSize(type.dims[1], env))
      BY <1>6, <3>3 DEF TypeBytes
    <3> QED BY <3>1, <3>2, <3>3
  <2> QED BY <1>2, <1>4, <1>6, <2>1
<1>7. CASE TypeUntilBytes
  <2>1. (\E why : Fails(frames, why) \/ Throws(frames, why)) \/ (\E v : Goes(frames, Return(v)))
    BY <1>7 DEF TypeUntilBytes
  <2> QED BY <1>2, <1>4, <1>7, <2>1
<1> QED BY <1>5, <1>6, <1>7

LEMMA ArrayAhead ==
    ASSUME DecoderInv, LoopInv, DecoderInv', TypeArray
    PROVE  Ahead
<1> DEFINE dims == ret.type.dims
           f == [k |-> "array", elem |-> [ret.type EXCEPT !.dims = Tail(@)],
                 left |-> Extents(dims)[1], vals |-> <<>>]
<1>1. Calling /\ dims # <<>> /\ frames # <<>>
  BY CallingInside DEF TypeArray
<1>2. CASE \E why : Fails(frames, why)
  BY <1>1, <1>2, FailsCalling
<1>3. CASE Goes(Append(frames, f), Step) /\ (\A i \in DOMAIN dims : CanSize(dims[i], env))
  <2>1. 1 \in DOMAIN dims
    <3>1. IsSeq(dims)
      BY <1>1, CallingInside DEF ExecutableType, IsSeq, TypeArray
    <3>2. Len(dims) \in Nat /\ Len(dims) # 0 /\ DOMAIN dims = 1..Len(dims)
      <4> HIDE DEF dims
      <4> QED BY <1>1, <3>1, SeqLen
    <3> QED BY <3>2
  <2>2. f.left \in Nat /\ f.k = "array" /\ "left" \in DOMAIN f
    BY <1>3, <2>1 DEF CanSize, Extents
  <2> HIDE DEF f
  <2>3. Sound(f) /\ Awaits(f, Step)
    BY <2>2 DEF Sound, Awaits, Step
  <2>4. Top.k # "until"
    BY <1>1, CallerTop
  <2> QED BY <1>1, <1>3, <2>3, <2>4, CallsAhead
<1>4. \/ \E why : Fails(frames, why)
      \/ /\ Goes(Append(frames, f), Step)
         /\ \A i \in DOMAIN dims : CanSize(dims[i], env)
  BY DEF TypeArray, Push
<1> QED BY <1>2, <1>3, <1>4

LEMMA SequenceAhead ==
    ASSUME DecoderInv, LoopInv, DecoderInv', TypeUntil
    PROVE  Ahead
<1> DEFINE type == ret.type
           d == [type EXCEPT !.dims = <<>>]
           e == [d EXCEPT !.term = <<>>, !.max = 0]
           f == [k |-> "until", elem |-> e, term |-> type.term, max |-> type.max,
                 saved |-> rd, vals |-> <<>>]
<1>1. Calling /\ ret.type.term # <<>> /\ frames # <<>>
  BY CallingInside DEF TypeUntil
<1>2. (\E why : Fails(frames, why)) \/ Goes(Append(frames, f), Step)
  BY DEF TypeUntil, Push, Until, Dims
<1>3. e.dims = <<>> /\ e.term = <<>>
  <2>1. {"dims", "term", "max"} \subseteq DOMAIN type
    BY <1>1, CallingInside DEF ExecutableType
  <2>2. d.dims = <<>> /\ DOMAIN d = DOMAIN type
    BY <2>1
  <2> HIDE DEF d
  <2> QED BY <2>1, <2>2
<1> HIDE DEF e
<1>4. Sound(f) /\ Awaits(f, Step)
  BY <1>3 DEF Sound, Awaits, Step
<1>5. Top.k # "until"
  BY <1>1, CallerTop
<1> HIDE DEF f
<1> QED BY <1>1, <1>2, <1>4, <1>5, CallsAhead, FailsCalling

-----------------------------------------------------------------------------
\* Loops.

\* A loop goes a step on, in a turn or to the next one.
LEMMA TurnAhead ==
    ASSUME DecoderInv, LoopInv, DecoderInv', frames # <<>>, ~GivingUp(ret), ~GivingUp(ret'),
           NEW f, Goes(Append(Below, f), ret'), f.k = Top.k, f.start = Top.start,
           Sound(f), Awaits(f, ret'),
           NEW m \in Nat, NEW n \in Nat,
           Turns(frames, rd.pos, Len(frames)) = m,
           \A gs : Len(gs) = Len(frames) /\ gs[Len(frames)] = f
                       => Turns(gs, rd'.pos, Len(frames)) = n,
           6 * n + Within(ret', f.k) < 6 * m + Within(ret, f.k)
    PROVE  Ahead
<1> DEFINE k == Len(frames)
           gs == frames'
           next == ret'
           p == rd'.pos
<1>1. k \in Nat \ {0} /\ Top = frames[k] /\ IsSeq(Below) /\ Len(Below) = k - 1
  BY LoopTop
<1>2. gs = Append(Below, f) /\ status' = status
  BY DEF Goes, outcome
<1>3. Len(gs) = k /\ gs[k] = f /\ Len(gs) \in Nat
  <2>1. Len(gs) = (k - 1) + 1 /\ gs[(k - 1) + 1] = f
    BY <1>1, <1>2, AppendSeq
  <2> HIDE DEF gs, k
  <2> QED BY <1>1, <2>1
<1>4. Turns(gs, p, k) = n
  <2> HIDE DEF gs
  <2> QED BY <1>3
<1>5. Work(frames, ret, rd.pos, k) = 6 * m + Within(ret, f.k)
  BY <1>1, WorkOnTop
<1>6. Work(gs, next, p, k) = 6 * n + Within(next, f.k)
  <2>1. ~GivingUp(next)
    OBVIOUS
  <2> HIDE DEF gs, next, p
  <2> QED BY <1>3, <1>4, <2>1, WorkOnTop
<1>7. Work(gs, next, p, k) < Work(frames, ret, rd.pos, k)
  BY <1>5, <1>6
<1> QED BY <1>1, <1>2, <1>7, StayAhead

\* The frame of a loop.
LEMMA LoopFacts ==
    ASSUME DecoderInv, LoopInv, frames # <<>>, Top.k \in {"array", "until"}
    PROVE  /\ Below # <<>> /\ Last(Below).k # "until" /\ Append(Below, Top) = frames
           /\ Sound(Top) /\ Awaits(Top, ret) /\ status = "running" /\ FrameOK(plan, Top)
           /\ rd.pos \in 0..Size /\ Size \in Nat
           /\ LET n == Len(frames)
              IN  /\ Turns(frames, rd.pos, n) \in Nat
                  /\ Turns(frames, rd.pos, n) =
                         (IF Top.k = "array" THEN Top.left ELSE Size - rd.pos)
<1>1. Below # <<>> /\ FrameOK(plan, Top)
  BY BelowRoot, InsideFacts
<1>2. /\ Len(frames) \in Nat \ {0} /\ Len(frames) \in 1..Len(frames) /\ Top = frames[Len(frames)]
      /\ Sound(Top) /\ Awaits(Top, ret) /\ status = "running" /\ Waits(Last(Below), Top)
  BY <1>1, LoopTop
<1>3. Last(Below).k # "until"
  BY <1>2 DEF Waits
<1>4. Append(Below, Top) = frames
  BY FrontSeq DEF DecoderInv, StackOK, Below, Top
<1>5. Turns(frames, rd.pos, Len(frames)) \in Nat
  BY <1>2, WorkNat
<1>6. Turns(frames, rd.pos, Len(frames)) = (IF Top.k = "array" THEN Top.left ELSE Size - rd.pos)
  BY <1>2 DEF Turns, Bodies
<1>7. rd.pos \in 0..Size /\ Size \in Nat
  BY PosInInput, SizeAssumption DEF DecoderInv
<1> QED BY <1>1, <1>2, <1>3, <1>4, <1>5, <1>6, <1>7

LEMMA ArrayStepAhead ==
    ASSUME DecoderInv, LoopInv, DecoderInv', ArrayStep
    PROVE  Ahead
<1> DEFINE n == Len(frames)
<1>1. frames # <<>> /\ Top.k = "array" /\ ret = Step /\ rd' = rd
  BY DEF ArrayStep, Running
<1>2. CASE Goes(Below, Return(List(Top.vals)))
  BY <1>1, <1>2, LoopFacts, ReturnsAhead DEF Enclosed
<1>3. CASE Goes(frames, CallType(Top.elem)) /\ Top.left # 0
  <2>1. /\ Append(Below, Top) = frames /\ Sound(Top)
        /\ Top.left \in Nat /\ Turns(frames, rd.pos, n) = Top.left
    BY <1>1, LoopFacts DEF Sound
  <2>2. ret' = CallType(Top.elem) /\ Goes(Append(Below, Top), ret')
    BY <1>3, <2>1 DEF Goes
  <2>3. ret'.is = "type"
    BY <2>2 DEF CallType
  <2>4. /\ ~GivingUp(ret) /\ ~GivingUp(ret') /\ Awaits(Top, ret')
        /\ Within(ret, Top.k) = 4 /\ Within(ret', Top.k) = 3
    BY <1>1, <1>3, <2>3 DEF GivingUp, Awaits, Within, Step
  <2>5. \A gs : Len(gs) = n /\ gs[n] = Top => Turns(gs, rd'.pos, n) = Top.left
    BY <1>1 DEF Turns, Bodies
  <2>6. 6 * Top.left + Within(ret', Top.k) < 6 * Top.left + Within(ret, Top.k)
    BY <2>1, <2>4
  <2> QED BY <1>1, <2>1, <2>2, <2>4, <2>5, <2>6, TurnAhead
<1> QED BY <1>2, <1>3 DEF ArrayStep

LEMMA ArrayValueAhead ==
    ASSUME DecoderInv, LoopInv, DecoderInv', ArrayValue
    PROVE  Ahead
<1> DEFINE n == Len(frames)
           f == [Top EXCEPT !.left = @ - 1, !.vals = Keep(@, ret.value)]
<1>1. /\ frames # <<>> /\ Top.k = "array" /\ ret.is = "value" /\ rd' = rd
      /\ Goes(Append(Below, f), Step) /\ ret' = Step
  BY DEF ArrayValue, Getting, Running, Replace, Goes
<1>2. /\ Top.left \in Nat /\ Top.left # 0 /\ Turns(frames, rd.pos, n) = Top.left
  BY <1>1, LoopFacts DEF Sound, Awaits
<1>3. "k" \in DOMAIN Top /\ "left" \in DOMAIN Top
  BY <1>1, LoopFacts DEF Sound, FrameOK
<1>4. f.k = "array" /\ f.start = Top.start /\ f.left = Top.left - 1
  BY <1>1, <1>3
<1> HIDE DEF f
<1>5. Sound(f) /\ Awaits(f, ret') /\ f.left \in Nat
  <2>1. "left" \in DOMAIN f
    BY <1>3 DEF f
  <2> QED BY <1>1, <1>2, <1>4, <2>1 DEF Sound, Awaits, Step
<1>6. /\ ~GivingUp(ret) /\ ~GivingUp(ret')
      /\ Within(ret, f.k) = 1 /\ Within(ret', f.k) = 4
  BY <1>1, <1>4 DEF GivingUp, Within, Step
<1>7. \A gs : Len(gs) = n /\ gs[n] = f => Turns(gs, rd'.pos, n) = f.left
  BY <1>4 DEF Turns, Bodies
<1>8. 6 * f.left + Within(ret', f.k) < 6 * Top.left + Within(ret, f.k)
  BY <1>2, <1>4, <1>6
<1>9. Goes(Append(Below, f), ret')
  BY <1>1
<1> QED BY <1>1, <1>2, <1>4, <1>5, <1>6, <1>7, <1>8, <1>9, TurnAhead

\* A step of a loop ends it without success.
LEMMA UndoAhead ==
    ASSUME DecoderInv, LoopInv, DecoderInv', frames # <<>>,
           NEW why, Undo(why) \/ Throws(Below, why) \/ Fails(Below, why) \/ Caught(Below, why)
    PROVE  Ahead
<1>1. frames' = Below /\ GivingUp(ret') /\ status' = status
  BY DEF Undo, Fails, Throws, Caught, GivingUp, False, Throw, outcome
<1> QED BY <1>1, FailsAhead

LEMMA UntilStepAhead ==
    ASSUME DecoderInv, LoopInv, DecoderInv', UntilStep
    PROVE  Ahead
<1> DEFINE n == Len(frames)
<1>1. frames # <<>> /\ Top.k = "until" /\ ret = Step
  BY DEF UntilStep, Running
<1>2. \/ \E why : Undo(why) \/ Throws(Below, why)
      \/ Goes(Below, Return(List(Top.vals)))
      \/ Goes(frames, CallType(Top.elem)) /\ rd' = rd
  BY DEF UntilStep
<1>3. CASE \E why : Undo(why) \/ Throws(Below, why)
  BY <1>1, <1>3, UndoAhead
<1>4. CASE Goes(Below, Return(List(Top.vals)))
  BY <1>1, <1>4, LoopFacts, ReturnsAhead DEF Enclosed
<1>5. CASE Goes(frames, CallType(Top.elem)) /\ rd' = rd
  <2> DEFINE m == Size - rd.pos
  <2>1. /\ Append(Below, Top) = frames /\ Sound(Top)
        /\ m \in Nat /\ Turns(frames, rd.pos, n) = m
    BY <1>1, LoopFacts
  <2>2. ret' = CallType(Top.elem) /\ Goes(Append(Below, Top), ret')
    BY <1>5, <2>1 DEF Goes
  <2>3. ret'.is = "type" /\ ret'.type = Top.elem
    BY <2>2 DEF CallType
  <2>4. /\ ~GivingUp(ret) /\ ~GivingUp(ret') /\ Awaits(Top, ret')
        /\ Within(ret, Top.k) = 4 /\ Within(ret', Top.k) = 3
    BY <1>1, <2>1, <2>3 DEF GivingUp, Awaits, Within, Step, Sound
  <2>5. \A gs : Len(gs) = n /\ gs[n] = Top => Turns(gs, rd'.pos, n) = m
    BY <1>1, <1>5 DEF Turns, Bodies
  <2>6. 6 * m + Within(ret', Top.k) < 6 * m + Within(ret, Top.k)
    <3> HIDE DEF m
    <3> QED BY <2>1, <2>4
  <2> HIDE DEF m
  <2> QED BY <1>1, <2>1, <2>2, <2>4, <2>5, <2>6, TurnAhead
<1> QED BY <1>2, <1>3, <1>4, <1>5

LEMMA UntilValueAhead ==
    ASSUME DecoderInv, LoopInv, DecoderInv', UntilValue
    PROVE  Ahead
<1> DEFINE n == Len(frames)
           f == [Top EXCEPT !.vals = Keep(@, ret.value)]
           m == Size - rd.pos
<1>1. frames # <<>> /\ Top.k = "until" /\ ret.is = "value"
  BY DEF UntilValue, Getting, Running
<1>2. CASE \E why : Undo(why)
  BY <1>1, <1>2, UndoAhead
<1>3. CASE Goes(Append(Below, f), Step) /\ rd' = rd
  <2>1. m \in Nat /\ Turns(frames, rd.pos, n) = m /\ Sound(Top) /\ "k" \in DOMAIN Top
    BY <1>1, LoopFacts DEF FrameOK
  <2>2. f.k = "until" /\ f.start = Top.start /\ f.elem = Top.elem
    BY <1>1, <2>1
  <2> HIDE DEF f
  <2>3. Sound(f) /\ Awaits(f, Step)
    BY <1>1, <2>1, <2>2 DEF Sound, Awaits, Step
  <2>4. /\ ret' = Step /\ ~GivingUp(ret) /\ ~GivingUp(ret')
        /\ Within(ret, f.k) = 5 /\ Within(ret', f.k) = 4
    BY <1>1, <1>3, <2>2 DEF Goes, GivingUp, Within, Step
  <2>5. \A gs : Len(gs) = n /\ gs[n] = f => Turns(gs, rd'.pos, n) = m
    BY <1>3, <2>2 DEF Turns, Bodies
  <2>6. 6 * m + Within(ret', f.k) < 6 * m + Within(ret, f.k)
    <3> HIDE DEF m
    <3> QED BY <2>1, <2>4
  <2> HIDE DEF m
  <2>7. Goes(Append(Below, f), ret') /\ Awaits(f, ret')
    BY <1>3, <2>3, <2>4
  <2> QED BY <1>1, <2>1, <2>2, <2>3, <2>4, <2>5, <2>6, <2>7, TurnAhead
<1> QED BY <1>2, <1>3 DEF UntilValue, Replace

-----------------------------------------------------------------------------
\* member().

LEMMA FailsAheadDoing ==
    ASSUME DecoderInv, LoopInv, DecoderInv', NEW kind, Doing(kind),
           NEW why, Fails(frames, why) \/ Caught(frames, why)
    PROVE  Ahead
<1>1. /\ frames # <<>> /\ frames' = frames /\ GivingUp(ret') /\ status' = status
      /\ ~GivingUp(ret)
  BY DEF Doing, Running, Fails, Caught, GivingUp, False, Step, outcome
<1> QED BY <1>1, FailsAhead

\* A member is stored in the frame below: its loop is the same.
LEMMA LikeStored ==
    ASSUME DecoderInv, frames # <<>>, Top.k \notin Enclosed, NEW obj
    PROVE  /\ Like([Last(Below) EXCEPT !.obj = obj], Last(Below))
           /\ Like(Last(Below), Last(Below))
<1> DEFINE f == Last(Below)
           g == [f EXCEPT !.obj = obj]
<1>1. {"obj", "k", "todo"} \subseteq DOMAIN f
  BY BelowBody DEF FrameOK, BodyOK
<1>2. /\ DOMAIN g = DOMAIN f /\ g.k = f.k /\ g.todo = f.todo /\ g.left = f.left
      /\ g.start = f.start /\ g.elem = f.elem
  BY <1>1
<1> HIDE DEF g, f
<1> QED BY <1>2 DEF Like, f, g

LEMMA StoresAhead ==
    ASSUME DecoderInv, LoopInv, DecoderInv', frames # <<>>, Top.k \notin Enclosed,
           NEW name, NEW v,
           \/ Goes(StoredBelow(name, v), Step)
           \/ Goes(MergedBelow, Step)
           \/ Goes(Below, Step)
    PROVE  Ahead
<1> DEFINE f == Last(Below)
           s == [f EXCEPT !.obj = Put(@, name, v)]
           g == [f EXCEPT !.obj = Merge(@, Top.obj)]
<1>1. Like(s, f) /\ Like(g, f) /\ Like(f, f)
  BY LikeStored
<1>2. StoredBelow(name, v) = Popped(s) /\ MergedBelow = Popped(g)
  BY DEF StoredBelow, MergedBelow, Stored
<1> HIDE DEF s, g
<1> QED BY <1>1, <1>2, EndsAhead

LEMMA ValuesAhead ==
    ASSUME DecoderInv, LoopInv, DecoderInv', Values
    PROVE  Ahead
<1>1. CASE DoVirtual
  <2>1. Doing("virtual")
    BY <1>1 DEF DoVirtual
  <2> QED BY <1>1, <2>1, DoneAhead, FailsAheadDoing DEF DoVirtual
<1>2. CASE DoAlias
  <2>1. Doing("alias")
    BY <1>2 DEF DoAlias
  <2> QED BY <1>2, <2>1, DoneAhead, FailsAheadDoing DEF DoAlias
<1>3. CASE BeginField
  <2> DEFINE f == [k |-> "field", field |-> Op]
  <2>1. Doing("field") /\ Goes(Append(Replace(Rest1), f), CallType(Op.type)) /\ f.k = "field"
    BY <1>3 DEF BeginField
  <2> HIDE DEF f
  <2> QED BY <2>1, BeginsAhead
<1>4. CASE FieldValue
  <2>1. frames # <<>> /\ Top.k \notin Enclosed
    BY <1>4 DEF FieldValue, Getting, Running, Enclosed
  <2>2. Fails(Below, "assert") \/ Goes(StoredBelow(Top.field.sym, ret.value), Step)
    BY <1>4 DEF FieldValue
  <2> QED BY <2>1, <2>2, StoresAhead, UndoAhead
<1> QED BY <1>1, <1>2, <1>3, <1>4 DEF Values

LEMMA GroupFieldAhead ==
    ASSUME DecoderInv, LoopInv, DecoderInv', GroupField
    PROVE  Ahead
<1> DEFINE n == Len(frames)
           m == Len(Top.todo)
           b == Last(Below)
<1>1. /\ frames # <<>> /\ Top.k = "bits" /\ ret = Step /\ Top.todo # <<>>
      /\ Top.k \notin Enclosed
  BY DEF GroupField, Running, Enclosed
<1>2. CASE \E why : Fails(Below, why) \/ Caught(Below, why)
  BY <1>1, <1>2, UndoAhead
<1>3. ASSUME NEW name, NEW v, Goes(Append(StoredBelow(name, v), [Top EXCEPT !.todo = Tail(@)]), Step)
      PROVE  Ahead
  <2> DEFINE g == [b EXCEPT !.obj = Put(@, name, v)]
             f == [Top EXCEPT !.todo = Tail(@)]
             ps == Append(Front(Below), g)
  <2>1. frames' = Append(ps, f) /\ ret' = Step /\ status' = status
    BY <1>3 DEF Goes, outcome, StoredBelow, Popped, Stored
  <2>2. Like(g, b) /\ b.k \in Bodies /\ Below # <<>>
    BY <1>1, LikeStored, BelowBody
  <2>3. FrameOK(plan, Top)
    BY <1>1, InsideFacts
  <2>4. f.k = "bits" /\ f.start = Top.start /\ f.todo = Tail(Top.todo)
    BY <1>1, <2>3 DEF FrameOK, GroupOK
  <2>5. m \in Nat \ {0} /\ Len(f.todo) = m - 1
    BY <1>1, <2>3, <2>4, HeadTailProperties, EmptySeq, LenProperties DEF FrameOK, GroupOK
  <2> HIDE DEF g, f, b
  <2>6. /\ n \in Nat \ {0} /\ Top = frames[n] /\ Below # <<>> /\ IsSeq(Below) /\ LoopStack(Below)
        /\ Len(Below) = n - 1 /\ n - 1 \in 1..(n - 1) /\ b = frames[n - 1]
        /\ \A i \in 1..(n - 1) : Below[i] = frames[i]
    BY <1>1, <2>2, LoopTop DEF b
  <2>7. /\ IsSeq(Front(Below)) /\ Len(Front(Below)) = (n - 1) - 1
        /\ \A i \in 1..((n - 1) - 1) : Front(Below)[i] = Below[i]
        /\ LoopStack(Front(Below)) /\ Sound(b)
        /\ Front(Below) # <<>> => Waits(Last(Front(Below)), b)
    BY <2>6, FrontSeq, LoopPop DEF b
  <2>8. /\ IsSeq(ps) /\ Len(ps) = ((n - 1) - 1) + 1 /\ ps[((n - 1) - 1) + 1] = g /\ Last(ps) = g
        /\ \A i \in 1..((n - 1) - 1) : ps[i] = Front(Below)[i]
    BY <2>7, AppendSeq
  <2>9. Sound(g) /\ (Front(Below) # <<>> => Waits(Last(Front(Below)), g))
    BY <2>2, <2>7, LikeKeeps
  <2>10. LoopStack(ps)
    BY <2>7, <2>9, LoopPush
  <2> HIDE DEF ps
  <2>11. /\ Len(frames') = Len(ps) + 1 /\ frames'[Len(ps) + 1] = f /\ Last(frames') = f
         /\ frames' # <<>> /\ \A i \in 1..Len(ps) : frames'[i] = ps[i]
    BY <2>1, <2>8, AppendSeq
  <2>12. Sound(f) /\ Waits(g, f) /\ Awaits(f, ret')
    BY <2>2, <2>4 DEF Sound, Waits, Awaits, Like, Bodies
  <2>13. LoopStack(frames')
    BY <2>1, <2>8, <2>10, <2>12, LoopPush
  <2>14. /\ Len(ps) = n - 1 /\ Len(frames') = n /\ frames'[n] = f /\ n \in 1..n /\ n <= Len(frames')
         /\ ps[n - 1] = g
    BY <2>6, <2>8, <2>11
  <2>15. ASSUME NEW j \in 1..(n - 1) PROVE Like(frames'[j], frames[j])
    <3>1. frames'[j] = ps[j] /\ (j = n - 1 \/ j \in 1..((n - 1) - 1))
      BY <2>11, <2>14, <2>6
    <3> QED BY <3>1, <2>2, <2>6, <2>7, <2>8, <2>14 DEF Like
  <2>16. Work(frames, ret, rd.pos, n) = 6 * m + 4
    <3>1. frames[n].k \in Bodies \cup {"bits"} /\ frames[n].todo = Top.todo /\ n \in Nat
      BY <1>1, <2>6
    <3>2. Turns(frames, rd.pos, n) = m
      BY <3>1, BodyTurns
    <3> QED BY <1>1, <3>1, <3>2, WorkOnTop DEF GivingUp, Within, Step
  <2>17. Work(frames', ret', rd'.pos, n) = 6 * (m - 1) + 4
    <3> DEFINE gs == frames'
               p == rd'.pos
               next == ret'
    <3>1. ~GivingUp(next) /\ Within(next, f.k) = 4 /\ Len(gs) = n /\ gs[n] = f /\ Len(gs) \in Nat
      BY <2>1, <2>6, <2>14 DEF GivingUp, Within, Step
    <3> HIDE DEF gs, p, next
    <3>2. Turns(gs, p, n) = m - 1
      BY <2>4, <2>5, <3>1, BodyTurns
    <3>3. Work(gs, next, p, n) = 6 * Turns(gs, p, n) + Within(next, gs[n].k)
      BY <3>1, WorkOnTop
    <3>4. Work(gs, next, p, n) = 6 * (m - 1) + 4
      BY <3>1, <3>2, <3>3
    <3> QED BY <3>4 DEF gs, p, next
  <2>18. Work(frames', ret', rd'.pos, n) < Work(frames, ret, rd.pos, n)
    <3> HIDE DEF m
    <3> QED BY <2>5, <2>16, <2>17
  <2>19. Awaits(Last(frames'), ret') /\ frames'[n].start = frames[n].start
    BY <2>4, <2>6, <2>11, <2>12, <2>14
  <2> HIDE DEF n
  <2> QED BY <1>1, <2>1, <2>11, <2>13, <2>14, <2>15, <2>18, <2>19, AheadAt DEF n
<1>4. \/ \E why : Fails(Below, why) \/ Caught(Below, why)
      \/ \E name, v : Goes(Append(StoredBelow(name, v), [Top EXCEPT !.todo = Tail(@)]), Step)
  <2> DEFINE f == Head(Top.todo)
             ordered == SetEndian(rd, f.endian)
             v == BitsValue(Loaded(ordered, f.width), f.width)
  <2>1. CASE Asserted(f, Num(v))
    <3>1. Goes(Append(StoredBelow(f.sym, Num(v)), [Top EXCEPT !.todo = Tail(@)]), Step)
      BY <2>1 DEF GroupField
    <3> HIDE DEF f, v, StoredBelow, Goes
    <3> QED BY <3>1
  <2>2. CASE ~Asserted(f, Num(v))
    <3>1. Fails(Below, "assert") \/ Caught(Below, "bits")
      BY <2>2 DEF GroupField
    <3> QED BY <3>1
  <2> QED BY <2>1, <2>2
<1> QED BY <1>2, <1>3, <1>4

LEMMA GroupsAhead ==
    ASSUME DecoderInv, LoopInv, DecoderInv', Groups
    PROVE  Ahead
<1>1. CASE BeginGroup
  <2> DEFINE f == [k |-> "bits", todo |-> Op.fields, order |-> Op.fields[1].endian]
  <2>1. Doing("bits") /\ f.k = "bits"
    BY <1>1 DEF BeginGroup
  <2>2. Caught(frames, "truncated") \/ Goes(Append(Replace(Rest1), f), Step)
    BY <1>1 DEF BeginGroup
  <2> HIDE DEF f
  <2> QED BY <2>1, <2>2, BeginsAhead, FailsAheadDoing
<1>2. CASE EndGroup
  <2>1. frames # <<>> /\ Top.k \notin Enclosed
    BY <1>2 DEF EndGroup, Running, Enclosed
  <2>2. Goes(Below, Step) \/ Caught(Below, "bits")
    BY <1>2 DEF EndGroup
  <2> QED BY <2>1, <2>2, StoresAhead, UndoAhead
<1> QED BY <1>1, <1>2, GroupFieldAhead DEF Groups

LEMMA PlacesAhead ==
    ASSUME DecoderInv, LoopInv, DecoderInv', Places
    PROVE  Ahead
<1>1. CASE DoAlign
  <2>1. Doing("align") /\ (Goes(Replace(Rest1), Step) \/ Caught(frames, "seek"))
    BY <1>1 DEF DoAlign
  <2> QED BY <2>1, DoneAhead, FailsAheadDoing
<1>2. CASE BeginAt
  <2> DEFINE f == [k |-> "at", todo |-> Op.body, obj |-> NoMembers, back |-> rd.pos]
  <2>1. Doing("at") /\ f.k = "at"
    BY <1>2 DEF BeginAt
  <2>2. \/ Fails(frames, "expression") \/ Caught(frames, "seek")
        \/ Goes(Append(Replace(Rest1), f), Step)
    BY <1>2 DEF BeginAt
  <2> HIDE DEF f
  <2> QED BY <2>1, <2>2, BeginsAhead, FailsAheadDoing
<1>3. CASE BeginBlock
  <2> DEFINE n == Eval(Chosen(Op.static, Op.size), env)
             f == [k |-> "block", todo |-> Op.body, obj |-> NoMembers, start |-> rd.pos,
                   end |-> rd.pos + n]
  <2>1. Doing("block") /\ f.k = "block"
    BY <1>3 DEF BeginBlock
  <2>2. \/ Fails(frames, "expression") \/ Fails(frames, "block")
        \/ Goes(Append(Replace(Rest1), f), Step)
    BY <1>3 DEF BeginBlock
  <2> HIDE DEF f
  <2> QED BY <2>1, <2>2, BeginsAhead, FailsAheadDoing
<1>4. CASE EndAt \/ EndBlock
  <2>1. frames # <<>> /\ Top.k \notin Enclosed
    BY <1>4 DEF EndAt, EndBlock, Ending, Running, Enclosed
  <2>2. \/ Goes(MergedBelow, Step)
        \/ \E why : Fails(Below, why) \/ Caught(Below, why)
    BY <1>4 DEF EndAt, EndBlock
  <2> QED BY <2>1, <2>2, StoresAhead, UndoAhead
<1> QED BY <1>1, <1>2, <1>3, <1>4 DEF Places

LEMMA BranchingAhead ==
    ASSUME DecoderInv, LoopInv, DecoderInv', Branching
    PROVE  Ahead
<1>1. CASE BeginIf
  <2> DEFINE f == Body("branch", IF Eval(Op.cond, env) THEN Op.then ELSE Op.else)
  <2>1. Doing("if") /\ f.k = "branch"
    BY <1>1 DEF BeginIf, Body
  <2>2. Fails(frames, "expression") \/ Goes(Append(Replace(Rest1), f), Step)
    BY <1>1 DEF BeginIf
  <2> HIDE DEF f
  <2> QED BY <2>1, <2>2, BeginsAhead, FailsAheadDoing
<1>2. CASE BeginVariant
  <2>1. Doing("variant")
    BY <1>2 DEF BeginVariant
  <2>2. \/ \E why : Fails(frames, why)
        \/ \E f, next : f.k \in {"typed", "case"} /\ Goes(Append(Replace(Rest1), f), next)
    <3> DEFINE tag == Eval(Op.tag, env)
               matching == {i \in DOMAIN Op.cases : Op.cases[i].tag = tag}
               chosen == IF matching = {} THEN Op.default ELSE <<Op.cases[Min(matching)]>>
               f == [k |-> "typed", name |-> Op.sym]
               g == [k |-> "case", todo |-> Head(chosen).body, obj |-> NoMembers, name |-> Op.sym]
    <3>1. f.k = "typed" /\ g.k = "case"
      OBVIOUS
    <3>2. \/ Fails(frames, "expression") \/ Fails(frames, "variant")
          \/ Goes(Append(Replace(Rest1), f), CallType(Head(chosen).type))
          \/ Goes(Append(Replace(Rest1), g), Step)
      BY <1>2 DEF BeginVariant
    <3> HIDE DEF f, g, chosen, Replace, Goes, Fails
    <3> QED BY <3>1, <3>2
  <2> QED BY <2>1, <2>2, BeginsAhead, FailsAheadDoing
<1>3. CASE EndBranch \/ EndCase \/ TypedValue
  <2>1. frames # <<>> /\ Top.k \notin Enclosed
    BY <1>3 DEF EndBranch, EndCase, TypedValue, Getting, Ending, Running, Enclosed
  <2>2. Goes(MergedBelow, Step) \/ \E name, v : Goes(StoredBelow(name, v), Step)
    <3>1. CASE EndBranch
      BY <3>1 DEF EndBranch
    <3>2. CASE EndCase
      <4>1. Goes(StoredBelow(Top.name, Object(Top.obj)), Step)
        BY <3>2 DEF EndCase
      <4> HIDE DEF Goes, StoredBelow
      <4> QED BY <4>1
    <3>3. CASE TypedValue
      <4>1. Goes(StoredBelow(Top.name, Object([x \in {"value"} |-> ret.value])), Step)
        BY <3>3 DEF TypedValue
      <4> HIDE DEF Goes, StoredBelow
      <4> QED BY <4>1
    <3> QED BY <1>3, <3>1, <3>2, <3>3
  <2> QED BY <2>1, <2>2, StoresAhead
<1> QED BY <1>1, <1>2, <1>3 DEF Branching

LEMMA CallbacksAhead ==
    ASSUME DecoderInv, LoopInv, DecoderInv', Callbacks
    PROVE  Ahead
<1>1. Doing("callback")
  BY DEF Callbacks, CallbackRefused, CallbackSucceeds, CallbackFails, CallbackEscapes
<1>2. \/ \E why : Fails(frames, why) \/ Caught(frames, why)
      \/ Goes(Replace(Rest1), Step)
  BY DEF Callbacks, CallbackRefused, CallbackSucceeds, CallbackFails, CallbackEscapes
<1> QED BY <1>1, <1>2, DoneAhead, FailsAheadDoing

LEMMA UnwindsAhead ==
    ASSUME DecoderInv, LoopInv, DecoderInv', Unwinds
    PROVE  Ahead
<1>1. frames # <<>>
  BY DEF Unwinds, FailStruct, FailUntil, FailAt, FailBlock, FailThrough, CatchThrow, PassThrow,
         Running
<1>2. frames' = Below /\ GivingUp(ret') /\ status' = status
  BY DEF Unwinds, FailStruct, FailUntil, FailAt, FailBlock, FailThrough, CatchThrow, PassThrow,
         Running, Goes, Fails, Caught, Throws, GivingUp, False, Throw, outcome
<1> QED BY <1>1, <1>2, FailsAhead

-----------------------------------------------------------------------------
\* Every step, and what follows for every behaviour.

LEMMA EmptyLoops == LoopStack(<<>>)
<1>1. Len(<<>>) = 0
  BY EmptySeq
<1> QED BY <1>1 DEF LoopStack

LEMMA EntryAhead ==
    ASSUME DecoderInv, LoopInv, DecoderInv', Start \/ Finish
    PROVE  Ahead
<1>1. frames = <<>> /\ frames' = <<>>
  BY DEF Start, Finish, DecoderInv, RootOK
<1>2. LoopInv'
  BY <1>1, EmptyLoops DEF LoopInv
<1>3. RootWork' < RootWork
  <2>1. CASE Start
    <3>1. RootWork = 5 /\ RootWork' \in {1, 4}
      BY <1>1, <2>1 DEF Start, RootWork, GivingUp, CallType, False
    <3> QED BY <3>1
  <2>2. CASE Finish
    <3>1. RootWork \in {1, 2} /\ RootWork' = 0
      BY <1>1, <2>2 DEF Finish, RootWork, GivingUp, False
    <3> QED BY <3>1
  <2> QED BY <2>1, <2>2
<1>4. Precedes(Works', Works)
  BY <1>3, NewLen, RootFalls
<1> QED BY <1>2, <1>4 DEF Ahead

LEMMA StepAhead ==
    ASSUME DecoderInv, LoopInv, DecoderInv', Next
    PROVE  Ahead
<1>1. CASE Start \/ Finish \/ EndStruct
  BY <1>1, EntryAhead, EndStructAhead
<1>2. CASE Types
  BY <1>2, StructAhead, ScalarAhead, ArrayAhead, SequenceAhead DEF Types
<1>3. CASE Loops
  BY <1>3, ArrayStepAhead, ArrayValueAhead, UntilStepAhead, UntilValueAhead DEF Loops
<1> QED BY <1>1, <1>2, <1>3, ValuesAhead, GroupsAhead, PlacesAhead, BranchingAhead,
           CallbacksAhead, UnwindsAhead DEF Next

LEMMA LoopStep ==
    ASSUME DecoderInv, LoopInv, DecoderInv', [Next]_vars
    PROVE  LoopInv' /\ [Stalls \/ Precedes(Works', Works)]_vars
<1>1. CASE Next
  BY <1>1, StepAhead DEF Ahead
<1>2. CASE UNCHANGED vars
  BY <1>2 DEF vars, LoopInv, Top, LoopStack
<1> QED BY <1>1, <1>2

LEMMA LoopInit ==
    ASSUME Init
    PROVE  LoopInv
BY EmptyLoops DEF Init, LoopInv

\* The counters of the loops stand where the loops can end: an array that waits
\* for an element has one to take, a terminated sequence that waits for a frame
\* waits for a struct (readArray(), readTerminated()).
THEOREM LoopsCountDown == Spec => []LoopInv
<1>1. DecoderInv /\ LoopInv /\ DecoderInv' /\ [Next]_vars => LoopInv'
  BY LoopStep
<1> QED BY <1>1, LoopInit, DecoderInvariant, PTL DEF Spec

\* What is left to do is counted by naturals, one for decode() itself and one for
\* every frame.
LEMMA WorksNat ==
    ASSUME DecoderInv, LoopInv
    PROVE  Works \in [0..Len(frames) -> Nat]
<1> SUFFICES ASSUME NEW i \in 0..Len(frames)
             PROVE  (IF i = 0 THEN RootWork ELSE Work(frames, ret, rd.pos, i)) \in Nat
  BY DEF Works
<1>1. Len(frames) \in Nat
  BY SeqLen DEF DecoderInv, StackOK
<1>2. CASE i = 0
  BY <1>2 DEF RootWork
<1>3. CASE i # 0
  <2>1. i \in 1..Len(frames)
    BY <1>1, <1>3
  <2> QED BY <1>3, <2>1, WorkNat
<1> QED BY <1>2, <1>3

\* Every step of decode() leaves less to do than there was, wherever callbacks and
\* expressions move the reader, but for the end of an element of a terminated
\* sequence that stands where it began or before.
THEOREM DecodingProgresses == Spec => Progress
<1>1. DecoderInv /\ LoopInv /\ DecoderInv' /\ [Next]_vars =>
          [Stalls \/ Precedes(Works', Works)]_vars
  BY LoopStep
<1> QED BY <1>1, DecoderInvariant, LoopsCountDown, PTL DEF Spec, Progress

-----------------------------------------------------------------------------
\* Less work cannot go on for ever on stacks of a bounded depth: a frame that is
\* not there counts as more than any work, and what remains is the lexicographic
\* order.

Rungs == Nat \cup {-1}
RungOrder == {p \in Rungs \X Rungs : p[1] # -1 /\ (p[2] = -1 \/ p[1] < p[2])}

LEMMA LeastNat ==
    ASSUME NEW S, S \subseteq Nat, S # {}
    PROVE  \E x \in S : \A y \in S : x <= y
<1>1. PICK x \in S : \A y \in S : ~ (<<y, x>> \in OpToRel(<, Nat))
  BY WFMin, NatLessThanWellFounded, Zenon
<1>2. \A y \in S : ~ (y < x)
  BY <1>1 DEF OpToRel
<1> QED BY <1>2

LEMMA RungsEnd == IsWellFoundedOn(RungOrder, Rungs)
<1>1. SUFFICES ASSUME NEW T \in SUBSET Rungs, T # {}
               PROVE  \E x \in T : \A y \in T : <<y, x>> \notin RungOrder
  BY MinWF
<1>2. \A x, y \in Rungs : <<y, x>> \in RungOrder <=> y # -1 /\ (x = -1 \/ y < x)
  BY DEF RungOrder
<1>3. CASE T \cap Nat = {}
  <2>1. T = {-1}
    BY <1>1, <1>3 DEF Rungs
  <2> QED BY <1>2, <2>1 DEF Rungs
<1>4. CASE T \cap Nat # {}
  <2>1. PICK x \in T \cap Nat : \A y \in T \cap Nat : x <= y
    BY <1>4, LeastNat
  <2>2. ASSUME NEW y \in T PROVE <<y, x>> \notin RungOrder
    <3>1. y \in Nat \/ y = -1
      BY DEF Rungs
    <3>2. x \in Rungs /\ y \in Rungs
      BY <2>1
    <3> QED BY <1>2, <2>1, <3>1, <3>2
  <2> QED BY <2>1, <2>2
<1> QED BY <1>3, <1>4

\* The works of stacks of at most depth frames, and their order.
WorksTo(depth) == UNION {[0..n -> Nat] : n \in 0..depth}
WorkOrder(depth) == {p \in WorksTo(depth) \X WorksTo(depth) : Precedes(p[1], p[2])}
Padded(u, depth) == [j \in 1..(depth + 1) |-> IF j - 1 \in DOMAIN u THEN u[j - 1] ELSE -1]

LEMMA PaddedFalls ==
    ASSUME NEW depth \in Nat, NEW u \in WorksTo(depth), NEW v \in WorksTo(depth),
           Precedes(u, v)
    PROVE  /\ Padded(u, depth) \in [1..(depth + 1) -> Rungs]
           /\ <<Padded(u, depth), Padded(v, depth)>> \in
                  LexProductOrdering(RungOrder, Rungs, depth + 1)
<1> DEFINE pu == Padded(u, depth)
           pv == Padded(v, depth)
<1>1. PICK m \in 0..depth : u \in [0..m -> Nat]
  BY DEF WorksTo
<1>2. PICK n \in 0..depth : v \in [0..n -> Nat]
  BY DEF WorksTo
<1>3. \A j \in 1..(depth + 1) :
          /\ pu[j] = IF j - 1 \in DOMAIN u THEN u[j - 1] ELSE -1
          /\ pv[j] = IF j - 1 \in DOMAIN v THEN v[j - 1] ELSE -1
  BY DEF Padded
<1>4. pu \in [1..(depth + 1) -> Rungs] /\ pv \in [1..(depth + 1) -> Rungs]
  BY <1>1, <1>2 DEF Padded, Rungs
<1>5. PICK i \in DOMAIN u : /\ \A j \in 0..(i - 1) : j \in DOMAIN v /\ u[j] = v[j]
                            /\ i \in DOMAIN v => u[i] < v[i]
  BY DEF Precedes
<1>6. /\ i \in 0..m /\ i + 1 \in 1..(depth + 1) /\ (i + 1) - 1 = i
      /\ \A k \in 1..((i + 1) - 1) : k - 1 \in 0..(i - 1) /\ k - 1 \in 0..m
                                     /\ k \in 1..(depth + 1)
  BY <1>1, <1>5
<1> HIDE DEF pu, pv
<1>7. \A k \in 1..((i + 1) - 1) : pu[k] = pv[k]
  BY <1>1, <1>3, <1>5, <1>6
<1>8. <<pu[i + 1], pv[i + 1]>> \in RungOrder
  <2>1. pu[i + 1] = u[i] /\ u[i] \in Nat
    BY <1>1, <1>3, <1>6
  <2>2. pv[i + 1] = IF i \in DOMAIN v THEN v[i] ELSE -1
    BY <1>3, <1>6
  <2>3. CASE i \in DOMAIN v
    <3>1. v[i] \in Nat /\ u[i] < v[i]
      BY <1>2, <1>5, <2>3
    <3> QED BY <2>1, <2>2, <2>3, <3>1 DEF RungOrder, Rungs
  <2>4. CASE i \notin DOMAIN v
    BY <2>1, <2>2, <2>4 DEF RungOrder, Rungs
  <2> QED BY <2>3, <2>4
<1>9. <<pu, pv>> \in LexProductOrdering(RungOrder, Rungs, depth + 1)
  BY <1>4, <1>6, <1>7, <1>8 DEF LexProductOrdering
<1> QED BY <1>4, <1>9 DEF pu, pv

\* However much a step adds above the frame whose work falls, only so many steps
\* can leave less to do while the stack has at most depth frames: no behaviour of
\* decode() goes on for ever but through elements that take no bytes.
THEOREM WorkRunsOut ==
    ASSUME NEW depth \in Nat
    PROVE  IsWellFoundedOn(WorkOrder(depth), WorksTo(depth))
<1> DEFINE order == LexProductOrdering(RungOrder, Rungs, depth + 1)
           padded == [1..(depth + 1) -> Rungs]
<1>1. IsWellFoundedOn(order, padded)
  BY RungsEnd, WFLexProductOrdering
<1>2. SUFFICES ASSUME NEW f \in [Nat -> WorksTo(depth)],
                      \A n \in Nat : <<f[n + 1], f[n]>> \in WorkOrder(depth)
               PROVE  FALSE
  BY DEF IsWellFoundedOn
<1> DEFINE g == [n \in Nat |-> Padded(f[n], depth)]
<1>3. ASSUME NEW n \in Nat
      PROVE  /\ Padded(f[n + 1], depth) \in padded
             /\ <<Padded(f[n + 1], depth), Padded(f[n], depth)>> \in order
  <2>1. f[n + 1] \in WorksTo(depth) /\ f[n] \in WorksTo(depth) /\ Precedes(f[n + 1], f[n])
    BY <1>2 DEF WorkOrder
  <2> QED BY <2>1, PaddedFalls
<1>4. \A n \in Nat : g[n] \in padded
  <2>1. \A n \in Nat : Padded(f[n], depth) \in padded
    BY <1>3 DEF LexProductOrdering
  <2> QED BY <2>1
<1>5. g \in [Nat -> padded]
  BY <1>4
<1>6. \A n \in Nat : <<g[n + 1], g[n]>> \in order
  BY <1>3
<1> HIDE DEF g, order, padded
<1> QED BY <1>1, <1>5, <1>6 DEF IsWellFoundedOn

-----------------------------------------------------------------------------
\* The stack is no deeper than the plan nests: the frames above each one, and those
\* that a call of readType takes, were counted before anything was read.

Fits(p, high, i, f) ==
    /\ i <= Tall(p, high)
    /\ f.k \in Bodies => f.todo \in DOMAIN high /\ i + high[f.todo] <= Tall(p, high)
    /\ f.k \in {"array", "until"} => i + FramesOfType(p, high, f.elem) <= Tall(p, high)

StackFits(p, high, fs) == \A i \in 1..Len(fs) : Fits(p, high, i, fs[i])

CallFits(p, high, fs, next) ==
    next.is = "type" => Len(fs) + FramesOfType(p, high, next.type) <= Tall(p, high)

FitsPlan(high) == StackFits(plan, high, frames) /\ CallFits(plan, high, frames, ret)
HeightInv == \A high : Heights(plan, high) => FitsPlan(high)

\* A frame that has as much to do as another, or its first operation less.
Narrows(f, g) == /\ g.k = f.k
                 /\ f.k \in Bodies => \/ g.todo = f.todo
                                      \/ f.todo # <<>> /\ g.todo = Tail(f.todo)
                 /\ f.k \in {"array", "until"} => g.elem = f.elem

LEMMA TypeFrames ==
    ASSUME NEW p \in Plans, NEW high, Heights(p, high), NEW type, ExecutableType(p, type)
    PROVE  /\ FramesOfType(p, high, type) \in Nat
           /\ type.form = "struct" => high[p.structs[type.ref].body] \in Nat
<1>1. Len(type.dims) \in Nat
  BY SeqLen DEF ExecutableType, IsSeq
<1>2. type.form = "struct" => high[p.structs[type.ref].body] \in Nat
  BY DEF ExecutableType, Heights
<1> DEFINE dims == Len(type.dims)
           m == IF type.term = <<>> THEN 0 ELSE 1
           n == IF type.form = "struct" THEN 1 + high[p.structs[type.ref].body] ELSE 0
<1>3. m \in Nat /\ n \in Nat
  BY <1>2
<1>4. FramesOfType(p, high, type) = dims + m + n
  BY DEF FramesOfType
<1> HIDE DEF dims, m, n
<1>5. dims + m + n \in Nat
  BY <1>1, <1>3 DEF dims
<1> QED BY <1>2, <1>4, <1>5

LEMMA TallNat ==
    ASSUME NEW p \in Plans, NEW high, Heights(p, high)
    PROVE  Tall(p, high) \in Nat /\ \A ops \in DOMAIN high : high[ops] \in Nat
BY PlanFacts DEF Tall, Heights

LEMMA FitsNarrow ==
    ASSUME NEW p \in Plans, NEW high, Heights(p, high), NEW i \in Nat, NEW f, NEW g,
           Narrows(f, g), Fits(p, high, i, f)
    PROVE  Fits(p, high, i, g)
<1> DEFINE tall == Tall(p, high)
<1>1. tall \in Nat /\ \A ops \in DOMAIN high : high[ops] \in Nat
  BY TallNat
<1>2. ASSUME f.k \in Bodies, f.todo # <<>>
      PROVE  Tail(f.todo) \in DOMAIN high /\ high[Tail(f.todo)] <= high[f.todo]
  BY <1>2 DEF Heights, Fits
<1>3. f.k \in Bodies => g.todo \in DOMAIN high /\ i + high[g.todo] <= tall
  BY <1>1, <1>2 DEF Narrows, Fits
<1> QED BY <1>3 DEF Narrows, Fits

LEMMA FitsPop ==
    ASSUME NEW p, NEW high, NEW fs, IsSeq(fs), fs # <<>>, StackFits(p, high, fs)
    PROVE  StackFits(p, high, Front(fs)) /\ Fits(p, high, Len(fs), Last(fs))
<1>1. /\ Len(fs) \in Nat \ {0} /\ Len(Front(fs)) = Len(fs) - 1 /\ Last(fs) = fs[Len(fs)]
      /\ \A i \in 1..(Len(fs) - 1) : Front(fs)[i] = fs[i] /\ i \in 1..Len(fs)
      /\ Len(fs) \in 1..Len(fs)
  BY FrontSeq
<1> HIDE DEF Front, Last
<1> QED BY <1>1 DEF StackFits

LEMMA FitsPush ==
    ASSUME NEW p, NEW high, NEW fs, IsSeq(fs), StackFits(p, high, fs),
           NEW f, Fits(p, high, Len(fs) + 1, f)
    PROVE  StackFits(p, high, Append(fs, f))
<1> DEFINE gs == Append(fs, f)
           n == Len(fs)
<1>1. /\ n \in Nat /\ Len(gs) = n + 1 /\ gs[n + 1] = f /\ \A i \in 1..n : gs[i] = fs[i]
  BY AppendSeq, SeqLen
<1>2. \A i \in 1..(n + 1) : i \in 1..n \/ i = n + 1
  BY <1>1
<1> HIDE DEF gs
<1> QED BY <1>1, <1>2 DEF StackFits, gs

LEMMA FitsReplace ==
    ASSUME NEW p \in Plans, NEW high, Heights(p, high), NEW fs, IsSeq(fs), fs # <<>>,
           StackFits(p, high, fs), NEW f, Narrows(Last(fs), f)
    PROVE  /\ StackFits(p, high, Append(Front(fs), f)) /\ IsSeq(Append(Front(fs), f))
           /\ Len(Append(Front(fs), f)) = Len(fs)
<1>1. /\ IsSeq(Front(fs)) /\ Len(fs) \in Nat \ {0} /\ Len(Front(fs)) = Len(fs) - 1
      /\ (Len(fs) - 1) + 1 = Len(fs)
  BY FrontSeq
<1>2. StackFits(p, high, Front(fs)) /\ Fits(p, high, Len(fs), Last(fs))
  BY FitsPop
<1>3. Fits(p, high, Len(fs), f)
  BY <1>1, <1>2, FitsNarrow
<1> HIDE DEF Front, Last
<1> QED BY <1>1, <1>2, <1>3, FitsPush, AppendSeq

\* What a step does to the stack when it calls nothing.
Narrowing ==
    /\ ret'.is # "type"
    /\ \/ frames' = frames
       \/ frames # <<>> /\ frames' = Below
       \/ frames # <<>> /\ \E f : Narrows(Top, f) /\ frames' = Replace(f)
       \/ frames # <<>> /\ Below # <<>> /\ \E f : Narrows(Last(Below), f) /\ frames' = Popped(f)

LEMMA NarrowingFits ==
    ASSUME DecoderInv, NEW high, Heights(plan, high), FitsPlan(high), plan' = plan, Narrowing
    PROVE  FitsPlan(high)'
<1>1. IsSeq(frames) /\ StackFits(plan, high, frames) /\ plan \in Plans
  BY DEF DecoderInv, StackOK, FitsPlan
<1>2. ASSUME frames # <<>> PROVE IsSeq(Below) /\ StackFits(plan, high, Below)
  BY <1>1, <1>2, FrontSeq, FitsPop DEF Below
<1>3. StackFits(plan, high, frames')
  <2>1. CASE frames' = frames
    BY <1>1, <2>1
  <2>2. CASE frames # <<>> /\ frames' = Below
    BY <1>2, <2>2
  <2>3. ASSUME frames # <<>>, NEW f, Narrows(Top, f), frames' = Replace(f)
        PROVE  StackFits(plan, high, frames')
    BY <1>1, <2>3, FitsReplace DEF Top, Replace, Below
  <2>4. ASSUME frames # <<>>, Below # <<>>, NEW f, Narrows(Last(Below), f), frames' = Popped(f)
        PROVE  StackFits(plan, high, frames')
    BY <1>2, <1>1, <2>4, FitsReplace DEF Popped
  <2> QED BY <2>1, <2>2, <2>3, <2>4 DEF Narrowing
<1>4. CallFits(plan, high, frames', ret')
  BY DEF CallFits, Narrowing
<1> QED BY <1>3, <1>4 DEF FitsPlan

\* What an operation leaves for the frame that it is taken from.
LEMMA RestNarrows ==
    ASSUME DecoderInv, NEW kind, Doing(kind)
    PROVE  Narrows(Top, Rest1) /\ frames # <<>>
<1> DEFINE r == Rest1
<1>1. frames # <<>> /\ Top.k \in Bodies /\ FrameOK(plan, Top) /\ Top.todo # <<>>
  BY DoingFacts, InsideFacts DEF Doing
<1>2. r.k = Top.k /\ r.todo = Tail(Top.todo)
  BY <1>1 DEF FrameOK, BodyOK, Rest1
<1>3. Top.k \notin {"array", "until"}
  BY <1>1 DEF Bodies
<1> HIDE DEF r
<1>4. Narrows(Top, r)
  BY <1>1, <1>2, <1>3 DEF Narrows
<1> QED BY <1>1, <1>4 DEF r

\* An operation has room for what it calls.
LEMMA RoomForOp ==
    ASSUME DecoderInv, NEW high, Heights(plan, high), FitsPlan(high), NEW kind, Doing(kind)
    PROVE  LET n == Len(frames) + 1
               tall == Tall(plan, high)
           IN  /\ IsSeq(Replace(Rest1)) /\ StackFits(plan, high, Replace(Rest1))
               /\ Len(Replace(Rest1)) = Len(frames) /\ n \in Nat /\ tall \in Nat
               /\ Narrows(Top, Rest1) /\ frames # <<>>
               /\ kind = "bits" => n <= tall
               /\ \A body \in BodiesOf(Op) : /\ body \in DOMAIN high /\ n + high[body] <= tall
                                             /\ n <= tall
               /\ \A type \in TypesOf(Op) : ExecutableType(plan, type) =>
                      n <= tall /\ n + FramesOfType(plan, high, type) <= tall
<1> DEFINE n == Len(frames) + 1
           tall == Tall(plan, high)
           ops == Top.todo
<1>1. /\ frames # <<>> /\ Top.k \in Bodies /\ ops # <<>> /\ plan \in Plans
      /\ IsSeq(frames) /\ FrameOK(plan, Top) /\ Op.op = kind /\ Op = Head(ops)
      /\ StackFits(plan, high, frames)
  BY DoingFacts, InsideFacts DEF Doing, StackOK, Op, FitsPlan
<1>2. Narrows(Top, Rest1)
  BY RestNarrows
<1>3. /\ StackFits(plan, high, Replace(Rest1)) /\ IsSeq(Replace(Rest1))
      /\ Len(Replace(Rest1)) = Len(frames)
  BY <1>1, <1>2, FitsReplace DEF Replace, Below, Top
<1>4. Fits(plan, high, Len(frames), Top) /\ Len(frames) \in Nat
  BY <1>1, FitsPop, SeqLen DEF Top
<1>5. ops \in DOMAIN high /\ Len(frames) + high[ops] <= tall
  BY <1>1, <1>4 DEF Fits
<1>6. tall \in Nat /\ \A list \in DOMAIN high : high[list] \in Nat
  BY <1>1, TallNat
<1>7. /\ BodiesOf(Op) \subseteq DOMAIN high
      /\ kind = "bits" => 1 <= high[ops]
      /\ \A body \in BodiesOf(Op) : 1 + high[body] <= high[ops]
      /\ \A type \in TypesOf(Op) : 1 + FramesOfType(plan, high, type) <= high[ops]
  BY <1>1, <1>5 DEF Heights
<1> HIDE DEF tall, ops
<1>8. kind = "bits" => n <= tall
  BY <1>4, <1>5, <1>6, <1>7
<1>9. ASSUME NEW body \in BodiesOf(Op)
      PROVE  body \in DOMAIN high /\ n + high[body] <= tall /\ n <= tall
  <2>1. body \in DOMAIN high /\ high[body] \in Nat /\ high[ops] \in Nat
    BY <1>5, <1>6, <1>7
  <2>2. 1 + high[body] <= high[ops]
    BY <1>7
  <2> QED BY <1>4, <1>5, <1>6, <2>1, <2>2
<1>10. ASSUME NEW type \in TypesOf(Op), ExecutableType(plan, type)
       PROVE  n <= tall /\ n + FramesOfType(plan, high, type) <= tall
  <2>1. FramesOfType(plan, high, type) \in Nat /\ high[ops] \in Nat
    BY <1>1, <1>5, <1>6, <1>10, TypeFrames
  <2>2. 1 + FramesOfType(plan, high, type) <= high[ops]
    BY <1>7
  <2> QED BY <1>4, <1>5, <1>6, <2>1, <2>2
<1>11. n \in Nat
  BY <1>4
<1> HIDE DEF n
<1> QED BY <1>1, <1>2, <1>3, <1>6, <1>8, <1>9, <1>10, <1>11 DEF n, tall

\* A frame is pushed, for an operation that is done with that.
LEMMA BegunFits ==
    ASSUME DecoderInv, NEW high, Heights(plan, high), FitsPlan(high), plan' = plan,
           NEW kind, Doing(kind), NEW f, frames' = Append(Replace(Rest1), f),
           Fits(plan, high, Len(frames) + 1, f),
           ret'.is = "type" =>
               Len(frames) + 1 + FramesOfType(plan, high, ret'.type) <= Tall(plan, high)
    PROVE  FitsPlan(high)'
<1> DEFINE gs == Replace(Rest1)
<1>1. IsSeq(gs) /\ StackFits(plan, high, gs) /\ Len(gs) = Len(frames)
  BY RoomForOp
<1>2. frames' = Append(gs, f)
  OBVIOUS
<1> HIDE DEF gs
<1>3. StackFits(plan, high, frames') /\ Len(frames') = Len(frames) + 1
  BY <1>1, <1>2, FitsPush, AppendSeq
<1>4. CallFits(plan, high, frames', ret')
  BY <1>3 DEF CallFits
<1> QED BY <1>3, <1>4 DEF FitsPlan

\* readType calls readStruct, or itself.
LEMMA CallsFit ==
    ASSUME DecoderInv, NEW high, Heights(plan, high), FitsPlan(high), plan' = plan,
           TypeStruct \/ TypeArray \/ TypeUntil
    PROVE  FitsPlan(high)'
<1> DEFINE n == Len(frames) + 1
           tall == Tall(plan, high)
           name == ret.type.ref
           d == [ret.type EXCEPT !.dims = Tail(@)]
           c == [ret.type EXCEPT !.dims = <<>>]
           u == [c EXCEPT !.term = <<>>, !.max = 0]
           struct == StructFrame(name)
           array == [k |-> "array", elem |-> d, left |-> Extents(ret.type.dims)[1], vals |-> <<>>]
           until == [k |-> "until", elem |-> u, term |-> ret.type.term, max |-> ret.type.max,
                     saved |-> rd, vals |-> <<>>]
<1>1. /\ Calling /\ ret.is = "type" /\ ExecutableType(plan, ret.type) /\ IsSeq(frames)
      /\ plan \in Plans /\ StackFits(plan, high, frames)
      /\ Len(frames) + FramesOfType(plan, high, ret.type) <= tall
      /\ tall \in Nat /\ Len(frames) \in Nat
  BY CallingFacts, TallNat, SeqLen
     DEF TypeStruct, TypeArray, TypeUntil, Calling, StackOK, FitsPlan, CallFits
<1>2. \/ frames' = frames /\ ret' = False
      \/ frames' = Append(frames, struct) /\ ret' = Step /\ TypeStruct
      \/ frames' = Append(frames, array) /\ ret' = Step /\ ret.type.dims # <<>> /\ TypeArray
      \/ frames' = Append(frames, until) /\ ret' = Step /\ TypeUntil
  BY DEF TypeStruct, TypeArray, TypeUntil, Push, Goes, Fails, Until, Dims
<1>3. False.is # "type" /\ Step.is # "type"
  BY DEF False, Step
<1>4. ret.type.form = "struct" => high[plan.structs[ret.type.ref].body] \in Nat
  BY <1>1 DEF ExecutableType, Heights
<1>5. CASE frames' = frames /\ ret' = False
  BY <1>3, <1>5, NarrowingFits DEF Narrowing
<1>6. ASSUME NEW f, frames' = Append(frames, f), ret' = Step, Fits(plan, high, n, f)
      PROVE  FitsPlan(high)'
  <2>1. StackFits(plan, high, frames')
    BY <1>1, <1>6, FitsPush
  <2>2. CallFits(plan, high, frames', ret')
    BY <1>3, <1>6 DEF CallFits
  <2> QED BY <2>1, <2>2 DEF FitsPlan
<1>7. CASE frames' = Append(frames, struct) /\ ret' = Step /\ TypeStruct
  <2>1. struct.k = "struct" /\ struct.todo = plan.structs[name].body
    BY DEF StructFrame
  <2>2. ret.type.form = "struct" /\ ret.type.dims = <<>> /\ ret.type.term = <<>>
        /\ name \in DOMAIN plan.structs
    BY <1>1, <1>7 DEF TypeStruct, ExecutableType
  <2>3. plan.structs[name].body \in DOMAIN high /\ high[plan.structs[name].body] \in Nat
    BY <1>1, <2>2, TypeFrames DEF Heights
  <2>4. FramesOfType(plan, high, ret.type) = 1 + high[plan.structs[name].body]
    <3>1. Len(ret.type.dims) = 0
      BY <2>2, EmptySeq
    <3> QED BY <2>2, <2>3, <3>1 DEF FramesOfType
  <2> HIDE DEF struct, tall
  <2>5. n <= tall /\ n + high[plan.structs[name].body] <= tall
    <3> DEFINE h == high[plan.structs[name].body]
               m == Len(frames)
    <3>1. m + (1 + h) <= tall /\ h \in Nat /\ m \in Nat /\ tall \in Nat
      BY <1>1, <2>3, <2>4
    <3> HIDE DEF h, m
    <3>2. m + 1 <= tall /\ m + 1 + h <= tall
      BY <3>1
    <3> QED BY <3>2 DEF h, m
  <2>6. Fits(plan, high, n, struct)
    BY <2>1, <2>3, <2>5 DEF Fits, tall
  <2> QED BY <1>6, <1>7, <2>6
<1>8. CASE frames' = Append(frames, array) /\ ret' = Step /\ ret.type.dims # <<>> /\ TypeArray
  <2>1. array.k = "array" /\ array.elem = d
    OBVIOUS
  <2>2. /\ d.form = ret.type.form /\ d.ref = ret.type.ref /\ d.term = ret.type.term
        /\ d.dims = Tail(ret.type.dims)
    BY <1>1 DEF ExecutableType
  <2>3. Len(Tail(ret.type.dims)) = Len(ret.type.dims) - 1 /\ Len(ret.type.dims) \in Nat \ {0}
    BY <1>1, <1>8, HeadTailProperties, EmptySeq DEF ExecutableType
  <2> DEFINE rest == (IF ret.type.term = <<>> THEN 0 ELSE 1)
             under == IF ret.type.form = "struct"
                      THEN 1 + high[plan.structs[ret.type.ref].body] ELSE 0
             dims == Len(ret.type.dims)
  <2> HIDE DEF array, d
  <2>4. rest \in Nat /\ under \in Nat
    BY <1>4
  <2>5. /\ FramesOfType(plan, high, ret.type) = dims + rest + under
        /\ FramesOfType(plan, high, d) = dims - 1 + rest + under
    BY <2>2, <2>3 DEF FramesOfType
  <2> HIDE DEF rest, under, dims, tall
  <2>6. dims \in Nat \ {0}
    BY <2>3 DEF dims
  <2>7. n <= tall /\ n + FramesOfType(plan, high, d) <= tall
    BY <1>1, <2>4, <2>5, <2>6
  <2>8. Fits(plan, high, n, array)
    BY <2>1, <2>7 DEF Fits, tall, Bodies
  <2> QED BY <1>6, <1>8, <2>8
<1>9. CASE frames' = Append(frames, until) /\ ret' = Step /\ TypeUntil
  <2>1. until.k = "until" /\ until.elem = u
    OBVIOUS
  <2>2. /\ u.form = ret.type.form /\ u.ref = ret.type.ref /\ u.term = <<>> /\ u.dims = <<>>
    BY <1>1 DEF ExecutableType
  <2>3. ret.type.term # <<>> /\ Len(ret.type.dims) \in Nat /\ Len(<<>>) = 0
    BY <1>1, <1>9, SeqLen, EmptySeq DEF TypeUntil, ExecutableType, IsSeq
  <2> DEFINE under == IF ret.type.form = "struct"
                      THEN 1 + high[plan.structs[ret.type.ref].body] ELSE 0
             dims == Len(ret.type.dims)
  <2> HIDE DEF until, u
  <2>4. under \in Nat
    BY <1>4
  <2>5. /\ FramesOfType(plan, high, ret.type) = dims + 1 + under
        /\ FramesOfType(plan, high, u) = 0 + 0 + under
    BY <2>2, <2>3 DEF FramesOfType
  <2> HIDE DEF under, dims, tall
  <2>6. dims \in Nat
    BY <2>3 DEF dims
  <2>7. n <= tall /\ n + FramesOfType(plan, high, u) <= tall
    BY <1>1, <2>4, <2>5, <2>6
  <2>8. Fits(plan, high, n, until)
    BY <2>1, <2>7 DEF Fits, tall, Bodies
  <2> QED BY <1>6, <1>9, <2>8
<1> QED BY <1>2, <1>5, <1>7, <1>8, <1>9

LEMMA ElementsFit ==
    ASSUME DecoderInv, NEW high, Heights(plan, high), FitsPlan(high), plan' = plan,
           ArrayStep \/ UntilStep
    PROVE  FitsPlan(high)'
<1>1. frames # <<>> /\ Top.k \in {"array", "until"} /\ IsSeq(frames)
  BY DEF ArrayStep, UntilStep, Running, DecoderInv, StackOK
<1>2. \/ frames' \in {frames, Below} /\ ret'.is # "type"
      \/ frames' = frames /\ ret' = CallType(Top.elem)
  <2>1. CASE ArrayStep
    BY <2>1 DEF ArrayStep, Goes, Return
  <2>2. CASE UntilStep
    BY <2>2 DEF UntilStep, Goes, Throws, Fails, Undo, Return, False, Throw
  <2> QED BY <2>1, <2>2
<1>3. CASE frames' \in {frames, Below} /\ ret'.is # "type"
  BY <1>1, <1>3, NarrowingFits DEF Narrowing
<1>4. CASE frames' = frames /\ ret' = CallType(Top.elem)
  <2>1. Fits(plan, high, Len(frames), Top)
    BY <1>1, FitsPop DEF FitsPlan, Top
  <2>2. CallFits(plan, high, frames', ret')
    BY <1>1, <1>4, <2>1 DEF CallFits, CallType, Fits
  <2> QED BY <1>4, <2>2 DEF FitsPlan
<1> QED BY <1>2, <1>3, <1>4

LEMMA ValuesNarrow ==
    ASSUME ArrayValue \/ UntilValue
    PROVE  Narrowing
<1> DEFINE kept == [Top EXCEPT !.vals = Keep(@, ret.value)]
           counted == [Top EXCEPT !.left = @ - 1, !.vals = Keep(@, ret.value)]
<1>1. frames # <<>> /\ Top.k \in {"array", "until"}
  BY DEF ArrayValue, UntilValue, Getting, Running
<1>2. /\ ret'.is # "type"
      /\ frames' = Below \/ frames' = Replace(kept) \/ frames' = Replace(counted)
  BY DEF ArrayValue, UntilValue, Goes, Throws, Fails, Undo, Step, False, Throw
<1>3. Narrows(Top, kept) /\ Narrows(Top, counted)
  <2>1. /\ kept.k = Top.k /\ kept.elem = Top.elem /\ counted.k = Top.k /\ counted.elem = Top.elem
    BY <1>1
  <2> HIDE DEF kept, counted
  <2> QED BY <1>1, <2>1 DEF Narrows, Bodies
<1> HIDE DEF kept, counted
<1> QED BY <1>1, <1>2, <1>3 DEF Narrowing

\* Steps that call nothing: the stack stays, loses its top frame, or keeps a frame
\* that has less to do.
LEMMA OthersNarrow ==
    ASSUME DecoderInv,
           \/ EndStruct \/ TypeScalar \/ TypeBytes \/ TypeUntilBytes
           \/ DoVirtual \/ DoAlias \/ DoAlign \/ Callbacks \/ Unwinds
           \/ EndGroup
    PROVE  Narrowing
<1>1. \A v : /\ False.is # "type" /\ Step.is # "type" /\ Throw.is # "type"
             /\ Return(v).is # "type"
  BY DEF False, Step, Throw, Return
<1>2. CASE EndStruct
  <2>1. frames # <<>> /\ frames' \in {frames, Below} /\ ret'.is # "type"
    BY <1>1, <1>2 DEF EndStruct, Ending, Running, Goes, Fails
  <2> QED BY <2>1 DEF Narrowing
<1>3. CASE TypeScalar \/ TypeBytes \/ TypeUntilBytes
  <2>1. frames' = frames /\ ret'.is # "type"
    <3>1. CASE TypeScalar
      BY <1>1, <3>1 DEF TypeScalar, Goes, Fails
    <3>2. CASE TypeBytes
      BY <1>1, <3>2 DEF TypeBytes, Goes, Fails
    <3>3. CASE TypeUntilBytes
      BY <1>1, <3>3 DEF TypeUntilBytes, Goes, Fails, Throws
    <3> QED BY <1>3, <3>1, <3>2, <3>3
  <2> QED BY <2>1 DEF Narrowing
<1>4. CASE DoVirtual \/ DoAlias
  <2> DEFINE r == Rest1
             g(name, v) == [r EXCEPT !.obj = Put(r.obj, name, v)]
  <2>1. PICK kind \in {"virtual", "alias"} : Doing(kind)
    BY <1>4 DEF DoVirtual, DoAlias
  <2>2. frames # <<>> /\ Narrows(Top, r) /\ "obj" \in DOMAIN r /\ "k" \in DOMAIN r /\ Top.k \in Bodies
    BY <2>1, DoingFacts, RestNarrows, InsideFacts DEF Rest1, FrameOK, BodyOK
  <2>3. \A name, v : g(name, v).k = r.k /\ g(name, v).todo = r.todo
    BY <2>2
  <2>4. \/ frames' = frames /\ ret'.is # "type"
        \/ \E name, v : frames' = Replace(g(name, v)) /\ ret'.is # "type"
    BY <1>1, <1>4 DEF DoVirtual, DoAlias, Goes, Fails, Stored
  <2> HIDE DEF r
  <2>5. ASSUME NEW name, NEW v PROVE Narrows(Top, g(name, v))
    <3> DEFINE h == g(name, v)
    <3>1. h.k = r.k /\ h.todo = r.todo
      BY <2>3
    <3> HIDE DEF g
    <3>2. Narrows(Top, h)
      BY <2>2, <3>1 DEF Narrows, Bodies
    <3> QED BY <3>2
  <2> HIDE DEF g
  <2> QED BY <2>2, <2>4, <2>5 DEF Narrowing
<1>5. CASE DoAlign \/ Callbacks
  <2>1. PICK kind \in {"align", "callback"} : Doing(kind)
    BY <1>5 DEF DoAlign, Callbacks, CallbackRefused, CallbackSucceeds, CallbackFails,
                CallbackEscapes
  <2>2. frames # <<>> /\ Narrows(Top, Rest1)
    BY <2>1, DoingFacts, RestNarrows
  <2>3. (frames' = frames \/ frames' = Replace(Rest1)) /\ ret'.is # "type"
    BY <1>1, <1>5 DEF DoAlign, Callbacks, CallbackRefused, CallbackSucceeds, CallbackFails,
                CallbackEscapes, Goes, Fails, Caught
  <2> QED BY <2>2, <2>3 DEF Narrowing
<1>6. CASE Unwinds
  <2>1. frames # <<>> /\ frames' = Below /\ ret'.is # "type"
    BY <1>1, <1>6 DEF Unwinds, FailStruct, FailUntil, FailAt, FailBlock, FailThrough, CatchThrow,
                      PassThrow, Running, Goes, Fails, Caught, Throws
  <2> QED BY <2>1 DEF Narrowing
<1>7. CASE EndGroup
  <2>1. frames # <<>> /\ frames' = Below /\ ret'.is # "type"
    BY <1>1, <1>7 DEF EndGroup, Running, Goes, Caught
  <2> QED BY <2>1 DEF Narrowing
<1> QED BY <1>2, <1>3, <1>4, <1>5, <1>6, <1>7

\* A frame keeps its operations when its members change.
LEMMA MembersNarrow ==
    ASSUME NEW p, NEW f, FrameOK(p, f), f.k \in Bodies, NEW obj
    PROVE  Narrows(f, [f EXCEPT !.obj = obj])
<1> DEFINE g == [f EXCEPT !.obj = obj]
<1>1. g.k = f.k /\ g.todo = f.todo /\ f.k \notin {"array", "until"}
  BY DEF FrameOK, BodyOK, Bodies
<1> HIDE DEF g
<1>2. Narrows(f, g)
  BY <1>1 DEF Narrows
<1> QED BY <1>2 DEF g

LEMMA EndsNarrow ==
    ASSUME DecoderInv,
           EndAt \/ EndBlock \/ EndBranch \/ EndCase \/ TypedValue \/ FieldValue
    PROVE  Narrowing
<1> DEFINE g(obj) == [Last(Below) EXCEPT !.obj = obj]
<1>1. False.is # "type" /\ Step.is # "type"
  BY DEF False, Step
<1>2. frames # <<>> /\ Top.k \notin Enclosed
  BY DEF EndAt, EndBlock, EndBranch, EndCase, TypedValue, FieldValue, Ending, Getting, Running,
         Enclosed
<1>3. Below # <<>> /\ \A obj : Narrows(Last(Below), g(obj))
  BY <1>2, BelowBody, MembersNarrow
<1>4. \/ frames' = Below /\ ret'.is # "type"
      \/ (\E obj : frames' = Popped(g(obj))) /\ ret'.is # "type"
  BY <1>1 DEF EndAt, EndBlock, EndBranch, EndCase, TypedValue, FieldValue, Goes, Fails, Caught,
              MergedBelow, StoredBelow, Stored
<1> HIDE DEF g
<1> QED BY <1>2, <1>3, <1>4 DEF Narrowing

\* An operation that runs a body, reads a type or begins a group pushes a frame.
Opening ==
    \E kind, f :
        /\ Doing(kind) /\ frames' = Append(Replace(Rest1), f)
        /\ \/ f.k \in {"at", "block", "branch", "case"} /\ f.todo \in BodiesOf(Op) /\ ret' = Step
           \/ f.k \in {"field", "typed"} /\ \E type \in TypesOf(Op) :
                 ExecutableType(plan, type) /\ ret' = CallType(type)
           \/ f.k = "bits" /\ kind = "bits" /\ ret' = Step

LEMMA OpeningFits ==
    ASSUME DecoderInv, NEW high, Heights(plan, high), FitsPlan(high), plan' = plan, Opening
    PROVE  FitsPlan(high)'
<1> PICK kind, f :
        /\ Doing(kind) /\ frames' = Append(Replace(Rest1), f)
        /\ \/ f.k \in {"at", "block", "branch", "case"} /\ f.todo \in BodiesOf(Op) /\ ret' = Step
           \/ f.k \in {"field", "typed"} /\ \E type \in TypesOf(Op) :
                 ExecutableType(plan, type) /\ ret' = CallType(type)
           \/ f.k = "bits" /\ kind = "bits" /\ ret' = Step
  BY DEF Opening
<1> HIDE DEF Replace
<1>1. Step.is # "type" /\ \A type : CallType(type).type = type
  BY DEF Step, CallType
<1>2. CASE f.k \in {"at", "block", "branch", "case"} /\ f.todo \in BodiesOf(Op) /\ ret' = Step
  <2>1. Fits(plan, high, Len(frames) + 1, f)
    BY <1>2, RoomForOp DEF Fits
  <2> QED BY <1>1, <1>2, <2>1, BegunFits
<1>3. CASE f.k \in {"field", "typed"} /\ \E type \in TypesOf(Op) :
              ExecutableType(plan, type) /\ ret' = CallType(type)
  <2>1. PICK type \in TypesOf(Op) : ExecutableType(plan, type) /\ ret' = CallType(type)
    BY <1>3
  <2>2. /\ Len(frames) + 1 <= Tall(plan, high)
        /\ Len(frames) + 1 + FramesOfType(plan, high, type) <= Tall(plan, high)
    BY <2>1, RoomForOp
  <2>3. Fits(plan, high, Len(frames) + 1, f)
    BY <1>3, <2>2 DEF Fits, Bodies
  <2> QED BY <1>1, <2>1, <2>2, <2>3, BegunFits
<1>4. CASE f.k = "bits" /\ kind = "bits" /\ ret' = Step
  <2>1. Fits(plan, high, Len(frames) + 1, f)
    BY <1>4, RoomForOp DEF Fits, Bodies
  <2> QED BY <1>1, <1>4, <2>1, BegunFits
<1> QED BY <1>2, <1>3, <1>4

LEMMA BodiesOpen ==
    ASSUME DecoderInv,
           BeginAt \/ BeginBlock \/ BeginIf
    PROVE  Narrowing \/ Opening
<1> DEFINE at == [k |-> "at", todo |-> Op.body, obj |-> NoMembers, back |-> rd.pos]
           block(n) == [k |-> "block", todo |-> Op.body, obj |-> NoMembers, start |-> rd.pos,
                        end |-> n]
           branch(ops) == Body("branch", ops)
<1>1. False.is # "type"
  BY DEF False
<1>2. CASE BeginAt
  <2>1. Doing("at") /\ Op.op = "at" /\ frames # <<>>
    BY <1>2, DoingFacts DEF BeginAt
  <2>2. \/ frames' = frames /\ ret'.is # "type"
        \/ frames' = Append(Replace(Rest1), at) /\ ret' = Step
    BY <1>1, <1>2 DEF BeginAt, Goes, Fails, Caught
  <2>3. at.k = "at" /\ at.todo \in BodiesOf(Op)
    BY <2>1 DEF BodiesOf
  <2> HIDE DEF at
  <2> QED BY <2>1, <2>2, <2>3 DEF Narrowing, Opening
<1>3. CASE BeginBlock
  <2>1. Doing("block") /\ Op.op = "block" /\ frames # <<>>
    BY <1>3, DoingFacts DEF BeginBlock
  <2>2. \/ frames' = frames /\ ret'.is # "type"
        \/ \E n : frames' = Append(Replace(Rest1), block(n)) /\ ret' = Step
    BY <1>1, <1>3 DEF BeginBlock, Goes, Fails
  <2>3. \A n : block(n).k = "block" /\ block(n).todo \in BodiesOf(Op)
    BY <2>1 DEF BodiesOf
  <2> HIDE DEF block
  <2>4. ASSUME NEW n, frames' = Append(Replace(Rest1), block(n)), ret' = Step
        PROVE  Opening
    BY <2>1, <2>3, <2>4 DEF Opening
  <2> QED BY <2>1, <2>2, <2>4 DEF Narrowing
<1>4. CASE BeginIf
  <2>1. Doing("if") /\ Op.op = "if" /\ frames # <<>>
    BY <1>4, DoingFacts DEF BeginIf
  <2>2. \/ frames' = frames /\ ret'.is # "type"
        \/ \E ops \in {Op.then, Op.else} :
               frames' = Append(Replace(Rest1), branch(ops)) /\ ret' = Step
    BY <1>1, <1>4 DEF BeginIf, Goes, Fails
  <2>3. \A ops \in {Op.then, Op.else} : branch(ops).k = "branch" /\ branch(ops).todo \in BodiesOf(Op)
    BY <2>1 DEF Body, BodiesOf
  <2> HIDE DEF branch
  <2>4. ASSUME NEW ops \in {Op.then, Op.else}, frames' = Append(Replace(Rest1), branch(ops)),
               ret' = Step
        PROVE  Opening
    BY <2>1, <2>3, <2>4 DEF Opening
  <2> QED BY <2>1, <2>2, <2>4 DEF Narrowing
<1> QED BY <1>2, <1>3, <1>4

LEMMA FieldOpens ==
    ASSUME DecoderInv, BeginField
    PROVE  Opening
<1> DEFINE f == [k |-> "field", field |-> Op]
<1>1. Doing("field") /\ Op.op = "field" /\ frames' = Append(Replace(Rest1), f)
      /\ ret' = CallType(Op.type) /\ ExecutableType(plan, Op.type)
  BY DoingFacts DEF BeginField, Goes, ExecutableOp
<1>2. f.k = "field" /\ Op.type \in TypesOf(Op)
  BY <1>1 DEF TypesOf
<1> HIDE DEF f, Replace
<1> QED BY <1>1, <1>2 DEF Opening

\* The alternative that is read is one of the variant's.
LEMMA ChosenOf ==
    ASSUME DecoderInv, Doing("variant"), NEW tag
    PROVE  LET matching == {i \in DOMAIN Op.cases : Op.cases[i].tag = tag}
               chosen == IF matching = {} THEN Op.default ELSE <<Op.cases[Min(matching)]>>
           IN  chosen # <<>> => Head(chosen) \in CasesOf(Op)
<1> DEFINE matching == {i \in DOMAIN Op.cases : Op.cases[i].tag = tag}
           chosen == IF matching = {} THEN Op.default ELSE <<Op.cases[Min(matching)]>>
<1>1. /\ DOMAIN Op.cases = 1..Len(Op.cases) /\ Len(Op.cases) \in Nat
      /\ Op.default # <<>> => 1 \in DOMAIN Op.default
  BY DoingFacts DEF ExecutableOp
<1>2. matching # {} => Min(matching) \in DOMAIN Op.cases
  <2>1. matching \subseteq Nat /\ matching \subseteq DOMAIN Op.cases
    BY <1>1
  <2> HIDE DEF matching
  <2> QED BY <2>1, MinIn
<1>3. (\A c : Head(<<c>>) = c) /\ Head(Op.default) = Op.default[1]
  BY DEF Head
<1>4. chosen # <<>> => Head(chosen) \in CasesOf(Op)
  <2> HIDE DEF matching
  <2> QED BY <1>1, <1>2, <1>3 DEF Range, CasesOf
<1> QED BY <1>4

LEMMA VariantOpens ==
    ASSUME DecoderInv, BeginVariant
    PROVE  Narrowing \/ Opening
<1> DEFINE tag == Eval(Op.tag, env)
           matching == {i \in DOMAIN Op.cases : Op.cases[i].tag = tag}
           chosen == IF matching = {} THEN Op.default ELSE <<Op.cases[Min(matching)]>>
           c == Head(chosen)
           typed == [k |-> "typed", name |-> Op.sym]
           body == [k |-> "case", todo |-> c.body, obj |-> NoMembers, name |-> Op.sym]
<1>1. Doing("variant") /\ Op.op = "variant" /\ frames # <<>> /\ ExecutableOp(plan, AllOps(plan), Op)
  BY DoingFacts DEF BeginVariant
<1>2. \/ frames' = frames /\ ret' = False
      \/ /\ chosen # <<>> /\ c.typed
         /\ frames' = Append(Replace(Rest1), typed) /\ ret' = CallType(c.type)
      \/ /\ chosen # <<>> /\ ~c.typed
         /\ frames' = Append(Replace(Rest1), body) /\ ret' = Step
  BY DEF BeginVariant, Goes, Fails
<1>3. chosen # <<>> => c \in CasesOf(Op)
  BY <1>1, ChosenOf
<1>4. typed.k = "typed" /\ body.k = "case" /\ body.todo = c.body
  OBVIOUS
<1> HIDE DEF chosen, typed, body, c
<1>5. CASE frames' = frames /\ ret' = False
  BY <1>1, <1>5 DEF Narrowing, False
<1>6. CASE /\ chosen # <<>> /\ c.typed
           /\ frames' = Append(Replace(Rest1), typed) /\ ret' = CallType(c.type)
  <2>1. c.type \in TypesOf(Op)
    BY <1>1, <1>3, <1>6 DEF TypesOf
  <2>2. ExecutableType(plan, c.type)
    BY <1>1, <1>3, <1>6 DEF ExecutableOp, CasesOf
  <2> HIDE DEF Replace
  <2> QED BY <1>1, <1>4, <1>6, <2>1, <2>2 DEF Opening
<1>7. CASE /\ chosen # <<>> /\ ~c.typed
           /\ frames' = Append(Replace(Rest1), body) /\ ret' = Step
  <2>1. body.todo \in BodiesOf(Op)
    BY <1>1, <1>3, <1>4, <1>7 DEF BodiesOf
  <2> QED BY <1>1, <1>4, <1>7, <2>1 DEF Opening
<1> QED BY <1>2, <1>5, <1>6, <1>7

LEMMA GroupOpens ==
    ASSUME DecoderInv, BeginGroup
    PROVE  Narrowing \/ Opening
<1> DEFINE f == [k |-> "bits", todo |-> Op.fields, order |-> Op.fields[1].endian]
<1>1. Doing("bits") /\ frames # <<>>
  BY DoingFacts DEF BeginGroup
<1>2. \/ frames' = frames /\ ret'.is # "type"
      \/ frames' = Append(Replace(Rest1), f) /\ ret' = Step
  BY DEF BeginGroup, Goes, Caught, False
<1>3. f.k = "bits"
  OBVIOUS
<1> HIDE DEF f, Replace
<1> QED BY <1>1, <1>2, <1>3 DEF Narrowing, Opening

\* A bit field leaves its value to the frame below the group.
LEMMA GroupFieldStack ==
    ASSUME DecoderInv, GroupField
    PROVE  /\ frames # <<>> /\ Top.k = "bits" /\ Below # <<>> /\ ret'.is # "type"
           /\ \/ frames' = Below
              \/ \E f, g : /\ frames' = Append(Append(Front(Below), g), f)
                           /\ Narrows(Last(Below), g) /\ f.k = "bits"
<1> DEFINE g(obj) == [Last(Below) EXCEPT !.obj = obj]
           f == [Top EXCEPT !.todo = Tail(@)]
<1>1. False.is # "type" /\ Step.is # "type"
  BY DEF False, Step
<1>2. frames # <<>> /\ Top.k = "bits" /\ Top.k \notin Enclosed /\ FrameOK(plan, Top)
  BY InsideFacts DEF GroupField, Running, Enclosed
<1>3. Below # <<>> /\ \A obj : Narrows(Last(Below), g(obj))
  BY <1>2, BelowBody, MembersNarrow
<1>4. \/ frames' = Below /\ ret'.is # "type"
      \/ \E obj : frames' = Append(Append(Front(Below), g(obj)), f) /\ ret'.is # "type"
  BY <1>1 DEF GroupField, Goes, Fails, Caught, StoredBelow, Stored, Popped
<1>5. f.k = "bits"
  BY <1>2 DEF FrameOK
<1> HIDE DEF f, g
<1> QED BY <1>2, <1>3, <1>4, <1>5

LEMMA GroupFieldFits ==
    ASSUME DecoderInv, NEW high, Heights(plan, high), FitsPlan(high), plan' = plan, GroupField
    PROVE  FitsPlan(high)'
<1>1. /\ frames # <<>> /\ plan \in Plans /\ IsSeq(frames) /\ StackFits(plan, high, frames)
      /\ Top.k = "bits" /\ Below # <<>> /\ ret'.is # "type"
  BY GroupFieldStack, InsideFacts DEF StackOK, FitsPlan
<1>2. /\ StackFits(plan, high, Below) /\ Fits(plan, high, Len(frames), Top) /\ IsSeq(Below)
      /\ Len(Below) = Len(frames) - 1 /\ Len(frames) \in Nat \ {0}
  BY <1>1, FitsPop, FrontSeq DEF Below, Top
<1>3. CallFits(plan, high, frames', ret')
  BY <1>1 DEF CallFits
<1>4. CASE frames' = Below
  BY <1>2, <1>3, <1>4 DEF FitsPlan
<1>5. ASSUME NEW f, NEW g, frames' = Append(Append(Front(Below), g), f),
             Narrows(Last(Below), g), f.k = "bits"
      PROVE  FitsPlan(high)'
  <2> DEFINE gs == Append(Front(Below), g)
  <2>1. StackFits(plan, high, gs) /\ IsSeq(gs) /\ Len(gs) = Len(Below)
    BY <1>1, <1>2, <1>5, FitsReplace
  <2>2. Fits(plan, high, Len(frames), f)
    BY <1>1, <1>2, <1>5 DEF Fits, Bodies
  <2>3. frames' = Append(gs, f)
    BY <1>5
  <2> HIDE DEF gs
  <2>4. Len(gs) + 1 = Len(frames)
    BY <1>2, <2>1
  <2>5. StackFits(plan, high, frames')
    BY <2>1, <2>2, <2>3, <2>4, FitsPush
  <2> QED BY <1>3, <2>5 DEF FitsPlan
<1> QED BY <1>4, <1>5, GroupFieldStack

LEMMA StartFits ==
    ASSUME DecoderInv, NEW high, Heights(plan, high), Start
    PROVE  FitsPlan(high)'
<1>1. frames' = <<>> /\ plan' = plan /\ plan \in Plans /\ Len(<<>>) = 0
  BY EmptySeq DEF Start, DecoderInv
<1>2. StackFits(plan, high, <<>>)
  BY <1>1 DEF StackFits
<1>3. CallFits(plan, high, <<>>, ret')
  <2>1. CASE ret' = CallType(Named(plan.root))
    <3> DEFINE type == Named(plan.root)
    <3>1. type.dims = <<>> /\ type.term = <<>> /\ type.form = "struct" /\ type.ref = plan.root
      BY DEF Named, U8, Scalar
    <3>2. ret'.is = "type" /\ ret'.type = type
      BY <2>1 DEF CallType
    <3>3. Tall(plan, high) \in Nat /\ high[plan.structs[plan.root].body] \in Nat
      BY <1>1, TallNat, PlanFacts DEF Heights
    <3> HIDE DEF type
    <3>4. FramesOfType(plan, high, type) = Tall(plan, high)
      BY <1>1, <3>1, <3>3 DEF FramesOfType, Tall
    <3> QED BY <1>1, <3>2, <3>3, <3>4 DEF CallFits
  <2>2. CASE ret' = False
    BY <2>2 DEF CallFits, False
  <2> QED BY <2>1, <2>2 DEF Start
<1> QED BY <1>1, <1>2, <1>3 DEF FitsPlan

-----------------------------------------------------------------------------
\* The theorems about the depth of the stack, and the end.

LEMMA PlanStays ==
    ASSUME [Next]_vars
    PROVE  plan' = plan
<1>1. CASE Start \/ Finish \/ EndStruct
  BY <1>1 DEF Start, Finish, EndStruct, Goes, Fails, outcome
<1>2. CASE Types
  BY <1>2 DEF Types, TypeStruct, TypeScalar, TypeBytes, TypeArray, TypeUntilBytes, TypeUntil,
              Goes, Fails, Throws, outcome
<1>3. CASE Loops
  BY <1>3 DEF Loops, ArrayStep, ArrayValue, UntilStep, UntilValue, Undo, Goes, Fails, Throws,
              outcome
<1>4. CASE Values
  BY <1>4 DEF Values, DoVirtual, DoAlias, BeginField, FieldValue, Goes, Fails, outcome
<1>5. CASE Groups
  BY <1>5 DEF Groups, BeginGroup, GroupField, EndGroup, Goes, Fails, Caught, outcome
<1>6. CASE Places
  BY <1>6 DEF Places, DoAlign, BeginAt, EndAt, BeginBlock, EndBlock, Goes, Fails, Caught, outcome
<1>7. CASE Branching
  BY <1>7 DEF Branching, BeginIf, EndBranch, BeginVariant, EndCase, TypedValue, Goes, Fails,
              outcome
<1>8. CASE Callbacks
  BY <1>8 DEF Callbacks, CallbackRefused, CallbackSucceeds, CallbackFails, CallbackEscapes,
              Goes, Fails, Caught, outcome
<1>9. CASE Unwinds
  BY <1>9 DEF Unwinds, FailStruct, FailUntil, FailAt, FailBlock, FailThrough, CatchThrow,
              PassThrow, Goes, Caught, Throws, outcome
<1>10. CASE UNCHANGED vars
  BY <1>10 DEF vars
<1> QED BY <1>1, <1>2, <1>3, <1>4, <1>5, <1>6, <1>7, <1>8, <1>9, <1>10 DEF Next

\* Every step takes from the stack, pushes the frame of an operation, is one of
\* readType() or one of a group, or leaves the stack alone.
LEMMA StepShapes ==
    ASSUME DecoderInv, [Next]_vars
    PROVE  \/ Narrowing \/ Opening
           \/ TypeStruct \/ TypeArray \/ TypeUntil \/ ArrayStep \/ UntilStep \/ GroupField
           \/ Start \/ (frames' = frames /\ ret' = ret)
<1>1. CASE UNCHANGED vars \/ Finish \/ Start
  BY <1>1 DEF vars, Finish
<1>2. CASE EndStruct \/ Types \/ Callbacks \/ Unwinds
  BY <1>2, OthersNarrow DEF Types
<1>3. CASE Loops
  BY <1>3, ValuesNarrow DEF Loops
<1>4. CASE Values
  BY <1>4, OthersNarrow, FieldOpens, EndsNarrow DEF Values
<1>5. CASE Groups
  BY <1>5, GroupOpens, OthersNarrow DEF Groups
<1>6. CASE Places
  BY <1>6, OthersNarrow, BodiesOpen, EndsNarrow DEF Places
<1>7. CASE Branching
  BY <1>7, BodiesOpen, VariantOpens, EndsNarrow DEF Branching
<1> QED BY <1>1, <1>2, <1>3, <1>4, <1>5, <1>6, <1>7 DEF Next

LEMMA HeightStep ==
    ASSUME DecoderInv, HeightInv, [Next]_vars
    PROVE  HeightInv'
<1>1. plan' = plan
  BY PlanStays
<1>2. SUFFICES ASSUME NEW high, Heights(plan, high)
               PROVE  FitsPlan(high)'
  BY <1>1 DEF HeightInv
<1>3. FitsPlan(high)
  BY <1>2 DEF HeightInv
<1>4. CASE frames' = frames /\ ret' = ret
  BY <1>1, <1>3, <1>4 DEF FitsPlan
<1>5. CASE TypeStruct \/ TypeArray \/ TypeUntil \/ ArrayStep \/ UntilStep \/ GroupField \/ Start
  BY <1>1, <1>2, <1>3, <1>5, CallsFit, ElementsFit, GroupFieldFits, StartFits
<1>6. CASE Narrowing \/ Opening
  BY <1>1, <1>2, <1>3, <1>6, NarrowingFits, OpeningFits
<1> QED BY <1>4, <1>5, <1>6, StepShapes

LEMMA HeightInit ==
    ASSUME Init
    PROVE  HeightInv
<1>1. frames = <<>> /\ ret.is # "type" /\ Len(<<>>) = 0
  BY EmptySeq DEF Init, Step
<1>2. \A high : StackFits(plan, high, frames) /\ CallFits(plan, high, frames, ret)
  BY <1>1 DEF StackFits, CallFits
<1> QED BY <1>2 DEF HeightInv, FitsPlan

LEMMA HeightAlways == Spec => []HeightInv
<1>1. DecoderInv /\ HeightInv /\ [Next]_vars => HeightInv'
  BY HeightStep
<1> QED BY <1>1, HeightInit, DecoderInvariant, PTL DEF Spec

LEMMA StackInPlan ==
    ASSUME DecoderInv, HeightInv, NEW high, Heights(plan, high)
    PROVE  Len(frames) \in Nat /\ Len(frames) <= Tall(plan, high)
<1>1. Len(frames) \in Nat /\ (Len(frames) = 0 \/ Len(frames) \in 1..Len(frames))
  BY SeqLen DEF DecoderInv, StackOK
<1>2. Tall(plan, high) \in Nat
  BY TallNat DEF DecoderInv
<1> QED BY <1>1, <1>2 DEF HeightInv, FitsPlan, StackFits, Fits

\* The calls of decode() nest no deeper than the plan does, whatever the input and
\* the callbacks: the counters of readArray() and readTerminated() repeat a call,
\* they do not nest one.
THEOREM StackAsTallAsPlan ==
    Spec => [](\A high : Heights(plan, high) => Len(frames) <= Tall(plan, high))
<1>1. DecoderInv /\ HeightInv =>
          \A high : Heights(plan, high) => Len(frames) <= Tall(plan, high)
  BY StackInPlan
<1> QED BY <1>1, DecoderInvariant, HeightAlways, PTL

\* Plans whose calls nest no deeper than depth.
Finite(depth) == \A p \in Plans : \E high : Heights(p, high) /\ Tall(p, high) <= depth

\* With WorkRunsOut: for a plan that is a finite tree, whatever the input, the
\* options and what callbacks do to the reader, decode() goes on for ever only if
\* elements of terminated sequences end where they began, or before, again and again.
THEOREM DecodingRunsOut ==
    ASSUME NEW depth \in Nat, Finite(depth)
    PROVE  Spec => [][Stalls \/ <<Works', Works>> \in WorkOrder(depth)]_vars
<1> DEFINE counted == Works \in WorksTo(depth)
<1>1. DecoderInv /\ LoopInv /\ HeightInv => counted
  <2> SUFFICES ASSUME DecoderInv, LoopInv, HeightInv PROVE Works \in WorksTo(depth)
    OBVIOUS
  <2>1. PICK high : Heights(plan, high) /\ Tall(plan, high) <= depth
    BY DEF Finite, DecoderInv
  <2>2. Tall(plan, high) \in Nat
    BY <2>1, TallNat DEF DecoderInv
  <2>3. Len(frames) \in 0..depth
    BY <2>1, <2>2, StackInPlan
  <2>4. Works \in [0..Len(frames) -> Nat]
    BY WorksNat
  <2> QED BY <2>3, <2>4 DEF WorksTo
<1>2. DecoderInv /\ LoopInv /\ DecoderInv' /\ counted /\ counted' /\ [Next]_vars =>
          [Stalls \/ <<Works', Works>> \in WorkOrder(depth)]_vars
  <2>1. Works' \in WorksTo(depth) /\ Works \in WorksTo(depth) /\ Precedes(Works', Works) =>
            <<Works', Works>> \in WorkOrder(depth)
    <3> DEFINE u == Works'
               v == Works
    <3> HIDE DEF u, v
    <3>1. u \in WorksTo(depth) /\ v \in WorksTo(depth) /\ Precedes(u, v) =>
              <<u, v>> \in WorkOrder(depth)
      BY DEF WorkOrder
    <3> QED BY <3>1 DEF u, v
  <2> QED BY <2>1, LoopStep
<1> QED BY <1>1, <1>2, DecoderInvariant, LoopsCountDown, HeightAlways, PTL DEF Spec

-----------------------------------------------------------------------------
\* In a plan without terminated sequences of structs no frame is over that of a
\* terminated sequence, which calls for no struct.
PlainFrame(f) == /\ f.k = "array" => Plain(f.elem)
                 /\ f.k = "until" => f.elem.form # "struct"
PlainStack(fs) == /\ \A i \in 1..Len(fs) : PlainFrame(fs[i])
                  /\ \A i \in 1..(Len(fs) - 1) : fs[i].k # "until"
PlainCall(fs, next) == next.is = "type" =>
                           /\ Plain(next.type)
                           /\ fs # <<>> /\ Last(fs).k = "until" => next.type.form # "struct"

PlainInv == PlainSequences(plan, Operations(plan)) =>
                PlainStack(frames) /\ PlainCall(frames, ret)

LEMMA PlainPop ==
    ASSUME NEW fs, IsSeq(fs), fs # <<>>, PlainStack(fs)
    PROVE  /\ PlainStack(Front(fs)) /\ PlainFrame(Last(fs)) /\ IsSeq(Front(fs))
           /\ Front(fs) # <<>> => Last(Front(fs)).k # "until"
<1> DEFINE gs == Front(fs)
           n == Len(fs)
<1>1. /\ IsSeq(gs) /\ n \in Nat \ {0} /\ Len(gs) = n - 1 /\ Last(fs) = fs[n]
      /\ \A i \in 1..(n - 1) : gs[i] = fs[i]
  BY FrontSeq
<1>2. gs # <<>> => n - 1 \in 1..(n - 1) /\ Last(gs) = fs[n - 1]
  BY <1>1, SeqLen DEF Last
<1> HIDE DEF gs
<1>3. \A i \in 1..((n - 1) - 1) : i \in 1..(n - 1)
  BY <1>1
<1>4. \A i \in 1..(n - 1) : i \in 1..n
  BY <1>1
<1>5. PlainStack(gs)
  BY <1>1, <1>3, <1>4 DEF PlainStack
<1> QED BY <1>1, <1>2, <1>5 DEF PlainStack, gs

LEMMA PlainPush ==
    ASSUME NEW fs, IsSeq(fs), PlainStack(fs), fs # <<>> => Last(fs).k # "until",
           NEW f, PlainFrame(f)
    PROVE  /\ PlainStack(Append(fs, f)) /\ IsSeq(Append(fs, f))
           /\ Append(fs, f) # <<>> /\ Last(Append(fs, f)) = f
<1> DEFINE gs == Append(fs, f)
           n == Len(fs)
<1>1. /\ n \in Nat /\ Len(gs) = n + 1 /\ gs[n + 1] = f /\ \A i \in 1..n : gs[i] = fs[i]
      /\ IsSeq(gs) /\ (fs = <<>> <=> n = 0) /\ Last(fs) = fs[n]
  BY AppendSeq, SeqLen DEF Last
<1>2. \A i \in 1..(n + 1) : i \in 1..n \/ i = n + 1
  BY <1>1
<1>3. \A i \in 1..((n + 1) - 1) : i \in 1..n /\ (i \in 1..(n - 1) \/ (i = n /\ n # 0))
  BY <1>1
<1>4. gs # <<>> /\ Last(gs) = f
  BY <1>1, SeqLen DEF Last
<1> HIDE DEF gs
<1>5. \A i \in 1..(Len(gs) - 1) : gs[i].k # "until"
  BY <1>1, <1>3 DEF PlainStack
<1>6. \A i \in 1..Len(gs) : PlainFrame(gs[i])
  BY <1>1, <1>2 DEF PlainStack
<1> QED BY <1>1, <1>4, <1>5, <1>6 DEF PlainStack, gs

LEMMA PlainReplace ==
    ASSUME NEW fs, IsSeq(fs), fs # <<>>, PlainStack(fs), NEW f, Narrows(Last(fs), f)
    PROVE  /\ PlainStack(Append(Front(fs), f)) /\ IsSeq(Append(Front(fs), f))
           /\ Append(Front(fs), f) # <<>> /\ Last(Append(Front(fs), f)) = f
<1>1. /\ PlainStack(Front(fs)) /\ PlainFrame(Last(fs)) /\ IsSeq(Front(fs))
      /\ Front(fs) # <<>> => Last(Front(fs)).k # "until"
  BY PlainPop
<1>2. PlainFrame(f)
  BY <1>1 DEF PlainFrame, Narrows
<1> HIDE DEF Front, Last
<1> QED BY <1>1, <1>2, PlainPush

LEMMA NarrowingPlain ==
    ASSUME DecoderInv, PlainStack(frames), Narrowing
    PROVE  PlainStack(frames') /\ PlainCall(frames', ret')
<1>1. IsSeq(frames)
  BY DEF DecoderInv, StackOK
<1>2. ASSUME frames # <<>> PROVE IsSeq(Below) /\ PlainStack(Below)
  BY <1>1, <1>2, PlainPop DEF Below
<1>3. ASSUME frames' = frames PROVE PlainStack(frames')
  BY <1>3
<1>4. ASSUME frames # <<>>, frames' = Below PROVE PlainStack(frames')
  BY <1>2, <1>4
<1>5. ASSUME frames # <<>>, NEW f, Narrows(Top, f), frames' = Replace(f)
      PROVE  PlainStack(frames')
  BY <1>1, <1>5, PlainReplace DEF Top, Replace, Below
<1>6. ASSUME frames # <<>>, Below # <<>>, NEW f, Narrows(Last(Below), f), frames' = Popped(f)
      PROVE  PlainStack(frames')
  BY <1>2, <1>6, PlainReplace DEF Popped
<1>7. PlainCall(frames', ret')
  BY DEF PlainCall, Narrowing
<1> QED BY <1>3, <1>4, <1>5, <1>6, <1>7 DEF Narrowing

LEMMA OpeningPlain ==
    ASSUME DecoderInv, PlainSequences(plan, Operations(plan)), PlainStack(frames), Opening
    PROVE  PlainStack(frames') /\ PlainCall(frames', ret')
<1> DEFINE gs == Replace(Rest1)
<1> PICK kind, f :
        /\ Doing(kind) /\ frames' = Append(gs, f)
        /\ \/ f.k \in {"at", "block", "branch", "case"} /\ f.todo \in BodiesOf(Op) /\ ret' = Step
           \/ f.k \in {"field", "typed"} /\ \E type \in TypesOf(Op) :
                 ExecutableType(plan, type) /\ ret' = CallType(type)
           \/ f.k = "bits" /\ kind = "bits" /\ ret' = Step
  BY DEF Opening
<1>1. frames # <<>> /\ Narrows(Top, Rest1) /\ IsSeq(frames) /\ Top.k # "until"
  BY RestNarrows, DoingFacts DEF StackOK, Bodies
<1>2. PlainStack(gs) /\ IsSeq(gs) /\ gs # <<>> /\ Last(gs).k # "until"
  <2>1. PlainStack(gs) /\ IsSeq(gs) /\ gs # <<>> /\ Last(gs) = Rest1
    BY <1>1, PlainReplace DEF Top, Replace, Below
  <2> QED BY <1>1, <2>1 DEF Narrows
<1>3. PlainFrame(f) /\ f.k # "until"
  BY DEF PlainFrame
<1>4. \A type \in TypesOf(Op) : Plain(type)
  <2>1. Top.todo \in Seq(AllOps(plan)) /\ Top.todo # <<>>
    BY <1>1, InsideFacts DEF FrameOK, BodyOK, Doing
  <2>2. Op \in AllOps(plan)
    BY <2>1, HeadTailProperties DEF Op
  <2> QED BY <2>2 DEF AllOps, PlainSequences
<1>5. Step.is # "type" /\ \A type : CallType(type).type = type
  BY DEF Step, CallType
<1> HIDE DEF gs
<1>6. PlainStack(frames') /\ Last(frames') = f
  BY <1>2, <1>3, PlainPush
<1>7. PlainCall(frames', ret')
  BY <1>3, <1>4, <1>5, <1>6 DEF PlainCall
<1> QED BY <1>6, <1>7

\* A terminated sequence calls for scalars and bytes, which take no frame.
LEMMA CallsPlain ==
    ASSUME DecoderInv, LoopInv, PlainStack(frames), PlainCall(frames, ret),
           TypeStruct \/ TypeArray \/ TypeUntil
    PROVE  PlainStack(frames') /\ PlainCall(frames', ret')
<1> DEFINE d == [ret.type EXCEPT !.dims = Tail(@)]
           c == [ret.type EXCEPT !.dims = <<>>]
           u == [c EXCEPT !.term = <<>>, !.max = 0]
           struct == StructFrame(ret.type.ref)
           array == [k |-> "array", elem |-> d, left |-> Extents(ret.type.dims)[1], vals |-> <<>>]
           until == [k |-> "until", elem |-> u, term |-> ret.type.term, max |-> ret.type.max,
                     saved |-> rd, vals |-> <<>>]
<1>1. Plain(ret.type) /\ ExecutableType(plan, ret.type) /\ IsSeq(frames) /\ ret.is = "type"
  BY CallingFacts DEF TypeStruct, TypeArray, TypeUntil, Calling, PlainCall, StackOK
<1>2. /\ \/ frames' = frames
         \/ frames' = Append(frames, struct)
         \/ frames' = Append(frames, array)
         \/ frames' = Append(frames, until) /\ ret.type.term # <<>>
      /\ ret' \in {Step, False}
  BY DEF TypeStruct, TypeArray, TypeUntil, Push, Goes, Fails, Until, Dims
<1>3. PlainCall(frames', ret')
  BY <1>2 DEF PlainCall, Step, False
<1>4. PlainFrame(struct)
  BY DEF PlainFrame, StructFrame
<1>5. PlainFrame(array)
  <2>1. /\ d.form = ret.type.form /\ d.term = ret.type.term
        /\ array.k = "array" /\ array.elem = d
    BY <1>1 DEF ExecutableType
  <2> HIDE DEF array, d
  <2> QED BY <1>1, <2>1 DEF PlainFrame, Plain
<1>6. ret.type.term # <<>> => PlainFrame(until)
  <2>1. u.form = ret.type.form /\ until.k = "until" /\ until.elem = u
    BY <1>1 DEF ExecutableType
  <2> HIDE DEF until, u
  <2> QED BY <1>1, <2>1 DEF PlainFrame, Plain
<1>7. frames # <<>> => Last(frames).k # "until"
  <2>1. frames # <<>> /\ Last(frames).k = "until" =>
            ret.type.dims = <<>> /\ ret.type.term = <<>> /\ ret.type.form # "struct"
    BY <1>1 DEF LoopInv, Awaits, Top, PlainCall
  <2> QED BY <2>1 DEF TypeStruct, TypeArray, TypeUntil
<1> HIDE DEF struct, array, until
<1> QED BY <1>1, <1>2, <1>3, <1>4, <1>5, <1>6, <1>7, PlainPush

LEMMA ElementsPlain ==
    ASSUME DecoderInv, LoopInv, PlainStack(frames), ArrayStep \/ UntilStep
    PROVE  PlainStack(frames') /\ PlainCall(frames', ret')
<1>1. frames # <<>> /\ Top.k \in {"array", "until"} /\ IsSeq(frames) /\ Sound(Top)
  <2>1. frames # <<>> /\ Top.k \in {"array", "until"} /\ IsSeq(frames)
    BY DEF ArrayStep, UntilStep, Running, DecoderInv, StackOK
  <2> QED BY <2>1, LoopPop DEF LoopInv, Top
<1>2. PlainStack(Below) /\ PlainFrame(Top) /\ Top = Last(frames)
  BY <1>1, PlainPop DEF Below, Top
<1>3. \/ frames' \in {frames, Below} /\ ret'.is # "type"
      \/ frames' = frames /\ ret' = CallType(Top.elem)
  <2>1. CASE ArrayStep
    BY <2>1 DEF ArrayStep, Goes, Return
  <2>2. CASE UntilStep
    BY <2>2 DEF UntilStep, Goes, Throws, Fails, Undo, Return, False, Throw
  <2> QED BY <2>1, <2>2
<1>4. PlainCall(frames', ret')
  BY <1>1, <1>2, <1>3 DEF PlainCall, CallType, PlainFrame, Plain, Sound
<1> QED BY <1>2, <1>3, <1>4

LEMMA GroupFieldPlain ==
    ASSUME DecoderInv, PlainStack(frames), GroupField
    PROVE  PlainStack(frames') /\ PlainCall(frames', ret')
<1>1. frames # <<>> /\ Below # <<>> /\ ret'.is # "type" /\ IsSeq(frames)
  BY GroupFieldStack DEF DecoderInv, StackOK
<1>2. PlainStack(Below) /\ IsSeq(Below) /\ Last(Below).k # "until"
  BY <1>1, PlainPop DEF Below
<1>3. ASSUME NEW f, NEW g, frames' = Append(Append(Front(Below), g), f),
             Narrows(Last(Below), g), f.k = "bits"
      PROVE  PlainStack(frames')
  <2> DEFINE gs == Append(Front(Below), g)
  <2>1. PlainStack(gs) /\ IsSeq(gs) /\ Last(gs) = g
    BY <1>1, <1>2, <1>3, PlainReplace
  <2>2. PlainFrame(f) /\ g.k # "until"
    BY <1>2, <1>3 DEF PlainFrame, Narrows
  <2>3. frames' = Append(gs, f)
    BY <1>3
  <2> HIDE DEF gs
  <2> QED BY <2>1, <2>2, <2>3, PlainPush
<1> QED BY <1>1, <1>2, <1>3, GroupFieldStack DEF PlainCall

LEMMA StartPlain ==
    ASSUME DecoderInv, Start
    PROVE  PlainStack(frames') /\ PlainCall(frames', ret')
<1>1. frames' = <<>> /\ ret' \in {CallType(Named(plan.root)), False} /\ Len(<<>>) = 0
  BY EmptySeq DEF Start, DecoderInv
<1>2. Named(plan.root).term = <<>>
  BY DEF Named, U8, Scalar
<1>3. PlainCall(frames', ret')
  BY <1>1, <1>2 DEF PlainCall, Plain, CallType, False
<1>4. PlainStack(<<>>)
  BY <1>1 DEF PlainStack
<1> QED BY <1>1, <1>3, <1>4

LEMMA PlainStep ==
    ASSUME DecoderInv, LoopInv, PlainInv, [Next]_vars
    PROVE  PlainInv'
<1>1. plan' = plan
  BY PlanStays
<1>2. SUFFICES ASSUME PlainSequences(plan, Operations(plan))
               PROVE  PlainStack(frames') /\ PlainCall(frames', ret')
  BY <1>1 DEF PlainInv
<1>3. PlainStack(frames) /\ PlainCall(frames, ret)
  BY <1>2 DEF PlainInv
<1> QED BY <1>2, <1>3, StepShapes, NarrowingPlain, OpeningPlain, CallsPlain, ElementsPlain,
           GroupFieldPlain, StartPlain

LEMMA PlainInit ==
    ASSUME Init
    PROVE  PlainInv
<1>1. frames = <<>> /\ ret.is # "type" /\ Len(<<>>) = 0
  BY EmptySeq DEF Init, Step
<1>2. PlainStack(<<>>)
  BY <1>1 DEF PlainStack
<1> QED BY <1>1, <1>2 DEF PlainInv, PlainCall

LEMMA PlainAlways == Spec => []PlainInv
<1>1. DecoderInv /\ LoopInv /\ PlainInv /\ [Next]_vars => PlainInv'
  BY PlainStep
<1> QED BY <1>1, PlainInit, DecoderInvariant, LoopsCountDown, PTL DEF Spec

\* Only an element that is a struct can take no bytes.
LEMMA NoStall ==
    ASSUME DecoderInv, PlainInv, PlainSequences(plan, Operations(plan))
    PROVE  ~Stalls
<1> SUFFICES ASSUME Stalls PROVE FALSE
  OBVIOUS
<1>1. frames # <<>> /\ Below # <<>> /\ Last(Below).k = "until"
  BY DEF Stalls, Ending, Running
<1>2. Last(Below).k # "until"
  BY <1>1, PlainPop DEF PlainInv, DecoderInv, StackOK, Below
<1> QED BY <1>1, <1>2

\* With WorkRunsOut: decode() ends on every input, whatever callbacks do to the
\* reader, when the plan is a finite tree in which no terminated sequence is of
\* structs.  Those of scalars and bytes need no such hypothesis: readTerminated()
\* gets on with each element that it reads.
THEOREM DecodingEnds ==
    ASSUME NEW depth \in Nat, Finite(depth)
    PROVE  Spec => [][PlainSequences(plan, Operations(plan)) =>
                          <<Works', Works>> \in WorkOrder(depth)]_vars
<1>1. DecoderInv /\ PlainInv /\ [Stalls \/ <<Works', Works>> \in WorkOrder(depth)]_vars =>
          [PlainSequences(plan, Operations(plan)) =>
               <<Works', Works>> \in WorkOrder(depth)]_vars
  BY NoStall
<1> QED BY <1>1, DecodingRunsOut, DecoderInvariant, PlainAlways, PTL DEF Spec
=============================================================================
