------------------------- MODULE DecoderPlans_proofs -------------------------
(***************************************************************************)
(* What the checks of the plan builder promise the decoder, for every      *)
(* input, option and callback.                                             *)
(***************************************************************************)
EXTENDS Decoder_proofs

-----------------------------------------------------------------------------
\* The rank of the structs of a plan.

IsRank(p, rank) == rank \in [DOMAIN p.structs -> Nat] /\ Ranked(p, Operations(p), rank)
Layered == \A p \in Plans : \E rank : IsRank(p, rank)

Rank(p) == CHOOSE rank : IsRank(p, rank)
Own(p, f) == Rank(p)[f.name]
Lower(p, type, n) == type.form = "struct" => Rank(p)[type.ref] < n
OpsUpTo(p, n) == UNION {Operations(p)[s] : s \in {t \in DOMAIN p.structs : Rank(p)[t] <= n}}

\* What a frame may still read, under a struct of rank n.
FrameUnder(p, f, n) ==
    /\ f.k \in Bodies => f.todo \in Seq(OpsUpTo(p, n))
    /\ f.k \in {"array", "until"} => Lower(p, f.elem, n)

\* The ranks of the structs that are being read.
Ranks(p, fs) == {Own(p, fs[j]) : j \in {i \in 1..Len(fs) : fs[i].k = "struct"}}

Falling(p, fs) ==
    \A j \in 1..Len(fs) : fs[j].k = "struct" =>
        /\ fs[j].name \in DOMAIN p.structs
        /\ \A i \in 1..Len(fs) : i >= j => FrameUnder(p, fs[i], Own(p, fs[j]))
        /\ \A i \in 1..Len(fs) : i > j /\ fs[i].k = "struct" => Own(p, fs[i]) < Own(p, fs[j])

RankedStack(p, fs, next) ==
    /\ Falling(p, fs)
    /\ next.is = "type" => \A n \in Ranks(p, fs) : Lower(p, next.type, n)

RankInv == RankedStack(plan, frames, ret)

LEMMA RankIs ==
    ASSUME Layered, NEW p \in Plans
    PROVE  /\ Rank(p) \in [DOMAIN p.structs -> Nat] /\ Ranked(p, Operations(p), Rank(p))
           /\ \A n \in Nat : \A op \in OpsUpTo(p, n) : \A type \in TypesOf(op) : Lower(p, type, n)
           /\ \A n : \A op \in OpsUpTo(p, n) :
                 \E ops \in SUBSET OpsUpTo(p, n) : ExecutableOp(p, ops, op)
           /\ \A s \in DOMAIN p.structs : p.structs[s].body \in Seq(OpsUpTo(p, Rank(p)[s]))
<1>1. Rank(p) \in [DOMAIN p.structs -> Nat] /\ Ranked(p, Operations(p), Rank(p))
  BY DEF Layered, Rank, IsRank
<1>2. ASSUME NEW n, NEW s \in DOMAIN p.structs, Rank(p)[s] <= n
      PROVE  Operations(p)[s] \subseteq OpsUpTo(p, n)
  BY <1>2 DEF OpsUpTo
<1>3. ASSUME NEW n \in Nat, NEW op \in OpsUpTo(p, n), NEW type \in TypesOf(op),
             type.form = "struct"
      PROVE  Rank(p)[type.ref] < n
  <2>1. PICK s \in DOMAIN p.structs : Rank(p)[s] <= n /\ op \in Operations(p)[s]
    BY DEF OpsUpTo
  <2>2. Rank(p)[type.ref] < Rank(p)[s]
    BY <1>1, <1>3, <2>1 DEF Ranked
  <2>3. ExecutableOp(p, Operations(p)[s], op)
    BY <2>1, PlanAssumption DEF ExecutablePlan
  <2>4. type.ref \in DOMAIN p.structs
    <3>1. CASE op.op = "field"
      BY <1>3, <2>3, <3>1 DEF ExecutableOp, ExecutableType, TypesOf
    <3>2. CASE op.op = "variant"
      BY <1>3, <2>3, <3>2 DEF ExecutableOp, ExecutableType, TypesOf, CasesOf
    <3> QED BY <2>3, <3>1, <3>2 DEF ExecutableOp, TypesOf
  <2>5. Rank(p)[type.ref] \in Nat /\ Rank(p)[s] \in Nat
    BY <1>1, <2>1, <2>4
  <2> QED BY <2>1, <2>2, <2>5
<1>4. ASSUME NEW n, NEW op \in OpsUpTo(p, n)
      PROVE  \E ops \in SUBSET OpsUpTo(p, n) : ExecutableOp(p, ops, op)
  <2>1. PICK s \in DOMAIN p.structs : Rank(p)[s] <= n /\ op \in Operations(p)[s]
    BY DEF OpsUpTo
  <2>2. ExecutableOp(p, Operations(p)[s], op)
    BY <2>1, PlanAssumption DEF ExecutablePlan
  <2> QED BY <1>2, <2>1, <2>2
<1>5. ASSUME NEW s \in DOMAIN p.structs
      PROVE  p.structs[s].body \in Seq(OpsUpTo(p, Rank(p)[s]))
  <2>1. p.structs[s].body \in Seq(Operations(p)[s])
    BY PlanAssumption DEF ExecutablePlan
  <2>2. Rank(p)[s] <= Rank(p)[s]
    BY <1>1
  <2> QED BY <1>2, <2>1, <2>2, SeqMonotonic
<1> QED BY <1>1, <1>3, <1>4, <1>5 DEF Lower

-----------------------------------------------------------------------------
\* Stacks.

LEMMA FallingPop ==
    ASSUME NEW p, NEW fs, IsSeq(fs), fs # <<>>, Falling(p, fs)
    PROVE  Falling(p, Front(fs)) /\ Ranks(p, Front(fs)) \subseteq Ranks(p, fs)
<1>1. /\ Len(fs) \in Nat \ {0} /\ Len(Front(fs)) = Len(fs) - 1
      /\ \A i \in 1..(Len(fs) - 1) : Front(fs)[i] = fs[i] /\ i \in 1..Len(fs)
  BY FrontSeq
<1> QED BY <1>1 DEF Falling, Ranks

LEMMA FallingPush ==
    ASSUME NEW p, NEW fs, IsSeq(fs), Falling(p, fs), NEW f,
           \A n \in Ranks(p, fs) : FrameUnder(p, f, n) /\ (f.k = "struct" => Own(p, f) < n),
           f.k = "struct" => f.name \in DOMAIN p.structs /\ FrameUnder(p, f, Own(p, f))
    PROVE  /\ Falling(p, Append(fs, f))
           /\ f.k # "struct" => Ranks(p, Append(fs, f)) \subseteq Ranks(p, fs)
<1> DEFINE gs == Append(fs, f)
           n == Len(fs)
<1>1. n \in Nat /\ Len(gs) = n + 1 /\ gs[n + 1] = f /\ \A i \in 1..n : gs[i] = fs[i]
  BY AppendSeq, SeqLen
<1>2. \A i \in 1..(n + 1) : i \in 1..n \/ i = n + 1
  BY <1>1
<1>3. \A i \in 1..n : i < n + 1 /\ ~(i >= n + 1) /\ ~(i > n + 1)
  BY <1>1
<1>4. ~(n + 1 > n + 1)
  BY <1>1
<1>5. \A i \in 1..n : fs[i].k = "struct" => Own(p, fs[i]) \in Ranks(p, fs)
  BY DEF Ranks
<1> HIDE DEF gs, n
<1>6. Falling(p, gs)
  <2> SUFFICES ASSUME NEW j \in 1..(n + 1), gs[j].k = "struct"
               PROVE  /\ gs[j].name \in DOMAIN p.structs
                      /\ \A i \in 1..(n + 1) : i >= j => FrameUnder(p, gs[i], Own(p, gs[j]))
                      /\ \A i \in 1..(n + 1) : i > j /\ gs[i].k = "struct" =>
                             Own(p, gs[i]) < Own(p, gs[j])
    BY <1>1 DEF Falling
  <2>1. CASE j = n + 1
    BY <1>1, <1>2, <1>3, <1>4, <2>1
  <2>2. CASE j \in 1..n
    BY <1>1, <1>2, <1>5, <2>2 DEF Falling, n
  <2> QED BY <1>2, <2>1, <2>2
<1>7. f.k # "struct" => Ranks(p, gs) \subseteq Ranks(p, fs)
  BY <1>1, <1>2 DEF Ranks, n
<1> QED BY <1>6, <1>7 DEF gs

\* A frame g that can stand where f stands: it reads no more.
Sinks(f, g) ==
    /\ g.k = f.k /\ (f.k = "struct" => g.name = f.name)
    /\ f.k \in Bodies => \A S : f.todo \in Seq(S) => g.todo \in Seq(S)
    /\ f.k \in {"array", "until"} => g.elem = f.elem

LEMMA FallingReplace ==
    ASSUME NEW p, NEW fs, IsSeq(fs), fs # <<>>, Falling(p, fs), NEW f, Sinks(Last(fs), f)
    PROVE  /\ Falling(p, Append(Front(fs), f))
           /\ Ranks(p, Append(Front(fs), f)) \subseteq Ranks(p, fs)
<1> DEFINE gs == Append(Front(fs), f)
           n == Len(fs)
<1>1. /\ n \in Nat \ {0} /\ Len(gs) = n /\ gs[n] = f /\ fs[n] = Last(fs) /\ n \in 1..n
      /\ \A i \in 1..(n - 1) : gs[i] = fs[i]
      /\ \A i \in 1..n : i \in 1..(n - 1) \/ i = n
  <2>1. /\ IsSeq(Front(fs)) /\ n \in Nat \ {0} /\ Len(Front(fs)) = n - 1
        /\ \A i \in 1..(n - 1) : Front(fs)[i] = fs[i]
    BY FrontSeq
  <2>2. /\ Len(gs) = (n - 1) + 1 /\ \A i \in 1..(n - 1) : gs[i] = Front(fs)[i]
        /\ gs[(n - 1) + 1] = f
    BY <2>1, AppendSeq
  <2> QED BY <2>1, <2>2 DEF Last
<1>2. \A m : FrameUnder(p, Last(fs), m) => FrameUnder(p, f, m)
  BY DEF FrameUnder, Sinks
<1> HIDE DEF gs
<1>3. \A i \in 1..n : /\ gs[i].k = fs[i].k
                      /\ fs[i].k = "struct" => gs[i].name = fs[i].name
                      /\ \A m : FrameUnder(p, fs[i], m) => FrameUnder(p, gs[i], m)
  BY <1>1, <1>2 DEF Sinks
<1>4. \A i \in 1..n : fs[i].k = "struct" => Own(p, gs[i]) = Own(p, fs[i])
  BY <1>3 DEF Own
<1>5. Falling(p, gs)
  BY <1>1, <1>3, <1>4 DEF Falling
<1>6. Ranks(p, gs) \subseteq Ranks(p, fs)
  BY <1>1, <1>3, <1>4 DEF Ranks
<1> QED BY <1>5, <1>6 DEF gs

-----------------------------------------------------------------------------
\* What the invariants give a step.

LEMMA RankTop ==
    ASSUME DecoderInv, RankInv, frames # <<>>, NEW n \in Ranks(plan, frames)
    PROVE  FrameUnder(plan, Top, n)
<1>1. Len(frames) \in Nat \ {0} /\ Top = frames[Len(frames)]
  BY FrontSeq DEF DecoderInv, StackOK, Top
<1>2. PICK j \in 1..Len(frames) : frames[j].k = "struct" /\ n = Own(plan, frames[j])
  BY DEF Ranks
<1>3. Len(frames) \in 1..Len(frames) /\ Len(frames) >= j
  BY <1>1
<1> QED BY <1>1, <1>2, <1>3 DEF RankInv, RankedStack, Falling

LEMMA RanksNat ==
    ASSUME Layered, DecoderInv, RankInv, NEW n \in Ranks(plan, frames)
    PROVE  n \in Nat
<1>1. PICK j \in 1..Len(frames) : frames[j].k = "struct" /\ n = Own(plan, frames[j])
  BY DEF Ranks
<1>2. Rank(plan) \in [DOMAIN plan.structs -> Nat]
  BY RankIs DEF DecoderInv
<1> QED BY <1>1, <1>2 DEF RankInv, RankedStack, Falling, Own

\* A frame keeps what it reads, or reads less, when its members change.
LEMMA Members ==
    ASSUME NEW p, NEW f, FrameOK(p, f), f.k \in Bodies, NEW obj
    PROVE  Sinks(f, [f EXCEPT !.obj = obj])
<1> DEFINE g == [f EXCEPT !.obj = obj]
<1>1. g.k = f.k /\ g.todo = f.todo /\ g.name = f.name
  BY DEF FrameOK, BodyOK
<1>2. f.k \notin {"array", "until"}
  BY DEF Bodies
<1> HIDE DEF g
<1>3. Sinks(f, g)
  BY <1>1, <1>2 DEF Sinks
<1> QED BY <1>3 DEF g

\* What a step does to the stack when it reads no struct: it goes on, returns, or
\* changes the frame that is then on top.
Sinking ==
    \/ frames' = frames
    \/ frames # <<>> /\ frames' = Below
    \/ frames # <<>> /\ \E f : Sinks(Top, f) /\ frames' = Replace(f)
    \/ frames # <<>> /\ Below # <<>> /\ \E f : Sinks(Last(Below), f) /\ frames' = Popped(f)

LEMMA SinkingRanks ==
    ASSUME DecoderInv, RankInv, Sinking
    PROVE  Falling(plan, frames') /\ Ranks(plan, frames') \subseteq Ranks(plan, frames)
<1>1. IsSeq(frames) /\ Falling(plan, frames)
  BY DEF DecoderInv, StackOK, RankInv, RankedStack
<1>2. CASE frames' = frames
  BY <1>1, <1>2
<1>3. ASSUME frames # <<>>
      PROVE  IsSeq(Below) /\ Falling(plan, Below) /\ Ranks(plan, Below) \subseteq Ranks(plan, frames)
  BY <1>1, <1>3, FrontSeq, FallingPop DEF Below
<1>4. ASSUME frames # <<>>, NEW f, Sinks(Top, f), frames' = Replace(f)
      PROVE  Falling(plan, frames') /\ Ranks(plan, frames') \subseteq Ranks(plan, frames)
  BY <1>1, <1>4, FallingReplace DEF Top, Replace, Below
<1>5. ASSUME frames # <<>>, Below # <<>>, NEW f, Sinks(Last(Below), f), frames' = Popped(f)
      PROVE  Falling(plan, frames') /\ Ranks(plan, frames') \subseteq Ranks(plan, frames)
  <2>1. /\ Falling(plan, Append(Front(Below), f))
        /\ Ranks(plan, Append(Front(Below), f)) \subseteq Ranks(plan, Below)
    BY <1>3, <1>5, FallingReplace
  <2> QED BY <1>3, <1>5, <2>1 DEF Popped
<1> QED BY <1>2, <1>3, <1>4, <1>5 DEF Sinking

LEMMA SinksDown ==
    ASSUME DecoderInv, RankInv, Sinking, ret'.is # "type"
    PROVE  RankedStack(plan, frames', ret')
BY SinkingRanks DEF RankedStack

\* A frame that is no struct is pushed, on the frame as it is or with op done.
LEMMA PushedOn ==
    ASSUME DecoderInv, RankInv, NEW gs, IsSeq(gs), Falling(plan, gs),
           Ranks(plan, gs) \subseteq Ranks(plan, frames),
           NEW f, f.k # "struct", \A n \in Ranks(plan, frames) : FrameUnder(plan, f, n),
           frames' = Append(gs, f),
           ret'.is = "type" => \A n \in Ranks(plan, frames) : Lower(plan, ret'.type, n)
    PROVE  RankedStack(plan, frames', ret')
<1>1. Falling(plan, Append(gs, f)) /\ Ranks(plan, Append(gs, f)) \subseteq Ranks(plan, gs)
  BY FallingPush
<1> QED BY <1>1 DEF RankedStack

\* An operation is one of a struct of the rank of every struct being read.
LEMMA OpRank ==
    ASSUME Layered, DecoderInv, RankInv, NEW kind, Doing(kind)
    PROVE  /\ IsSeq(Replace(Rest1)) /\ Falling(plan, Replace(Rest1)) /\ Sinks(Top, Rest1)
           /\ Ranks(plan, Replace(Rest1)) \subseteq Ranks(plan, frames)
           /\ \A n \in Ranks(plan, frames) :
                 /\ n \in Nat
                 /\ \A type \in TypesOf(Op) : Lower(plan, type, n)
                 /\ \E ops \in SUBSET OpsUpTo(plan, n) : ExecutableOp(plan, ops, Op)
<1>1. /\ frames # <<>> /\ Top.k \in Bodies /\ Top.todo # <<>> /\ plan \in Plans
      /\ StackOK(plan, frames) /\ FrameOK(plan, Top)
  BY DoingFacts, InsideFacts DEF Doing
<1>2. Sinks(Top, Rest1)
  <2> DEFINE r == Rest1
  <2>1. r.k = Top.k /\ r.todo = Tail(Top.todo) /\ r.name = Top.name
    BY <1>1 DEF FrameOK, BodyOK, Rest1
  <2>2. \A S : Top.todo \in Seq(S) => Tail(Top.todo) \in Seq(S)
    BY <1>1, HeadTailProperties
  <2>3. Top.k \notin {"array", "until"}
    BY <1>1 DEF Bodies
  <2> HIDE DEF r
  <2>4. Sinks(Top, r)
    BY <2>1, <2>2, <2>3 DEF Sinks
  <2> QED BY <2>4 DEF r
<1>3. IsSeq(Replace(Rest1))
  BY Done DEF StackOK
<1>4. Falling(plan, Replace(Rest1)) /\ Ranks(plan, Replace(Rest1)) \subseteq Ranks(plan, frames)
  BY <1>1, <1>2, FallingReplace DEF Replace, Below, Top, StackOK, RankInv, RankedStack
<1>5. ASSUME NEW n \in Ranks(plan, frames)
      PROVE  n \in Nat /\ Op \in OpsUpTo(plan, n)
  <2>1. n \in Nat /\ Top.todo \in Seq(OpsUpTo(plan, n))
    BY <1>1, RanksNat, RankTop DEF FrameUnder
  <2> QED BY <1>1, <2>1, HeadTailProperties DEF Op
<1> QED BY <1>1, <1>2, <1>3, <1>4, <1>5, RankIs

-----------------------------------------------------------------------------
\* Step by step.

LEMMA StructRanks ==
    ASSUME Layered, DecoderInv, RankInv, TypeStruct
    PROVE  RankedStack(plan, frames', ret')
<1> DEFINE name == ret.type.ref
           f == StructFrame(name)
<1>1. /\ Calling /\ ret.is = "type" /\ ret.type.form = "struct" /\ plan \in Plans
      /\ name \in DOMAIN plan.structs /\ IsSeq(frames) /\ Falling(plan, frames)
  BY CallingFacts
     DEF TypeStruct, Calling, ExecutableType, StackOK, RankInv, RankedStack
<1>2. \/ frames' = frames /\ ret' = False
      \/ frames' = Append(frames, f) /\ ret' = Step
  BY DEF TypeStruct, Goes, Fails, Push
<1>3. f.k = "struct" /\ f.name = name /\ f.todo = plan.structs[name].body
  BY DEF StructFrame
<1> HIDE DEF f
<1>4. Own(plan, f) \in Nat /\ plan.structs[name].body \in Seq(OpsUpTo(plan, Own(plan, f)))
  BY <1>1, <1>3, RankIs DEF Own
<1>5. \A n \in Ranks(plan, frames) : n \in Nat /\ Own(plan, f) < n
  BY <1>1, <1>3, RanksNat DEF RankInv, RankedStack, Lower, Own
<1>6. \A n \in Nat : Own(plan, f) <= n => FrameUnder(plan, f, n)
  <2> SUFFICES ASSUME NEW n \in Nat, Own(plan, f) <= n PROVE FrameUnder(plan, f, n)
    OBVIOUS
  <2>1. OpsUpTo(plan, Own(plan, f)) \subseteq OpsUpTo(plan, n)
    <3>1. \A s \in DOMAIN plan.structs : Rank(plan)[s] \in Nat
      BY <1>1, RankIs
    <3>2. \A s \in DOMAIN plan.structs : Rank(plan)[s] <= Own(plan, f) => Rank(plan)[s] <= n
      BY <1>4, <3>1
    <3> QED BY <3>2 DEF OpsUpTo
  <2>2. f.todo \in Seq(OpsUpTo(plan, n))
    BY <1>3, <1>4, <2>1, SeqMonotonic
  <2> QED BY <1>3, <2>2 DEF FrameUnder
<1>7. \A n \in Ranks(plan, frames) : FrameUnder(plan, f, n)
  BY <1>4, <1>5, <1>6
<1>8. FrameUnder(plan, f, Own(plan, f))
  BY <1>4, <1>6
<1>9. Falling(plan, Append(frames, f))
  BY <1>1, <1>3, <1>5, <1>7, <1>8, FallingPush
<1>10. False.is # "type" /\ Step.is # "type"
  BY DEF False, Step
<1> QED BY <1>1, <1>2, <1>9, <1>10 DEF RankedStack

\* The elements of an array or a terminated sequence are of the type called.
LEMMA LoopsRanked ==
    ASSUME DecoderInv, RankInv, TypeArray \/ TypeUntil
    PROVE  RankedStack(plan, frames', ret')
<1> DEFINE d == [ret.type EXCEPT !.dims = Tail(@)]
           c == [ret.type EXCEPT !.dims = <<>>]
           u == [c EXCEPT !.term = <<>>, !.max = 0]
           array == [k |-> "array", elem |-> d, left |-> Extents(ret.type.dims)[1], vals |-> <<>>]
           until == [k |-> "until", elem |-> u, term |-> ret.type.term, max |-> ret.type.max,
                     saved |-> rd, vals |-> <<>>]
<1>1. Calling /\ ret.is = "type" /\ ExecutableType(plan, ret.type) /\ IsSeq(frames)
      /\ Falling(plan, frames)
  BY CallingFacts
     DEF TypeArray, TypeUntil, Calling, StackOK, RankInv, RankedStack
<1>2. \/ frames' = frames /\ ret' = False
      \/ frames' = Append(frames, array) /\ ret' = Step
      \/ frames' = Append(frames, until) /\ ret' = Step
  BY DEF TypeArray, TypeUntil, Push, Goes, Fails, Until, Dims
<1>3. d.form = ret.type.form /\ d.ref = ret.type.ref /\ u.form = ret.type.form
      /\ u.ref = ret.type.ref
  BY <1>1 DEF ExecutableType
<1>4. array.k = "array" /\ until.k = "until" /\ array.elem = d /\ until.elem = u
  OBVIOUS
<1> HIDE DEF d, u, array, until
<1>5. \A n \in Ranks(plan, frames) : Lower(plan, ret.type, n)
  BY <1>1 DEF RankInv, RankedStack
<1>6. \A n \in Ranks(plan, frames) : FrameUnder(plan, array, n) /\ FrameUnder(plan, until, n)
  BY <1>3, <1>4, <1>5 DEF FrameUnder, Lower, Bodies
<1>7. False.is # "type" /\ Step.is # "type"
  BY DEF False, Step
<1>8. CASE frames' = frames /\ ret' = False
  BY <1>7, <1>8, SinksDown DEF Sinking
<1>9. CASE frames' = Append(frames, array) /\ ret' = Step
  BY <1>1, <1>4, <1>6, <1>7, <1>9, PushedOn
<1>10. CASE frames' = Append(frames, until) /\ ret' = Step
  BY <1>1, <1>4, <1>6, <1>7, <1>10, PushedOn
<1> QED BY <1>2, <1>8, <1>9, <1>10

LEMMA TurnsRanked ==
    ASSUME DecoderInv, RankInv, ArrayStep \/ UntilStep
    PROVE  RankedStack(plan, frames', ret')
<1>1. frames # <<>> /\ Top.k \in {"array", "until"}
  BY DEF ArrayStep, UntilStep, Running
<1>2. \/ frames' \in {frames, Below} /\ ret'.is # "type"
      \/ frames' = frames /\ ret' = CallType(Top.elem)
  <2>1. CASE ArrayStep
    BY <2>1 DEF ArrayStep, Goes, Return
  <2>2. CASE UntilStep
    BY <2>2 DEF UntilStep, Goes, Throws, Fails, Undo, Return, False, Throw
  <2> QED BY <2>1, <2>2
<1>3. CASE frames' \in {frames, Below} /\ ret'.is # "type"
  BY <1>1, <1>3, SinksDown DEF Sinking
<1>4. CASE frames' = frames /\ ret' = CallType(Top.elem)
  <2>1. \A n \in Ranks(plan, frames) : Lower(plan, Top.elem, n)
    BY <1>1, RankTop DEF FrameUnder
  <2> QED BY <1>4, <2>1 DEF RankInv, RankedStack, CallType
<1> QED BY <1>2, <1>3, <1>4

LEMMA TakesRanked ==
    ASSUME DecoderInv, RankInv, ArrayValue \/ UntilValue
    PROVE  RankedStack(plan, frames', ret')
<1> DEFINE kept == [Top EXCEPT !.vals = Keep(@, ret.value)]
           counted == [Top EXCEPT !.left = @ - 1, !.vals = Keep(@, ret.value)]
<1>1. frames # <<>> /\ Top.k \in {"array", "until"}
  BY DEF ArrayValue, UntilValue, Getting, Running
<1>2. \/ frames' = Below /\ ret'.is # "type"
      \/ (frames' = Replace(kept) \/ frames' = Replace(counted)) /\ ret'.is # "type"
  BY DEF ArrayValue, UntilValue, Goes, Throws, Fails, Undo, Step, False, Throw
<1>3. Sinks(Top, kept) /\ Sinks(Top, counted)
  <2>1. /\ kept.k = Top.k /\ kept.elem = Top.elem /\ counted.k = Top.k /\ counted.elem = Top.elem
    BY <1>1
  <2> HIDE DEF kept, counted
  <2> QED BY <1>1, <2>1 DEF Sinks, Bodies
<1> HIDE DEF kept, counted
<1> QED BY <1>1, <1>2, <1>3, SinksDown DEF Sinking

\* Steps that read nothing: the stack stays, loses its top frame, or keeps a
\* frame that has less to do.
LEMMA OthersRanked ==
    ASSUME Layered, DecoderInv, RankInv,
           \/ EndStruct \/ TypeScalar \/ TypeBytes \/ TypeUntilBytes
           \/ DoVirtual \/ DoAlias \/ DoAlign \/ Callbacks \/ Unwinds
           \/ EndGroup \/ Finish
    PROVE  RankedStack(plan, frames', ret')
<1>1. \A v : /\ False.is # "type" /\ Step.is # "type" /\ Throw.is # "type"
             /\ Return(v).is # "type"
  BY DEF False, Step, Throw, Return
<1>2. CASE EndStruct
  <2>1. frames # <<>> /\ frames' \in {frames, Below} /\ ret'.is # "type"
    BY <1>1, <1>2 DEF EndStruct, Ending, Running, Goes, Fails
  <2> QED BY <2>1, SinksDown DEF Sinking
<1>3. CASE TypeScalar \/ TypeBytes \/ TypeUntilBytes
  <2>1. frames' = frames /\ ret'.is # "type"
    <3>1. CASE TypeScalar
      BY <1>1, <3>1 DEF TypeScalar, Goes, Fails
    <3>2. CASE TypeBytes
      BY <1>1, <3>2 DEF TypeBytes, Goes, Fails
    <3>3. CASE TypeUntilBytes
      BY <1>1, <3>3 DEF TypeUntilBytes, Goes, Fails, Throws
    <3> QED BY <1>3, <3>1, <3>2, <3>3
  <2> QED BY <2>1, SinksDown DEF Sinking
<1>4. CASE DoVirtual \/ DoAlias
  <2> DEFINE r == Rest1
             g(name, v) == [r EXCEPT !.obj = Put(r.obj, name, v)]
  <2>1. PICK kind \in {"virtual", "alias"} : Doing(kind)
    BY <1>4 DEF DoVirtual, DoAlias
  <2>2. frames # <<>> /\ Sinks(Top, r) /\ "obj" \in DOMAIN r /\ "k" \in DOMAIN r /\ Top.k \in Bodies
    BY <2>1, DoingFacts, OpRank, InsideFacts DEF Rest1, FrameOK, BodyOK
  <2>3. \A name, v : g(name, v).k = r.k /\ g(name, v).todo = r.todo /\ g(name, v).name = r.name
    BY <2>2
  <2>4. \/ frames' = frames /\ ret'.is # "type"
        \/ \E name, v : frames' = Replace(g(name, v)) /\ ret'.is # "type"
    BY <1>1, <1>4 DEF DoVirtual, DoAlias, Goes, Fails, Stored
  <2> HIDE DEF r
  <2>5. ASSUME NEW name, NEW v PROVE Sinks(Top, g(name, v))
    <3> DEFINE h == g(name, v)
    <3>1. h.k = r.k /\ h.todo = r.todo /\ h.name = r.name
      BY <2>3
    <3> HIDE DEF g
    <3>2. Sinks(Top, h)
      BY <2>2, <3>1 DEF Sinks, Bodies
    <3> QED BY <3>2
  <2> HIDE DEF g
  <2> QED BY <2>2, <2>4, <2>5, SinksDown DEF Sinking
<1>5. CASE DoAlign \/ Callbacks
  <2>1. PICK kind \in {"align", "callback"} : Doing(kind)
    BY <1>5 DEF DoAlign, Callbacks, CallbackRefused, CallbackSucceeds, CallbackFails,
                CallbackEscapes
  <2>2. frames # <<>> /\ Sinks(Top, Rest1)
    BY <2>1, DoingFacts, OpRank
  <2>3. (frames' = frames \/ frames' = Replace(Rest1)) /\ ret'.is # "type"
    BY <1>1, <1>5 DEF DoAlign, Callbacks, CallbackRefused, CallbackSucceeds, CallbackFails,
                CallbackEscapes, Goes, Fails, Caught
  <2> QED BY <2>2, <2>3, SinksDown DEF Sinking
<1>6. CASE Unwinds
  <2>1. frames # <<>> /\ frames' = Below /\ ret'.is # "type"
    BY <1>1, <1>6 DEF Unwinds, FailStruct, FailUntil, FailAt, FailBlock, FailThrough, CatchThrow,
                      PassThrow, Running, Goes, Fails, Caught, Throws
  <2> QED BY <2>1, SinksDown DEF Sinking
<1>7. CASE EndGroup
  <2>1. frames # <<>> /\ frames' = Below /\ ret'.is # "type"
    BY <1>1, <1>7 DEF EndGroup, Running, Goes, Caught
  <2> QED BY <2>1, SinksDown DEF Sinking
<1>8. CASE Finish
  <2>1. frames' = frames /\ ret' = ret
    BY <1>8 DEF Finish
  <2> QED BY <2>1 DEF RankInv, RankedStack
<1> QED BY <1>2, <1>3, <1>4, <1>5, <1>6, <1>7, <1>8

\* Members are handed to the frame below, which has as much to do as before.
LEMMA EndsRanked ==
    ASSUME DecoderInv, RankInv,
           EndAt \/ EndBlock \/ EndBranch \/ EndCase \/ TypedValue \/ FieldValue
    PROVE  RankedStack(plan, frames', ret')
<1> DEFINE g(obj) == [Last(Below) EXCEPT !.obj = obj]
<1>1. False.is # "type" /\ Step.is # "type"
  BY DEF False, Step
<1>2. frames # <<>> /\ Top.k \notin Enclosed
  BY DEF EndAt, EndBlock, EndBranch, EndCase, TypedValue, FieldValue, Ending, Getting, Running,
         Enclosed
<1>3. Below # <<>> /\ \A obj : Sinks(Last(Below), g(obj))
  BY <1>2, BelowBody, Members
<1>4. \/ frames' = Below /\ ret'.is # "type"
      \/ (\E obj : frames' = Popped(g(obj))) /\ ret'.is # "type"
  BY <1>1 DEF EndAt, EndBlock, EndBranch, EndCase, TypedValue, FieldValue, Goes, Fails, Caught,
              MergedBelow, StoredBelow, Stored
<1> HIDE DEF g
<1> QED BY <1>2, <1>3, <1>4, SinksDown DEF Sinking

\* A field's type, and the bodies and types of an operation that has them.
LEMMA FieldRanked ==
    ASSUME Layered, DecoderInv, RankInv, BeginField
    PROVE  RankedStack(plan, frames', ret')
<1> DEFINE f == [k |-> "field", field |-> Op]
<1>1. Doing("field") /\ Op.op = "field" /\ frames' = Append(Replace(Rest1), f)
      /\ ret' = CallType(Op.type)
  BY DoingFacts DEF BeginField, Goes
<1>2. f.k = "field"
  OBVIOUS
<1> HIDE DEF f
<1>3. \A n : FrameUnder(plan, f, n)
  BY <1>2 DEF FrameUnder, Bodies
<1>4. \A n \in Ranks(plan, frames) : Lower(plan, Op.type, n)
  BY <1>1, OpRank DEF TypesOf
<1>5. ret'.is = "type" /\ ret'.type = Op.type
  BY <1>1 DEF CallType
<1> HIDE DEF Replace
<1> QED BY <1>1, <1>2, <1>3, <1>4, <1>5, OpRank, PushedOn

\* A body of an operation is run in a frame of its own.
LEMMA BodyRanked ==
    ASSUME Layered, DecoderInv, RankInv, NEW kind, Doing(kind),
           NEW f, f.k \in {"at", "block", "branch", "case"},
           \A ops : ExecutableOp(plan, ops, Op) => f.todo \in Seq(ops),
           frames' = Append(Replace(Rest1), f), ret' = Step
    PROVE  RankedStack(plan, frames', ret')
<1>1. ASSUME NEW n \in Ranks(plan, frames) PROVE FrameUnder(plan, f, n)
  <2>1. PICK ops \in SUBSET OpsUpTo(plan, n) : ExecutableOp(plan, ops, Op)
    BY OpRank
  <2>2. f.todo \in Seq(OpsUpTo(plan, n))
    BY <2>1, SeqMonotonic
  <2> QED BY <2>2 DEF FrameUnder
<1>2. ret'.is # "type" /\ f.k # "struct"
  BY DEF Step
<1> HIDE DEF Replace
<1> QED BY <1>1, <1>2, OpRank, PushedOn

LEMMA BodiesRanked ==
    ASSUME Layered, DecoderInv, RankInv, BeginAt \/ BeginBlock \/ BeginIf
    PROVE  RankedStack(plan, frames', ret')
<1> DEFINE at == [k |-> "at", todo |-> Op.body, obj |-> NoMembers, back |-> rd.pos]
           block(n) == [k |-> "block", todo |-> Op.body, obj |-> NoMembers, start |-> rd.pos,
                        end |-> n]
           branch(ops) == Body("branch", ops)
<1>1. False.is # "type"
  BY DEF False
<1>2. CASE BeginAt
  <2>1. Doing("at") /\ Op.op = "at" /\ frames # <<>>
    BY <1>2, DoingFacts DEF BeginAt
  <2>2. \/ frames' = frames /\ ret'.is # "type"
        \/ frames' = Append(Replace(Rest1), at) /\ ret' = Step
    BY <1>1, <1>2 DEF BeginAt, Goes, Fails, Caught
  <2>3. at.k = "at" /\ at.todo = Op.body
    OBVIOUS
  <2> HIDE DEF at
  <2>4. \A ops : ExecutableOp(plan, ops, Op) => at.todo \in Seq(ops)
    BY <2>1, <2>3 DEF ExecutableOp
  <2> QED BY <2>1, <2>2, <2>3, <2>4, BodyRanked, SinksDown DEF Sinking
<1>3. CASE BeginBlock
  <2>1. Doing("block") /\ Op.op = "block" /\ frames # <<>>
    BY <1>3, DoingFacts DEF BeginBlock
  <2>2. \/ frames' = frames /\ ret'.is # "type"
        \/ \E n : frames' = Append(Replace(Rest1), block(n)) /\ ret' = Step
    BY <1>1, <1>3 DEF BeginBlock, Goes, Fails
  <2>3. \A n : block(n).k = "block" /\ block(n).todo = Op.body
    OBVIOUS
  <2> HIDE DEF block
  <2>4. \A n, ops : ExecutableOp(plan, ops, Op) => block(n).todo \in Seq(ops)
    BY <2>1, <2>3 DEF ExecutableOp
  <2>5. ASSUME NEW n, frames' = Append(Replace(Rest1), block(n)), ret' = Step
        PROVE  RankedStack(plan, frames', ret')
    BY <2>1, <2>3, <2>4, <2>5, BodyRanked
  <2> QED BY <2>1, <2>2, <2>5, SinksDown DEF Sinking
<1>4. CASE BeginIf
  <2>1. Doing("if") /\ Op.op = "if" /\ frames # <<>>
    BY <1>4, DoingFacts DEF BeginIf
  <2>2. \/ frames' = frames /\ ret'.is # "type"
        \/ \E ops \in {Op.then, Op.else} :
               frames' = Append(Replace(Rest1), branch(ops)) /\ ret' = Step
    BY <1>1, <1>4 DEF BeginIf, Goes, Fails
  <2>3. \A ops : branch(ops).k = "branch" /\ branch(ops).todo = ops
    BY DEF Body
  <2> HIDE DEF branch
  <2>4. \A ops, S : ops \in {Op.then, Op.else} /\ ExecutableOp(plan, S, Op) =>
                        branch(ops).todo \in Seq(S)
    BY <2>1, <2>3 DEF ExecutableOp
  <2>5. ASSUME NEW ops \in {Op.then, Op.else}, frames' = Append(Replace(Rest1), branch(ops)),
               ret' = Step
        PROVE  RankedStack(plan, frames', ret')
    BY <2>1, <2>3, <2>4, <2>5, BodyRanked
  <2> QED BY <2>1, <2>2, <2>5, SinksDown DEF Sinking
<1> QED BY <1>2, <1>3, <1>4

\* The case that is read is one of the variant's.
LEMMA CaseOfVariant ==
    ASSUME NEW p, NEW ops, ExecutableOp(p, ops, Op), Op.op = "variant", NEW tag
    PROVE  LET matching == {i \in DOMAIN Op.cases : Op.cases[i].tag = tag}
               chosen == IF matching = {} THEN Op.default ELSE <<Op.cases[Min(matching)]>>
           IN  chosen # <<>> => Head(chosen) \in Range(Op.cases) \cup Range(Op.default)
<1> DEFINE matching == {i \in DOMAIN Op.cases : Op.cases[i].tag = tag}
           chosen == IF matching = {} THEN Op.default ELSE <<Op.cases[Min(matching)]>>
<1>1. /\ DOMAIN Op.cases = 1..Len(Op.cases) /\ Len(Op.cases) \in Nat
      /\ Op.default # <<>> => 1 \in DOMAIN Op.default
  BY DEF ExecutableOp
<1>2. matching # {} => Min(matching) \in DOMAIN Op.cases
  <2>1. matching \subseteq Nat /\ matching \subseteq DOMAIN Op.cases
    BY <1>1
  <2> HIDE DEF matching
  <2> QED BY <2>1, MinIn
<1>3. \A c : Head(<<c>>) = c
  BY DEF Head
<1>4. Head(Op.default) = Op.default[1]
  BY DEF Head
<1>5. chosen # <<>> => Head(chosen) \in Range(Op.cases) \cup Range(Op.default)
  <2> HIDE DEF matching
  <2> QED BY <1>1, <1>2, <1>3, <1>4 DEF Range
<1> QED BY <1>5

LEMMA VariantRanked ==
    ASSUME Layered, DecoderInv, RankInv, BeginVariant
    PROVE  RankedStack(plan, frames', ret')
<1> DEFINE tag == Eval(Op.tag, env)
           matching == {i \in DOMAIN Op.cases : Op.cases[i].tag = tag}
           chosen == IF matching = {} THEN Op.default ELSE <<Op.cases[Min(matching)]>>
           c == Head(chosen)
           typed == [k |-> "typed", name |-> Op.sym]
           body == [k |-> "case", todo |-> c.body, obj |-> NoMembers, name |-> Op.sym]
<1>1. Doing("variant") /\ Op.op = "variant" /\ frames # <<>>
  BY DoingFacts DEF BeginVariant
<1>2. \/ frames' = frames /\ ret' = False
      \/ /\ chosen # <<>> /\ c.typed
         /\ frames' = Append(Replace(Rest1), typed) /\ ret' = CallType(c.type)
      \/ chosen # <<>> /\ frames' = Append(Replace(Rest1), body) /\ ret' = Step
  BY DEF BeginVariant, Goes, Fails
<1>3. \A ops : ExecutableOp(plan, ops, Op) /\ chosen # <<>> =>
                   c \in Range(Op.cases) \cup Range(Op.default)
  BY <1>1, CaseOfVariant
<1>4. typed.k = "typed" /\ body.k = "case" /\ body.todo = c.body
  OBVIOUS
<1> HIDE DEF chosen, typed, body, c
<1>5. CASE frames' = frames /\ ret' = False
  BY <1>1, <1>5, SinksDown DEF Sinking, False
<1>6. CASE /\ chosen # <<>> /\ c.typed
           /\ frames' = Append(Replace(Rest1), typed) /\ ret' = CallType(c.type)
  <2>1. ASSUME NEW n \in Ranks(plan, frames) PROVE Lower(plan, c.type, n)
    <3>1. PICK ops \in SUBSET OpsUpTo(plan, n) : ExecutableOp(plan, ops, Op)
      BY <1>1, OpRank
    <3>2. c.type \in TypesOf(Op)
      BY <1>1, <1>3, <1>6, <3>1 DEF TypesOf, CasesOf
    <3> QED BY <1>1, <3>2, OpRank
  <2>2. \A n : FrameUnder(plan, typed, n)
    BY <1>4 DEF FrameUnder, Bodies
  <2>3. ret'.is = "type" /\ ret'.type = c.type
    BY <1>6 DEF CallType
  <2> HIDE DEF Replace
  <2> QED BY <1>1, <1>4, <1>6, <2>1, <2>2, <2>3, OpRank, PushedOn
<1>7. CASE chosen # <<>> /\ frames' = Append(Replace(Rest1), body) /\ ret' = Step
  <2>1. \A ops : ExecutableOp(plan, ops, Op) => body.todo \in Seq(ops)
    BY <1>1, <1>3, <1>4, <1>7 DEF ExecutableOp
  <2> QED BY <1>1, <1>4, <1>7, <2>1, BodyRanked
<1> QED BY <1>2, <1>5, <1>6, <1>7

LEMMA GroupRanked ==
    ASSUME Layered, DecoderInv, RankInv, BeginGroup \/ GroupField
    PROVE  RankedStack(plan, frames', ret')
<1>1. False.is # "type" /\ Step.is # "type"
  BY DEF False, Step
<1>2. CASE BeginGroup
  <2> DEFINE f == [k |-> "bits", todo |-> Op.fields, order |-> Op.fields[1].endian]
  <2>1. Doing("bits") /\ frames # <<>>
    BY <1>2, DoingFacts DEF BeginGroup
  <2>2. \/ frames' = frames /\ ret'.is # "type"
        \/ frames' = Append(Replace(Rest1), f) /\ ret' = Step
    BY <1>1, <1>2 DEF BeginGroup, Goes, Caught
  <2>3. f.k = "bits"
    OBVIOUS
  <2> HIDE DEF f
  <2>4. \A n : FrameUnder(plan, f, n)
    BY <2>3 DEF FrameUnder, Bodies
  <2>5. CASE frames' = Append(Replace(Rest1), f) /\ ret' = Step
    <3> HIDE DEF Replace
    <3> QED BY <1>1, <2>1, <2>3, <2>4, <2>5, OpRank, PushedOn
  <2> QED BY <2>1, <2>2, <2>5, SinksDown DEF Sinking
<1>3. CASE GroupField
  <2> DEFINE g(obj) == [Last(Below) EXCEPT !.obj = obj]
             f == [Top EXCEPT !.todo = Tail(@)]
  <2>1. frames # <<>> /\ Top.k = "bits" /\ Top.k \notin Enclosed /\ FrameOK(plan, Top)
    BY <1>3, InsideFacts DEF GroupField, Running, Enclosed
  <2>2. Below # <<>> /\ StackOK(plan, Below) /\ \A obj : Sinks(Last(Below), g(obj))
    BY <2>1, BelowBody, Members
  <2>3. \/ frames' = Below /\ ret'.is # "type"
        \/ \E obj : frames' = Append(Append(Front(Below), g(obj)), f) /\ ret'.is # "type"
    BY <1>1, <1>3 DEF GroupField, Goes, Fails, Caught, StoredBelow, Stored, Popped
  <2>4. f.k = "bits"
    BY <2>1 DEF FrameOK
  <2> HIDE DEF f, g
  <2>5. \A n : FrameUnder(plan, f, n)
    BY <2>4 DEF FrameUnder, Bodies
  <2>6. Falling(plan, Below) /\ Ranks(plan, Below) \subseteq Ranks(plan, frames)
    BY <2>1, FallingPop DEF Below, DecoderInv, StackOK, RankInv, RankedStack
  <2>7. ASSUME NEW obj, frames' = Append(Append(Front(Below), g(obj)), f), ret'.is # "type"
        PROVE  RankedStack(plan, frames', ret')
    <3> DEFINE gs == Append(Front(Below), g(obj))
    <3>1. Falling(plan, gs) /\ Ranks(plan, gs) \subseteq Ranks(plan, Below)
      BY <2>2, <2>6, FallingReplace DEF StackOK
    <3>2. IsSeq(gs)
      BY <2>2, FrontSeq, AppendSeq DEF StackOK
    <3> HIDE DEF gs
    <3>3. Ranks(plan, gs) \subseteq Ranks(plan, frames)
      BY <2>6, <3>1
    <3>4. frames' = Append(gs, f)
      BY <2>7 DEF gs
    <3> QED BY <2>4, <2>5, <2>7, <3>1, <3>2, <3>3, <3>4, PushedOn
  <2> QED BY <2>1, <2>3, <2>7, SinksDown DEF Sinking
<1> QED BY <1>2, <1>3

LEMMA StartRanked ==
    ASSUME DecoderInv, Start
    PROVE  RankedStack(plan, frames', ret')
<1>1. frames' = <<>>
  BY DEF Start, DecoderInv
<1>2. Len(frames') = 0
  BY <1>1
<1>3. Ranks(plan, frames') = {}
  BY <1>2 DEF Ranks
<1> QED BY <1>2, <1>3 DEF RankedStack, Falling

-----------------------------------------------------------------------------
\* The theorem.

LEMMA PlanStays ==
    ASSUME [Next]_vars
    PROVE  plan' = plan
<1>1. CASE Start \/ Finish \/ EndStruct
  BY <1>1 DEF Start, Finish, EndStruct, Goes, Fails, outcome
<1>2. CASE Types
  BY <1>2 DEF Types, TypeStruct, TypeScalar, TypeBytes, TypeArray, TypeUntilBytes, TypeUntil,
              Goes, Fails, Throws, outcome
<1>3. CASE Loops
  BY <1>3 DEF Loops, ArrayStep, ArrayValue, UntilStep, UntilValue, Undo, Goes, Fails, Throws,
              outcome
<1>4. CASE Values
  BY <1>4 DEF Values, DoVirtual, DoAlias, BeginField, FieldValue, Goes, Fails, outcome
<1>5. CASE Groups
  BY <1>5 DEF Groups, BeginGroup, GroupField, EndGroup, Goes, Fails, Caught, outcome
<1>6. CASE Places
  BY <1>6 DEF Places, DoAlign, BeginAt, EndAt, BeginBlock, EndBlock, Goes, Fails, Caught, outcome
<1>7. CASE Branching
  BY <1>7 DEF Branching, BeginIf, EndBranch, BeginVariant, EndCase, TypedValue, Goes, Fails,
              outcome
<1>8. CASE Callbacks
  BY <1>8 DEF Callbacks, CallbackRefused, CallbackSucceeds, CallbackFails, CallbackEscapes,
              Goes, Fails, Caught, outcome
<1>9. CASE Unwinds
  BY <1>9 DEF Unwinds, FailStruct, FailUntil, FailAt, FailBlock, FailThrough, CatchThrow,
              PassThrow, Goes, Caught, Throws, outcome
<1>10. CASE UNCHANGED vars
  BY <1>10 DEF vars
<1> QED BY <1>1, <1>2, <1>3, <1>4, <1>5, <1>6, <1>7, <1>8, <1>9, <1>10 DEF Next

LEMMA RankStep ==
    ASSUME Layered, DecoderInv, RankInv, [Next]_vars
    PROVE  RankInv'
<1>1. RankedStack(plan, frames', ret')
  <2>1. CASE Start \/ Finish \/ EndStruct
    BY <2>1, StartRanked, OthersRanked
  <2>2. CASE Types
    BY <2>2, StructRanks, LoopsRanked, OthersRanked DEF Types
  <2>3. CASE Loops
    BY <2>3, TurnsRanked, TakesRanked DEF Loops
  <2>4. CASE Values
    BY <2>4, FieldRanked, EndsRanked, OthersRanked DEF Values
  <2>5. CASE Groups
    BY <2>5, GroupRanked, OthersRanked DEF Groups
  <2>6. CASE Places
    BY <2>6, BodiesRanked, EndsRanked, OthersRanked DEF Places
  <2>7. CASE Branching
    BY <2>7, BodiesRanked, VariantRanked, EndsRanked DEF Branching
  <2>8. CASE Callbacks \/ Unwinds
    BY <2>8, OthersRanked
  <2>9. CASE UNCHANGED vars
    BY <2>9 DEF vars, RankInv
  <2> QED BY <2>1, <2>2, <2>3, <2>4, <2>5, <2>6, <2>7, <2>8, <2>9 DEF Next
<1> QED BY <1>1, PlanStays DEF RankInv

\* A plan whose structs can be ranked, which LayoutGraph.cpp checks by looking for
\* a cycle, never makes decode() read a struct inside itself: the structs that
\* are being read fall in rank from the root up, so their number, which bounds
\* the recursion of the C++ code, is bounded by the plan and not by the input.
THEOREM NoStructInItself ==
    ASSUME Layered
    PROVE  Spec => []NoRecursion
<1>1. Init => RankInv
  BY DEF Init, RankInv, RankedStack, Falling, Ranks, Step
<1>2. DecoderInv /\ RankInv /\ [Next]_vars => RankInv'
  BY RankStep
<1>3. DecoderInv /\ RankInv => NoRecursion
  <2> SUFFICES ASSUME DecoderInv, RankInv,
                      NEW i \in DOMAIN frames, NEW j \in DOMAIN frames,
                      frames[i].k = "struct", frames[j].k = "struct",
                      frames[i].name = frames[j].name
               PROVE  i = j
    BY DEF NoRecursion
  <2>1. DOMAIN frames = 1..Len(frames) /\ Len(frames) \in Nat
    BY SeqLen DEF DecoderInv, StackOK
  <2>2. Own(plan, frames[i]) \in Nat /\ Own(plan, frames[i]) = Own(plan, frames[j])
    BY <2>1, RankIs DEF DecoderInv, RankInv, RankedStack, Falling, Own
  <2>3. ~(i > j) /\ ~(j > i)
    BY <2>1, <2>2 DEF RankInv, RankedStack, Falling
  <2> QED BY <2>1, <2>3
<1> QED BY <1>1, <1>2, <1>3, DecoderInvariant, PTL DEF Spec

-----------------------------------------------------------------------------
\* The symbols that lists of operations bind and want.

IsDerivation(p, d) == Derived(p, d.lists, d.bound, d.wanted)
Derivable == \A p \in Plans : \E d : IsDerivation(p, d)

Derivation(p) == CHOOSE d : IsDerivation(p, d)
Lists(p) == Derivation(p).lists
Bound(p, ops) == Derivation(p).bound[ops]
Wants(p, ops) == Derivation(p).wanted[ops]

\* What a frame still needs to be bound, and what it will have bound when the
\* frame below goes on; a struct takes everything back.
Wanting(p, f) ==
    CASE f.k = "struct" -> Wants(p, f.todo) \cup (Required(p, f.name) \ Bound(p, f.todo))
      [] f.k \in {"block", "at", "branch", "case"} -> Wants(p, f.todo)
      [] f.k \in {"array", "until"} -> UsesOfType(f.elem) \ Builtins
      [] OTHER -> {}
Binding(p, f) ==
    CASE f.k \in {"at", "block"} -> Bound(p, f.todo)
      [] f.k = "field" -> {f.field.sym}
      [] f.k = "bits"  -> {f.todo[i].sym : i \in DOMAIN f.todo}
      [] OTHER -> {}
Passed(p, f, names) == IF f.k = "struct" THEN DOMAIN f.env ELSE names \cup Binding(p, f)

FrameDerived(p, f) ==
    /\ f.k \in Bodies => f.todo \in Lists(p)
    /\ f.k = "struct" => f.name \in DOMAIN p.structs /\ Globals(p) \subseteq DOMAIN f.env

\* Every frame finds what it needs when it goes on, if `names` are bound now:
\* `there` is what is sure to be bound then.
Supplied(p, fs, names) ==
    /\ \A i \in 1..Len(fs) : FrameDerived(p, fs[i])
    /\ \E there :
          /\ fs # <<>> => there[Len(fs)] \subseteq names
          /\ \A i \in 1..Len(fs) : Wanting(p, fs[i]) \subseteq there[i]
          /\ \A i \in 1..(Len(fs) - 1) : there[i] \subseteq Passed(p, fs[i + 1], there[i + 1])

\* The values of the decode are those its code needs, unless it is failing.
Settled(p, fs, e, next) ==
    next.is \in {"step", "type", "value"} =>
        /\ Supplied(p, fs, DOMAIN e)
        /\ Globals(p) \subseteq DOMAIN e
        /\ next.is = "type" => UsesOfType(next.type) \ Builtins \subseteq DOMAIN e

ValueInv == status = "running" => Settled(plan, frames, env, ret)

LEMMA DerivationIs ==
    ASSUME Derivable, NEW p \in Plans
    PROVE  Derived(p, Lists(p), Derivation(p).bound, Derivation(p).wanted)
BY DEF Derivable, IsDerivation, Derivation, Lists

LEMMA SupplyMore ==
    ASSUME NEW p, NEW fs, NEW s, Supplied(p, fs, s), NEW t, s \subseteq t
    PROVE  Supplied(p, fs, t)
BY DEF Supplied

LEMMA SupplyNone ==
    ASSUME NEW p, NEW s
    PROVE  Supplied(p, <<>>, s)
BY DEF Supplied

LEMMA SupplyPush ==
    ASSUME NEW p, NEW fs, IsSeq(fs), NEW s, Supplied(p, fs, s),
           NEW f, NEW t, FrameDerived(p, f), Wanting(p, f) \subseteq t,
           s \subseteq Passed(p, f, t)
    PROVE  Supplied(p, Append(fs, f), t)
<1> DEFINE gs == Append(fs, f)
           n == Len(fs)
<1>1. /\ n \in Nat /\ Len(gs) = n + 1 /\ gs[n + 1] = f /\ \A i \in 1..n : gs[i] = fs[i]
      /\ (fs = <<>> <=> n = 0)
  BY AppendSeq, SeqLen
<1>2. PICK there : /\ fs # <<>> => there[n] \subseteq s
                   /\ \A i \in 1..n : Wanting(p, fs[i]) \subseteq there[i]
                   /\ \A i \in 1..(n - 1) : there[i] \subseteq Passed(p, fs[i + 1], there[i + 1])
  BY DEF Supplied
<1> DEFINE now == [i \in 1..(n + 1) |-> IF i <= n THEN there[i] ELSE t]
<1>3. now[n + 1] = t /\ \A i \in 1..n : now[i] = there[i]
  BY <1>1
<1>4. \A i \in 1..(n + 1) : i \in 1..n \/ i = n + 1
  BY <1>1
<1>5. \A i \in 1..n : i = n \/ (i \in 1..(n - 1) /\ i + 1 \in 1..n)
  BY <1>1
<1>6. \A i \in 1..n : FrameDerived(p, fs[i])
  BY DEF Supplied
<1> HIDE DEF now, gs, n
<1>7. \A i \in 1..(n + 1) : FrameDerived(p, gs[i]) /\ Wanting(p, gs[i]) \subseteq now[i]
  BY <1>1, <1>2, <1>3, <1>4, <1>6
<1>8. ASSUME NEW i \in 1..n
      PROVE  now[i] \subseteq Passed(p, gs[i + 1], now[i + 1])
  <2>1. CASE i = n
    <3>1. fs # <<>>
      BY <1>1, <2>1
    <3> QED BY <1>1, <1>2, <1>3, <2>1, <3>1
  <2>2. CASE i \in 1..(n - 1) /\ i + 1 \in 1..n
    BY <1>1, <1>2, <1>3, <2>2
  <2> QED BY <1>5, <2>1, <2>2
<1>9. (n + 1) - 1 = n
  BY <1>1
<1>10. Supplied(p, gs, t)
  BY <1>1, <1>3, <1>7, <1>8, <1>9 DEF Supplied
<1> QED BY <1>10 DEF gs

LEMMA SupplyPop ==
    ASSUME NEW p, NEW fs, IsSeq(fs), fs # <<>>, NEW s, Supplied(p, fs, s)
    PROVE  /\ Supplied(p, Front(fs), Passed(p, Last(fs), s))
           /\ FrameDerived(p, Last(fs)) /\ Wanting(p, Last(fs)) \subseteq s
<1> DEFINE n == Len(fs)
<1>1. /\ n \in Nat \ {0} /\ Len(Front(fs)) = n - 1 /\ fs[n] = Last(fs) /\ IsSeq(Front(fs))
      /\ \A i \in 1..(n - 1) : Front(fs)[i] = fs[i]
  BY FrontSeq
<1>2. PICK there : /\ there[n] \subseteq s
                   /\ \A i \in 1..n : Wanting(p, fs[i]) \subseteq there[i]
                   /\ \A i \in 1..(n - 1) : there[i] \subseteq Passed(p, fs[i + 1], there[i + 1])
  BY DEF Supplied
<1>3. n \in 1..n /\ \A i \in 1..(n - 1) : i \in 1..n
  BY <1>1
<1>4. \A i \in 1..n : FrameDerived(p, fs[i])
  BY DEF Supplied
<1>5. Front(fs) # <<>> => n - 1 \in 1..(n - 1) /\ (n - 1) + 1 = n
  BY <1>1, SeqLen
<1>6. \A i \in 1..(n - 1 - 1) : i \in 1..(n - 1) /\ i + 1 \in 1..(n - 1)
  BY <1>1
<1>7. Front(fs) # <<>> => there[n - 1] \subseteq Passed(p, fs[n], s)
  BY <1>2, <1>5 DEF Passed
<1> HIDE DEF n
<1>8. Supplied(p, Front(fs), Passed(p, Last(fs), s))
  BY <1>1, <1>2, <1>3, <1>4, <1>6, <1>7 DEF Supplied
<1> QED BY <1>1, <1>2, <1>3, <1>4, <1>8

-----------------------------------------------------------------------------
\* What the invariant gives a step.

LEMMA Ready ==
    ASSUME DecoderInv, ValueInv, status = "running", ret.is \in {"step", "type", "value"}
    PROVE  /\ Supplied(plan, frames, DOMAIN env) /\ Globals(plan) \subseteq DOMAIN env
           /\ ret.is = "type" => UsesOfType(ret.type) \ Builtins \subseteq DOMAIN env
           /\ frames # <<>> =>
                 /\ Supplied(plan, Below, Passed(plan, Top, DOMAIN env))
                 /\ FrameDerived(plan, Top) /\ Wanting(plan, Top) \subseteq DOMAIN env
<1>1. IsSeq(frames)
  BY DEF DecoderInv, StackOK
<1>2. Supplied(plan, frames, DOMAIN env) /\ Globals(plan) \subseteq DOMAIN env
      /\ (ret.is = "type" => UsesOfType(ret.type) \ Builtins \subseteq DOMAIN env)
  BY DEF ValueInv, Settled
<1> QED BY <1>1, <1>2, SupplyPop DEF Top, Below

\* An operation's symbols are bound, and its bodies want no others.
LEMMA OpSupplied ==
    ASSUME Derivable, DecoderInv, ValueInv, NEW kind, Doing(kind)
    PROVE  /\ Globals(plan) \subseteq DOMAIN env
           /\ Uses(Op) \ Builtins \subseteq DOMAIN env
           /\ \A type \in TypesOf(Op) : UsesOfType(type) \ Builtins \subseteq DOMAIN env
           /\ \A body \in BodiesOf(Op) : body \in Lists(plan) /\ Wants(plan, body) \subseteq DOMAIN env
<1>1. /\ status = "running" /\ ret.is \in {"step", "type", "value"} /\ frames # <<>>
      /\ Top.k \in Bodies /\ Top.todo # <<>> /\ plan \in Plans
  BY DoingFacts DEF Doing, Step, DecoderInv
<1>2. /\ Top.todo \in Lists(plan) /\ Wants(plan, Top.todo) \subseteq DOMAIN env
      /\ Globals(plan) \subseteq DOMAIN env
  BY <1>1, Ready DEF FrameDerived, Wanting, Bodies
<1>3. /\ BodiesOf(Op) \subseteq Lists(plan)
      /\ (Uses(Op) \cup UNION {UsesOfType(type) : type \in TypesOf(Op)}) \ Builtins
            \subseteq Wants(plan, Top.todo)
      /\ UNION {Wants(plan, body) : body \in BodiesOf(Op)} \subseteq Wants(plan, Top.todo)
  BY <1>1, <1>2, DerivationIs DEF Derived, Op, Wants
<1> HIDE DEF Op
<1> QED BY <1>2, <1>3

\* The operation is done: what it bound and what was bound suffices for the rest.
LEMMA Advanced ==
    ASSUME Derivable, DecoderInv, ValueInv, NEW kind, Doing(kind),
           NEW f, f.k = Top.k, f.todo = Tail(Top.todo),
           f.k = "struct" => f.name = Top.name /\ f.env = Top.env,
           NEW t, DOMAIN env \subseteq t, Binds(Op, Derivation(plan).bound) \subseteq t
    PROVE  Supplied(plan, Replace(f), t)
<1>1. /\ status = "running" /\ ret.is \in {"step", "type", "value"} /\ frames # <<>>
      /\ Top.k \in Bodies /\ Top.todo # <<>> /\ plan \in Plans /\ IsSeq(Below)
  BY DoingFacts, InsideFacts DEF Doing, Step, DecoderInv, StackOK
<1>2. /\ Supplied(plan, Below, Passed(plan, Top, DOMAIN env))
      /\ FrameDerived(plan, Top) /\ Wanting(plan, Top) \subseteq DOMAIN env
      /\ Top.todo \in Lists(plan)
  BY <1>1, Ready DEF FrameDerived
<1> DEFINE next == Tail(Top.todo)
           added == Binds(Op, Derivation(plan).bound)
<1>3. /\ next \in Lists(plan)
      /\ Bound(plan, Top.todo) \subseteq added \cup Bound(plan, next)
      /\ Wants(plan, next) \ added \subseteq Wants(plan, Top.todo)
  BY <1>1, <1>2, DerivationIs DEF Derived, Op, Wants, Bound
<1> HIDE DEF next, added
<1>4. f.todo = next /\ added \subseteq t
  BY DEF next, added
<1>5. Wanting(plan, f) \subseteq t
  BY <1>1, <1>2, <1>3, <1>4 DEF Wanting, Bodies
<1>6. Passed(plan, Top, DOMAIN env) \subseteq Passed(plan, f, t)
  BY <1>1, <1>2, <1>3, <1>4 DEF Passed, Binding, Bodies
<1>7. FrameDerived(plan, f)
  BY <1>1, <1>2, <1>3, <1>4 DEF FrameDerived
<1> QED BY <1>1, <1>2, <1>5, <1>6, <1>7, SupplyPush DEF Replace

\* The step ends an operation without a frame of its own.
LEMMA AdvancesValues ==
    ASSUME Derivable, DecoderInv, ValueInv, NEW kind, Doing(kind), NEW obj,
           frames' = Replace(Rest1) \/ frames' = Replace([Rest1 EXCEPT !.obj = obj]),
           ret' = Step, DOMAIN env \subseteq DOMAIN env',
           Binds(Op, Derivation(plan).bound) \subseteq DOMAIN env'
    PROVE  Settled(plan, frames', env', ret')
<1> DEFINE r == Rest1
           g == [r EXCEPT !.obj = obj]
<1>1. /\ Top.k \in Bodies /\ FrameOK(plan, Top) /\ frames # <<>>
  BY DoingFacts, InsideFacts
<1>2. {"todo", "obj", "k"} \subseteq DOMAIN Top
  BY <1>1 DEF FrameOK, BodyOK
<1>3. r.k = Top.k /\ r.todo = Tail(Top.todo) /\ r.name = Top.name /\ r.env = Top.env
      /\ DOMAIN r = DOMAIN Top
  BY <1>2 DEF Rest1
<1>4. g.k = r.k /\ g.todo = r.todo /\ g.name = r.name /\ g.env = r.env
  BY <1>2, <1>3
<1> HIDE DEF g, r
<1>5. Supplied(plan, Replace(r), DOMAIN env') /\ Supplied(plan, Replace(g), DOMAIN env')
  BY <1>3, <1>4, Advanced
<1>6. Supplied(plan, frames', DOMAIN env')
  BY <1>5 DEF g, r
<1>7. Globals(plan) \subseteq DOMAIN env'
  BY OpSupplied
<1> QED BY <1>6, <1>7 DEF Settled, Step

\* The step begins an operation in frame f.
LEMMA BeginsValues ==
    ASSUME Derivable, DecoderInv, ValueInv, NEW kind, Doing(kind), NEW f,
           frames' = Append(Replace(Rest1), f), env' = env,
           f.k # "struct", f.k \in Bodies => f.todo \in Lists(plan),
           Binds(Op, Derivation(plan).bound) \subseteq Binding(plan, f),
           Wanting(plan, f) \subseteq DOMAIN env,
           ret' = Step \/ (\E type \in TypesOf(Op) : ret' = CallType(type))
    PROVE  Settled(plan, frames', env', ret')
<1> DEFINE r == Rest1
           t == Passed(plan, f, DOMAIN env)
<1>1. /\ Top.k \in Bodies /\ FrameOK(plan, Top) /\ frames # <<>>
      /\ IsSeq(Replace(Rest1))
  BY DoingFacts, InsideFacts, Done DEF StackOK
<1>2. {"todo", "obj", "k"} \subseteq DOMAIN Top
  BY <1>1 DEF FrameOK, BodyOK
<1>3. r.k = Top.k /\ r.todo = Tail(Top.todo) /\ r.name = Top.name /\ r.env = Top.env
  BY <1>2 DEF Rest1
<1>4. DOMAIN env \subseteq t /\ Binds(Op, Derivation(plan).bound) \subseteq t
  BY DEF Passed
<1> HIDE DEF t
<1>5. Supplied(plan, Replace(r), t)
  <2> HIDE DEF r
  <2> QED BY <1>3, <1>4, Advanced
<1>6. FrameDerived(plan, f)
  BY DEF FrameDerived
<1>7. Supplied(plan, Append(Replace(r), f), DOMAIN env)
  <2> DEFINE fs == Replace(r)
  <2>1. IsSeq(fs) /\ Supplied(plan, fs, t) /\ t \subseteq Passed(plan, f, DOMAIN env)
    BY <1>1, <1>5 DEF t
  <2> HIDE DEF fs
  <2>2. Supplied(plan, Append(fs, f), DOMAIN env)
    BY <1>6, <2>1, SupplyPush
  <2> QED BY <2>2 DEF fs
<1>8. /\ Globals(plan) \subseteq DOMAIN env
      /\ \A type \in TypesOf(Op) : UsesOfType(type) \ Builtins \subseteq DOMAIN env
  BY OpSupplied
<1>9. ret'.is = "type" => UsesOfType(ret'.type) \ Builtins \subseteq DOMAIN env
  BY <1>8 DEF Step, CallType
<1> QED BY <1>7, <1>8, <1>9 DEF Settled

\* The step fails, and nothing is evaluated any more.
LEMMA FailingSettled ==
    ASSUME NEW p, NEW fs, NEW e, NEW next, next \in {False, Throw}
    PROVE  Settled(p, fs, e, next)
BY DEF Settled, False, Throw

\* The top frame ends, and the one below goes on or returns a value.
LEMMA PopsValues ==
    ASSUME DecoderInv, ValueInv, Running, ret.is \in {"step", "type", "value"},
           frames' = Below, ret'.is # "type",
           Passed(plan, Top, DOMAIN env) \subseteq DOMAIN env', Globals(plan) \subseteq DOMAIN env'
    PROVE  Settled(plan, frames', env', ret')
<1>1. Supplied(plan, Below, Passed(plan, Top, DOMAIN env))
  BY Ready DEF Running
<1>2. Supplied(plan, frames', DOMAIN env')
  BY <1>1, SupplyMore
<1> QED BY <1>2 DEF Settled

\* The top frame ends and hands its members to the body below.
LEMMA HandsDown ==
    ASSUME DecoderInv, ValueInv, Running, ret.is \in {"step", "type", "value"},
           Top.k \notin Enclosed, NEW obj, NEW t, Passed(plan, Top, DOMAIN env) \subseteq t
    PROVE  /\ Supplied(plan, Popped([Last(Below) EXCEPT !.obj = obj]), t)
           /\ IsSeq(Popped([Last(Below) EXCEPT !.obj = obj]))
<1> DEFINE under == Last(Below)
           g == [under EXCEPT !.obj = obj]
           s == Passed(plan, Top, DOMAIN env)
<1>1. /\ Supplied(plan, Below, s) /\ IsSeq(Below) /\ Below # <<>> /\ frames # <<>>
      /\ under.k \in Bodies /\ FrameOK(plan, under)
  BY Ready, BelowBody DEF Running, StackOK
<1>2. g.k = under.k /\ g.todo = under.todo /\ g.name = under.name /\ g.env = under.env
  BY <1>1 DEF FrameOK, BodyOK
<1> HIDE DEF s
<1>3. /\ Supplied(plan, Front(Below), Passed(plan, under, s))
      /\ FrameDerived(plan, under) /\ Wanting(plan, under) \subseteq s
      /\ IsSeq(Front(Below))
  BY <1>1, SupplyPop, FrontSeq
<1> HIDE DEF g, under
<1>4. FrameDerived(plan, g) /\ Wanting(plan, g) = Wanting(plan, under)
  BY <1>1, <1>2, <1>3 DEF FrameDerived, Wanting, Bodies
<1>5. Passed(plan, under, s) \subseteq Passed(plan, g, t)
  BY <1>1, <1>2 DEF Passed, Binding, Bodies, s
<1>6. Wanting(plan, g) \subseteq t
  BY <1>3, <1>4 DEF s
<1>7. Supplied(plan, Append(Front(Below), g), t) /\ IsSeq(Append(Front(Below), g))
  BY <1>3, <1>4, <1>5, <1>6, SupplyPush, AppendSeq
<1> QED BY <1>7 DEF Popped, g, under

LEMMA HandsValues ==
    ASSUME DecoderInv, ValueInv, Running, ret.is \in {"step", "type", "value"},
           Top.k \notin Enclosed, NEW obj, frames' = Popped([Last(Below) EXCEPT !.obj = obj]),
           ret' = Step, DOMAIN env \subseteq DOMAIN env', Binding(plan, Top) \subseteq DOMAIN env'
    PROVE  Settled(plan, frames', env', ret')
<1>1. Passed(plan, Top, DOMAIN env) \subseteq DOMAIN env'
  BY DEF Passed, Enclosed
<1>2. Supplied(plan, frames', DOMAIN env')
  BY <1>1, HandsDown
<1>3. Globals(plan) \subseteq DOMAIN env'
  BY Ready DEF Running
<1> QED BY <1>2, <1>3 DEF Settled, Step

\* A frame is pushed for a call.
LEMMA PushesValues ==
    ASSUME DecoderInv, ValueInv, Calling, NEW f, frames' = Append(frames, f), ret' = Step,
           FrameDerived(plan, f), Wanting(plan, f) \subseteq DOMAIN env',
           DOMAIN env \subseteq DOMAIN env',
           f.k = "struct" => f.env = env
    PROVE  Settled(plan, frames', env', ret')
<1>1. /\ Supplied(plan, frames, DOMAIN env) /\ Globals(plan) \subseteq DOMAIN env
      /\ IsSeq(frames)
  BY Ready DEF Calling, DecoderInv, StackOK
<1>2. DOMAIN env \subseteq Passed(plan, f, DOMAIN env')
  BY DEF Passed
<1>3. Supplied(plan, frames', DOMAIN env')
  BY <1>1, <1>2, SupplyPush
<1> QED BY <1>1, <1>3 DEF Settled, Step

\* The step changes no frame but, on top, a loop's count or values.
LEMMA StaysValues ==
    ASSUME DecoderInv, ValueInv, status = "running", ret.is \in {"step", "type", "value"},
           frames' = frames, env' = env,
           ret'.is = "type" => UsesOfType(ret'.type) \ Builtins \subseteq DOMAIN env
    PROVE  Settled(plan, frames', env', ret')
BY Ready DEF Settled

LEMMA LoopValues ==
    ASSUME DecoderInv, ValueInv, Running, ret.is \in {"step", "type", "value"},
           Top.k \in {"array", "until"},
           NEW f, f.k = Top.k, f.elem = Top.elem, frames' = Replace(f), env' = env, ret' = Step
    PROVE  Settled(plan, frames', env', ret')
<1>1. /\ Supplied(plan, Below, Passed(plan, Top, DOMAIN env)) /\ IsSeq(Below)
      /\ FrameDerived(plan, Top) /\ Wanting(plan, Top) \subseteq DOMAIN env
      /\ Globals(plan) \subseteq DOMAIN env
  BY Ready, InsideFacts DEF Running, StackOK
<1>2. FrameDerived(plan, f) /\ Wanting(plan, f) = Wanting(plan, Top)
      /\ Passed(plan, f, DOMAIN env) = Passed(plan, Top, DOMAIN env)
  BY <1>1 DEF FrameDerived, Wanting, Passed, Binding, Bodies
<1>3. Supplied(plan, Append(Below, f), DOMAIN env)
  BY <1>1, <1>2, SupplyPush
<1> QED BY <1>1, <1>3 DEF Settled, Step, Replace

-----------------------------------------------------------------------------
\* Step by step.

\* A struct wants constants and parameters only, which every environment has.
LEMMA StructValues ==
    ASSUME Derivable, DecoderInv, ValueInv, TypeStruct
    PROVE  Settled(plan, frames', env', ret')
<1> DEFINE name == ret.type.ref
           f == StructFrame(name)
           body == plan.structs[name].body
<1>1. /\ Calling /\ ret.is = "type" /\ status = "running" /\ plan \in Plans
      /\ name \in DOMAIN plan.structs
  BY CallingFacts DEF TypeStruct, Calling, ExecutableType
<1>2. \/ ret' = False
      \/ /\ frames' = Append(frames, f) /\ ret' = Step
         /\ env' = Merge(env, SizeProperties(plan.structs[name]))
  BY DEF TypeStruct, Goes, Fails, Push
<1>3. f.k = "struct" /\ f.name = name /\ f.todo = body /\ f.env = env
  BY DEF StructFrame
<1>4. /\ body \in Lists(plan) /\ Wants(plan, body) \subseteq Globals(plan)
      /\ Required(plan, name) \subseteq Globals(plan) \cup Bound(plan, body)
  BY <1>1, DerivationIs DEF Derived, Wants, Bound
<1> HIDE DEF f, body, name
<1>5. CASE ret' = False
  BY <1>5, FailingSettled
<1>6. CASE /\ frames' = Append(frames, f) /\ ret' = Step
           /\ env' = Merge(env, SizeProperties(plan.structs[name]))
  <2>1. DOMAIN env \subseteq DOMAIN env'
    BY <1>6 DEF Merge
  <2>2. Globals(plan) \subseteq DOMAIN env
    BY <1>1, Ready
  <2>3. FrameDerived(plan, f)
    BY <1>1, <1>3, <1>4, <2>2 DEF FrameDerived
  <2>4. Wanting(plan, f) \subseteq DOMAIN env'
    BY <1>3, <1>4, <2>1, <2>2 DEF Wanting
  <2> QED BY <1>1, <1>3, <1>6, <2>1, <2>3, <2>4, PushesValues
<1> QED BY <1>2, <1>5, <1>6

\* A struct that ends puts back the environment it was called with.
LEMMA StructEndValues ==
    ASSUME DecoderInv, ValueInv, EndStruct
    PROVE  Settled(plan, frames', env', ret')
<1>1. /\ Running /\ ret = Step /\ Top.k = "struct" /\ frames # <<>> /\ status = "running"
      /\ ret.is \in {"step", "type", "value"}
  BY DEF EndStruct, Ending, Running, Step
<1>2. \/ ret' = False
      \/ env' = Top.env /\ frames' = Below /\ ret'.is # "type"
  BY DEF EndStruct, Goes, Fails, Return
<1>3. CASE ret' = False
  BY <1>3, FailingSettled
<1>4. CASE env' = Top.env /\ frames' = Below /\ ret'.is # "type"
  <2>1. Globals(plan) \subseteq DOMAIN Top.env
    BY <1>1, Ready DEF FrameDerived
  <2>2. Passed(plan, Top, DOMAIN env) \subseteq DOMAIN env'
    BY <1>1, <1>4 DEF Passed
  <2> QED BY <1>1, <1>4, <2>1, <2>2, PopsValues
<1> QED BY <1>2, <1>3, <1>4

LEMMA ScalarValues ==
    ASSUME DecoderInv, ValueInv, TypeScalar \/ TypeBytes \/ TypeUntilBytes
    PROVE  Settled(plan, frames', env', ret')
<1>1. Calling
  BY DEF TypeScalar, TypeBytes, TypeUntilBytes
<1>2. \/ ret' \in {False, Throw}
      \/ frames' = frames /\ env' = env /\ ret'.is # "type"
  <2>1. CASE TypeScalar
    BY <2>1 DEF TypeScalar, Goes, Fails, Return
  <2>2. CASE TypeBytes
    BY <2>2 DEF TypeBytes, Goes, Fails, Return
  <2>3. CASE TypeUntilBytes
    BY <2>3 DEF TypeUntilBytes, Goes, Fails, Throws, Return
  <2> QED BY <2>1, <2>2, <2>3
<1> QED BY <1>1, <1>2, FailingSettled, StaysValues DEF Calling

\* The elements of a list want no more than the list.
LEMMA LoopBeginValues ==
    ASSUME DecoderInv, ValueInv, TypeArray \/ TypeUntil
    PROVE  Settled(plan, frames', env', ret')
<1> DEFINE dims == ret.type.dims
           inner == Tail(dims)
           d == [ret.type EXCEPT !.dims = inner]
           c == [ret.type EXCEPT !.dims = <<>>]
           u == [c EXCEPT !.term = <<>>, !.max = 0]
           array == [k |-> "array", elem |-> d, left |-> Extents(ret.type.dims)[1], vals |-> <<>>]
           until == [k |-> "until", elem |-> u, term |-> ret.type.term, max |-> ret.type.max,
                     saved |-> rd, vals |-> <<>>]
<1>1. Calling /\ ret.is = "type" /\ status = "running" /\ ExecutableType(plan, ret.type)
  BY CallingFacts DEF TypeArray, TypeUntil, Calling
<1>2. \/ ret' = False
      \/ frames' = Append(frames, array) /\ ret' = Step /\ env' = env /\ dims # <<>>
      \/ frames' = Append(frames, until) /\ ret' = Step /\ env' = env
  BY DEF TypeArray, TypeUntil, Push, Goes, Fails, Until, Dims
<1>3. d.dims = inner /\ u.dims = <<>>
  BY <1>1 DEF ExecutableType
<1>4. dims # <<>> => Range(inner) \subseteq Range(dims)
  <2>1. IsSeq(dims)
    BY <1>1 DEF ExecutableType, IsSeq
  <2> HIDE DEF dims
  <2> QED BY <2>1, TailSeq DEF inner
<1>5. Range(u.dims) = {}
  BY <1>3 DEF Range
<1>6. array.k = "array" /\ until.k = "until" /\ array.elem = d /\ until.elem = u
  OBVIOUS
<1>7. UsesOfType(ret.type) \ Builtins \subseteq DOMAIN env
  BY <1>1, Ready
<1> HIDE DEF d, u, inner, array, until
<1>8. UsesOfType(u) = {} /\ (dims # <<>> => UsesOfType(d) \subseteq UsesOfType(ret.type))
  BY <1>3, <1>4, <1>5 DEF UsesOfType
<1>9. /\ Wanting(plan, until) \subseteq DOMAIN env
      /\ dims # <<>> => Wanting(plan, array) \subseteq DOMAIN env
  BY <1>6, <1>7, <1>8 DEF Wanting
<1>10. FrameDerived(plan, array) /\ FrameDerived(plan, until)
  BY <1>6 DEF FrameDerived, Bodies
<1>11. CASE frames' = Append(frames, array) /\ ret' = Step /\ env' = env /\ dims # <<>>
  BY <1>1, <1>6, <1>9, <1>10, <1>11, PushesValues
<1>12. CASE frames' = Append(frames, until) /\ ret' = Step /\ env' = env
  BY <1>1, <1>6, <1>9, <1>10, <1>12, PushesValues
<1> QED BY <1>2, <1>11, <1>12, FailingSettled

LEMMA LoopTurnValues ==
    ASSUME DecoderInv, ValueInv, ArrayStep \/ UntilStep
    PROVE  Settled(plan, frames', env', ret')
<1>1. /\ Running /\ ret = Step /\ Top.k \in {"array", "until"} /\ frames # <<>>
      /\ status = "running" /\ ret.is \in {"step", "type", "value"}
  BY DEF ArrayStep, UntilStep, Running, Step
<1>2. \/ ret' \in {False, Throw}
      \/ frames' = Below /\ env' = env /\ ret'.is # "type"
      \/ frames' = frames /\ env' = env /\ ret' = CallType(Top.elem)
  <2>1. CASE ArrayStep
    BY <2>1 DEF ArrayStep, Goes, Return
  <2>2. CASE UntilStep
    BY <2>2 DEF UntilStep, Goes, Throws, Fails, Undo, Return
  <2> QED BY <2>1, <2>2
<1>3. Wanting(plan, Top) \subseteq DOMAIN env /\ Globals(plan) \subseteq DOMAIN env
  BY <1>1, Ready
<1>4. CASE frames' = Below /\ env' = env /\ ret'.is # "type"
  <2>1. Passed(plan, Top, DOMAIN env) \subseteq DOMAIN env'
    BY <1>1, <1>4 DEF Passed, Binding
  <2> QED BY <1>1, <1>3, <1>4, <2>1, PopsValues
<1>5. CASE frames' = frames /\ env' = env /\ ret' = CallType(Top.elem)
  <2>1. UsesOfType(ret'.type) \ Builtins \subseteq DOMAIN env
    BY <1>1, <1>3, <1>5 DEF Wanting, CallType
  <2> QED BY <1>1, <1>5, <2>1, StaysValues
<1> QED BY <1>2, <1>4, <1>5, FailingSettled

LEMMA LoopTakeValues ==
    ASSUME DecoderInv, ValueInv, ArrayValue \/ UntilValue
    PROVE  Settled(plan, frames', env', ret')
<1> DEFINE kept == [Top EXCEPT !.vals = Keep(@, ret.value)]
           counted == [Top EXCEPT !.left = @ - 1, !.vals = Keep(@, ret.value)]
<1>1. /\ Running /\ Top.k \in {"array", "until"} /\ frames # <<>>
      /\ status = "running" /\ ret.is \in {"step", "type", "value"}
  BY DEF ArrayValue, UntilValue, Getting, Running
<1>2. \/ ret' \in {False, Throw}
      \/ (frames' = Replace(kept) \/ frames' = Replace(counted)) /\ env' = env /\ ret' = Step
  <2>1. CASE ArrayValue
    BY <2>1 DEF ArrayValue, Goes
  <2>2. CASE UntilValue
    BY <2>2 DEF UntilValue, Goes, Throws, Fails, Undo
  <2> QED BY <2>1, <2>2
<1>3. kept.k = Top.k /\ kept.elem = Top.elem /\ counted.k = Top.k /\ counted.elem = Top.elem
  BY <1>1
<1> HIDE DEF kept, counted
<1> QED BY <1>1, <1>2, <1>3, LoopValues, FailingSettled

\* An operation that is over at once binds its symbol, if it has one.
LEMMA DoneValues ==
    ASSUME Derivable, DecoderInv, ValueInv, DoVirtual \/ DoAlias \/ DoAlign \/ Callbacks
    PROVE  Settled(plan, frames', env', ret')
<1>1. CASE DoVirtual \/ DoAlias
  <2> DEFINE stored(v) == [Rest1 EXCEPT !.obj = Put(Rest1.obj, Op.sym, v)]
  <2>1. PICK kind \in {"virtual", "alias"} : Doing(kind)
    BY <1>1 DEF DoVirtual, DoAlias
  <2>2. Op.op \in {"virtual", "alias"} /\ {"obj"} \subseteq DOMAIN Rest1
    BY <2>1, DoingFacts, InsideFacts DEF FrameOK, BodyOK, Rest1
  <2>3. Binds(Op, Derivation(plan).bound) = {Op.sym}
    BY <2>2 DEF Binds
  <2>4. \/ ret' = False
        \/ \E v, n : frames' = Replace(stored(v)) /\ ret' = Step /\ env' = Put(env, Op.sym, n)
    BY <1>1, <2>2 DEF DoVirtual, DoAlias, Goes, Fails, Stored
  <2>5. \A n : DOMAIN Put(env, Op.sym, n) = DOMAIN env \cup {Op.sym}
    BY DEF Put
  <2>6. ASSUME NEW v, NEW n, frames' = Replace(stored(v)), ret' = Step,
               env' = Put(env, Op.sym, n)
        PROVE  Settled(plan, frames', env', ret')
    <3>1. DOMAIN env \subseteq DOMAIN env' /\ Binds(Op, Derivation(plan).bound) \subseteq DOMAIN env'
      BY <2>3, <2>5, <2>6
    <3> QED BY <2>1, <2>6, <3>1, AdvancesValues
  <2> QED BY <2>4, <2>6, FailingSettled
<1>2. CASE DoAlign \/ Callbacks
  <2>1. PICK kind \in {"align", "callback"} : Doing(kind)
    BY <1>2 DEF DoAlign, Callbacks, CallbackRefused, CallbackSucceeds, CallbackFails,
                CallbackEscapes
  <2>2. Op.op \in {"align", "callback"}
    BY <2>1, DoingFacts
  <2>3. Binds(Op, Derivation(plan).bound) = {}
    BY <2>2 DEF Binds
  <2>4. ret' = False \/ (frames' = Replace(Rest1) /\ ret' = Step /\ env' = env)
    BY <1>2 DEF DoAlign, Callbacks, CallbackRefused, CallbackSucceeds, CallbackFails,
                CallbackEscapes, Goes, Fails, Caught
  <2>5. CASE frames' = Replace(Rest1) /\ ret' = Step /\ env' = env
    <3> HIDE DEF Replace
    <3> QED BY <2>1, <2>3, <2>5, AdvancesValues
  <2> QED BY <2>4, <2>5, FailingSettled
<1> QED BY <1>1, <1>2

LEMMA FieldBeginValues ==
    ASSUME Derivable, DecoderInv, ValueInv, BeginField
    PROVE  Settled(plan, frames', env', ret')
<1> DEFINE f == [k |-> "field", field |-> Op]
<1>1. /\ Doing("field") /\ Op.op = "field" /\ frames' = Append(Replace(Rest1), f)
      /\ env' = env /\ ret' = CallType(Op.type)
  BY DoingFacts DEF BeginField, Goes
<1>2. f.k = "field" /\ f.field = Op
  OBVIOUS
<1> HIDE DEF f, Replace
<1>3. Binds(Op, Derivation(plan).bound) \subseteq Binding(plan, f) /\ Wanting(plan, f) = {}
  BY <1>1, <1>2 DEF Binds, Binding, Wanting
<1>4. Op.type \in TypesOf(Op)
  BY <1>1 DEF TypesOf
<1>5. f.k # "struct" /\ f.k \notin Bodies
  BY <1>2 DEF Bodies
<1> QED BY <1>1, <1>3, <1>4, <1>5, BeginsValues

LEMMA GroupBeginValues ==
    ASSUME Derivable, DecoderInv, ValueInv, BeginGroup
    PROVE  Settled(plan, frames', env', ret')
<1> DEFINE f == [k |-> "bits", todo |-> Op.fields, order |-> Op.fields[1].endian]
<1>1. Doing("bits") /\ Op.op = "bits"
  BY DoingFacts DEF BeginGroup
<1>2. \/ ret' = False
      \/ frames' = Append(Replace(Rest1), f) /\ env' = env /\ ret' = Step
  BY DEF BeginGroup, Goes, Caught
<1>3. f.k = "bits" /\ f.todo = Op.fields
  OBVIOUS
<1> HIDE DEF f, Replace
<1>4. Binds(Op, Derivation(plan).bound) \subseteq Binding(plan, f) /\ Wanting(plan, f) = {}
  BY <1>1, <1>3 DEF Binds, Binding, Wanting
<1>5. f.k # "struct" /\ f.k \notin Bodies
  BY <1>3 DEF Bodies
<1>6. CASE frames' = Append(Replace(Rest1), f) /\ env' = env /\ ret' = Step
  BY <1>1, <1>4, <1>5, <1>6, BeginsValues
<1> QED BY <1>2, <1>6, FailingSettled

\* A body of an operation runs in a frame of its own.
LEMMA BodyValues ==
    ASSUME Derivable, DecoderInv, ValueInv, NEW kind, Doing(kind),
           NEW f, f.k \in {"at", "block", "branch", "case"}, f.todo \in BodiesOf(Op),
           Op.op \in {"at", "block"} => f.k = Op.op,
           Op.op \in {"at", "block", "if", "variant"},
           frames' = Append(Replace(Rest1), f), env' = env, ret' = Step
    PROVE  Settled(plan, frames', env', ret')
<1>1. f.todo \in Lists(plan) /\ Wants(plan, f.todo) \subseteq DOMAIN env
  BY OpSupplied
<1>2. f.k # "struct" /\ Wanting(plan, f) \subseteq DOMAIN env
  BY <1>1 DEF Wanting
<1>3. Op.op \in {"at", "block"} => f.todo = Op.body
  BY DEF BodiesOf
<1> HIDE DEF Op, Replace
<1>4. Binds(Op, Derivation(plan).bound) \subseteq Binding(plan, f)
  BY <1>3 DEF Binds, Binding, Bound
<1> QED BY <1>1, <1>2, <1>4, BeginsValues

LEMMA PlaceBeginValues ==
    ASSUME Derivable, DecoderInv, ValueInv, BeginAt \/ BeginBlock \/ BeginIf
    PROVE  Settled(plan, frames', env', ret')
<1> DEFINE at == [k |-> "at", todo |-> Op.body, obj |-> NoMembers, back |-> rd.pos]
           block(n) == [k |-> "block", todo |-> Op.body, obj |-> NoMembers, start |-> rd.pos,
                        end |-> n]
           branch(ops) == Body("branch", ops)
<1>1. CASE BeginAt
  <2>1. Doing("at") /\ Op.op = "at"
    BY <1>1, DoingFacts DEF BeginAt
  <2>2. \/ ret' = False
        \/ frames' = Append(Replace(Rest1), at) /\ env' = env /\ ret' = Step
    BY <1>1 DEF BeginAt, Goes, Fails, Caught
  <2>3. at.k = "at" /\ at.todo \in BodiesOf(Op)
    BY <2>1 DEF BodiesOf
  <2> HIDE DEF at
  <2> QED BY <2>1, <2>2, <2>3, BodyValues, FailingSettled
<1>2. CASE BeginBlock
  <2>1. Doing("block") /\ Op.op = "block"
    BY <1>2, DoingFacts DEF BeginBlock
  <2>2. \/ ret' = False
        \/ \E n : frames' = Append(Replace(Rest1), block(n)) /\ env' = env /\ ret' = Step
    BY <1>2 DEF BeginBlock, Goes, Fails
  <2>3. \A n : block(n).k = "block" /\ block(n).todo \in BodiesOf(Op)
    BY <2>1 DEF BodiesOf
  <2> HIDE DEF block
  <2> QED BY <2>1, <2>2, <2>3, BodyValues, FailingSettled
<1>3. CASE BeginIf
  <2>1. Doing("if") /\ Op.op = "if"
    BY <1>3, DoingFacts DEF BeginIf
  <2>2. \/ ret' = False
        \/ \E ops \in {Op.then, Op.else} :
               frames' = Append(Replace(Rest1), branch(ops)) /\ env' = env /\ ret' = Step
    BY <1>3 DEF BeginIf, Goes, Fails
  <2>3. \A ops : branch(ops).k = "branch" /\ branch(ops).todo = ops
    BY DEF Body
  <2>4. {Op.then, Op.else} = BodiesOf(Op)
    BY <2>1 DEF BodiesOf
  <2> HIDE DEF branch
  <2> QED BY <2>1, <2>2, <2>3, <2>4, BodyValues, FailingSettled
<1> QED BY <1>1, <1>2, <1>3

LEMMA VariantValues ==
    ASSUME Derivable, DecoderInv, ValueInv, BeginVariant
    PROVE  Settled(plan, frames', env', ret')
<1> DEFINE tag == Eval(Op.tag, env)
           matching == {i \in DOMAIN Op.cases : Op.cases[i].tag = tag}
           chosen == IF matching = {} THEN Op.default ELSE <<Op.cases[Min(matching)]>>
           c == Head(chosen)
           typed == [k |-> "typed", name |-> Op.sym]
           body == [k |-> "case", todo |-> c.body, obj |-> NoMembers, name |-> Op.sym]
<1>1. Doing("variant") /\ Op.op = "variant" /\ ExecutableOp(plan, AllOps(plan), Op)
  BY DoingFacts DEF BeginVariant
<1>2. \/ ret' = False
      \/ /\ chosen # <<>> /\ c.typed /\ env' = env
         /\ frames' = Append(Replace(Rest1), typed) /\ ret' = CallType(c.type)
      \/ /\ chosen # <<>> /\ ~c.typed /\ env' = env
         /\ frames' = Append(Replace(Rest1), body) /\ ret' = Step
  BY DEF BeginVariant, Goes, Fails
<1>3. chosen # <<>> => c \in CasesOf(Op)
  BY <1>1, CaseOfVariant DEF CasesOf
<1>4. typed.k = "typed" /\ body.k = "case" /\ body.todo = c.body
  OBVIOUS
<1> HIDE DEF chosen, typed, body, c
<1>5. CASE /\ chosen # <<>> /\ c.typed /\ env' = env
           /\ frames' = Append(Replace(Rest1), typed) /\ ret' = CallType(c.type)
  <2>1. c.type \in TypesOf(Op)
    BY <1>1, <1>3, <1>5 DEF TypesOf
  <2>2. Binds(Op, Derivation(plan).bound) \subseteq Binding(plan, typed)
    BY <1>1 DEF Binds
  <2>3. Wanting(plan, typed) = {} /\ typed.k # "struct" /\ typed.k \notin Bodies
    BY <1>4 DEF Wanting, Bodies
  <2> HIDE DEF Replace
  <2> QED BY <1>1, <1>5, <2>1, <2>2, <2>3, BeginsValues
<1>6. CASE /\ chosen # <<>> /\ ~c.typed /\ env' = env
           /\ frames' = Append(Replace(Rest1), body) /\ ret' = Step
  <2>1. body.todo \in BodiesOf(Op)
    BY <1>1, <1>3, <1>4, <1>6 DEF BodiesOf
  <2> QED BY <1>1, <1>4, <1>6, <2>1, BodyValues
<1> QED BY <1>2, <1>5, <1>6, FailingSettled

\* A field's symbol is bound when its value is there; a place that ends has
\* bound all that its operations bind; a branch and a case bind nothing.
LEMMA EndValues ==
    ASSUME Derivable, DecoderInv, ValueInv,
           FieldValue \/ EndAt \/ EndBlock \/ EndBranch \/ EndCase \/ TypedValue
    PROVE  Settled(plan, frames', env', ret')
<1> DEFINE g(obj) == [Last(Below) EXCEPT !.obj = obj]
<1>1. /\ Running /\ frames # <<>> /\ ret.is \in {"step", "type", "value"} /\ Top.k \notin Enclosed
      /\ plan \in Plans /\ status = "running"
  BY DEF FieldValue, EndAt, EndBlock, EndBranch, EndCase, TypedValue, Ending, Getting, Running,
         Enclosed, Step, DecoderInv
<1>2. \/ ret' = False
      \/ /\ (\E obj : frames' = Popped(g(obj))) /\ ret' = Step
         /\ DOMAIN env \subseteq DOMAIN env' /\ Binding(plan, Top) \subseteq DOMAIN env'
  <2>1. CASE FieldValue
    <3>1. \/ ret' = False
          \/ /\ \E obj : frames' = Popped(g(obj)) /\ ret' = Step
             /\ env' = Put(env, Top.field.sym, Runtime(ret.value))
      BY <2>1 DEF FieldValue, Goes, Fails, StoredBelow, Stored
    <3>2. Binding(plan, Top) = {Top.field.sym}
      BY <2>1 DEF FieldValue, Getting, Binding
    <3> QED BY <3>1, <3>2 DEF Put
  <2>2. CASE EndAt \/ EndBlock
    <3>1. Top.k \in {"at", "block"} /\ Top.todo = <<>>
      BY <2>2 DEF EndAt, EndBlock, Ending
    <3>2. <<>> \in Lists(plan) => Bound(plan, <<>>) = {}
      BY <1>1, DerivationIs DEF Derived, Bound
    <3>3. Binding(plan, Top) = {}
      BY <1>1, <3>1, <3>2, Ready DEF FrameDerived, Binding, Bodies
    <3>4. \/ ret' = False
          \/ (\E obj : frames' = Popped(g(obj))) /\ ret' = Step /\ env' = env
      BY <2>2 DEF EndAt, EndBlock, Goes, Fails, Caught, MergedBelow
    <3> QED BY <3>3, <3>4
  <2>3. CASE EndBranch \/ EndCase \/ TypedValue
    <3>1. Binding(plan, Top) = {}
      BY <2>3 DEF EndBranch, EndCase, TypedValue, Ending, Getting, Binding
    <3>2. (\E obj : frames' = Popped(g(obj))) /\ ret' = Step /\ env' = env
      BY <2>3 DEF EndBranch, EndCase, TypedValue, Goes, MergedBelow, StoredBelow, Stored
    <3> QED BY <3>1, <3>2
  <2> QED BY <2>1, <2>2, <2>3
<1> QED BY <1>1, <1>2, HandsValues, FailingSettled

\* The fields of a group bind their symbols one by one.
LEMMA GroupFieldValues ==
    ASSUME DecoderInv, ValueInv, GroupField
    PROVE  Settled(plan, frames', env', ret')
<1> DEFINE field == Head(Top.todo)
           f == [Top EXCEPT !.todo = Tail(@)]
           g(obj) == [Last(Below) EXCEPT !.obj = obj]
<1>1. /\ Running /\ frames # <<>> /\ ret.is \in {"step", "type", "value"} /\ Top.k = "bits"
      /\ Top.k \notin Enclosed /\ Top.todo # <<>> /\ FrameOK(plan, Top) /\ status = "running"
  BY InsideFacts DEF GroupField, Running, Enclosed, Step
<1>2. \/ ret' = False
      \/ \E obj, v : /\ frames' = Append(Popped(g(obj)), f) /\ ret' = Step
                     /\ env' = Put(env, field.sym, v)
  BY DEF GroupField, Goes, Fails, Caught, StoredBelow, Stored
<1>3. IsSeq(Top.todo) /\ f.k = "bits" /\ f.todo = Tail(Top.todo)
  BY <1>1 DEF FrameOK, GroupOK, IsSeq
<1>4. Binding(plan, Top) \subseteq Binding(plan, f) \cup {field.sym}
  <2> DEFINE todo == Top.todo
  <2>1. /\ Len(todo) \in Nat \ {0} /\ DOMAIN todo = 1..Len(todo)
        /\ Len(Tail(todo)) = Len(todo) - 1 /\ DOMAIN Tail(todo) = 1..(Len(todo) - 1)
        /\ \A i \in 1..(Len(todo) - 1) : Tail(todo)[i] = todo[i + 1]
        /\ field = todo[1]
    <3>1. IsSeq(todo) /\ todo # <<>>
      BY <1>1, <1>3
    <3> HIDE DEF todo
    <3>2. Len(todo) \in Nat \ {0} /\ DOMAIN todo = 1..Len(todo)
      BY <3>1, SeqLen
    <3>3. /\ Len(Tail(todo)) = Len(todo) - 1
          /\ \A i \in 1..Len(Tail(todo)) : Tail(todo)[i] = todo[i + 1]
      BY <3>1, HeadTailProperties DEF IsSeq
    <3>4. IsSeq(Tail(todo))
      BY <3>1, TailSeq
    <3>5. DOMAIN Tail(todo) = 1..(Len(todo) - 1)
      BY <3>3, <3>4, SeqLen
    <3>6. Head(todo) = todo[1]
      BY DEF Head
    <3> QED BY <3>2, <3>3, <3>5, <3>6 DEF todo
  <2>2. ASSUME NEW i \in DOMAIN todo, i # 1
        PROVE  i - 1 \in DOMAIN Tail(todo) /\ Tail(todo)[i - 1] = todo[i]
    <3>1. i - 1 \in 1..(Len(todo) - 1) /\ (i - 1) + 1 = i
      BY <2>1, <2>2
    <3> QED BY <2>1, <3>1
  <2> HIDE DEF todo, f
  <2>3. Binding(plan, f) = {Tail(todo)[i].sym : i \in DOMAIN Tail(todo)}
    BY <1>3 DEF Binding, todo
  <2>4. Binding(plan, Top) = {todo[i].sym : i \in DOMAIN todo}
    BY <1>1 DEF Binding, todo
  <2>5. ASSUME NEW i \in DOMAIN todo
        PROVE  todo[i].sym \in Binding(plan, f) \cup {field.sym}
    <3>1. CASE i = 1
      BY <2>1, <3>1
    <3>2. CASE i # 1
      BY <2>2, <2>3, <3>2
    <3> QED BY <3>1, <3>2
  <2> QED BY <2>4, <2>5
<1> HIDE DEF f, field
<1>5. ASSUME NEW obj, NEW v, frames' = Append(Popped(g(obj)), f), ret' = Step,
             env' = Put(env, field.sym, v)
      PROVE  Settled(plan, frames', env', ret')
  <2> DEFINE t == Passed(plan, f, DOMAIN env')
             fs == Popped(g(obj))
  <2>1. DOMAIN env' = DOMAIN env \cup {field.sym}
    BY <1>5 DEF Put
  <2>2. Passed(plan, Top, DOMAIN env) \subseteq t
    BY <1>1, <1>3, <1>4, <2>1 DEF Passed
  <2>3. Supplied(plan, fs, t) /\ IsSeq(fs)
    <3> HIDE DEF t
    <3> QED BY <1>1, <2>2, HandsDown
  <2>4. FrameDerived(plan, f) /\ Wanting(plan, f) = {}
    BY <1>3 DEF FrameDerived, Wanting, Bodies
  <2> HIDE DEF fs
  <2>5. Supplied(plan, Append(fs, f), DOMAIN env')
    BY <2>3, <2>4, SupplyPush
  <2>6. Globals(plan) \subseteq DOMAIN env'
    BY <1>1, <2>1, Ready
  <2> QED BY <1>5, <2>5, <2>6 DEF Settled, Step, fs
<1> QED BY <1>2, <1>5, FailingSettled

LEMMA GroupEndValues ==
    ASSUME DecoderInv, ValueInv, EndGroup
    PROVE  Settled(plan, frames', env', ret')
<1>1. /\ Running /\ frames # <<>> /\ ret.is \in {"step", "type", "value"} /\ Top.k = "bits"
      /\ Top.todo = <<>> /\ status = "running"
  BY DEF EndGroup, Running, Step
<1>2. ret' = False \/ (frames' = Below /\ env' = env /\ ret' = Step)
  BY DEF EndGroup, Goes, Caught
<1>3. Passed(plan, Top, DOMAIN env) \subseteq DOMAIN env
  BY <1>1 DEF Passed, Binding
<1>4. Globals(plan) \subseteq DOMAIN env /\ Step.is # "type"
  BY <1>1, Ready DEF Step
<1> QED BY <1>1, <1>2, <1>3, <1>4, PopsValues, FailingSettled

LEMMA ValueStep ==
    ASSUME Derivable, DecoderInv, ValueInv, [Next]_vars
    PROVE  ValueInv'
<1>1. CASE Start
  <2>1. frames' = <<>> /\ (GoodParameters => env' = Merge(plan.given, plan.consts)
                                             /\ ret' = CallType(Named(plan.root)))
        /\ (~GoodParameters => ret' = False)
    BY <1>1 DEF Start, DecoderInv
  <2>2. CASE GoodParameters
    <3>1. Globals(plan) \subseteq DOMAIN env'
      BY <2>1, <2>2 DEF GoodParameters, Merge, Globals
    <3>2. Named(plan.root).dims = <<>>
      BY DEF Named, U8, Scalar
    <3>3. UsesOfType(Named(plan.root)) = {}
      BY <3>2 DEF UsesOfType, Range
    <3> HIDE DEF Named
    <3> QED BY <1>1, <2>1, <2>2, <3>1, <3>3, SupplyNone, PlanStays DEF ValueInv, Settled, CallType
  <2>3. CASE ~GoodParameters
    BY <2>1, <2>3, FailingSettled DEF ValueInv
  <2> QED BY <2>2, <2>3
<1>2. CASE Finish
  BY <1>2 DEF Finish, ValueInv
<1>3. CASE UNCHANGED vars
  BY <1>3 DEF vars, ValueInv
<1>4. ASSUME Settled(plan, frames', env', ret') PROVE ValueInv'
  BY <1>4, PlanStays DEF ValueInv
<1>5. CASE EndStruct \/ Types \/ Loops
  BY <1>4, <1>5, StructEndValues, StructValues, ScalarValues, LoopBeginValues, LoopTurnValues,
     LoopTakeValues DEF Types, Loops
<1>6. CASE Values \/ Groups
  BY <1>4, <1>6, DoneValues, FieldBeginValues, EndValues, GroupBeginValues, GroupFieldValues,
     GroupEndValues DEF Values, Groups
<1>7. CASE Places \/ Branching \/ Callbacks
  BY <1>4, <1>7, DoneValues, PlaceBeginValues, EndValues, VariantValues DEF Places, Branching
<1>8. CASE Unwinds
  <2>1. ret' \in {False, Throw}
    BY <1>8 DEF Unwinds, FailStruct, FailUntil, FailAt, FailBlock, FailThrough, CatchThrow,
                PassThrow, Goes, Caught, Throws
  <2> QED BY <1>4, <2>1, FailingSettled
<1> QED BY <1>1, <1>2, <1>3, <1>5, <1>6, <1>7, <1>8 DEF Next

\* In a plan for which validateMembersDependencies of PlanBuilder.cpp finds that
\* every symbol comes before its uses, decode() finds every symbol that it is
\* about to evaluate in the environment: through branches not taken, structs in
\* structs, elements of arrays and the members that blocks leave behind.
THEOREM ValuesAreBound ==
    ASSUME Derivable
    PROVE  Spec => []Resolved
<1>1. Init => ValueInv
  BY DEF Init, ValueInv
<1>2. DecoderInv /\ ValueInv /\ [Next]_vars => ValueInv'
  BY ValueStep
<1>3. DecoderInv /\ ValueInv => Resolved
  <2> SUFFICES ASSUME DecoderInv, ValueInv PROVE Needed \ Builtins \subseteq DOMAIN env
    BY DEF Resolved
  <2>1. CASE Calling
    <3>1. ret # Step
      BY <2>1 DEF Calling, Step
    <3>2. UsesOfType(ret.type) \ Builtins \subseteq DOMAIN env
      BY <2>1, Ready DEF Calling
    <3> QED BY <2>1, <3>1, <3>2 DEF Needed
  <2>2. CASE Running /\ ret = Step /\ Top.k \in Bodies /\ Top.todo # <<>>
    <3>1. Doing(Op.op) /\ ~Calling
      BY <2>2 DEF Doing, Op, Calling, Step
    <3>2. Uses(Op) \ Builtins \subseteq DOMAIN env
      BY <3>1, OpSupplied
    <3> QED BY <2>2, <3>1, <3>2 DEF Needed
  <2>3. CASE Running /\ ret = Step /\ Top.k = "struct" /\ Top.todo = <<>>
    <3>1. /\ ~Calling /\ frames # <<>> /\ status = "running" /\ plan \in Plans
          /\ ret.is \in {"step", "type", "value"}
      BY <2>3 DEF Calling, Step, Running, DecoderInv
    <3>2. Top.todo \in Lists(plan) /\ Wanting(plan, Top) \subseteq DOMAIN env
      BY <2>3, <3>1, Ready DEF FrameDerived, Bodies
    <3>3. Bound(plan, Top.todo) = {}
      BY <2>3, <3>1, <3>2, DerivationIs DEF Derived, Bound
    <3>4. Required(plan, Top.name) \subseteq DOMAIN env
      BY <2>3, <3>2, <3>3 DEF Wanting
    <3>5. Needed \ Builtins = Required(plan, Top.name)
      BY <2>3, <3>1 DEF Needed, Required, Requirements
    <3> QED BY <3>4, <3>5
  <2>4. CASE /\ ~Calling
             /\ ~(Running /\ ret = Step /\ Top.k \in Bodies /\ Top.todo # <<>>)
             /\ ~(Running /\ ret = Step /\ Top.k = "struct" /\ Top.todo = <<>>)
    BY <2>4 DEF Needed
  <2> QED BY <2>1, <2>2, <2>3, <2>4
<1> QED BY <1>1, <1>2, <1>3, DecoderInvariant, PTL DEF Spec
=============================================================================
