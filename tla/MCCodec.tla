------------------------------- MODULE MCCodec -------------------------------
(***************************************************************************)
(* Plans, inputs and values for the codec: an operation of every kind,     *)
(* alone and in every construct, after a field that it may depend on.      *)
(***************************************************************************)
EXTENDS MCDecoder, Generated

Encodable ==
    {FieldOp("x", "Little", t, {}) :
        t \in {U8, I8, U16, Dims(U8, <<Sym("a")>>), Dims(U8, <<Lit(2)>>), Dims(Bytes, <<Lit(2)>>),
               Dims(Bytes, <<Sym("a")>>), Dims(U8, <<Sym("a"), Lit(1)>>), Named("Text"), Named("Pair"),
               Sized(Bytes, Sym("a")),
               Dims(Named("Unit"), <<Sym("a")>>), Until(Bytes, <<0>>, 1), Until(Bytes, <<0, 1>>, 2),
               Until(Dims(Named("Unit"), <<Rest>>), <<1>>, 1),
               Until(Dims(U8, <<Rest>>), <<0>>, 2)}}
      \cup {FieldOp("x", "Big", U16, {1, 256}), VirtualOp("x", Minus("a", 1)), AliasOp("x", "a"),
            Group, Padded, AlignOp(2)}

Around(op) == {op, AtOp(Sym("a"), <<op>>), BlockOp(Lit(2), <<op>>), BlockOp(Sym("a"), <<op>>),
               IfOp(Is("a", 1), <<op>>, <<>>),
               VariantOp("v", Sym("a"), <<BodyCase(1, <<op>>), TypeCase(2, U16)>>,
                         <<TypeCase(0, U8)>>)}

\* What follows, or nothing.
Followed == {<<>>, <<FieldOp("z", "Big", U8, {})>>, <<AlignOp(2)>>, <<BlockOp(Lit(1), <<>>)>>}

CodecBodies ==
    {<<Head1, op>> : op \in UNION {Around(leaf) : leaf \in Encodable}}
      \cup {<<FieldOp("x", "Little", Until(Bytes, term, 2), {})>> :
               term \in {<<0>>, <<0, 1>>, <<0, 0>>}}
      \cup {<<FieldOp("a", "Big", U8, {}), op>> \o rest :
               op \in UNION {Around(leaf) : leaf \in {FieldOp("x", "Little", U8, {}), Group}},
               rest \in Followed}

\* Encode callbacks, in blocks and after them, with values for their plans.
Notify == CallbackOp("known", "encode", <<Sym("a")>>)
EmitBodies == {<<Head1, BlockOp(Lit(n), ops)>> :
                  n \in 1..2, ops \in {<<Notify, U8Field>>, <<U8Field, Notify>>}}
                \cup {<<Head1, BlockOp(Sym("a"), <<Notify>>), U8Field>>, <<Head1, Notify, U8Field>>}
MadeValues == {Object([s \in {"a", "y"} |-> Num(IF s = "a" THEN n ELSE 2)]) : n \in {0, 1}}

CodecPlans == PlansOf({Program(b, <<>>) : b \in CodecBodies \cup EmitBodies})

\* A block of one byte with a field after it.
BlockPlans == PlansOf({Program(<<Head1, BlockOp(Lit(1), <<FieldOp("x", "Little", U8, {})>>),
                                 FieldOp("z", "Little", U8, {})>>, <<>>)})

\* An array of two elements of two bytes.
StaticPlans == PlansOf({Program(<<FieldOp("x", "Little", Dims(U16, <<Lit(2)>>), {})>>, <<>>)})

-----------------------------------------------------------------------------
\* What the theorems about the decoder assume of its plans: the structs of those
\* the plan builder accepts can be ranked, the symbols their operations bind and
\* want are these, and so are the frames they take.
RECURSIVE BoundBy(_), WantedBy(_), Sublists(_), FramesAbove(_, _)
BoundOf(op) == Binds(op, [body \in BodiesOf(op) |-> BoundBy(body)])
BoundBy(ops) == IF ops = <<>> THEN {} ELSE BoundOf(Head(ops)) \cup BoundBy(Tail(ops))
WantedBy(ops) ==
    IF ops = <<>> THEN {}
    ELSE LET op == Head(ops)
         IN  ((Uses(op) \cup UNION {UsesOfType(type) : type \in TypesOf(op)}) \ Builtins)
               \cup UNION {WantedBy(body) : body \in BodiesOf(op)}
               \cup (WantedBy(Tail(ops)) \ BoundOf(op))
Sublists(ops) ==
    {ops} \cup (IF ops = <<>> THEN {}
                ELSE Sublists(Tail(ops))
                       \cup UNION {Sublists(body) : body \in BodiesOf(Head(ops))})
ListsOf(p) == UNION {Sublists(p.structs[s].body) : s \in DOMAIN p.structs}
FramesAbove(p, ops) ==
    IF ops = <<>> THEN 0
    ELSE LET op == Head(ops)
             called(type) == {p.structs[s].body : s \in {type.ref} \cap DOMAIN p.structs}
             of(type) == FramesOfType(p, [body \in called(type) |-> FramesAbove(p, body)], type)
         IN  Max({FramesAbove(p, Tail(ops)), IF op.op = "bits" THEN 1 ELSE 0}
                   \cup {1 + FramesAbove(p, body) : body \in BodiesOf(op)}
                   \cup {1 + of(type) : type \in TypesOf(op)})

ASSUME PlansAreLayered ==
    \A p \in DecoderPlans :
        \E rank \in [DOMAIN p.structs -> 1..Cardinality(DOMAIN p.structs)] :
            Ranked(p, PlanOperations(p), rank)
ASSUME PlansAreDerivable ==
    \A p \in DecoderPlans :
        LET lists == ListsOf(p)
        IN  Derived(p, lists, [ops \in lists |-> BoundBy(ops)], [ops \in lists |-> WantedBy(ops)])
ASSUME PlansHaveHeights ==
    \A p \in DecoderPlans : Heights(p, [ops \in ListsOf(p) |-> FramesAbove(p, ops)])
ASSUME PlansOfBothKinds ==
    LET plain == {p \in DecoderPlans : PlainSequences(p, PlanOperations(p))}
        terminated == {p \in DecoderPlans :
                           \E s \in DOMAIN p.structs : \E op \in PlanOperations(p)[s] :
                               \E type \in TypesOf(op) : type.term # <<>>}
    IN  plain \cap terminated # {} /\ DecoderPlans \ plain # {}
=============================================================================
