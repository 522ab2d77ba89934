------------------------------ MODULE MCDecoder ------------------------------
(***************************************************************************)
(* Plans and inputs for the decoder.  The plans of a family have a head    *)
(* field `a`, an operation of every kind (with, if it has a body, every    *)
(* leaf operation in it), and something that uses what the operation left. *)
(* Only those the plan builder accepts are kept, as it lays them out.      *)
(***************************************************************************)
EXTENDS DecoderReference, LayoutGraph

\* The operations of the structs of the plans.
PlanOperations(p) == [s \in DOMAIN p.structs |-> OpsIn(p.structs[s].body)]

\* Structs the plans refer to: one with a constraint over its two members, one
\* with a size read from the input, one that takes no bytes.
Pair == StructDef("Little", <<FieldOp("p", "Little", U8, {}), FieldOp("q", "Big", I8, {0, 1, -1})>>,
                  <<Is("p", 1)>>)
Text == StructDef("Big", <<FieldOp("n", "Big", U8, {}),
                           FieldOp("s", "Big", Dims(Bytes, <<Sym("n")>>), {})>>, <<>>)
Octets == StructDef("Little", <<FieldOp("s", "Little", Until(Dims(U8, <<Rest>>), <<0>>, 1), {})>>,
                 <<>>)
Unit == StructDef("Little", <<VirtualOp("u", Lit(0))>>, <<>>)

\* A struct with a callback between its two bytes.
Known == CallbackOp("known", "decode", <<>>)
Elem == StructDef("Little", <<FieldOp("e", "Little", U8, {}), Known,
                              FieldOp("f", "Big", U8, {})>>, <<Is("e", 1)>>)
\* A struct two levels deep, for the limit on recursion.
Nest == StructDef("Little", <<FieldOp("e", "Little", Named("Elem"), {})>>, <<>>)

\* A struct that holds itself, beyond its first byte.
Loop == StructDef("Little", <<FieldOp("k", "Little", U8, {}),
                 BlockOp(Sym("k"), <<FieldOp("i", "Little", Named("Loop"), {})>>)>>, <<>>)

\* One that holds itself as the default alternative of a variant.
Turn == StructDef("Little", <<FieldOp("k", "Little", U8, {}),
                 VariantOp("v", Sym("k"), <<BodyCase(1, <<>>)>>, <<TypeCase(0, Named("Turn"))>>)>>,
                 <<>>)

\* A module with a root struct and the structs it needs, no parameters and one
\* constant.
Library == [s \in {"Pair", "Text", "Unit", "Elem", "Nest", "Octets", "Loop", "Turn"} |->
               CASE s = "Pair" -> Pair
                 [] s = "Text" -> Text
                 [] s = "Unit" -> Unit
                 [] s = "Elem" -> Elem
                 [] s = "Nest" -> Nest
                 [] s = "Octets" -> Octets
                 [] s = "Loop" -> Loop
                 [] s = "Turn" -> Turn]
NoNames == [s \in {} |-> 0]
ModuleOf(order, structs) ==
    PlanOf("Root", order, structs, NoNames, NoNames, [k \in {"c"} |-> 1])
Program(body, requires) ==
    LET root == StructDef("Little", body, requires)
        used == Contained(root)
        all == used \cup UNION {Contained(Library[s]) : s \in used}
    IN  ModuleOf(SetToSeq(all \ {"Nest"}) \o SetToSeq(all \cap {"Nest"}) \o <<"Root">>,
                 ("Root" :> root) @@ Restrict(Library, all))

Head1 == FieldOp("a", "Little", U8, {})

-----------------------------------------------------------------------------
\* Types, as read by a field of order e.
Types1 == {U8, Dims(U8, <<Sym("a")>>), Dims(U8, <<Lit(1), Minus("a", 1)>>),
           Dims(Bytes, <<Rest>>), Dims(Bytes, <<Minus("a", 1)>>), Dims(U8, <<Rest>>),
           Named("Pair"), Dims(Named("Unit"), <<Sym("a")>>), Dims(Named("Text"), <<Sym("a")>>),
           Until(Bytes, <<0>>, 1), Until(Bytes, <<0, 1>>, 0),
           Until(Dims(Named("Text"), <<Rest>>), <<1>>, 2),
           Until(Dims(U8, <<Rest>>), <<0>>, 1)}

Group == BitsOp(8, <<BitField("x", "Big", 7, {}), BitField("y", "Little", 1, {0})>>)

\* Nine bits in two bytes, which leave seven of padding.
Padded == BitsOp(9, <<BitField("x", "Little", 5, {}), BitField("y", "Big", 4, {})>>)

Leaves == {FieldOp("x", "Little", t, {}) : t \in Types1}
    \cup {FieldOp("x", "Big", Scalar(2, FALSE), {1, 256, 258}), FieldOp("x", "Little", U16, {}),
          FieldOp("x", "Big", U8, {1}),
          VirtualOp("x", Sym("a")), VirtualOp("x", Minus("a", 1)), AliasOp("x", "a"),
          Group, Padded, AlignOp(2), CallbackOp("known", "decode", <<Sym("a")>>)}

Holding(op) == {AtOp(Lit(0), <<op>>), AtOp(Sym("a"), <<op>>), AtOp(Minus("$next", 1), <<op>>),
                BlockOp(Lit(1), <<op>>), BlockOp(Sym("a"), <<op>>),
                IfOp(Is("a", 1), <<op>>, <<>>),
                VariantOp("v", Sym("a"), <<BodyCase(1, <<op>>), TypeCase(2, U8)>>, <<>>),
                VariantOp("v", Sym("c"), <<TypeCase(0, Named("Pair"))>>, <<BodyCase(0, <<op>>)>>)}

\* What follows: a use of the value x, and constraints on the whole.
After == {<<>>, <<FieldOp("z", "Little", Dims(U8, <<Sym("x")>>), {})>>, <<AliasOp("z", "x")>>}

\* Two constructs deep, for limits under limits and branches under branches.
Deep(op) == {BlockOp(Lit(1), <<BlockOp(Lit(1), <<op>>)>>),
             BlockOp(Lit(2), <<AtOp(Sym("a"), <<op>>), BlockOp(Lit(1), <<>>)>>),
             IfOp(Is("a", 1), <<BlockOp(Lit(2), <<op>>)>>, <<AtOp(Lit(1), <<op>>)>>)}

\* A rollback that throws far before the end of what was read.
Behind == <<FieldOp("b", "Little", U16, {}), Head1,
            AtOp(Lit(0), <<BlockOp(Lit(1), <<FieldOp("x", "Little",
                                   Until(Dims(U8, <<Rest>>), <<1>>, 1), {})>>)>>)>>

DecoderBodies ==
    {Behind} \cup {<<Head1, op>> \o rest : op \in Leaves \cup UNION {Holding(op) : op \in Leaves},
                            rest \in After}
      \cup {<<Head1, op>> : op \in UNION {Deep(leaf) : leaf \in Leaves}}
Recursive == {Program(<<FieldOp("i", "Little", Named(s), {})>>, <<>>) : s \in {"Loop", "Turn"}}
DecoderPlans ==
    PlansOf({Program(b, <<>>) : b \in DecoderBodies} \cup Recursive
        \cup {Program(<<Head1, op>>, <<Is("x", 1)>>) : op \in Leaves})

DecoderInputs == [1..Size -> {0, 1, 2}]

-----------------------------------------------------------------------------
\* Callbacks of every kind, called in every construct, with something to read
\* after them and after the construct.
Called == {FieldOp("x", "Little", Named("Elem"), {}), FieldOp("x", "Little", Named("Nest"), {}),
           FieldOp("x", "Little", Dims(Named("Elem"), <<Sym("a")>>), {}),
           FieldOp("x", "Little", Until(Dims(Named("Elem"), <<Rest>>), <<0>>, 2), {})}
U8Field == FieldOp("y", "Big", U8, {})
CallbackBodies ==
    {<<Head1, op, U8Field>> :
        op \in Called \cup UNION {Holding(c) : c \in Called}}
      \cup {<<Head1>> \o ops : ops \in {
            <<BlockOp(Lit(1), <<BlockOp(Lit(1), <<Known, U8Field>>)>>)>>,
            <<BlockOp(Lit(2), <<BlockOp(Lit(1), <<Known, U8Field, U8Field>>)>>)>>,
            <<AtOp(Lit(1), <<Known>>)>>,
            <<BlockOp(Lit(1), <<CallbackOp("known", "encode", <<>>)>>)>>,
            <<BlockOp(Lit(1), <<CallbackOp("unknown", "decode", <<>>)>>)>>,
            <<AtOp(Lit(1), <<Known, U8Field>>), U8Field>>}}

\* A plan with a parameter, which callers pass well and badly.
WithParameter(given) ==
    [Program(<<BlockOp(Sym("k"), <<Known, U8Field>>)>>, <<>>)
        EXCEPT !.params = [s \in {"k"} |-> {1, 2}], !.given = given]

CallbackPlans ==
    PlansOf({Program(b, <<>>) : b \in CallbackBodies}
        \cup {WithParameter([s \in {"k"} |-> 2]), WithParameter([s \in {"k"} |-> 3]),
              WithParameter([s \in {} |-> 0]), WithParameter([s \in {"k", "c"} |-> 1])})

-----------------------------------------------------------------------------
\* One plan for each statement of the documents that the decoder does not keep.

ZeroProgressPlans ==
    PlansOf({Program(<<Head1, FieldOp("x", "Little",
                              Until(Dims(Named("Unit"), <<Rest>>), <<1>>, 1), {})>>, <<>>)})

NestedPlans ==
    PlansOf({Program(<<FieldOp("x", "Little", Until(Dims(Named("Octets"), <<Rest>>), <<1>>, n), {})>>,
                     <<>>) : n \in 1..2})

OrderPlans ==
    PlansOf({Program(<<FieldOp("a", e, U8, {}),
                       BitsOp(9, <<BitField("x", "Little", 5, {}), BitField("y", "Little", 4, {})>>)>>,
                     <<>>) : e \in {"Little", "Big"}})

SizePlans ==
    PlansOf({Program(<<BlockOp(Lit(3), <<FieldOp("x", "Little", Named("Text"), {})>>)>>, <<>>)})

\* An `at` that goes to the end of what precedes it, in a struct that is not at
\* the start of the input.
Pointed == StructDef("Little", <<FieldOp("n", "Little", U8, {}), AtOp(Sym("$next"),
                                 <<FieldOp("m", "Little", U8, {})>>)>>, <<>>)
NextPlans ==
    PlansOf({ModuleOf(<<"Pointed", "Root">>,
                [s \in {"Root", "Pointed"} |->
                    IF s = "Pointed" THEN Pointed
                    ELSE StructDef("Little", <<Head1, FieldOp("i", "Little", Named("Pointed"), {})>>,
                                   <<>>)])})

=============================================================================
