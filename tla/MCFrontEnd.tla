------------------------------ MODULE MCFrontEnd ------------------------------
(***************************************************************************)
(* Modules for the front end: arithmetic at the ends of the range, graphs  *)
(* of constants, enums, typed expressions, and names in nested bodies.     *)
(***************************************************************************)
EXTENDS FrontEnd

Nothing == [x \in {} |-> x]
Plain == StructDef("Big", <<FieldOp("a", "Big", U8, {})>>, <<>>)

\* A module with its declarations, the ids of its items in order, the underlying
\* types of its enums, its structs and the uses of its expressions.
ModuleOf(decl, ids, under, structs, uses) ==
    [decl |-> decl, constants |-> {x \in DOMAIN decl : decl[x].kind = "constant"},
     items |-> [i \in DOMAIN ids |-> [id |-> ids[i], enum |-> decl[ids[i]].enum,
                                      name |-> decl[ids[i]].name]],
     under |-> under, structs |-> structs, root |-> "S",
     order |-> SetToSeq(DOMAIN structs \ {"S"}) \o <<"S">>,
     callbacks |-> [c \in {"known"} |-> "decode"], uses |-> uses]

Constants_(decl) == ModuleOf(decl, <<>>, Nothing, "S" :> Plain, <<>>)

-----------------------------------------------------------------------------
\* Arithmetic on literals: decimal, hexadecimal, negative.
Numbers == {Dec(n) : n \in {0, 1, 2, 3, 4, 7}} \cup {Hex(n) : n \in {0, 1, 3, 5, 7}}
              \cup {Neg(Dec(n)) : n \in {1, 2, 3, 4}}
Others == {Flag(TRUE), Float, Text, Dec(8), Hex(8), Neg(Dec(7)), Neg(Neg(Dec(4)))}
DividesByZero == Bin("==", Bin("/", Dec(1), Dec(0)), Dec(1))
Compound == {Bin(op, Flag(b), e) :
                op \in Logical, b \in BOOLEAN, e \in {DividesByZero, Flag(TRUE), Dec(1)}}
    \cup {Bin("*", Bin("-", a, b), Neg(Dec(2))) : a, b \in {Dec(0), Dec(1), Dec(3), Neg(Dec(1))}}

ArithmeticModules ==
    {Constants_("A" :> Const(e)) :
        e \in {Bin(op, l, r) : op \in Arithmetic \cup {"<", "==", "&&"}, l, r \in Numbers}
              \cup {Bin(op, l, r) : op \in {"+", "%", "<", "||"}, l \in Others,
                                r \in Others \cup {Dec(1)}}
              \cup Others \cup Compound}

-----------------------------------------------------------------------------
\* Three constants that use each other, a parameter, an enum item, or fail; or
\* that are wrong where they are not evaluated.
Unevaluated == Bin("||", Flag(TRUE), Bin("&&", Id("B"), Flag(TRUE)))
Links == {Dec(1), Id("A"), Id("B"), Id("C"), Bin("+", Id("A"), Id("B")),
          Bin("-", Id("B"), Id("C")), Id("I"), Id("p"), Bin("-", Hex(0), Hex(1)),
          Bin("+", Id("C"), Float), Unevaluated}
GraphModules ==
    {ModuleOf(("A" :> Const(a)) @@ ("B" :> Const(b)) @@ ("C" :> Const(c))
                 @@ ("p" :> Parameter("uint"))
                 @@ ("E::I" :> Item(Id("A"), "E", "I")), <<"E::I">>,
              "E" :> Under(FALSE, 4), "S" :> Plain, <<>>) :
        a, b, c \in Links}

-----------------------------------------------------------------------------
\* Two enums, one wide and one narrow, with an item of the same name in both.
ItemExprs == {Dec(1), Dec(3), Hex(1), Neg(Dec(2)), Id("k"), Bin("+", Id("I"), Dec(1)), Id("J"),
              Id("F::I")}
EnumModules ==
    {ModuleOf(("k" :> Const(Hex(1))) @@ ("E::I" :> Item(i, "E", "I"))
                 @@ ("E::J" :> Item(j, "E", "J"))
                 @@ ("F::I" :> Item(f, "F", "I")), <<"E::I", "E::J", "F::I">>,
              ("E" :> Under(signed, half)) @@ ("F" :> Under(TRUE, 4)), "S" :> Plain, <<>>) :
        i, j \in ItemExprs, f \in {Dec(0), Id("J"), Id("I"), Id("E::I"), Flag(TRUE)},
        signed \in BOOLEAN, half \in {2, 4}}

-----------------------------------------------------------------------------
\* Uses of every kind of symbol.
Symbols1 == {"fu", "fs", "fr", "fb", "fx", "p", "v", "w", "al", "k", "E::A", "G::B"}
Declarations ==
    [x \in Symbols1 |->
        CASE x = "fu" -> Field("uint", FALSE)
          [] x = "fs" -> Field("sint", FALSE)
          [] x = "fr" -> Field("real", FALSE)
          [] x = "fb" -> Field("invalid", FALSE)
          [] x = "fx" -> Field("uint", TRUE)
          [] x = "p"  -> Parameter("uint")
          [] x = "v"  -> Virtual(Bin("-", Id("fu"), Dec(1)))
          [] x = "w"  -> Virtual(Bin("<", Id("w"), Dec(1)))
          [] x = "al" -> Alias("fs")
          [] x = "k"  -> Const(Dec(2))
          [] x = "E::A" -> Item(Dec(2), "E", "A")
          [] x = "G::B" -> Item(Neg(Dec(2)), "G", "B")]
Leaves == {Id(x) : x \in Symbols1} \cup {Dec(1), Hex(2), Flag(TRUE)}
Simple == {Bin(op, l, r) : op \in {"+", "-", "/", "%", "<", "==", "&&"}, l, r \in Leaves}
Nested == {Bin("&&", Bin("<", Id("fu"), l), Bin(op, r, Dec(1))) :
              op \in {"==", "+"}, l, r \in Leaves}
            \cup {Neg(Bin(op, l, r)) :
                    op \in {"+", "<"}, l, r \in {Id("fu"), Id("fs"), Id("fr"), Dec(1), Hex(2)}}
Needs(e) == IF e.kind = "bin" /\ e.op \in Logical \cup Comparisons THEN {"test", "value"}
            ELSE {"size", "tag"}
TypedModules ==
    {ModuleOf(Declarations, <<"E::A", "G::B">>, ("E" :> Under(FALSE, 4)) @@ ("G" :> Under(TRUE, 4)),
              "S" :> Plain, <<[need |-> need, expr |-> e]>>) :
        <<need, e>> \in UNION {Needs(e) \X {e} : e \in Simple \cup Nested}
                          \cup {"value", "test"} \X (Leaves \cup {Text, Neg(Text)})}

-----------------------------------------------------------------------------
\* Names: declarations of a, b and k, which is also a constant of the module, and
\* uses of them, in every kind of body.
U8Of(x) == FieldOp(x, "Big", U8, {})
Times_(x, n) == FieldOp(x, "Big", Dims(U8, <<Sym(n)>>), {})
Declares == {U8Of("a"), U8Of("k"), VirtualOp("a", Sym("k")), AliasOp("b", "a"),
             BitsOp(8, <<BitField("a", "Big", 8, {})>>),
             BlockOp(Lit(1), <<U8Of("a")>>), AtOp(Lit(0), <<U8Of("k")>>),
             IfOp(Is("k", 1), <<U8Of("k")>>, <<U8Of("a")>>)}
UsesOfName(n) ==
    {Times_("b", n), Times_(n, n), VirtualOp("b", Sym(n)), AliasOp("b", n),
     FieldOp("c", "Big", Named(n), {}), BlockOp(Sym(n), <<Times_("b", n)>>),
     IfOp(Is(n, 1), <<Times_(n, "a")>>, <<Times_("b", n)>>),
     VariantOp("v", Sym("k"), <<BodyCase(0, <<U8Of(n), Times_("b", n)>>),
                                TypeCase(1, Dims(U8, <<Sym(n)>>))>>, <<>>),
     CallbackOp("known", "decode", <<Sym(n)>>)}
UsesOfNames ==
    UsesOfName("a") \cup UsesOfName("k") \cup
    {BlockOp(Lit(2), <<U8Of("k"), Times_("b", "k")>>),
     BlockOp(Lit(2), <<Times_("b", "k"), U8Of("k")>>),
     AtOp(Sym("$next"), <<IfOp(Is("a", 1), <<Times_("b", "a")>>, <<U8Of("k")>>)>>),
     FieldOp("b", "Big", Named("Pair"), {}), FieldOp("Pair", "Big", U8, {})}
NameBodies ==
    UNION {{<<d, u>>, <<u, d>>} : d \in Declares, u \in UsesOfNames}
        \cup UNION {{<<d, e, u>>, <<d, u, e>>} : d, e \in Declares, u \in UsesOfNames}
NameModules ==
    {ModuleOf("k" :> Const(Dec(1)), <<>>, Nothing,
              ("S" :> StructDef("Big", b, req)) @@ ("Pair" :> Plain), <<>>) :
        b \in NameBodies, req \in {<<>>, <<Is("a", 1)>>}}

FrontEndModules ==
    ArithmeticModules \cup GraphModules \cup EnumModules \cup TypedModules \cup NameModules

-----------------------------------------------------------------------------
\* The hypotheses of the theorems of Words_proofs hold of the walks of Expressions:
\* as functions on a set of expressions they agree with the steps of Operators.

RECURSIVE Parts(_)
Parts(e) == {e} \cup UNION {Parts(x) : x \in Operands(e)}

RECURSIVE Height(_)
Height(e) == 1 + Max({0} \cup {Height(x) : x \in Operands(e)})
Heights_(es) == [e \in es |-> Height(e)]

TypedEnv ==
    [x \in Symbols1 \ {"fb", "fx", "v", "w", "E::A"} |->
        CASE x \in {"fs", "al"} -> Sint(-1)
          [] x = "fr"           -> Real
          [] x \in {"fu", "p"}  -> Uint(3)
          [] x = "k"            -> Sint(2)
          [] x = "G::B"         -> Sint(-2)]

ASSUME TypedWalks ==
    \E s \in TypedModules :
        LET es == UNION {Parts(e) : e \in Simple \cup Nested \cup {Text, Float, Dec(8)}}
            declared == [x \in Symbols1 |-> TypeOf(Id(x), s, TypedEnv, {})]
        IN  /\ Trees(es, Heights_(es))
            /\ Infers(es, [e \in es |-> Infer(e)])
            /\ Evaluates(es, TypedEnv, [e \in es |-> Outcomes(e, TypedEnv)])
            /\ Types(es, declared, [e \in es |-> TypeOf(e, s, TypedEnv, {})])
            /\ \A x \in DOMAIN TypedEnv :
                  TypedEnv[x] \in Values /\ TypedEnv[x].t = declared[x]

ASSUME ExactWalks ==
    \A s \in {m \in GraphModules \cup EnumModules : IntegersOnly(m)} :
        LET defined == s.constants \cup ItemIds(s)
            expr == [x \in defined |-> ExprOf(s, x)]
            es == UNION {Parts(expr[x]) : x \in defined}
            names == [e \in es |-> Identifiers(e)]
            exact == [e \in es |-> Exact(e, s, {})]
            meaning == [x \in defined \cup UNION {names[e] : e \in es} |->
                           IF x \in defined THEN exact[expr[x]] ELSE Fail]
            values == [x \in {y \in defined : meaning[y] # Fail} |-> meaning[x]]
        IN  /\ Trees(es, Heights_(es))
            /\ Defines(s, es, names, expr, meaning, exact)
            /\ Computes(s, es, expr, values, [e \in es |-> Outcomes(e, values)])
=============================================================================
