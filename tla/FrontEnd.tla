------------------------------- MODULE FrontEnd -------------------------------
(***************************************************************************)
(* From a syntax tree to a plan (src/compiler/Compiler.cpp): analysis,     *)
(* lowering to the IR, and the plan builder, which computes the constants  *)
(* (Constants), checks the types of expressions and lays out the structs.  *)
(* The IR is a function of the syntax tree, computed where it is used.     *)
(*                                                                         *)
(* A module has the declarations `decl`, the struct `body` with the ones   *)
(* it refers to, and `uses`: expressions and what the place they are in    *)
(* needs, a size, a tag, a test or any value.                              *)
(***************************************************************************)
EXTENDS Constants, Expressions, Names

-----------------------------------------------------------------------------
\* Module scope: constants and parameters by name; enum items by qualified name,
\* and by their own if no other item has it and it is not declared.

Shared == {"constant", "parameter"}
ItemNamed(s, enum, x) == {i \in DOMAIN s.items : s.items[i].enum = enum /\ s.items[i].name = x}
ItemsNamed(s, x) == {i \in DOMAIN s.items : s.items[i].name = x}
Declared(s) == {x \in DOMAIN s.decl : s.decl[x].kind \in Shared}
ItemIds(s) == {s.items[i].id : i \in DOMAIN s.items}
ShortNames(s) == {s.items[i].name : i \in {j \in DOMAIN s.items :
                    Cardinality(ItemsNamed(s, s.items[j].name)) = 1}}

Globals(s) ==
    [x \in Declared(s) \cup ItemIds(s) \cup ShortNames(s) |->
        IF x \in Declared(s) \cup ItemIds(s) THEN x ELSE s.items[Max(ItemsNamed(s, x))].id]

\* An item sees the items of its own enum first.
Bound(s, e, enum) ==
    LET id(x) == LET own == ItemNamed(s, enum, x)
                 IN  IF own # {} THEN s.items[Max(own)].id
                     ELSE IF x \in DOMAIN Globals(s) THEN Globals(s)[x] ELSE ""
    IN  Renamed(e, [x \in Identifiers(e) |-> id(x)])

ExprOf(s, x) == LET d == s.decl[x] IN Bound(s, d.expr, IF d.kind = "item" THEN d.enum ELSE "")

UsesOf(s, x) == Identifiers(ExprOf(s, x))
EvaluateIn(s, x, values) == Outcomes(ExprOf(s, x), values)

-----------------------------------------------------------------------------
\* Analysis (analyze), from the syntax tree alone.

InferredOk(use) ==
    /\ Infer(use.expr) # "invalid"
    /\ use.need = "test" => Infer(use.expr) = "bool"
    /\ use.need = "size" => LooksInteger(use.expr)

Analysed(s) ==
    /\ \A x \in s.constants : Infer(s.decl[x].expr) # "invalid"
    /\ \A x \in ItemIds(s) : Infer(s.decl[x].expr) # "invalid" /\ LooksInteger(s.decl[x].expr)
    /\ \A i \in DOMAIN s.uses : InferredOk(s.uses[i])
    /\ \A x \in DOMAIN s.structs : MembersOk(s.structs[x].body, DOMAIN s.structs, s.callbacks)

\* The IR of the structs, and whether all its references are bound.
Names_(s) == LET types == [x \in DOMAIN s.structs |-> x] IN Globals(s) @@ types

IrStructs(s) == [x \in DOMAIN s.structs |-> BindStruct(s.structs[x], "@" \o x, Names_(s), FALSE)]

IrBound(s) ==
    /\ \A x \in s.constants \cup ItemIds(s) : "" \notin UsesOf(s, x)
    /\ LET ir == IrStructs(s)
       IN  \A x \in DOMAIN ir :
              Identified(ir[x].body, DOMAIN ir, FieldSymbols(ir[x].body))

-----------------------------------------------------------------------------
\* The checks of the plan builder, once constants and items have values.

DeclarationsTyped(s, values) ==
    \A x \in s.constants \cup ItemIds(s) : TypeOf(ExprOf(s, x), s, values, {}) # "invalid"

Integral == {"sint", "uint"}

\* validatePlanExpressionTypes, and the sizes that lowering computes.
UseOk(use, s, values) ==
    LET type == TypeOf(use.expr, s, values, {})
    IN  /\ CASE use.need = "test" -> type = "bool"
             [] use.need \in {"size", "tag"} -> type \in Integral
             [] use.need = "value" -> type # "invalid"
        /\ use.need = "size" /\ Identifiers(use.expr) \subseteq DOMAIN values =>
              SizeOutcomes(use.expr, values) \cap Failures = {}

\* The structs with the values of the constants, ready to be laid out.
Structs(s, values) ==
    PlanOf(s.root, s.order, IrStructs(s), [x \in {} |-> 0], [x \in {} |-> 0],
           [x \in {y \in DOMAIN values : IsInteger(values[y])} |-> values[x].v])

FrontEndInit == \E s \in Sources : InitWith(s) /\ stage = "parsed"

Analyse == stage = "parsed" /\ Stop(IF Analysed(source) THEN "analysed" ELSE "rejected")
LowerToIr == stage = "analysed" /\ Stop(IF IrBound(source) THEN "constants" ELSE "rejected")
TypeDeclarations ==
    stage = "valued" /\ Stop(IF DeclarationsTyped(source, env) THEN "typed" ELSE "untyped")
Publish ==
    stage = "typed" /\ Stop(IF /\ Accepted(Structs(source, env))
                               /\ \A i \in DOMAIN source.uses : UseOk(source.uses[i], source, env)
                            THEN "accepted" ELSE "unpublished")

FrontEndNext == Analyse \/ LowerToIr \/ ConstantsNext \/ TypeDeclarations \/ Publish

\* One thread computes the values and does not stop until it has them.
FrontEndSpec == FrontEndInit /\ [][FrontEndNext]_vars /\ WF_vars(ConstantsNext)

-----------------------------------------------------------------------------
\* Reference: constants and items mean what arithmetic makes of their definitions.
RECURSIVE Exact(_, _, _)
Exact(e, s, open) ==
    ExactFrom(e, LAMBDA x : IF x \in open \/ x \notin s.constants \cup ItemIds(s) THEN Fail
                            ELSE Exact(ExprOf(s, x), s, open \cup {x}),
                 LAMBDA x : Exact(x, s, open))

RECURSIVE Floating(_)
Floating(e) == CASE e.kind = "neg" -> Floating(e.arg)
                 [] e.kind = "bin" -> Floating(e.left) \/ Floating(e.right)
                 [] OTHER          -> e.kind = "float"

\* Without floating-point numbers, which have no values here.
IntegersOnly(s) == \A x \in s.constants \cup ItemIds(s) : ~Floating(s.decl[x].expr)

Circular(s) == \E S \in SUBSET s.constants :
                  S # {} /\ \A x \in S : UsesOf(s, x) \cap S # {}

Valued == Before \cup {"refused"}

\* Constants and enum items have the values that arithmetic gives their
\* definitions, whatever order they were computed in; a module is refused for its
\* constants only if one has no such value or refers to what is not a constant, or
\* if some refer to each other in a circle, even where they are not evaluated.
ValuesAreExact ==
    IntegersOnly(source) =>
        /\ stage \notin Valued =>
              \A x \in DOMAIN env : env[x] = Exact(Id(x), source, {})
        /\ stage = "refused" /\ ~Circular(source) =>
              \E x \in source.constants : \/ Exact(Id(x), source, {}) = Fail
                                          \/ ~(UsesOf(source, x) \subseteq source.constants)

-----------------------------------------------------------------------------
\* What a use means at run time: virtual fields and aliases by what they stand for.
RECURSIVE Expanded(_)
Expanded(e) ==
    CASE e.kind = "id" ->
            LET d == source.decl[e.id]
            IN  CASE d.kind = "virtual" -> Expanded(d.expr)
                  [] d.kind = "alias"   -> Expanded(Id(d.target))
                  [] OTHER              -> e
      [] e.kind = "neg" -> Neg(Expanded(e.arg))
      [] e.kind = "bin" -> Bin(e.op, Expanded(e.left), Expanded(e.right))
      [] OTHER          -> e

Given(e) == {x \in Identifiers(e) : source.decl[x].kind \in {"field", "parameter"}}
Inputs(e) == {g \in [Given(e) -> Values] : \A x \in Given(e) : g[x].t = source.decl[x].holds}

\* A scaled field is typed as the integer on the wire and has a floating-point
\* value; an item of an unsigned enum may have a signed one.
AsDeclared(e) ==
    \A x \in Identifiers(e) :
        LET d == source.decl[x]
        IN  /\ d.kind = "field" => ~d.scaled
            /\ d.kind = "item" => (env[x].t = "sint") = source.under[d.enum].signed

\* An expression of an accepted plan, with whatever values the fields and the
\* parameters have, gives a value of the type found for it or fails for the
\* numbers in it, and never for the kind of an operand; a size is an integer.
TypedExpressionsEvaluate ==
    stage = "accepted" =>
        \A i \in DOMAIN source.uses :
            LET use == source.uses[i]
                type == TypeOf(use.expr, source, env, {})
                e == Expanded(use.expr)
            IN  AsDeclared(e) /\ type # "string" =>
                    \A g \in Inputs(e) :
                        /\ \A x \in Outcomes(e, env @@ g) : x = Fail \/ x.t = type
                        /\ use.need = "size" => Mistyped \notin SizeOutcomes(e, env @@ g)

\* In an accepted plan every name means the nearest declaration before it in the
\* bodies around it, or else that of the module, though all of a body is in scope
\* while it is lowered.
NamesMeanNearest ==
    stage = "accepted" =>
        \A x \in DOMAIN source.structs :
            BindStruct(source.structs[x], "@" \o x, Names_(source), FALSE)
                = BindStruct(source.structs[x], "@" \o x, Names_(source), TRUE)

Computing == {"constants", "items"}

\* The passes over the constants end, and so does the walk over the items: the
\* values are there or the module is refused.
Settles == (stage \in Computing) ~> (stage \notin Computing)
=============================================================================
