----------------------------- MODULE Expressions -----------------------------
(***************************************************************************)
(* The walks over an expression: what it evaluates to                      *)
(* (src/runtime/ExpressionEvaluator.cpp), what can be said of its type     *)
(* from its form alone (src/core/Expr.h) and what the plan builder derives *)
(* from the declarations of the symbols (src/plan/PlanBuilder.cpp).  What  *)
(* a walk does at an operator is in Operators.                             *)
(***************************************************************************)
EXTENDS Operators, Sequences

RECURSIVE Identifiers(_)
Identifiers(e) == CASE e.kind = "id"  -> {e.id}
                    [] e.kind = "neg" -> Identifiers(e.arg)
                    [] e.kind = "bin" -> Identifiers(e.left) \cup Identifiers(e.right)
                    [] OTHER          -> {}

RECURSIVE Renamed(_, _)
Renamed(e, names) == CASE e.kind = "id"  -> Id(names[e.id])
                       [] e.kind = "neg" -> Neg(Renamed(e.arg, names))
                       [] e.kind = "bin" -> Bin(e.op, Renamed(e.left, names),
                                                Renamed(e.right, names))
                       [] OTHER          -> e

-----------------------------------------------------------------------------
RECURSIVE Outcomes(_, _)
Outcomes(e, env) == OutcomesFrom(e, env, LAMBDA x : Outcomes(x, env))

SizeOutcomes(e, env) == Sizes(Outcomes(e, env))

RECURSIVE Infer(_)
Infer(e) == InferFrom(e, LAMBDA x : Infer(x))

\* integerExpr: no literal and no operator that is not for integers.
RECURSIVE LooksInteger(_)
LooksInteger(e) == CASE e.kind = "neg" -> LooksInteger(e.arg)
                     [] e.kind = "bin" -> /\ e.op \in Arithmetic
                                          /\ LooksInteger(e.left) /\ LooksInteger(e.right)
                     [] OTHER          -> e.kind \in {"dec", "hex", "id"}

-----------------------------------------------------------------------------
\* Declarations of symbols: `holds` is the type of the values a parameter, a
\* field (through its aliases and enums) or the items of an enum have.

Const(e) == [kind |-> "constant", expr |-> e]
Item(e, enum, name) == [kind |-> "item", expr |-> e, enum |-> enum, name |-> name]
Virtual(e) == [kind |-> "virtual", expr |-> e]
Field(type, scaled) == [kind |-> "field", holds |-> type, scaled |-> scaled]
Parameter(type) == [kind |-> "parameter", holds |-> type]
Alias(x) == [kind |-> "alias", target |-> x]
\* A field of bytes, with dimensions or of a struct has the type "invalid".

\* The underlying type of an enum: how many numbers below zero it would have if
\* signed, and whether it is.
Under(signed, half) == [signed |-> signed, half |-> half]

\* resolvedExpressionType: constants have the type of their value, virtual
\* fields that of their expression; `visiting` are those being resolved.
RECURSIVE TypeOf(_, _, _, _)
TypeOf(e, source, env, visiting) ==
    LET type(x) == TypeOf(x, source, env, visiting)
        of(x) ==
            LET d == source.decl[x]
            IN  CASE d.kind = "constant" -> env[x].t
                  [] d.kind \in {"field", "parameter"} -> d.holds
                  [] d.kind = "item" -> IF source.under[d.enum].signed THEN "sint" ELSE "uint"
                  [] d.kind = "alias" -> type(Id(d.target))
                  [] d.kind = "virtual" ->
                        IF x \in visiting THEN "invalid"
                        ELSE TypeOf(d.expr, source, env, visiting \cup {x})
    IN  TypeFrom(e, LAMBDA x : IF x \in DOMAIN source.decl THEN of(x) ELSE "invalid", type)
=============================================================================
