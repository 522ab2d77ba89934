---------------------------- MODULE Dependencies ----------------------------
(***************************************************************************)
(* The check of the plan builder that every expression uses only values    *)
(* which are there when it is evaluated: validateLayoutDependencies and    *)
(* validateMembersDependencies of src/plan/PlanBuilder.cpp.  It walks the  *)
(* operations in order with the set of the symbols available so far.       *)
(***************************************************************************)
EXTENDS Plan, FiniteSetsExt

ExprOk(e, available) == Symbols(e) \ Builtins \subseteq available
TypeOk(type, available) ==
    \A i \in DOMAIN type.dims : type.dims[i] # Rest => ExprOk(type.dims[i], available)

-----------------------------------------------------------------------------
\* Symbols of kind Field, the only ones an alias may name: bit fields are
\* among them, virtual fields and other aliases are not.

RECURSIVE FieldSymbols(_)
FieldSymbols(ops) ==
    LET own(op) == CASE op.op = "field" -> {op.sym}
                     [] op.op = "bits"  -> {op.fields[i].sym : i \in DOMAIN op.fields}
                     [] op.op \in {"at", "block"} -> FieldSymbols(op.body)
                     [] op.op = "if" -> FieldSymbols(op.then) \cup FieldSymbols(op.else)
                     [] op.op = "variant" ->
                          UNION {FieldSymbols(c.body) : c \in {op.cases[i] : i \in DOMAIN op.cases}
                                        \cup {op.default[i] : i \in DOMAIN op.default}}
                     [] OTHER -> {}
    IN  UNION {own(ops[i]) : i \in DOMAIN ops}

-----------------------------------------------------------------------------
\* What an operation makes available to those after it, `inner` being available
\* at the end of its body: the members of a block and of an `at` stay available
\* after it, those of a branch or a case do not.

\* Mutant of Added: what a branch defines counts as available after it.
AddedFromBranches(op, inner) ==
    CASE op.op \in {"virtual", "alias", "field"} -> {op.sym}
      [] op.op = "bits" -> {op.fields[i].sym : i \in DOMAIN op.fields}
      [] op.op \in {"at", "block"} -> inner
      [] op.op = "if" -> FieldSymbols(op.then)
      [] OTHER -> {}

Added(op, inner) ==
    CASE op.op \in {"virtual", "alias", "field"} -> {op.sym}
      [] op.op = "bits" -> {op.fields[i].sym : i \in DOMAIN op.fields}
      [] op.op \in {"at", "block"} -> inner
      [] OTHER -> {}

\* [ok, available] after the operations of a list.
RECURSIVE Members(_, _, _)
Members(ops, available, fields) ==
    LET op == Head(ops)
        cases == op.cases \o op.default
        inner == Members(op.body, available, fields)
        caseOk(c) == IF c.typed THEN TypeOk(c.type, available)
                                ELSE Members(c.body, available, fields).ok
        ok == CASE op.op = "virtual" -> ExprOk(op.expr, available)
                [] op.op = "alias"   -> op.target \in fields \cap available
                [] op.op = "field"   -> TypeOk(op.type, available)
                [] op.op \in {"bits", "align"} -> TRUE
                [] op.op = "at"      -> ExprOk(op.offset, available) /\ inner.ok
                [] op.op = "block"   -> ExprOk(op.size, available) /\ inner.ok
                [] op.op = "if"      -> /\ ExprOk(op.cond, available)
                                        /\ Members(op.then, available, fields).ok
                                        /\ Members(op.else, available, fields).ok
                [] op.op = "variant" -> /\ ExprOk(op.tag, available)
                                        /\ \A i \in DOMAIN cases : caseOk(cases[i])
                [] op.op = "callback" -> \A i \in DOMAIN op.args : ExprOk(op.args[i], available)
    IN  IF ops = <<>> THEN [ok |-> TRUE, available |-> available]
        ELSE IF ok THEN Members(Tail(ops), available \cup Added(op, inner.available), fields)
        ELSE [ok |-> FALSE, available |-> available]

StructOk(struct, values) ==
    LET members == Members(struct.body, values, FieldSymbols(struct.body))
    IN  /\ members.ok
        /\ \A i \in DOMAIN struct.requires : ExprOk(struct.requires[i], members.available)

\* validateLayoutDependencies: module constants, enum items and parameters are
\* available everywhere.
DependenciesOk(plan) ==
    LET values == DOMAIN plan.params \cup DOMAIN plan.consts
    IN  \A name \in DOMAIN plan.structs : StructOk(plan.structs[name], values)

-----------------------------------------------------------------------------
\* lowerOne also refuses a dimension [*] that nothing bounds: neither a block
\* around it nor a terminator.

HasStar(type) == Rest \in {type.dims[i] : i \in DOMAIN type.dims}

RECURSIVE StarsBounded(_, _)
StarsBounded(ops, inBlock) ==
    LET alternativeOk(c) == IF c.typed THEN inBlock \/ ~HasStar(c.type)
                                       ELSE StarsBounded(c.body, inBlock)
        ok(op) == CASE op.op = "field" -> inBlock \/ op.type.term # <<>> \/ ~HasStar(op.type)
                    [] op.op = "block" -> StarsBounded(op.body, TRUE)
                    [] op.op = "at"    -> StarsBounded(op.body, inBlock)
                    [] op.op = "if"    -> /\ StarsBounded(op.then, inBlock)
                                          /\ StarsBounded(op.else, inBlock)
                    [] op.op = "variant" -> /\ \A i \in DOMAIN op.cases : alternativeOk(op.cases[i])
                                            /\ \A i \in DOMAIN op.default :
                                                  alternativeOk(op.default[i])
                    [] OTHER -> TRUE
    IN  \A i \in DOMAIN ops : ok(ops[i])
=============================================================================
