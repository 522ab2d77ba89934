---------------------------- MODULE LayoutGraph -----------------------------
(***************************************************************************)
(* The last checks before a plan is published (src/plan/LayoutGraph.cpp):  *)
(* the graph of the dependencies between values has no cycle, and no       *)
(* struct contains itself.                                                 *)
(***************************************************************************)
EXTENDS Layout

\* A graph is acyclic if taking away, again and again, the nodes whose
\* successors are gone leaves none.
Acyclic(nodes, next(_)) ==
    FoldSet(LAMBDA n, gone : {m \in nodes : next(m) \subseteq gone}, {}, nodes) = nodes

-----------------------------------------------------------------------------
\* The operations of a struct, however deep.
RECURSIVE OpsIn(_)
OpsIn(ops) ==
    LET inner(op) == CASE op.op \in {"at", "block"} -> OpsIn(op.body)
                       [] op.op = "if"      -> OpsIn(op.then \o op.else)
                       [] op.op = "variant" -> UNION {OpsIn(c.body) : c \in Range(Alternatives(op))}
                       [] OTHER             -> {}
    IN  Range(ops) \cup UNION {inner(ops[i]) : i \in DOMAIN ops}

-----------------------------------------------------------------------------
\* Static safety (safeType): the types of all operations, however deep.

RECURSIVE TypesIn(_)
TypesIn(ops) ==
    LET types(op) ==
            CASE op.op = "field" -> {op.type}
              [] op.op \in {"at", "block"} -> TypesIn(op.body)
              [] op.op = "if"      -> TypesIn(op.then \o op.else)
              [] op.op = "variant" -> UNION {{c.type} \cup TypesIn(c.body) :
                                                c \in Range(Alternatives(op))}
              [] OTHER             -> {}
    IN  UNION {types(ops[i]) : i \in DOMAIN ops}

Contained(struct) == {t.ref : t \in {u \in TypesIn(struct.body) : u.form = "struct"}}

\* Mutant of NoCycle: what a block holds is not followed.
NoCycleOutside(structs) ==
    Acyclic(DOMAIN structs, LAMBDA s : Contained([structs[s] EXCEPT !.body =
                                          SelectSeq(@, LAMBDA op : op.op # "block")]))

NoCycle(structs) == Acyclic(DOMAIN structs, LAMBDA s : Contained(structs[s]))

\* No block of a fixed size is empty (validateStaticLayoutSafety).
RECURSIVE NoEmptyBlock(_)
NoEmptyBlock(ops) ==
    LET ok(op) == CASE op.op = "block" -> op.static # {0} /\ NoEmptyBlock(op.body)
                    [] op.op = "at"    -> NoEmptyBlock(op.body)
                    [] op.op = "if"    -> NoEmptyBlock(op.then \o op.else)
                    [] op.op = "variant" -> \A c \in Range(Alternatives(op)) : NoEmptyBlock(c.body)
                    [] OTHER           -> TRUE
    IN  \A i \in DOMAIN ops : ok(ops[i])

-----------------------------------------------------------------------------
\* Dependencies between values: an edge from each operation to the symbols it
\* uses.  An operation that binds no symbol is a node without a name.  The
\* default alternative of a variant is not walked.

RECURSIVE Edges(_)
Edges(ops) ==
    LET from(name, symbols) == {name} \X symbols
        used(es) == UNION {Symbols(es[i]) : i \in {j \in DOMAIN es : es[j] # Rest}}
        alternative(c) == IF c.typed THEN from("", used(c.type.dims)) ELSE Edges(c.body)
        edges(op) ==
            CASE op.op = "virtual"  -> from(op.sym, Symbols(op.expr))
              [] op.op = "alias"    -> from(op.sym, {op.target})
              [] op.op = "field"    -> from(op.sym, used(op.type.dims))
              [] op.op = "if"       -> from("", Symbols(op.cond)) \cup Edges(op.then \o op.else)
              [] op.op = "variant"  -> from("", Symbols(op.tag))
                                          \cup UNION {alternative(c) : c \in Range(op.cases)}
              [] op.op = "block"    -> from("", Symbols(op.size)) \cup Edges(op.body)
              [] op.op = "at"       -> from("", Symbols(op.offset)) \cup Edges(op.body)
              [] op.op = "callback" -> from("", used(op.args))
              [] OTHER              -> {}
    IN  UNION {edges(ops[i]) : i \in DOMAIN ops}

RECURSIVE Nodes(_)
Nodes(ops) ==
    LET nodes(op) ==
            CASE op.op \in {"virtual", "alias", "field"} -> {op.sym}
              [] op.op = "bits" -> {op.fields[i].sym : i \in DOMAIN op.fields}
              [] op.op \in {"at", "block"} -> Nodes(op.body)
              [] op.op = "if"      -> Nodes(op.then \o op.else)
              [] op.op = "variant" -> UNION {Nodes(c.body) : c \in Range(op.cases)}
              [] OTHER             -> {}
    IN  UNION {nodes(ops[i]) : i \in DOMAIN ops}

\* buildLayoutGraph, validateLayoutGraph: every edge ends at a value that is
\* declared, and no value depends on itself.
GraphOk(struct, values) ==
    LET nodes == Nodes(struct.body)
        edges == {e \in Edges(struct.body) : e[2] \notin Builtins}
    IN  /\ \A e \in edges : e[2] \in nodes \cup values
        /\ Acyclic(nodes, LAMBDA n : {e[2] : e \in {f \in edges : f[1] = n}} \cap nodes)

-----------------------------------------------------------------------------
\* build() publishes the plan of a module.
Published(plan) ==
    /\ DependenciesOk(plan)
    /\ \A s \in DOMAIN plan.structs :
          /\ GraphOk(plan.structs[s], DOMAIN plan.params \cup DOMAIN plan.consts)
          /\ NoEmptyBlock(plan.structs[s].body)

\* What build() refuses whatever the layout.  A struct that holds itself is refused
\* here, before its size is asked for.
Lowerable(module) ==
    /\ \A s \in DOMAIN module.structs : /\ Lowers(module.structs[s].body, module.consts)
                                        /\ StarsBounded(module.structs[s].body, FALSE)
    /\ NoCycle(module.structs)

Accepted(module) == Lowerable(module) /\ Published(Build(module))
PlansOf(modules) ==
    {plan \in {Build(m) : m \in {n \in modules : Lowerable(n)}} : Published(plan)}
=============================================================================
