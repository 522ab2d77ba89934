-------------------------------- MODULE Names --------------------------------
(***************************************************************************)
(* The names in the body of a struct: what the analyzer requires of it     *)
(* (members() of src/semantic/SemanticAnalyzer.cpp), the symbols the IR    *)
(* builder binds them to (src/ir/IrBuilder.cpp) and the check of these by  *)
(* the plan builder (validateIRIdentity).  A body is a list of operations  *)
(* of Plan with names in the places of symbols.                            *)
(***************************************************************************)
EXTENDS LayoutGraph

\* Members that are declared in the scope of the body they are in; bit fields
\* are in a scope of their group.
Declaring == {"field", "virtual", "alias"}
DeclaredIn(ops) == {op.sym : op \in {o \in Range(ops) : o.op \in Declaring}}

-----------------------------------------------------------------------------
\* Analysis.

Distinct(names) == IsInjective(names)

TypeShapeOk(type, structs) ==
    /\ type.form = "struct" => type.ref \in structs
    /\ type.term # <<>> => \/ type.form = "bytes" /\ type.dims = <<>>
                           \/ type.dims = <<Rest>>
    /\ \A i \in DOMAIN type.dims :
          IF type.dims[i] = Rest THEN type.form = "bytes" \/ type.term # <<>>
                                 ELSE type.dims[i].kind # "is"

RECURSIVE MembersOk(_, _, _)
MembersOk(ops, structs, callbacks) ==
    LET inside(body) == MembersOk(body, structs, callbacks)
        members == SelectSeq(ops, LAMBDA op : op.op \in Declaring)
        alternativeOk(c) == IF c.typed THEN TypeShapeOk(c.type, structs) ELSE inside(c.body)
        ok(op) ==
            CASE op.op = "field" -> TypeShapeOk(op.type, structs) /\ Len(op.type.dims) <= 1
              [] op.op = "bits" ->
                    /\ op.total <= 64
                    /\ Distinct([i \in DOMAIN op.fields |-> op.fields[i].sym])
                    /\ \A i \in DOMAIN op.fields : op.fields[i].width \in 1..64
              [] op.op = "if" -> op.cond.kind = "is" /\ inside(op.then) /\ inside(op.else)
              [] op.op = "variant" -> \A c \in Range(Alternatives(op)) : alternativeOk(c)
              [] op.op = "block" -> op.size.kind # "is" /\ inside(op.body)
              [] op.op = "at" -> op.offset.kind # "is" /\ inside(op.body)
              [] op.op = "callback" -> /\ op.name \in DOMAIN callbacks
                                       /\ callbacks[op.name] = op.direction
              [] OTHER -> TRUE
    IN  /\ Distinct([i \in DOMAIN members |-> members[i].sym])
        /\ \A i \in DOMAIN ops : ok(ops[i])

-----------------------------------------------------------------------------
\* Resolution.  A place in a body is a chain of frames, innermost first: the
\* operations of a list, the path that tells the symbols declared there from
\* others of the same name, and the position in it.  `globals` gives the
\* symbols of the names of the module.  "" is the invalid symbol.

FirstIn(x, declared, chain, globals) ==
    LET found == {i \in DOMAIN chain : x \in DeclaredIn(declared[i])}
    IN  IF x \in Builtins THEN x
        ELSE IF found # {} THEN x \o chain[Min(found)].path
        ELSE IF x \in DOMAIN globals THEN globals[x] ELSE ""

\* Mutant of Resolve: the parent of every scope is the module.
ResolveFlat(x, chain, globals) ==
    FirstIn(x, <<chain[1].ops>>, <<chain[1]>>, globals)

\* Every declaration of a body is in scope in all of it.
Resolve(x, chain, globals) ==
    FirstIn(x, [i \in DOMAIN chain |-> chain[i].ops], chain, globals)

\* Reference: a declaration is in scope after it.
Nearest(x, chain, globals) ==
    FirstIn(x, [i \in DOMAIN chain |-> SubSeq(chain[i].ops, 1, chain[i].at - 1)], chain, globals)

\* lowerMember: a body with the symbols its names are bound to, by Resolve or,
\* if `early`, by Nearest.  A field is not in scope in its own type.
RECURSIVE BindMembers(_, _, _, _, _)
BindMembers(ops, path, outer, globals, early) ==
    LET bind(i) ==
            LET op == ops[i]
                chain == <<[ops |-> ops, path |-> path, at |-> i]>> \o outer
                look(x) == IF early THEN Nearest(x, chain, globals) ELSE Resolve(x, chain, globals)
                not(own, x) == IF x = own THEN "" ELSE look(x)
                expr(e, own) == IF e = Rest \/ e.kind = "lit" THEN e
                                ELSE [e EXCEPT !.id = not(own, @)]
                type(t, own) == [t EXCEPT !.dims = [j \in DOMAIN @ |-> expr(@[j], own)],
                                          !.ref = IF t.form = "struct" THEN not(own, @) ELSE @]
                body(b, sub) == BindMembers(b, path \o "." \o ToString(i) \o sub,
                                            chain, globals, early)
                alternative(c, sub) == IF c.typed THEN [c EXCEPT !.type = type(@, "")]
                                                  ELSE [c EXCEPT !.body = body(@, sub)]
            IN  CASE op.op = "virtual" -> [op EXCEPT !.sym = @ \o path, !.expr = expr(@, "")]
                  [] op.op = "alias" -> [op EXCEPT !.sym = @ \o path, !.target = look(@)]
                  [] op.op = "field" -> [op EXCEPT !.sym = @ \o path, !.type = type(@, op.sym)]
                  [] op.op = "bits" ->
                        [op EXCEPT !.fields = [j \in DOMAIN @ |->
                            [@[j] EXCEPT !.sym = @ \o path \o "." \o ToString(i)]]]
                  [] op.op = "at" -> [op EXCEPT !.offset = expr(@, ""), !.body = body(@, "")]
                  [] op.op = "block" -> [op EXCEPT !.size = expr(@, ""), !.body = body(@, "")]
                  [] op.op = "if" -> [op EXCEPT !.cond = expr(@, ""), !.then = body(@, "t"),
                                                !.else = body(@, "e")]
                  [] op.op = "variant" ->
                        [op EXCEPT !.tag = expr(@, ""),
                            !.cases = [j \in DOMAIN @ |-> alternative(@[j], "c" \o ToString(j))],
                            !.default = [j \in DOMAIN @ |-> alternative(@[j], "d")]]
                  [] op.op = "callback" ->
                        [op EXCEPT !.args = [j \in DOMAIN @ |-> expr(@[j], "")]]
                  [] OTHER -> op
    IN  [i \in DOMAIN ops |-> bind(i)]

\* requires: after all members.
BindStruct(struct, path, globals, early) ==
    LET end == <<[ops |-> struct.body, path |-> path, at |-> Len(struct.body) + 1]>>
        look(x) == IF early THEN Nearest(x, end, globals) ELSE Resolve(x, end, globals)
    IN  [struct EXCEPT !.body = BindMembers(@, path, <<>>, globals, early),
                       !.requires = [i \in DOMAIN @ |->
                           IF @[i].kind = "lit" THEN @[i] ELSE [@[i] EXCEPT !.id = look(@)]]]

-----------------------------------------------------------------------------
\* validateMemberIdentity: everything is bound, types to types and targets of
\* aliases to fields.

RECURSIVE Identified(_, _, _)
Identified(ops, types, fields) ==
    LET inside(body) == Identified(body, types, fields)
        expr(e) == e = Rest \/ "" \notin Symbols(e)
        all(es) == \A i \in DOMAIN es : expr(es[i])
        type(t) == all(t.dims) /\ (t.form = "struct" => t.ref \in types)
        ok(op) == CASE op.op = "virtual"  -> expr(op.expr)
                    [] op.op = "alias"    -> op.target \in fields
                    [] op.op = "field"    -> type(op.type)
                    [] op.op = "at"       -> expr(op.offset) /\ inside(op.body)
                    [] op.op = "block"    -> expr(op.size) /\ inside(op.body)
                    [] op.op = "if"       -> expr(op.cond) /\ inside(op.then) /\ inside(op.else)
                    [] op.op = "variant"  -> /\ expr(op.tag)
                                             /\ \A c \in Range(Alternatives(op)) :
                                                  IF c.typed THEN type(c.type) ELSE inside(c.body)
                    [] op.op = "callback" -> all(op.args)
                    [] OTHER              -> TRUE
    IN  \A i \in DOMAIN ops : ok(ops[i])
=============================================================================
