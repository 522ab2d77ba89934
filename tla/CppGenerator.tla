---------------------------- MODULE CppGenerator ----------------------------
(***************************************************************************)
(* The plans that the C++ generator takes (src/codegen/CppGenerator.cpp),  *)
(* and, as far as the names in it decide, whether what it emits compiles.  *)
(*                                                                         *)
(* The generated C++ has one object per struct, which also holds what is   *)
(* placed by an `at` or chosen by an `if`; a block and a case of a variant *)
(* are objects of their own, whose code sees their own members only.       *)
(***************************************************************************)
EXTENDS Layout

\* emitSizeExpr, emitRequireExpr.
SizeExpr(e) == e.kind \in {"lit", "sym"}
Test(e) == Symbols(e) \cap Builtins = {}

\* staticDimensionExtent: the dimension is a literal, and of kind Fixed.
Literal(type, i) == /\ type.dims[i] # Rest /\ type.dims[i].kind = "lit"
                    /\ ~(type.loose /\ i = Len(type.dims))

\* cppFieldType, emitDecodeField, emitEncodeField.
TypeEmits(type) ==
    \/ type.term # <<>> /\ (type.form = "bytes" \/ type.dims = <<Rest>>)
    \/ type.term = <<>> /\ type.dims = <<Rest>> /\ type.form = "bytes"
    \/ /\ type.term = <<>> /\ Rest \notin Range(type.dims)
       /\ type.dims = <<>> => type.form # "bytes"
       /\ \A i \in DOMAIN type.dims : SizeExpr(type.dims[i])

\* The operations that each construct may hold.
Allowed == [in \in {"struct", "at", "if", "case", "block"} |->
               CASE in = "struct" -> {"field", "bits", "virtual", "alias", "align", "at", "block",
                                      "if", "variant", "callback"}
                 [] in = "at"     -> {"field", "bits", "align", "callback"}
                 [] in = "if"     -> {"field", "bits", "if", "callback"}
                 [] in = "case"   -> {"field", "bits"}
                 [] in = "block"  -> {"field", "bits", "align"}]

RECURSIVE OpsEmit(_, _)
OpsEmit(ops, in) ==
    LET emits(op) ==
            CASE op.op = "field" -> TypeEmits(op.type)
              [] op.op = "at"    -> (op.static # {} \/ SizeExpr(op.offset)) /\ OpsEmit(op.body, "at")
              [] op.op = "block" -> SizeExpr(op.size) /\ OpsEmit(op.body, "block")
              [] op.op = "if"    -> /\ Test(op.cond)
                                    /\ OpsEmit(op.then, "if") /\ OpsEmit(op.else, "if")
              [] op.op = "variant" ->
                    /\ Test(op.tag)
                    /\ \A c \in Range(Alternatives(op)) :
                          IF c.typed THEN c.type.dims = <<>> ELSE OpsEmit(c.body, "case")
              [] OTHER -> TRUE
    IN  \A i \in DOMAIN ops : ops[i].op \in Allowed[in] /\ emits(ops[i])

-----------------------------------------------------------------------------
\* The operations whose members are members of one object, in a list.
RECURSIVE Flat(_)
Flat(ops) ==
    LET flat(op) == CASE op.op = "at" -> <<op>> \o Flat(op.body)
                      [] op.op = "if" -> <<op>> \o Flat(op.then) \o Flat(op.else)
                      [] OTHER        -> <<op>>
    IN  FlattenSeq([i \in DOMAIN ops |-> flat(ops[i])])

\* generateCpp takes the plan: an alias is a reference to a field of its object.
Emits(module) ==
    \A s \in DOMAIN module.structs :
        LET struct == module.structs[s]
            flat == Range(Flat(struct.body))
        IN  /\ OpsEmit(struct.body, "struct")
            /\ \A i \in DOMAIN struct.requires : Test(struct.requires[i])
            /\ \A op \in flat : op.op = "alias" =>
                  \E target \in flat : target.op = "field" /\ target.sym = op.target

-----------------------------------------------------------------------------
\* Names.  A member that is declared twice, a size or a test that uses what is no
\* member of its object (an alias is a function, and a constant is not looked for
\* among the members), and two locals of one name in one scope do not compile.

OwnBodies(op) ==
    CASE op.op = "block"   -> <<op.body>>
      [] op.op = "variant" -> [i \in DOMAIN Alternatives(op) |-> Alternatives(op)[i].body]
      [] OTHER             -> <<>>

Objects(struct) ==
    LET flat == Flat(struct.body)
    IN  {flat} \cup UNION {Range(OwnBodies(flat[i])) : i \in DOMAIN flat}

Declared(op) ==
    CASE op.op = "bits" -> [i \in DOMAIN op.fields |-> op.fields[i].sym]
      [] op.op \in {"field", "virtual", "alias", "variant"} -> <<op.sym>>
      [] OTHER          -> <<>>

Visible(flat) == UNION {Range(Declared(op)) : op \in {o \in Range(flat) :
                                                       o.op \in {"field", "bits", "virtual"}}}

\* What the operation uses as the code of a size or a test.
Reads(op) ==
    CASE op.op = "field"   -> UNION {Symbols(e) : e \in Range(op.type.dims) \ {Rest}}
      [] op.op = "at"      -> IF op.static = {} THEN Symbols(op.offset) ELSE {}
      [] op.op = "block"   -> Symbols(op.size)
      [] op.op = "if"      -> Symbols(op.cond)
      [] op.op = "variant" -> Symbols(op.tag)
      [] OTHER             -> {}

\* What it uses as an expression proper, where aliases and constants are known.
Computes(op) == CASE op.op = "virtual"  -> Symbols(op.expr)
                  [] op.op = "callback" -> UNION {Symbols(e) : e \in Range(op.args)}
                  [] OTHER              -> {}

ObjectCompiles(flat, module) ==
    LET declared == FlattenSeq([i \in DOMAIN flat |-> Declared(flat[i])])
        known == DOMAIN module.params \cup Visible(flat)
    IN  /\ IsInjective(declared)
        /\ \A op \in Range(flat) :
              /\ Reads(op) \subseteq known
              /\ Computes(op) \subseteq known \cup Range(declared) \cup DOMAIN module.consts

\* Branches and cases are scopes, and so are the functions of blocks; the members
\* of an `at` are not.
RECURSIVE Scopes(_)
Scopes(ops) ==
    LET inner(op) == CASE op.op = "if" -> Scopes(op.then) \cup Scopes(op.else)
                       [] OTHER        -> Range(OwnBodies(op))
    IN  {ops} \cup UNION {inner(ops[i]) : i \in DOMAIN ops}

RECURSIVE Locals(_)
Locals(op) ==
    CASE op.op = "field" ->
            IF op.type.term # <<>> \/ op.type.dims \in {<<>>, <<Rest>>} THEN <<>>
            ELSE IF op.type.form = "bytes" /\ Len(op.type.dims) = 1 THEN <<"n64">>
            ELSE IF Literal(op.type, 1) THEN <<>> ELSE <<"n064">>
      [] op.op = "bits"     -> <<"bitsRaw">>
      [] op.op = "align"    -> <<"align64">>
      [] op.op = "block"    -> <<"blockN64">>
      [] op.op = "callback" -> <<op.direction>>
      [] op.op = "at"       -> <<"at64">> \o FlattenSeq([i \in DOMAIN op.body |-> Locals(op.body[i])])
      [] OTHER              -> <<>>

\* Bytes of a literal length are an array, and are read as a vector.
Mismatched(type) == /\ type.term = <<>> /\ type.form = "bytes"
                    /\ Len(type.dims) = 1 /\ Literal(type, 1)

Compiles(module) ==
    \A s \in DOMAIN module.structs :
        LET struct == module.structs[s]
            flat == Flat(struct.body)
        IN  /\ \A object \in Objects(struct) :
                  /\ ObjectCompiles(object, module)
                  /\ \A op \in Range(object) : op.op = "field" => ~Mismatched(op.type)
            /\ UNION {Symbols(e) : e \in Range(struct.requires)}
                  \subseteq DOMAIN module.params \cup Visible(flat)
            /\ \A scope \in Scopes(struct.body) :
                  IsInjective(FlattenSeq([i \in DOMAIN scope |-> Locals(scope[i])]))
=============================================================================
