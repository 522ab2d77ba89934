------------------------------ MODULE Executable ------------------------------
(***************************************************************************)
(* What every backend relies on in a plan: the checks of                   *)
(* validateExecutablePlan (src/plan/PlanBuilder.cpp), the last ones that   *)
(* build() makes, and what the types of Plan.h hold by themselves.         *)
(*                                                                         *)
(* `ops[s]` is the set of the operations of struct s at every depth: the   *)
(* C++ code walks the bodies recursively, here they are closed under the   *)
(* bodies of their members.                                                *)
(***************************************************************************)
EXTENDS Plan, Functions

Orders == {"Little", "Big", "Native"}

\* A type refers to a struct of the plan, and has a terminator of bytes.
ExecutableType(p, type) ==
    /\ type.form = "struct" => type.ref \in DOMAIN p.structs
    /\ type.dims \in Seq(Range(type.dims))
    /\ {"form", "ref", "dims", "term", "max"} \subseteq DOMAIN type
    /\ type.term \in Seq(Nat) /\ type.max \in Nat

\* The widths of the fields add up: `left[i]` bits are left when field i is read.
AddUp(fields, total) ==
    \E left \in [1..(Len(fields) + 1) -> 0..total] :
        /\ left[1] = total /\ left[Len(fields) + 1] = 0
        /\ \A i \in 1..Len(fields) : /\ fields[i].width \in 1..64
                                     /\ left[i + 1] = left[i] - fields[i].width

ExecutableBits(op) ==
    /\ op.total \in 1..64
    /\ op.fields \in Seq(Range(op.fields))
    /\ \A i \in 1..Len(op.fields) : op.fields[i].endian \in Orders
    /\ AddUp(op.fields, op.total)

ExecutableOp(p, ops, op) ==
    /\ op.op \in {"field", "virtual", "alias", "bits", "align", "at", "block", "if", "variant",
                  "callback"}
    /\ op.op = "field" => op.endian \in Orders /\ ExecutableType(p, op.type)
    /\ op.op = "bits" => ExecutableBits(op)
    /\ op.op = "align" => op.to \in Nat \ {0}
    /\ op.op \in {"at", "block"} => op.body \in Seq(ops)
    /\ op.op = "if" => op.then \in Seq(ops) /\ op.else \in Seq(ops)
    /\ op.op = "variant" =>
          /\ DOMAIN op.cases = 1..Len(op.cases) /\ Len(op.cases) \in Nat
          /\ op.default # <<>> => 1 \in DOMAIN op.default
          /\ \A c \in Range(op.cases) \cup Range(op.default) :
                ExecutableType(p, c.type) /\ c.body \in Seq(ops)

ExecutablePlan(p, ops) ==
    /\ p.root \in DOMAIN p.structs
    /\ \A s \in DOMAIN p.structs :
          /\ p.structs[s].endian \in Orders
          /\ p.structs[s].body \in Seq(ops[s])
          /\ \A op \in ops[s] : ExecutableOp(p, ops[s], op)

-----------------------------------------------------------------------------
\* No struct contains itself (LayoutGraph.cpp): the structs can be ranked so that
\* each one holds only lower ones, in the types of its operations at every depth.
CasesOf(op) == Range(op.cases) \cup Range(op.default)

TypesOf(op) ==
    CASE op.op = "field"   -> {op.type}
      [] op.op = "variant" -> {c.type : c \in {d \in CasesOf(op) : d.typed}}
      [] OTHER             -> {}

Ranked(p, ops, rank) ==
    \A s \in DOMAIN p.structs : \A op \in ops[s] : \A type \in TypesOf(op) :
        type.form = "struct" => rank[type.ref] < rank[s]

-----------------------------------------------------------------------------
\* No value is used before it is there (validateMembersDependencies): every list
\* of operations can be given the symbols that it binds for what comes after it
\* and those it wants from what came before, so that those of a struct's body
\* need nothing but the constants and the parameters.

\* What is evaluated at once when an operation is reached, and when a type is read.
Uses(op) == CASE op.op = "virtual"  -> Symbols(op.expr)
              [] op.op = "alias"    -> {op.target}
              [] op.op = "at"       -> Symbols(op.offset)
              [] op.op = "block"    -> Symbols(op.size)
              [] op.op = "if"       -> Symbols(op.cond)
              [] op.op = "variant"  -> Symbols(op.tag)
              [] op.op = "callback" -> UNION {Symbols(op.args[i]) : i \in DOMAIN op.args}
              [] OTHER              -> {}
UsesOfType(type) == UNION {Symbols(d) : d \in Range(type.dims) \ {Rest}}

BodiesOf(op) ==
    CASE op.op \in {"at", "block"} -> {op.body}
      [] op.op = "if"      -> {op.then, op.else}
      [] op.op = "variant" -> {c.body : c \in {d \in CasesOf(op) : ~d.typed}}
      [] OTHER             -> {}

\* A branch and a case keep to themselves what they bind.
Binds(op, bound) ==
    CASE op.op \in {"virtual", "alias", "field"} -> {op.sym}
      [] op.op = "bits"            -> {op.fields[i].sym : i \in DOMAIN op.fields}
      [] op.op \in {"at", "block"} -> bound[op.body]
      [] OTHER                     -> {}

Globals(p) == DOMAIN p.params \cup DOMAIN p.consts
Required(p, s) == (UNION {Symbols(e) : e \in Range(p.structs[s].requires)}) \ Builtins

Derived(p, lists, bound, wanted) ==
    /\ \A s \in DOMAIN p.structs :
          LET body == p.structs[s].body
          IN  /\ body \in lists /\ wanted[body] \subseteq Globals(p)
              /\ Required(p, s) \subseteq Globals(p) \cup bound[body]
    /\ \A ops \in lists :
          IF ops = <<>> THEN bound[ops] = {}
          ELSE LET op == Head(ops)
                   next == Tail(ops)
               IN  /\ {next} \cup BodiesOf(op) \subseteq lists
                   /\ bound[ops] \subseteq Binds(op, bound) \cup bound[next]
                   /\ (Uses(op) \cup UNION {UsesOfType(type) : type \in TypesOf(op)}) \ Builtins
                         \subseteq wanted[ops]
                   /\ UNION {wanted[body] : body \in BodiesOf(op)} \subseteq wanted[ops]
                   /\ wanted[next] \ Binds(op, bound) \subseteq wanted[ops]

-----------------------------------------------------------------------------
\* A plan is a finite tree: the operations of a member are part of it (Plan.h) and
\* no struct contains itself, so that the calls that reading takes can be counted.
\* high[ops] frames are enough above a frame that runs ops; a type takes one for
\* every dimension, one for a terminator, and those of its struct.
FramesOfType(p, high, type) ==
    Len(type.dims) + (IF type.term = <<>> THEN 0 ELSE 1)
      + (IF type.form = "struct" THEN 1 + high[p.structs[type.ref].body] ELSE 0)

Heights(p, high) ==
    /\ high \in [DOMAIN high -> Nat]
    /\ \A s \in DOMAIN p.structs : p.structs[s].body \in DOMAIN high
    /\ \A ops \in DOMAIN high : ops # <<>> =>
          LET op == Head(ops)
              next == Tail(ops)
          IN  /\ {next} \cup BodiesOf(op) \subseteq DOMAIN high
              /\ high[next] <= high[ops]
              /\ op.op = "bits" => 1 <= high[ops]
              /\ \A body \in BodiesOf(op) : 1 + high[body] <= high[ops]
              /\ \A type \in TypesOf(op) : 1 + FramesOfType(p, high, type) <= high[ops]

\* The frames of the root struct.
Tall(p, high) == 1 + high[p.structs[p.root].body]

\* No terminated sequence is of structs.  The element of one of scalars takes a byte
\* at least; a struct may take none, and nothing that is checked of a plan forbids it.
Plain(type) == type.form = "struct" => type.term = <<>>
PlainSequences(p, ops) ==
    \A s \in DOMAIN p.structs : \A op \in ops[s] : \A type \in TypesOf(op) : Plain(type)
=============================================================================
