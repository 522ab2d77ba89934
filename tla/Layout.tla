------------------------------- MODULE Layout -------------------------------
(***************************************************************************)
(* The plan builder (src/plan/PlanBuilder.cpp) from the lowering of a      *)
(* struct to its layout: which lengths, sizes and offsets it computes at   *)
(* build time, and the layout bounds it gives a struct.                    *)
(*                                                                         *)
(* A size that may be unknown, or unbounded, is a set of at most one       *)
(* number.  Sizes do not overflow: LayoutSize has 64 bits.                 *)
(***************************************************************************)
EXTENDS Dependencies, SequencesExt

Sum(a, b) == {x + y : x \in a, y \in b}
Greater(a, b) == {IF x > y THEN x ELSE y : x \in a, y \in b}
Times(a, n) == {x * n : x \in a}
Larger(m, n) == IF m > n THEN m ELSE n
Smaller(m, n) == IF m < n THEN m ELSE n
RoundUp(n, to) == ((n + to - 1) \div to) * to
Storage(op) == (op.total + 7) \div 8
Product(numbers) == FoldLeft(LAMBDA acc, n : acc * n, 1, numbers)

Alternatives(op) == op.cases \o op.default

-----------------------------------------------------------------------------
\* Lowering (lowerOne, materializeExecutionType): what depends on constants
\* alone becomes a literal; a field remembers the product of its dimensions.

IsConstant(e, consts) == Symbols(e) \subseteq DOMAIN consts
FixedDims(type) == IF type.loose THEN Front(type.dims) ELSE type.dims
Fold(e, consts) == IF e # Rest /\ IsConstant(e, consts) THEN Lit(Eval(e, consts)) ELSE e
StaticOf(e, consts) == IF IsConstant(e, consts) THEN {Eval(e, consts)} ELSE {}

LowerType(type, consts) ==
    [type EXCEPT !.dims = [i \in DOMAIN @ |-> IF i <= Len(FixedDims(type))
                                              THEN Fold(@[i], consts) ELSE @[i]]]

\* staticLength: dimensions that are all fixed and known.
AllLiteral(type) == ~type.loose /\ \A i \in DOMAIN type.dims : type.dims[i].kind = "lit"
Extent(type) == Product([i \in DOMAIN type.dims |-> type.dims[i].value])
LengthOf(type) == IF type.dims # <<>> /\ AllLiteral(type) THEN {Extent(type)} ELSE {}

RECURSIVE LowerMembers(_, _)
LowerMembers(ops, consts) ==
    LET alternative(c) == [c EXCEPT !.type = LowerType(@, consts),
                                    !.body = LowerMembers(@, consts)]
        lower(op) ==
            CASE op.op = "field" ->
                    [op EXCEPT !.type = LowerType(@, consts),
                               !.length = LengthOf(LowerType(op.type, consts))]
              [] op.op = "block" -> [op EXCEPT !.static = StaticOf(op.size, consts),
                                               !.body = LowerMembers(@, consts)]
              [] op.op = "at" -> [op EXCEPT !.static = StaticOf(op.offset, consts),
                                            !.body = LowerMembers(@, consts)]
              [] op.op = "if" -> [op EXCEPT !.then = LowerMembers(@, consts),
                                            !.else = LowerMembers(@, consts)]
              [] op.op = "variant" ->
                    [op EXCEPT !.cases = [i \in DOMAIN @ |-> alternative(@[i])],
                               !.default = [i \in DOMAIN @ |-> alternative(@[i])]]
              [] OTHER -> op
    IN  [i \in DOMAIN ops |-> lower(ops[i])]

\* What lowering refuses: a constant size that does not evaluate, groups of no
\* bits or more than 64, alignment to zero, a tag twice, and (StarsBounded) a
\* [*] without bound.
RECURSIVE Lowers(_, _)
Lowers(ops, consts) ==
    LET size(e) == IsConstant(e, consts) => CanSize(e, consts)
        type(t) == /\ \A i \in DOMAIN FixedDims(t) : t.dims[i] # Rest => size(t.dims[i])
                   /\ t.term # <<>> => \/ t.form = "bytes" /\ t.dims = <<>>
                                       \/ t.dims = <<Rest>>
        ok(op) ==
            CASE op.op = "field" -> type(op.type)
              [] op.op = "bits"  -> op.total \in 1..64
              [] op.op = "align" -> op.to # 0
              [] op.op = "block" -> size(op.size) /\ Lowers(op.body, consts)
              [] op.op = "at"    -> size(op.offset) /\ Lowers(op.body, consts)
              [] op.op = "if"    -> Lowers(op.then, consts) /\ Lowers(op.else, consts)
              [] op.op = "variant" ->
                    /\ IsInjective([i \in DOMAIN op.cases |-> op.cases[i].tag])
                    /\ \A i \in DOMAIN Alternatives(op) :
                          LET c == Alternatives(op)[i] IN type(c.type) /\ Lowers(c.body, consts)
              [] OTHER -> TRUE
    IN  \A i \in DOMAIN ops : ok(ops[i])

-----------------------------------------------------------------------------
\* The size of a type that has one (fixedTypeSizeImpl).  A struct that is not
\* lowered yet has no members, and so the size zero.

RECURSIVE FixedSize(_, _)
FixedSize(type, structs) ==
    LET after(at, op) ==
            CASE op.op = "alias" -> at
              [] op.op = "field" -> Sum(at, FixedSize(op.type, structs))
              [] op.op = "bits"  -> Sum(at, {Storage(op)})
              [] op.op = "align" -> {RoundUp(n, op.to) : n \in at}
              [] OTHER           -> {}
        base == CASE type.form = "scalar" -> {type.width}
                  [] type.form = "bytes"  -> {1}
                  [] type.form = "struct" -> FoldLeft(after, {0}, structs[type.ref].body)
    IN  IF type.term = <<>> /\ AllLiteral(type) THEN Times(base, Extent(type)) ELSE {}

\* The end of the members of an `at` (fixedMembersExtent), from its offset.
RECURSIVE FixedExtent(_, _)
FixedExtent(ops, structs) ==
    LET step(acc, op) ==
            LET then == FixedExtent(op.then, structs)
                else == IF op.else = <<>> THEN {0} ELSE FixedExtent(op.else, structs)
                end == CASE op.op \in {"virtual", "alias"} -> {acc.cursor}
                         [] op.op = "field" -> Sum({acc.cursor}, FixedSize(op.type, structs))
                         [] op.op = "bits"  -> {acc.cursor + Storage(op)}
                         [] op.op = "align" -> {RoundUp(acc.cursor, op.to)}
                         [] op.op = "block" -> Sum({acc.cursor}, op.static)
                         [] op.op = "at"    -> Greater({acc.cursor},
                                                  Sum(op.static, FixedExtent(op.body, structs)))
                         [] op.op = "if"    -> Sum({acc.cursor}, then \cap else)
                         [] OTHER           -> {}
            IN  IF acc.end = {} \/ end = {} THEN [acc EXCEPT !.end = {}]
                ELSE [cursor |-> IF op.op = "at" THEN acc.cursor ELSE Max(end),
                      end    |-> Greater(acc.end, end)]
    IN  FoldLeft(step, [cursor |-> 0, end |-> {0}], ops).end

\* computeStructLayout: the offset of every `at` whose place is known.  It walks
\* the members of the struct itself, from offset zero, and passes a conditional
\* without advancing.
Place(body, structs) ==
    LET offset(op, at) == IF op.static = {} /\ CanSize(op.offset, "$next" :> at)
                          THEN {Eval(op.offset, "$next" :> at)} ELSE op.static
        step(acc, op) ==
            LET size == IF op.op = "field" THEN FixedSize(op.type, structs)
                        ELSE IF op.op = "bits" THEN {Storage(op)}
                        ELSE IF op.op = "align" THEN {RoundUp(acc.at, op.to) - acc.at}
                        ELSE IF op.op = "block" THEN op.static
                        ELSE {0}
                placed == IF op.op = "at" /\ acc.known
                          THEN [op EXCEPT !.static = offset(op, acc.at)] ELSE op
            IN  [at    |-> IF size = {} THEN acc.at ELSE acc.at + Max(size),
                 known |-> /\ acc.known /\ size # {}
                           /\ op.op \notin {"variant", "callback"}
                           /\ op.op = "at" => /\ placed.static # {}
                                              /\ FixedExtent(op.body, structs) # {},
                 body  |-> Append(acc.body, placed)]
    IN  FoldLeft(step, [at |-> 0, known |-> TRUE, body |-> <<>>], body).body

\* build() lowers the structs in source order and lays each out at once.
Lowered(module) ==
    LET lower(structs, name) ==
            [structs EXCEPT ![name].body =
                Place(LowerMembers(module.structs[name].body, module.consts), structs)]
    IN  FoldLeft(lower, [s \in DOMAIN module.structs |-> [module.structs[s] EXCEPT !.body = <<>>]],
                 module.order)

-----------------------------------------------------------------------------
\* Layout bounds: [min, max] of a type, and of a list of operations the bounds
\* of the cursor and of the extent, which an `at` may move beyond the cursor.

Bounds(min, max) == [min |-> min, max |-> max]
Unbounded == Bounds(0, {})
Exactly(n) == Bounds(n, {n})

From(n) == [cursor |-> Exactly(n), extent |-> Exactly(n)]
Grown(extent, b) == Bounds(Larger(extent.min, b.min), Greater(extent.max, b.max))
Moved(seq, cursor) == [cursor |-> cursor, extent |-> Grown(seq.extent, cursor)]
Plus(a, b) == Bounds(a.min + b.min, Sum(a.max, b.max))

\* Mutant of Either: an alternative after the first is not counted.
EitherFirst(a, b) == a

Either(a, b) == Bounds(Smaller(a.min, b.min), Greater(a.max, b.max))

RECURSIVE TypeBounds(_, _), SequenceBounds(_, _, _), MemberBounds(_, _)
TypeBounds(type, structs) ==
    LET base == CASE type.form = "scalar" -> Exactly(type.width)
                  [] type.form = "bytes"  -> Exactly(1)
                  [] type.form = "struct" ->
                        SequenceBounds(structs[type.ref].body, 0, structs).extent
    IN  IF type.term # <<>> THEN Bounds(Len(type.term), {type.max + Len(type.term)})
        ELSE IF AllLiteral(type) THEN Bounds(base.min * Extent(type), Times(base.max, Extent(type)))
        ELSE Unbounded

SequenceBounds(ops, start, structs) ==
    LET step(seq, op) ==
            CASE op.op = "at" ->
                    IF op.static = {} THEN [seq EXCEPT !.extent.max = {}]
                    ELSE [seq EXCEPT !.extent =
                            Grown(@, SequenceBounds(op.body, Max(op.static), structs).extent)]
              [] op.op = "align" ->
                    Moved(seq, Bounds(RoundUp(seq.cursor.min, op.to),
                                      {RoundUp(n, op.to) : n \in seq.cursor.max}))
              [] OTHER -> Moved(seq, Plus(seq.cursor, MemberBounds(op, structs)))
    IN  FoldLeft(step, From(start), ops)

MemberBounds(op, structs) ==
    LET branch(ops) == SequenceBounds(ops, 0, structs).extent
        alternative(c) == IF c.typed THEN TypeBounds(c.type, structs) ELSE branch(c.body)
        all == [i \in DOMAIN Alternatives(op) |-> alternative(Alternatives(op)[i])]
    IN  CASE op.op = "field"   -> TypeBounds(op.type, structs)
          [] op.op = "bits"    -> Exactly(Storage(op))
          [] op.op = "block"   -> IF op.static = {} THEN Unbounded ELSE Exactly(Max(op.static))
          [] op.op = "if"      -> Either(branch(op.then), branch(op.else))
          [] op.op = "variant" -> IF all = <<>> THEN Exactly(0)
                                  ELSE FoldLeft(Either, Head(all), Tail(all))
          [] OTHER             -> Exactly(0)

\* The plan of a module.
Build(module) ==
    LET structs == Lowered(module)
        bounds == [s \in DOMAIN structs |-> TypeBounds(Named(s), structs)]
    IN  [module EXCEPT !.structs = [s \in DOMAIN structs |->
            [structs[s] EXCEPT !.min = bounds[s].min, !.max = bounds[s].max]]]
=============================================================================
