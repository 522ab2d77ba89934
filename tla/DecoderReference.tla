-------------------------- MODULE DecoderReference --------------------------
(***************************************************************************)
(* What decoding a plan means, without a reader: a function of the input,  *)
(* a position and the end of the window that encloses it.  There is no     *)
(* stack of limits, nothing to undo and no byte order to leave behind: a   *)
(* construct is given its window, and a failure is a result.               *)
(*                                                                         *)
(* The decoder of module Decoder is compared with it at the end of every   *)
(* decode.  Results are [ok, pos, env, val]; val is the value read, or the *)
(* members of a list of operations.                                        *)
(***************************************************************************)
EXTENDS Decoder

Nothing == [ok |-> FALSE, pos |-> 0, env |-> NoMembers, val |-> NoMembers]
Got(pos, e, v) == [ok |-> TRUE, pos |-> pos, env |-> e, val |-> v]

At(bytes, pos) == SubSeq(input, pos + 1, pos + Len(bytes)) = bytes

RefScalar(type, pos, order) ==
    LET u == Number(pos, type.width, order)
        half == 2^(8 * type.width - 1)
    IN  IF type.signed /\ u >= half THEN u - 2 * half ELSE u

\* Bits a..b of a group, counted from the most significant bit of the number
\* that its bytes make in the order of the group.
RefBits(pos, group, a, b) ==
    LET bytes == BytesFor(group.total)
    IN  (Number(pos, bytes, group.fields[1].endian) \div 2^(8 * bytes - b)) % 2^(b - a)

RefWidth(group, i) == FoldLeft(LAMBDA acc, f : acc + f.width, 0, SubSeq(group.fields, 1, i))
RefField(pos, group, i) == RefBits(pos, group, RefWidth(group, i - 1), RefWidth(group, i))

\* The size properties a struct has are its own; it inherits none.
RefProperties(s, e) ==
    Merge([x \in DOMAIN e \ Builtins |-> e[x]], SizeProperties(s))

-----------------------------------------------------------------------------
RECURSIVE RefType(_, _, _, _, _), RefArray(_, _, _, _, _, _, _),
          RefUntil(_, _, _, _, _, _, _), RefOps(_, _, _, _, _, _), RefOp(_, _, _, _, _, _)

\* `type` read at pos, inside the window that ends at `end`, in `order`.
RefType(type, pos, end, order, e) ==
    LET term == type.term
        ends == {i \in pos..Minimum(end - Len(term), pos + type.max) : At(term, i)}
        n == IF type.dims[1] = Rest THEN end - pos ELSE Eval(type.dims[1], e)
        struct == plan.structs[type.ref]
        members == RefOps(struct.body, pos, end, struct.endian,
                          RefProperties(struct, e), NoMembers)
    IN
    CASE term # <<>> /\ IsByteForm(type) ->
            IF ends = {} THEN Nothing
            ELSE Got(Min(ends) + Len(term), e, Raw(SubSeq(input, pos + 1, Min(ends))))
      [] term # <<>> /\ ~IsByteForm(type) ->
            RefUntil(type, pos, pos, Minimum(end, pos + type.max + Len(term)), order, e, <<>>)
      [] term = <<>> /\ type.form = "bytes" ->
            IF type.dims = <<>> THEN Nothing
            ELSE IF type.dims[1] # Rest /\ ~CanSize(type.dims[1], e) THEN Nothing
            ELSE IF n > Minimum(MaxAllocationBytes, end - pos) THEN Nothing
            ELSE Got(pos + n, e, Raw(SubSeq(input, pos + 1, pos + n)))
      [] term = <<>> /\ type.form # "bytes" /\ type.dims # <<>> ->
            IF \E i \in DOMAIN type.dims :
                  type.dims[i] = Rest \/ ~CanSize(type.dims[i], e) THEN Nothing
            ELSE RefArray([type EXCEPT !.dims = Tail(@)], n, pos, end, order, e, <<>>)
      [] term = <<>> /\ type.form = "scalar" /\ type.dims = <<>> ->
            IF pos + type.width > end THEN Nothing
            ELSE Got(pos + type.width, e, Num(RefScalar(type, pos, order)))
      [] term = <<>> /\ type.form = "struct" /\ type.dims = <<>> ->
            IF members.ok /\ \A i \in DOMAIN struct.requires :
                                /\ Evaluable(struct.requires[i], members.env)
                                /\ Eval(struct.requires[i], members.env)
            THEN Got(members.pos, e, Object(members.val)) ELSE Nothing

RefArray(elem, n, pos, end, order, e, vals) ==
    LET v == RefType(elem, pos, end, order, e)
    IN  IF n > MaxArrayElements THEN Nothing
        ELSE IF n = Len(vals) THEN Got(pos, e, List(vals))
        ELSE IF v.ok THEN RefArray(elem, n, v.pos, end, order, e, Append(vals, v.val))
        ELSE Nothing

\* Elements up to the terminator, which is looked for only between them; the
\* payload, which began at `from`, is at most type.max bytes.
RefUntil(type, from, pos, end, order, e, vals) ==
    LET v == RefType(Until(Dims(type, <<>>), <<>>, 0), pos, end, order, e)
    IN  IF pos + Len(type.term) <= end /\ At(type.term, pos)
        THEN Got(pos + Len(type.term), e, List(vals))
        ELSE IF pos - from < type.max /\ v.ok /\ v.pos - from <= type.max
        THEN RefUntil(type, from, v.pos, end, order, e, Append(vals, v.val))
        ELSE Nothing

\* One operation; `val` of the result holds the members that `obj` has after it.
RefOp(op, pos, end, order, e, obj) ==
    LET here == Put(e, "$next", pos)
        field == RefType(op.type, pos, end, op.endian, e)
        widths == DOMAIN op.fields
        at == RefOps(op.body, Eval(op.offset, here), end, order, e, obj)
        size == Eval(op.size, e)
        block == RefOps(op.body, pos, pos + size, order, e, obj)
        cases == {i \in DOMAIN op.cases : op.cases[i].tag = Eval(op.tag, e)}
        chosen == IF cases # {} THEN op.cases[Min(cases)] ELSE op.default[1]
        typed == RefType(chosen.type, pos, end, order, e)
        case == RefOps(chosen.body, pos, end, order, e, NoMembers)
    IN
    CASE op.op = "virtual" ->
            IF Evaluable(op.expr, e)
            THEN Got(pos, Put(e, op.sym, Eval(op.expr, e)),
                     Put(obj, op.sym, Num(Eval(op.expr, e)))) ELSE Nothing
      [] op.op = "alias" ->
            Got(pos, Put(e, op.sym, e[op.target]), Put(obj, op.sym, Num(e[op.target])))
      [] op.op = "field" ->
            IF field.ok /\ Asserted(op, field.val)
            THEN Got(field.pos, Put(e, op.sym, Runtime(field.val)),
                     Put(obj, op.sym, field.val)) ELSE Nothing
      [] op.op = "bits" ->
            IF /\ pos + BytesFor(op.total) <= end
               /\ \A i \in widths : Asserted(op.fields[i], Num(RefField(pos, op, i)))
            THEN LET syms == {op.fields[i].sym : i \in widths}
                     value == [s \in syms |-> RefField(pos, op,
                                    CHOOSE i \in widths : op.fields[i].sym = s)]
                 IN  Got(pos + BytesFor(op.total), Merge(e, value),
                         Merge(obj, [s \in syms |-> Num(value[s])]))
            ELSE Nothing
      [] op.op = "align" ->
            IF AlignUp(pos, op.to) <= end THEN Got(AlignUp(pos, op.to), e, obj) ELSE Nothing
      [] op.op = "at" ->
            IF CanSize(op.offset, here) /\ Eval(op.offset, here) <= end /\ at.ok
            THEN Got(pos, at.env, at.val) ELSE Nothing
      [] op.op = "block" ->
            IF CanSize(op.size, e) /\ pos + size <= end /\ block.ok
            THEN Got(pos + size, block.env, block.val) ELSE Nothing
      [] op.op = "if" ->
            IF Evaluable(op.cond, e)
            THEN RefOps(IF Eval(op.cond, e) THEN op.then ELSE op.else, pos, end, order, e, obj)
            ELSE Nothing
      [] op.op = "variant" ->
            IF ~Evaluable(op.tag, e) \/ (cases = {} /\ op.default = <<>>) THEN Nothing
            ELSE IF chosen.typed
            THEN IF typed.ok
                 THEN Got(typed.pos, e,
                          Put(obj, op.sym, Object([x \in {"value"} |-> typed.val])))
                 ELSE Nothing
            ELSE IF case.ok
            THEN Got(case.pos, case.env, Put(obj, op.sym, Object(case.val)))
            ELSE Nothing
      [] op.op = "callback" -> Got(pos, e, obj)

RefOps(ops, pos, end, order, e, obj) ==
    LET next == RefOp(Head(ops), pos, end, order, e, obj)
    IN  IF ops = <<>> THEN Got(pos, e, obj)
        ELSE IF next.ok THEN RefOps(Tail(ops), next.pos, end, order, next.env, next.val)
        ELSE Nothing

Reference == RefType(Named(plan.root), 0, Size, "Little", Merge(plan.given, plan.consts))

-----------------------------------------------------------------------------
\* Outcomes the reference does not speak of: an option or the caller refused, a
\* callback failed, or a rollback was refused under nested limits.
Outside == {"parameters", "depth", "callback", "restore", "limit", "rollback"}

\* The decoder's walk with one shared reader, a stack of limits and rollbacks at
\* every level gives what the constructs mean in their own windows: it decodes
\* exactly the inputs the reference accepts, to the same object, and consumes
\* the same bytes.
MatchesReference ==
    /\ status = "decoded" => /\ Reference.ok
                             /\ ret = Return(Reference.val)
                             /\ consumed = Reference.pos
    /\ status = "failed" /\ err \notin Outside =>
            ~Reference.ok \/ (RequireFullInput /\ Reference.pos # Size)

\* "Nested terminated sequences are valid": an input that the constructs accept
\* is not rejected for the limits its sequences are nested under.
NestedSequencesDecode == status = "failed" /\ err = "restore" => ~Reference.ok
=============================================================================
