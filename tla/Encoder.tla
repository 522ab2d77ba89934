------------------------------- MODULE Encoder -------------------------------
(***************************************************************************)
(* The reference encoder (src/encoder/Encoder.cpp): it walks a plan with a *)
(* value and writes bytes.  Nothing of a failed encode is seen from        *)
(* outside (the data are handed out only on success), so the walk is a     *)
(* function of the writer and not a machine like the decoder.  It threads  *)
(* a record of the writer, the environment and how the walk stands:        *)
(*                                                                         *)
(*    ok      go on                                                        *)
(*    false   a callee returned false: the encode fails                    *)
(*    throw   an exception of the writer, which member() does not catch:   *)
(*            it leaves encode()                                           *)
(*                                                                         *)
(* The values, the options and the environment are those of the decoder.   *)
(***************************************************************************)
EXTENDS Decoder

CONSTANTS AllowTrailing,     \* Options::allowTrailingBlockBytes
          EncodeRegistered   \* names of the encode callbacks in the registry

\* `limit` holds the end of the innermost block, or nothing; `touch` is what
\* encode callbacks do.
Writer(e, touch) == [is |-> "ok", data |-> <<>>, pos |-> 0, order |-> "Little", limit |-> {},
                     env |-> e, depth |-> 0, touch |-> touch]
Bad(w) == [w EXCEPT !.is = "false"]
Threw(w) == [w EXCEPT !.is = "throw"]

\* A step hands on a walk that does not stand well as it is.
Ok(w) == w.is = "ok"

-----------------------------------------------------------------------------
\* Writer.

Fits(w, n) == \A end \in w.limit : n <= end - w.pos

Zeros(n) == [i \in 1..n |-> 0]
Extended(data, n) == IF n > Len(data) THEN data \o Zeros(n - Len(data)) ELSE data

\* Bytes at the position, over what is there.
Write(w, bytes) ==
    LET end == w.pos + Len(bytes)
        data == Extended(w.data, end)
    IN  IF ~Ok(w) THEN w
        ELSE IF ~Fits(w, Len(bytes)) THEN Threw(w)
        ELSE [w EXCEPT !.pos = end,
                       !.data = SubSeq(data, 1, w.pos) \o bytes \o SubSeq(data, end + 1, Len(data))]

\* Zeros replace what is there only if it reaches as far as they do; otherwise the
\* data just grow, and what is there stays.
WriteZeros(w, n) ==
    IF Ok(w) /\ Fits(w, n) /\ Len(w.data) < w.pos + n
    THEN [w EXCEPT !.pos = @ + n, !.data = Extended(@, w.pos + n)]
    ELSE Write(w, Zeros(n))

Move(w, pos) == IF ~Ok(w) THEN w
                ELSE IF \E end \in w.limit : pos > end THEN Threw(w)
                ELSE [w EXCEPT !.pos = pos, !.data = Extended(@, pos)]

\* The low n bytes of a number, in the order of the writer.
BytesOf(v, n, order) ==
    LET big == [i \in 1..n |-> (v \div 256^(n - i)) % 256]
    IN  IF Little(order) THEN Reverse(big) ELSE big

InRange(type, n) == LET half == 2^(8 * type.width - 1)
                    IN  IF type.signed THEN -half <= n /\ n < half ELSE 0 <= n /\ n < 2 * half

\* writeScalar has a try block of its own.
WriteScalar(w, type, v) ==
    IF v.t = "int" /\ InRange(type, v.v) /\ Fits(w, type.width)
    THEN Write(w, BytesOf(v.v, type.width, w.order)) ELSE Bad(w)

\* Mutant of Occurs: the payload is compared with the terminator only as a whole.
OccursWhole(term, bytes) == term = bytes

Occurs(term, bytes) ==
    \E i \in 0..Len(bytes) - Len(term) : SubSeq(bytes, i + 1, i + Len(term)) = term

\* A bytes value has the length of its first dimension, if that is a fixed one.
WriteBytes(w, type, v) ==
    LET fixed == type.dims # <<>> /\ type.dims[1] # Rest /\ ~(type.loose /\ Len(type.dims) = 1)
        size == type.dims[1]
    IN  IF fixed /\ ~CanSize(size, w.env) THEN Bad(w)
        ELSE IF v.t # "bytes" THEN Bad(w)
        ELSE IF fixed /\ Len(v.v) # Eval(size, w.env) THEN Bad(w)
        ELSE Write(w, v.v)

-----------------------------------------------------------------------------
\* Bit groups: every value is checked as it is packed.  endBits() throws while
\* bits are missing, so that any failure inside a group ends in an exception.

Packed(group, values) ==
    LET bits == FoldLeft(LAMBDA acc, f : acc * 2^f.width + values[f.sym], 0, group.fields)
    IN  bits * 2^(8 * BytesFor(group.total) - group.total)

WriteGroup(w, group, obj) ==
    LET syms == {group.fields[i].sym : i \in DOMAIN group.fields}
        values == [s \in syms |-> obj[s].v]
        ordered == [w EXCEPT !.order = group.fields[1].endian]
        fits(f) == /\ f.sym \in DOMAIN obj /\ obj[f.sym].t = "int"
                   /\ obj[f.sym].v \in 0..2^f.width - 1
                   /\ Asserted(f, obj[f.sym])
        bytes == BytesFor(group.total)
    IN  IF \A i \in DOMAIN group.fields : fits(group.fields[i])
        THEN [Write(ordered, BytesOf(Packed(group, values), bytes, ordered.order))
                 EXCEPT !.env = Merge(@, values)]
        ELSE Threw(w)

-----------------------------------------------------------------------------
\* bindAliases: the value given for an alias is bound to its target, before any
\* member is written; the two must agree if both are given.

BindAlias(w, op, obj) ==
    LET v == obj[op.sym] IN
    IF ~Ok(w) \/ op.sym \notin DOMAIN obj THEN w
    ELSE IF /\ v.t = "int"
            /\ op.target \in DOMAIN obj => Runtime(obj[op.target]) = v.v
            /\ op.target \in DOMAIN w.env => w.env[op.target] = v.v
         THEN [w EXCEPT !.env = Put(@, op.target, v.v)] ELSE Bad(w)

BindAliases(w, ops, obj) ==
    FoldLeft(LAMBDA x, op : BindAlias(x, op, obj), w, SelectSeq(ops, LAMBDA op : op.op = "alias"))

\* The registry's call for encoding.  What a callback writes is not held to the
\* limit; where it leaves the position is.
CallBack(w, op) ==
    LET over == [w EXCEPT !.limit = {}]
        done == CASE w.touch = "write"  -> Write(over, <<1>>)
                  [] w.touch = "rewind" -> [w EXCEPT !.pos = 0]
                  [] OTHER              -> w
    IN  IF \/ op.direction # "encode" \/ op.name \notin EncodeRegistered
           \/ \E i \in DOMAIN op.args : ~Evaluable(op.args[i], w.env)
           \/ w.touch \in {"fail", "beyond"}
        THEN Bad(w)
        ELSE Move([done EXCEPT !.limit = w.limit], done.pos)

-----------------------------------------------------------------------------
RECURSIVE WriteType(_, _, _), WriteArray(_, _, _), WriteUntil(_, _, _), WriteStruct(_, _, _),
          WriteMembers(_, _, _), WriteMember(_, _, _)

WriteType(w, type, v) ==
    IF ~Ok(w) THEN w
    ELSE IF type.term # <<>>     THEN WriteUntil(w, type, v)
    ELSE IF type.form = "bytes"  THEN WriteBytes(w, type, v)
    ELSE IF type.dims # <<>>     THEN WriteArray(w, type, v)
    ELSE IF type.form = "struct" THEN WriteStruct(w, type.ref, v)
    ELSE WriteScalar(w, type, v)

WriteArray(w, type, v) ==
    LET counts == [i \in DOMAIN type.dims |-> Eval(type.dims[i], w.env)]
        upTo(i) == FoldLeft(LAMBDA acc, n : acc * n, 1, SubSeq(counts, 1, i))
        element == [type EXCEPT !.dims = Tail(@)]
    IN  IF \E i \in DOMAIN type.dims : \/ type.dims[i] = Rest \/ ~CanSize(type.dims[i], w.env)
                                       \/ counts[i] > MaxArrayElements
                                       \/ upTo(i) > MaxArrayElements
        THEN Bad(w)
        ELSE IF /\ upTo(Len(counts)) * SizeofValue <= MaxAllocationBytes
                /\ v.t = "list" /\ Len(v.v) = counts[1]
        THEN FoldLeft(LAMBDA x, e : WriteType(x, element, e), w, v.v)
        ELSE Bad(w)

\* A terminated sequence.  Nothing is checked of the elements of a structured
\* one but the length of what they make, which is huge if they end before it began.
UpTo(w, start, max) == IF Ok(w) /\ Exceeds(w.pos - start, max) THEN Bad(w) ELSE w

WriteUntil(w, type, v) ==
    LET element == Until(Dims(type, <<>>), <<>>, 0) IN
    IF IsByteForm(type)
    THEN IF v.t = "bytes" /\ Len(v.v) <= type.max /\ ~Occurs(type.term, v.v)
         THEN Write(Write(w, v.v), type.term) ELSE Bad(w)
    ELSE IF IsSequenceForm(type) /\ v.t = "list"
         THEN Write(FoldLeft(LAMBDA x, e : UpTo(WriteType(x, element, e), w.pos, type.max),
                             w, v.v),
                    type.term)
         ELSE Bad(w)

\* The end of a struct entered from w, and of a field.
AfterStruct(x, w, struct) ==
    IF \/ ~Ok(x)
       \/ \A i \in DOMAIN struct.requires : /\ Evaluable(struct.requires[i], x.env)
                                            /\ Eval(struct.requires[i], x.env)
    THEN [x EXCEPT !.env = w.env, !.depth = w.depth] ELSE Bad(x)

AfterField(x, w, op, v) ==
    IF ~Ok(x) \/ \A n \in op.length : x.pos - w.pos = n
    THEN [x EXCEPT !.env = Put(@, op.sym, Runtime(v))] ELSE Bad(x)

\* A block is filled with zeros from where its members end.
Fill(x, w, end) ==
    IF ~Ok(x) THEN x
    ELSE IF x.pos < w.pos \/ (x.pos < end /\ ~AllowTrailing) THEN Bad(x)
    ELSE [WriteZeros(x, end - x.pos) EXCEPT !.limit = w.limit]

WriteStruct(w, name, v) ==
    LET struct == plan.structs[name]
        entered == [w EXCEPT !.depth = @ + 1, !.order = struct.endian,
                             !.env = Merge(@, SizeProperties(struct))]
    IN  IF v.t # "object" \/ w.depth + 1 > MaxRecursionDepth THEN Bad(w)
        ELSE AfterStruct(WriteMembers(entered, struct.body, v.v), w, struct)

WriteMembers(w, ops, obj) ==
    FoldLeft(LAMBDA x, op : WriteMember(x, op, obj), BindAliases(w, ops, obj), ops)

\* A field that the object lacks is taken from the environment, where an alias
\* of it may have put it.
WriteField(w, op, obj) ==
    LET v == IF op.sym \in DOMAIN obj THEN obj[op.sym] ELSE Num(w.env[op.sym]) IN
    IF op.sym \in DOMAIN obj \cup DOMAIN w.env /\ Asserted(op, v)
    THEN AfterField(WriteType([w EXCEPT !.order = op.endian], op.type, v), w, op, v) ELSE Bad(w)

\* Mutant of WriteBlock: a block ends where its members end.
WriteBlockUnfilled(w, op, obj) ==
    LET size == Chosen(op.static, op.size)
    IN  IF ~CanSize(size, w.env) THEN Bad(w)
        ELSE [WriteMembers([w EXCEPT !.limit = {w.pos + Eval(size, w.env)}], op.body, obj)
                 EXCEPT !.limit = w.limit]

\* Mutant of WriteBlock: the members of a block are not held to its end.
WriteBlockOpen(w, op, obj) ==
    LET size == Chosen(op.static, op.size)
        end == w.pos + Eval(size, w.env)
    IN  IF ~CanSize(size, w.env) \/ ~Fits(w, end - w.pos) THEN Bad(w)
        ELSE Fill(WriteMembers(w, op.body, obj), w, end)

WriteBlock(w, op, obj) ==
    LET size == Chosen(op.static, op.size)
        end == w.pos + Eval(size, w.env)
    IN  IF ~CanSize(size, w.env) THEN Bad(w)
        ELSE IF ~Fits(w, end - w.pos) THEN Threw(w)
        ELSE Fill(WriteMembers([w EXCEPT !.limit = {end}], op.body, obj), w, end)

\* Absolute placement, from the start of the output, under the active limit.
WriteAt(w, op, obj) ==
    LET known == Put(w.env, "$next", w.pos)
        offset == Chosen(op.static, op.offset)
    IN  IF ~CanSize(offset, known) THEN Bad(w)
        ELSE Move(WriteMembers(Move(w, Eval(offset, known)), op.body, obj), w.pos)

\* A typed alternative is written in whatever byte order the writer has.
WriteVariant(w, op, obj) ==
    LET chosen == SelectSeq(op.cases, LAMBDA c : c.tag = Eval(op.tag, w.env)) \o op.default
        inner == obj[op.sym].v
    IN  IF \/ op.sym \notin DOMAIN obj \/ obj[op.sym].t # "object"
           \/ ~Evaluable(op.tag, w.env) \/ chosen = <<>>
        THEN Bad(w)
        ELSE IF ~Head(chosen).typed THEN WriteMembers(w, Head(chosen).body, inner)
        ELSE IF "value" \in DOMAIN inner THEN WriteType(w, Head(chosen).type, inner["value"])
        ELSE Bad(w)

\* What a virtual member, or an alias, is bound to.
Bind(w, op, possible, v) == IF possible THEN [w EXCEPT !.env = Put(@, op.sym, v)] ELSE Bad(w)

WriteMember(w, op, obj) ==
    IF ~Ok(w) THEN w ELSE
    CASE op.op = "virtual"  -> Bind(w, op, Evaluable(op.expr, w.env), Eval(op.expr, w.env))
      [] op.op = "alias"    -> Bind(w, op, op.target \in DOMAIN w.env, w.env[op.target])
      [] op.op = "field"    -> WriteField(w, op, obj)
      [] op.op = "bits"     -> WriteGroup(w, op, obj)
      [] op.op = "align"    -> WriteZeros(w, AlignUp(w.pos, op.to) - w.pos)
      [] op.op = "at"       -> WriteAt(w, op, obj)
      [] op.op = "block"    -> WriteBlock(w, op, obj)
      [] op.op = "variant"  -> WriteVariant(w, op, obj)
      [] op.op = "callback" -> CallBack(w, op)
      [] op.op = "if" ->
            IF ~Evaluable(op.cond, w.env) THEN Bad(w)
            ELSE WriteMembers(w, IF Eval(op.cond, w.env) THEN op.then ELSE op.else, obj)

-----------------------------------------------------------------------------
\* run() and Engine::encode, with callbacks that do `touch`.
EncodeOf(v, touch) ==
    IF GoodParameters
    THEN WriteStruct(Writer(Merge(plan.given, plan.consts), touch), plan.root, v)
    ELSE Bad(Writer(plan.given, touch))
=============================================================================
