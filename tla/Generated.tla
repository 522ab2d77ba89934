----------------------------- MODULE Generated ------------------------------
(***************************************************************************)
(* The codec that the C++ generator emits (src/codegen/CppGenerator.cpp),  *)
(* as what the code it writes does: a function of the input to decode, and *)
(* of the value to encode.  It is compared with the decoder and encoder of *)
(* the runtime, which run the same plan.                                   *)
(*                                                                         *)
(* Values are those of the runtime: members placed by an `at`, chosen by   *)
(* an `if` or held by a block are members of the struct.                   *)
(***************************************************************************)
EXTENDS Codec, CppGenerator

\* Generated expressions are plain C++: the unsigned difference wraps around, to
\* a number that no input and no list is as large as.
Huge == 2147483647
ValueOf(e, known) == IF Evaluable(e, known) THEN Eval(e, known) ELSE Huge

-----------------------------------------------------------------------------
\* Decoding.  A record is threaded through the emitted functions: the Reader (p,
\* begin, limit, ok), the members read so far (env has their values), the value
\* that was read last, and how the code stands:
\*
\*    go         it goes on
\*    false      it returned false
\*    short      it returned false because the members of a block end before it
\*    hang       it is in a loop that changes nothing any more
\*    undefined  it read past the end of the input

Stop(d, how) == [d EXCEPT !.is = how]
Going(d) == d.is = "go"

\* r.need(): a reader that has failed once fails from then on, and the values
\* it gives are zero.  Nothing returns before the end of the field.
DecodeScalar(d, type, order) ==
    IF d.ok /\ d.p + type.width <= d.limit
    THEN [d EXCEPT !.p = @ + type.width, !.got = Num(RefScalar(type, d.p, order))]
    ELSE [d EXCEPT !.ok = FALSE, !.got = Num(0)]

DecodeBytes(d, n) ==
    IF d.ok /\ n <= d.limit - d.p
    THEN [d EXCEPT !.p = @ + n, !.got = Raw(SubSeq(input, d.p + 1, d.p + n))]
    ELSE [d EXCEPT !.ok = FALSE, !.got = Raw(<<>>)]

\* r.d[r.p++], which asks for nothing.
DecodeByte(d) == IF d.p < Size THEN [d EXCEPT !.p = @ + 1, !.got = Num(input[d.p + 1])]
                 ELSE Stop(d, "undefined")

\* getTerminatedBytes.
DecodeTerminated(d, type) ==
    LET ends == {i \in d.p..Minimum(d.limit - Len(type.term), d.p + type.max) : At(type.term, i)}
    IN  IF ends = {} THEN Stop([d EXCEPT !.ok = FALSE], "false")
        ELSE [d EXCEPT !.p = Min(ends) + Len(type.term),
                       !.got = Raw(SubSeq(input, d.p + 1, Min(ends)))]

DecodeBits(d, group) ==
    LET syms == {group.fields[i].sym : i \in DOMAIN group.fields}
        index(s) == CHOOSE i \in DOMAIN group.fields : group.fields[i].sym = s
        values == [s \in syms |-> RefField(d.p, group, index(s))]
        bytes == BytesFor(group.total)
    IN  IF d.ok /\ d.p + bytes <= d.limit
        THEN [d EXCEPT !.p = @ + bytes, !.env = Merge(@, values),
                       !.val = Merge(@, [s \in syms |-> Num(values[s])])]
        ELSE Stop(d, "false")

Member(d, sym, v) == [d EXCEPT !.val = Put(@, sym, v), !.env = Put(@, sym, Runtime(v))]

RECURSIVE DecodeLeaf(_, _, _), DecodeArray(_, _, _), DecodeUntil(_, _, _, _, _),
          DecodeOps(_, _), DecodeOp(_, _)

DecodeLeaf(d, type, order) ==
    LET struct == plan.structs[type.ref]
        body == DecodeOps([d EXCEPT !.val = NoMembers, !.order = struct.endian], struct.body)
        met == \A i \in DOMAIN struct.requires : ValueOf(struct.requires[i], body.env)
    IN  CASE type.form = "scalar" -> DecodeScalar(d, type, order)
          [] type.form = "bytes"  -> DecodeByte(d)
          [] type.form = "struct" ->
                IF ~Going(body) THEN body
                ELSE [body EXCEPT !.is = IF body.ok /\ met THEN "go" ELSE "false",
                                  !.got = Object(body.val), !.val = d.val, !.env = d.env,
                                  !.order = d.order]

\* emitDecodeArrayLevel: only a count that is read is held to the limit, and every
\* dimension on its own.
DecodeArray(d, type, order) ==
    LET n == ValueOf(type.dims[1], d.env)
        element == [type EXCEPT !.dims = Tail(@)]
        next(x) == IF element.dims = <<>> THEN DecodeLeaf(x, element, order)
                   ELSE DecodeArray(x, element, order)
        add(x, i) == IF ~Going(x) THEN x
                     ELSE [next(x) EXCEPT !.got = List(Append(x.got.v, @))]
    IN  IF ~Literal(type, 1) /\ n > MaxArrayElements THEN Stop(d, "false")
        ELSE FoldLeft(add, [d EXCEPT !.got = List(<<>>)], [i \in 1..n |-> i])

\* The loop of a structured sequence.  An element that is not there moves the
\* reader no further and ends nothing, unless it is a struct.
DecodeUntil(d, type, order, from, vals) ==
    LET x == DecodeLeaf(d, Dims(type, <<>>), order)
    IN  IF d.p + Len(type.term) <= d.limit /\ At(type.term, d.p)
        THEN [d EXCEPT !.p = @ + Len(type.term), !.got = List(vals)]
        ELSE IF d.p - from >= type.max THEN Stop(d, "false")
        ELSE IF ~Going(x) THEN x
        ELSE IF x.p - from > type.max THEN Stop(d, "false")
        ELSE IF x.p = d.p THEN Stop(d, "hang")
        ELSE DecodeUntil(x, type, order, from, Append(vals, x.got))

DecodeField(d, op) ==
    LET type == op.type
        x == CASE type.term # <<>> /\ type.dims = <<Rest>> ->
                    DecodeUntil(d, type, op.endian, d.p, <<>>)
               [] type.term # <<>> /\ type.dims # <<Rest>> -> DecodeTerminated(d, type)
               [] type.term = <<>> /\ type.dims = <<Rest>> -> DecodeBytes(d, d.limit - d.p)
               [] type.term = <<>> /\ type.form = "bytes" /\ type.dims # <<Rest>> ->
                    DecodeBytes(d, ValueOf(type.dims[1], d.env))
               [] type.term = <<>> /\ type.form # "bytes" ->
                    IF type.dims = <<>> THEN DecodeLeaf(d, type, op.endian)
                    ELSE DecodeArray(d, type, op.endian)
    IN  IF ~Going(x) THEN x ELSE IF x.ok THEN Member(x, op.sym, x.got) ELSE Stop(x, "false")

\* Mutant of DecodeAt: the reader stays where the members end.
DecodeAtStays(d, op) ==
    LET offset == ValueOf(Chosen(op.static, op.offset), d.env)
    IN  IF offset \notin d.begin..d.limit THEN Stop(d, "false")
        ELSE DecodeOps([d EXCEPT !.p = offset], op.body)

DecodeAt(d, op) ==
    LET offset == ValueOf(Chosen(op.static, op.offset), d.env)
    IN  IF offset \notin d.begin..d.limit THEN Stop(d, "false")
        ELSE [DecodeOps([d EXCEPT !.p = offset], op.body) EXCEPT !.p = d.p]

\* A block has a Reader of its own, and must be read to its end.
DecodeBlock(d, op) ==
    LET n == ValueOf(op.size, d.env)
        end == d.p + n
        x == DecodeOps([d EXCEPT !.begin = d.p, !.limit = end, !.ok = TRUE], op.body)
    IN  IF n > d.limit - d.p THEN Stop(d, "false")
        ELSE IF ~Going(x) THEN x
        ELSE IF ~x.ok THEN Stop(x, "false")
        ELSE IF x.p # end THEN Stop(x, "short")
        ELSE [x EXCEPT !.begin = d.begin, !.limit = d.limit, !.ok = d.ok]

\* Nothing is asked of the reader after a typed alternative.
DecodeVariant(d, op) ==
    LET chosen == SelectSeq(op.cases, LAMBDA c : c.tag = ValueOf(op.tag, d.env)) \o op.default
        c == Head(chosen)
        x == IF c.typed THEN DecodeLeaf(d, c.type, d.order)
             ELSE DecodeOps([d EXCEPT !.val = NoMembers], c.body)
    IN  IF chosen = <<>> THEN Stop(d, "false")
        ELSE IF ~Going(x) THEN x
        ELSE [x EXCEPT !.val = Put(d.val, op.sym,
                                   Object(IF c.typed THEN "value" :> x.got ELSE x.val))]

\* Virtual members and aliases are accessors: they cost nothing until used.
DecodeOp(d, op) ==
    CASE op.op = "field"   -> DecodeField(d, op)
      [] op.op = "bits"    -> DecodeBits(d, op)
      [] op.op = "virtual" -> Member(d, op.sym, Num(ValueOf(op.expr, d.env)))
      [] op.op = "alias"   -> Member(d, op.sym, Num(ValueOf(Sym(op.target), d.env)))
      [] op.op = "align"   -> IF d.ok /\ AlignUp(d.p, op.to) <= d.limit
                              THEN [d EXCEPT !.p = AlignUp(@, op.to)] ELSE Stop(d, "false")
      [] op.op = "at"      -> DecodeAt(d, op)
      [] op.op = "block"   -> DecodeBlock(d, op)
      [] op.op = "if"      -> DecodeOps(d, IF ValueOf(op.cond, d.env) THEN op.then ELSE op.else)
      [] op.op = "variant" -> DecodeVariant(d, op)
      [] op.op = "callback" -> IF op.direction = "decode" /\ op.name \notin Registered
                               THEN Stop(d, "false") ELSE d

DecodeOps(d, ops) == FoldLeft(LAMBDA x, op : IF Going(x) THEN DecodeOp(x, op) ELSE x, d, ops)

\* decode__Root, with a callback that does nothing.
GeneratedDecode ==
    DecodeLeaf([is |-> "go", ok |-> TRUE, p |-> 0, begin |-> 0, limit |-> Size,
                env |-> Merge(plan.given, plan.consts), val |-> NoMembers, got |-> Num(0),
                order |-> "Little"],
               Named(plan.root), "Little")

-----------------------------------------------------------------------------
\* Encoding, with the writer of module Encoder, which here has no limit.  The
\* members of a struct are there from the start, and so are the values of its
\* virtual members and aliases; a member may be set through its alias.

NewBuffer(w, known) == [Writer(known, w.touch) EXCEPT !.order = w.order]

Assigned(obj, ops) ==
    FoldLeft(LAMBDA o, op : IF op.op = "alias" /\ op.sym \in DOMAIN o /\ op.target \notin DOMAIN o
                            THEN Put(o, op.target, o[op.sym]) ELSE o, obj, ops)

Accessors(known, ops) ==
    FoldLeft(LAMBDA e, op : IF op.op = "virtual" THEN Put(e, op.sym, ValueOf(op.expr, e))
                            ELSE IF op.op = "alias" THEN Put(e, op.sym, ValueOf(Sym(op.target), e))
                            ELSE e, known, ops)

\* putTerminatedBytes.
EncodeTerminated(w, type, v) ==
    IF Len(v.v) > type.max \/ Occurs(type.term, v.v) THEN Bad(w)
    ELSE Write(Write(w, v.v), type.term)

\* A value is cut to the width of its field, and zeros stand for what is missing.
EncodeBits(w, group, obj) ==
    LET syms == {group.fields[i].sym : i \in DOMAIN group.fields}
        width(s) == group.fields[CHOOSE i \in DOMAIN group.fields : group.fields[i].sym = s].width
        values == [s \in syms |-> IF s \in DOMAIN obj THEN obj[s].v % 2^width(s) ELSE 0]
    IN  Write(w, BytesOf(Packed(group, values), BytesFor(group.total), group.fields[1].endian))

RECURSIVE EncodeLeaf(_, _, _, _), EncodeArray(_, _, _, _), EncodeOps(_, _, _), EncodeOp(_, _, _)

\* A struct is written into a buffer of its own, its requirements first.
EncodeLeaf(w, type, order, v) ==
    LET struct == plan.structs[type.ref]
        obj == Assigned(v.v, struct.body)
        known == Accessors(Merge(w.env, [s \in DOMAIN obj |-> Runtime(obj[s])]), struct.body)
        start == [NewBuffer(w, known) EXCEPT !.order = struct.endian]
        met == \A i \in DOMAIN struct.requires : ValueOf(struct.requires[i], known)
        body == EncodeOps(start, struct.body, obj)
    IN  CASE type.form = "scalar" -> Write(w, BytesOf(v.v, type.width, order))
          [] type.form = "bytes"  -> Write(w, BytesOf(v.v, 1, order))
          [] type.form = "struct" -> IF ~met THEN Bad(w) ELSE IF Ok(body) THEN Write(w, body.data)
                                     ELSE Stop(w, body.is)

\* A list that is longer or shorter than a literal dimension is not a value.
EncodeArray(w, type, order, v) ==
    LET n == ValueOf(type.dims[1], w.env)
        element == [type EXCEPT !.dims = Tail(@)]
        put(x, e) == IF ~Ok(x) THEN x
                     ELSE IF element.dims = <<>> THEN EncodeLeaf(x, element, order, e)
                     ELSE EncodeArray(x, element, order, e)
    IN  IF Len(v.v) # n \/ (~Literal(type, 1) /\ n > MaxArrayElements) THEN Bad(w)
        ELSE FoldLeft(put, w, v.v)

\* Mutant of EncodeUntil: the terminator is not written.
EncodeUntilOpen(w, type, order, v) ==
    LET element == Until(Dims(type, <<>>), <<>>, 0)
        put(x, e) == IF Ok(x) THEN UpTo(EncodeLeaf(x, element, order, e), w.pos, type.max) ELSE x
    IN  FoldLeft(put, w, v.v)

EncodeUntil(w, type, order, v) ==
    LET element == Until(Dims(type, <<>>), <<>>, 0)
        put(x, e) == IF Ok(x) THEN UpTo(EncodeLeaf(x, element, order, e), w.pos, type.max) ELSE x
    IN  Write(FoldLeft(put, w, v.v), type.term)

EncodeField(w, op, v) ==
    LET type == op.type IN
    CASE type.term # <<>> /\ type.dims = <<Rest>> -> EncodeUntil(w, type, op.endian, v)
      [] type.term # <<>> /\ type.dims # <<Rest>> -> EncodeTerminated(w, type, v)
      [] type.term = <<>> /\ type.dims = <<Rest>> -> Write(w, v.v)
      [] type.term = <<>> /\ type.form = "bytes" /\ type.dims # <<Rest>> ->
            IF Len(v.v) = ValueOf(type.dims[1], w.env) THEN Write(w, v.v) ELSE Stop(w, "short")
      [] type.term = <<>> /\ type.form # "bytes" ->
            IF type.dims = <<>> THEN EncodeLeaf(w, type, op.endian, v)
            ELSE EncodeArray(w, type, op.endian, v)

\* A block is written into a buffer of its own, which is put at the end of the
\* output; the position stays where it was.
EncodeBlock(w, op, obj) ==
    LET block == EncodeOps(NewBuffer(w, w.env), op.body, obj)
    IN  IF ~Ok(block) THEN Stop(w, block.is)
        ELSE IF Len(block.data) # ValueOf(op.size, w.env) THEN Stop(w, "short")
        ELSE [w EXCEPT !.data = @ \o block.data]

\* w.seek(), the members, and back.
EncodeAt(w, op, obj) ==
    LET there == Move(w, ValueOf(Chosen(op.static, op.offset), w.env))
    IN  [EncodeOps(there, op.body, obj) EXCEPT !.pos = w.pos]

\* The alternative held by the object is the one its discriminator says.
EncodeVariant(w, op, obj) ==
    LET chosen == SelectSeq(op.cases, LAMBDA c : c.tag = ValueOf(op.tag, w.env)) \o op.default
        c == Head(chosen)
        inner == obj[op.sym].v
    IN  IF chosen = <<>> THEN Bad(w)
        ELSE IF c.typed THEN EncodeLeaf(w, c.type, w.order, inner["value"])
        ELSE EncodeOps(w, c.body, inner)

EncodeOp(w, op, obj) ==
    CASE op.op = "field"   -> IF op.sym \in DOMAIN obj THEN EncodeField(w, op, obj[op.sym])
                              ELSE Bad(w)
      [] op.op = "bits"    -> EncodeBits(w, op, obj)
      [] op.op = "align"   -> Move(w, AlignUp(w.pos, op.to))
      [] op.op = "at"      -> EncodeAt(w, op, obj)
      [] op.op = "block"   -> EncodeBlock(w, op, obj)
      [] op.op = "if"      -> EncodeOps(w, IF ValueOf(op.cond, w.env) THEN op.then ELSE op.else, obj)
      [] op.op = "variant" -> EncodeVariant(w, op, obj)
      [] op.op = "callback" -> IF op.direction = "encode" THEN CallBack(w, op) ELSE w
      [] OTHER             -> w

EncodeOps(w, ops, obj) ==
    FoldLeft(LAMBDA x, op : IF Ok(x) THEN EncodeOp(x, op, obj) ELSE x, w, ops)

\* encode__Root.
GeneratedEncode(v, touch) ==
    EncodeLeaf(Writer(Merge(plan.given, plan.consts), touch), Named(plan.root), "Little", v)

-----------------------------------------------------------------------------
\* Where the two backends are not to agree: what the generator does not take, or
\* not compile, and what is known to differ (README.md).

Generates == GoodParameters /\ Emits(plan) /\ Compiles(plan)

\* The byte order of a typed alternative is that of the struct for the generated
\* code, and that of the last field for the runtime.
OneOrder ==
    \A s \in DOMAIN plan.structs :
        LET ops == Range(Flat(plan.structs[s].body))
            typed == {c \in UNION {Range(Alternatives(op)) : op \in {o \in ops : o.op = "variant"}} :
                         c.typed}
        IN  (\E c \in typed : c.type.width > 1) =>
                \A op \in ops : op.op = "field" => op.endian = plan.structs[s].endian

\* A block written before something else, or after an `at`, is out of its place.
BlocksLast ==
    \A s \in DOMAIN plan.structs :
        LET ops == plan.structs[s].body
        IN  \A i \in DOMAIN ops : ops[i].op = "block" =>
                i = Len(ops) /\ \A j \in DOMAIN ops : ops[j].op # "at"

\* Positions in a struct that is a member, and in a block, are counted from the
\* start of its own buffer.
PlacedAtRoot ==
    \A s \in DOMAIN plan.structs :
        LET flat == Flat(plan.structs[s].body)
            places(ops) == \E op \in Range(ops) : op.op \in {"align", "at", "callback"}
        IN  /\ s # plan.root => ~places(flat)
            /\ \A op \in Range(flat) : op.op = "block" => ~places(op.body)

InPlace == OneOrder /\ BlocksLast /\ PlacedAtRoot /\ ~Erases(plan.structs[plan.root].body)

\* "The observable fields and consumed byte count must agree": the generated
\* decoder reads what the decoder reads, from the same bytes, but for blocks that
\* are not filled; and it reads nothing that the decoder refuses, except that it
\* makes no assertion and computes no virtual member that is not used.  What is
\* missing from a sequence of scalars keeps it waiting for the terminator.
GeneratedDecodesAlike ==
    turn = "decode" /\ status \in {"decoded", "failed"} /\ Generates /\ OneOrder =>
        LET d == GeneratedDecode
            lenient == Outside \cup {"assert"} \cup (IF Has({"virtual"}) THEN {"expression"} ELSE {})
            scalars == \E t \in PlanTypes : t.term # <<>> /\ t.dims = <<Rest>> /\ t.form = "scalar"
        IN  /\ status = "decoded" =>
                  \/ Going(d) /\ d.got = ret.value /\ d.p = consumed
                  \/ d.is = "short"
            /\ status = "failed" /\ err \notin lenient =>
                  d.is \in {"false", "short"} \/ (d.is = "hang" /\ scalars)

\* "For supported cases, bytes A == bytes B": what the encoder accepts, decoded
\* from an input or not, the generated encoder writes as the same bytes, unless
\* the members do not fill a block, or bytes are not as many as their length.
GeneratedEncodesAlike ==
    turn = "written" /\ out.is = "ok" /\ Generates /\ InPlace =>
        LET w == GeneratedEncode(value, out.touch)
        IN  (Ok(w) /\ w.data = out.data) \/ w.is = "short"

\* The same without the exceptions, for what was just decoded.
BackendsWriteAlike ==
    turn = "written" /\ out.is = "ok" /\ first # None /\ Generates =>
        LET w == GeneratedEncode(value, out.touch) IN Ok(w) => w.data = out.data
=============================================================================
