------------------------------- MODULE Decoder -------------------------------
(***************************************************************************)
(* The reference decoder (src/decoder/Decoder.cpp): it walks a plan over a *)
(* reader and builds the decoded object.  The recursion of the C++ code is *)
(* the stack `frames`; `ret` is what the top frame is to do next:          *)
(*                                                                         *)
(*    step    go on with the frame                                         *)
(*    type    a call of readType                                           *)
(*    value   a readType returned true with this value                     *)
(*    false   the callee returned false: unwind, undoing as each frame does *)
(*    throw   an exception: unwind to the next member(), undoing nothing   *)
(*                                                                         *)
(* member() catches exceptions, so the frames it pushes (operations with a *)
(* body, and fields) turn a throw into false; the frames of readType and   *)
(* readStruct let it pass.                                                 *)
(***************************************************************************)
EXTENDS Reader, Executable, FiniteSetsExt

CONSTANTS
    Plans,             \* the plans to decode with
    Operations(_),     \* Operations(p)[s]: the operations of struct s of plan p, at every depth
    Inputs,            \* the inputs, sequences of Size bytes
    HostLittle,        \* hostLittleEndian()
    Registered,        \* names of the decode callbacks in the registry
    Touches,           \* what callbacks do to the reader, of the names below
    RequireFullInput, MaxArrayElements, MaxAllocationBytes, MaxRecursionDepth,
    SizeofValue,       \* sizeof(Value), which the memory of an array is counted in
    MaxKept            \* bound of the model: elements kept of a decoded list

ASSUME PlanAssumption == \A p \in Plans : ExecutablePlan(p, Operations(p))
ASSUME HostAssumption == HostLittle \in BOOLEAN
ASSUME InputAssumption == \A bytes \in Inputs : bytes \in [1..Size -> 0..255]
ASSUME OptionAssumption == {MaxArrayElements, MaxAllocationBytes, MaxRecursionDepth,
                             SizeofValue, MaxKept} \subseteq Nat

VARIABLES
    plan, input,       \* what is decoded; never changes
    rd,                \* the reader
    env,               \* the symbol environment
    frames,            \* the call stack, the root struct first
    ret,               \* what the top frame is to do next
    err,               \* why the decode failed, or "none"
    diag,              \* offset in the diagnostic, or NoDiag
    status, consumed   \* the Result

vars == <<plan, input, rd, env, frames, ret, err, diag, status, consumed>>
outcome == <<plan, input, status, consumed>>

NoDiag == -1
Step == [is |-> "step"]
False == [is |-> "false"]
Throw == [is |-> "throw"]
Return(v) == [is |-> "value", value |-> v]
CallType(type) == [is |-> "type", type |-> type]

\* Decoded values, and what the environment keeps of one (toRuntime).
Num(n) == [t |-> "int", v |-> n]
Raw(bytes) == [t |-> "bytes", v |-> bytes]
List(vals) == [t |-> "list", v |-> vals]
Object(obj) == [t |-> "object", v |-> obj]
Runtime(v) == IF v.t = "int" THEN v.v ELSE 0

NoMembers == [x \in {} |-> 0]
Put(f, x, v) == [y \in DOMAIN f \cup {x} |-> IF y = x THEN v ELSE f[y]]
Merge(f, g) == [y \in DOMAIN f \cup DOMAIN g |-> IF y \in DOMAIN g THEN g[y] ELSE f[y]]

\* push_back, kept finite: a list longer than MaxKept stands for all longer ones.
Keep(vals, v) == IF Len(vals) < MaxKept THEN Append(vals, v) ELSE vals

Minimum(m, n) == IF m < n THEN m ELSE n

-----------------------------------------------------------------------------
\* The stack.  A body frame runs a list of operations (members()).

Top == Last(frames)
Below == Front(frames)
Push(f) == Append(frames, f)
Replace(f) == Append(Below, f)

Bodies == {"struct", "block", "at", "branch", "case"}

\* Mutant of MemberFrames: reading a field is outside the try block.
MemberFramesTyped == {"typed"}

MemberFrames == {"field", "typed"}     \* those that call readType: member() catches

Body(kind, ops) == [k |-> kind, todo |-> ops, obj |-> NoMembers]

\* The body frame that `op` belongs to, with op done and its member stored.
Rest1 == [Top EXCEPT !.todo = Tail(@)]
Stored(f, name, v) == [f EXCEPT !.obj = Put(@, name, v)]

\* frames after the top frame ends and hands its members to the frame below.
Popped(parent) == Append(Front(Below), parent)
MergedBelow == Popped([Last(Below) EXCEPT !.obj = Merge(@, Top.obj)])
StoredBelow(name, v) == Popped(Stored(Last(Below), name, v))

Running == status = "running" /\ frames # <<>>
Calling == status = "running" /\ ret.is = "type"     \* readType, from run() or a frame
Doing(kind) == /\ Running /\ ret = Step /\ Top.k \in Bodies
               /\ Top.todo # <<>> /\ Head(Top.todo).op = kind
Op == Head(Top.todo)
Ending(kind) == Running /\ ret = Step /\ Top.k = kind /\ Top.todo = <<>>
Getting(kind) == Running /\ ret.is = "value" /\ Top.k = kind

-----------------------------------------------------------------------------
\* Ways for a step to end, rd' being given.  member() and readType return
\* false with err set; a throw inside member() is caught there, which records
\* the diagnostic; a throw inside readType travels.

Goes(fs, next) == /\ frames' = fs /\ ret' = next
                  /\ UNCHANGED <<err, diag, outcome>>

Fails(fs, why) == /\ frames' = fs /\ ret' = False
                  /\ err' = why
                  /\ UNCHANGED <<env, diag, outcome>>

Caught(fs, why) == /\ frames' = fs /\ ret' = False
                   /\ err' = why
                   /\ diag' = (IF diag = NoDiag THEN rd'.pos ELSE diag)
                   /\ UNCHANGED <<env, outcome>>

Throws(fs, why) == /\ frames' = fs /\ ret' = Throw
                   /\ err' = why
                   /\ UNCHANGED <<env, diag, outcome>>

-----------------------------------------------------------------------------
\* Bytes to numbers.

Little(e) == e = "Little" \/ (e = "Native" /\ HostLittle)

Number(at, n, e) ==
    LET bytes == SubSeq(input, at + 1, at + n)
    IN  FoldLeft(LAMBDA acc, b : acc * 256 + b, 0,
                 IF Little(e) THEN Reverse(bytes) ELSE bytes)

ScalarValue(type) ==
    LET u == Number(rd.pos, type.width, rd.endian)
    IN  IF type.signed /\ u >= 2^(8 * type.width - 1)
        THEN u - 2^(8 * type.width) ELSE u

\* The next `width` bits of the active container, most significant first; the
\* padding of a container wider than the group was shifted out when it loaded.
BitsValue(r, width) ==
    LET c == r.container
        bytes == BytesFor(c.total)
        group == Number(c.at, bytes, c.endian) \div 2^(8 * bytes - c.total)
    IN  (group \div 2^(r.bits - width)) % 2^width

-----------------------------------------------------------------------------
\* readStruct: the size properties of the struct are added to what the caller
\* has, and never taken away.

SizeProperties(s) ==
    Merge([x \in {"$min_size_in_bytes"} |-> s.min],
          Merge([x \in {y \in {"$max_size_in_bytes"} : s.max # {}} |-> Max(s.max)],
                [x \in {y \in {"$size_in_bytes"} : s.max = {s.min}} |-> s.min]))

StructFrame(name) ==
    [k |-> "struct", todo |-> plan.structs[name].body, obj |-> NoMembers,
     name |-> name, start |-> rd.pos, env |-> env]

Depth == Cardinality({i \in DOMAIN frames : frames[i].k = "struct"})

TypeStruct ==
    /\ Calling
    /\ ret.type.form = "struct" /\ ret.type.dims = <<>> /\ ret.type.term = <<>>
    /\ IF Depth + 1 > MaxRecursionDepth
       THEN UNCHANGED rd /\ Fails(frames, "depth")
       ELSE LET struct == plan.structs[ret.type.ref] IN
            /\ rd' = SetEndian(rd, struct.endian)
            /\ env' = Merge(env, SizeProperties(struct))
            /\ Goes(Push(StructFrame(ret.type.ref)), Step)

Requirements == plan.structs[Top.name].requires

EndStruct ==
    /\ Ending("struct")
    /\ UNCHANGED rd
    /\ IF \A i \in DOMAIN Requirements :
             Evaluable(Requirements[i], env) /\ Eval(Requirements[i], env)
       THEN /\ env' = Top.env
            /\ Goes(Below, Return(Object(Top.obj)))
       ELSE Fails(frames, IF \A i \in DOMAIN Requirements : Evaluable(Requirements[i], env)
                          THEN "requires" ELSE "expression")

\* Mutant of FailStruct: the environment is not put back.
FailStructKeepsEnv ==
    /\ Running /\ ret = False /\ Top.k = "struct"
    /\ CanSeek(rd, Top.start)
    /\ rd' = Seek(rd, Top.start)
    /\ diag' = (IF diag = NoDiag THEN rd.pos ELSE diag)
    /\ frames' = Below
    /\ UNCHANGED <<env, ret, err, outcome>>

\* Mutant of FailStruct: the reader is not put back.
FailStructStays ==
    /\ Running /\ ret = False /\ Top.k = "struct"
    /\ env' = Top.env
    /\ diag' = (IF diag = NoDiag THEN rd.pos ELSE diag)
    /\ frames' = Below
    /\ UNCHANGED <<rd, ret, err, outcome>>

FailStruct ==
    /\ Running /\ ret = False /\ Top.k = "struct"
    /\ diag' = (IF diag = NoDiag THEN rd.pos ELSE diag)
    /\ frames' = Below
    /\ UNCHANGED outcome
    /\ IF CanSeek(rd, Top.start)
       THEN /\ rd' = Seek(rd, Top.start)
            /\ env' = Top.env
            /\ ret' = False
            /\ UNCHANGED err
       ELSE ret' = Throw /\ err' = "rollback" /\ UNCHANGED <<rd, env>>

-----------------------------------------------------------------------------
\* readType on a scalar and on bytes.

TypeScalar ==
    LET type == ret.type IN
    /\ Calling
    /\ type.form = "scalar" /\ type.dims = <<>> /\ type.term = <<>>
    /\ IF CanUint(rd, type.width)
       THEN /\ rd' = Take(rd, type.width)
            /\ Goes(frames, Return(Num(ScalarValue(type)))) /\ UNCHANGED env
       ELSE UNCHANGED rd /\ Fails(frames, "truncated")

\* [*] takes what is left under the active limit; bytes with no dimension have
\* no size.
TypeBytes ==
    LET type == ret.type
        rest == type.dims # <<>> /\ type.dims[1] = Rest
        n == IF rest THEN Remaining(rd) ELSE Eval(type.dims[1], env)
    IN
    /\ Calling /\ type.form = "bytes" /\ type.term = <<>>
    /\ CASE type.dims = <<>> -> UNCHANGED rd /\ Fails(frames, "unsized")
         [] type.dims # <<>> /\ ~rest /\ ~CanSize(type.dims[1], env) ->
                UNCHANGED rd /\ Fails(frames, "expression")
         [] OTHER ->
                IF n <= MaxAllocationBytes /\ CanBytes(rd, n)
                THEN /\ rd' = Take(rd, n)
                     /\ Goes(frames, Return(Raw(SubSeq(input, rd.pos + 1, rd.pos + n))))
                     /\ UNCHANGED env
                ELSE UNCHANGED rd /\ Fails(frames, "truncated")

-----------------------------------------------------------------------------
\* readType on an array: every dimension is evaluated before any element is
\* read, and again, without the outermost, for each element.

Extents(dims) == [i \in DOMAIN dims |-> Eval(dims[i], env)]
Count(dims) == FoldLeft(LAMBDA acc, n : acc * n, 1, Extents(dims))

TypeArray ==
    LET dims == ret.type.dims IN
    /\ Calling /\ ret.type.form # "bytes"
    /\ dims # <<>> /\ ret.type.term = <<>>
    /\ UNCHANGED rd
    /\ IF Rest \in Range(dims)
       THEN Fails(frames, "remaining")
       ELSE IF ~ \A i \in DOMAIN dims : CanSize(dims[i], env)
       THEN Fails(frames, "expression")
       ELSE IF \/ \E i \in DOMAIN dims : \/ Extents(dims)[i] > MaxArrayElements
                                         \/ Count(SubSeq(dims, 1, i)) > MaxArrayElements
               \/ Count(dims) * SizeofValue > MaxAllocationBytes
       THEN Fails(frames, "array")
       ELSE /\ Goes(Push([k |-> "array", elem |-> [ret.type EXCEPT !.dims = Tail(@)],
                          left |-> Extents(dims)[1], vals |-> <<>>]), Step)
            /\ UNCHANGED env

ArrayStep ==
    /\ Running /\ ret = Step /\ Top.k = "array"
    /\ UNCHANGED <<rd, env>>
    /\ IF Top.left = 0
       THEN Goes(Below, Return(List(Top.vals)))
       ELSE Goes(frames, CallType(Top.elem))

\* Mutant of ArrayValue: the element is not counted.
ArrayValueUncounted ==
    /\ Getting("array")
    /\ UNCHANGED <<rd, env>>
    /\ Goes(Replace([Top EXCEPT !.vals = Keep(@, ret.value)]), Step)

ArrayValue ==
    /\ Getting("array")
    /\ UNCHANGED <<rd, env>>
    /\ Goes(Replace([Top EXCEPT !.left = @ - 1, !.vals = Keep(@, ret.value)]), Step)

-----------------------------------------------------------------------------
\* readType on a terminated sequence.  In the byte form the terminator is
\* looked for at every byte.

IsByteForm(type) == type.form = "bytes" /\ type.dims = <<>>
IsSequenceForm(type) == type.dims = <<Rest>>

TypeUntilBytes ==
    LET type == ret.type
        size == Len(type.term)
        window == SubSeq(input, rd.pos + 1,
                         rd.pos + Minimum(type.max + size, Remaining(rd)))
        ends == {i \in size..Len(window) : SubSeq(window, i - size + 1, i) = type.term}
    IN
    /\ Calling /\ type.term # <<>> /\ IsByteForm(type)
    /\ IF ends # {}
       THEN /\ rd' = Take(rd, Min(ends))
            /\ Goes(frames, Return(Raw(SubSeq(window, 1, Min(ends) - size))))
            /\ UNCHANGED env
       ELSE IF Restorable(rd)
       THEN UNCHANGED rd /\ Fails(frames, "unterminated")
       ELSE rd' = Take(rd, Len(window)) /\ Throws(frames, "restore")

TypeUntil ==
    LET type == ret.type IN
    /\ Calling /\ type.term # <<>> /\ ~IsByteForm(type)
    /\ IF IsSequenceForm(type)
       THEN /\ rd' = PushLimit(rd, Minimum(type.max + Len(type.term), Remaining(rd)))
            /\ Goes(Push([k |-> "until", elem |-> Until(Dims(type, <<>>), <<>>, 0),
                          term |-> type.term, max |-> type.max, saved |-> rd,
                          vals |-> <<>>]), Step)
            /\ UNCHANGED env
       ELSE UNCHANGED rd /\ Fails(frames, "invalid")

\* r.popLimit(); r.restore(saved); return false -- or the exception of either.
Undo(why) ==
    IF CanPopLimit(rd) /\ Restorable(Top.saved)
    THEN rd' = Top.saved /\ Fails(Below, why)
    ELSE /\ rd' = (IF CanPopLimit(rd) THEN PopLimit(rd) ELSE rd)
         /\ Throws(Below, "restore")

\* The bytes the probe for the terminator reads: up to the first that differs.
Probed(term) ==
    LET differ == {i \in DOMAIN term : input[rd.pos + i] # term[i]}
    IN  IF differ = {} THEN Len(term) ELSE Min(differ)

AtTerminator == /\ Remaining(rd) >= Len(Top.term)
                /\ SubSeq(input, rd.pos + 1, rd.pos + Len(Top.term)) = Top.term

Consumed == rd.pos - Top.saved.pos      \* of type size_t: negative is huge

\* Mutant of Exceeds: the difference is signed.
ExceedsSigned(n, max) == n > max

Exceeds(n, max) == n < 0 \/ n > max

\* One turn of the loop: probe for the terminator and restore the reader, then
\* end, give up or read an element.
UntilStep ==
    /\ Running /\ ret = Step /\ Top.k = "until"
    /\ IF Remaining(rd) >= Len(Top.term) /\ ~Restorable(rd)
       THEN rd' = Take(rd, Probed(Top.term)) /\ Throws(Below, "restore")
       ELSE IF AtTerminator
       THEN LET after == Take(rd, Len(Top.term)) IN
            IF CanPopLimit(after)
            THEN /\ rd' = PopLimit(after)
                 /\ Goes(Below, Return(List(Top.vals))) /\ UNCHANGED env
            ELSE rd' = after /\ Throws(Below, "limit")
       ELSE IF Exceeds(Consumed, Top.max - 1)
       THEN Undo("unterminated")
       ELSE Goes(frames, CallType(Top.elem)) /\ UNCHANGED <<rd, env>>

UntilValue ==
    /\ Getting("until")
    /\ IF Exceeds(Consumed, Top.max)
       THEN Undo("unterminated")
       ELSE /\ Goes(Replace([Top EXCEPT !.vals = Keep(@, ret.value)]), Step)
            /\ UNCHANGED <<rd, env>>

FailUntil ==
    /\ Running /\ ret = False /\ Top.k = "until"
    /\ IF CanPopLimit(rd) /\ Restorable(Top.saved)
       THEN /\ rd' = Top.saved
            /\ Goes(Below, False) /\ UNCHANGED env
       ELSE /\ rd' = (IF CanPopLimit(rd) THEN PopLimit(rd) ELSE rd)
            /\ Throws(Below, "restore")

-----------------------------------------------------------------------------
\* member(): values.

DoVirtual ==
    /\ Doing("virtual")
    /\ UNCHANGED rd
    /\ IF Evaluable(Op.expr, env)
       THEN LET v == Eval(Op.expr, env) IN
            /\ env' = Put(env, Op.sym, v)
            /\ Goes(Replace(Stored(Rest1, Op.sym, Num(v))), Step)
       ELSE Fails(frames, "expression")

DoAlias ==
    /\ Doing("alias")
    /\ UNCHANGED rd
    /\ IF Op.target \in DOMAIN env
       THEN /\ env' = Put(env, Op.sym, env[Op.target])
            /\ Goes(Replace(Stored(Rest1, Op.sym, Num(env[Op.target]))), Step)
       ELSE Fails(frames, "alias")

\* An empty `assert` set means the field carries no assertion.
Asserted(item, v) == item.assert = {} \/ (v.t = "int" /\ v.v \in item.assert)

BeginField ==
    /\ Doing("field")
    /\ rd' = SetEndian(rd, Op.endian)
    /\ Goes(Append(Replace(Rest1), [k |-> "field", field |-> Op]), CallType(Op.type))
    /\ UNCHANGED env

FieldValue ==
    /\ Getting("field")
    /\ UNCHANGED rd
    /\ IF Asserted(Top.field, ret.value)
       THEN /\ env' = Put(env, Top.field.sym, Runtime(ret.value))
            /\ Goes(StoredBelow(Top.field.sym, ret.value), Step)
       ELSE Fails(Below, "assert")

-----------------------------------------------------------------------------
\* member(): a bit group.  The container is loaded before the order of the
\* first bit field is set.

BeginGroup ==
    /\ Doing("bits")
    /\ IF CanBeginBits(rd, Op.total)
       THEN /\ rd' = BeginBits(rd, Op.total)
            /\ Goes(Append(Replace(Rest1), [k |-> "bits", todo |-> Op.fields,
                                           order |-> Op.fields[1].endian]), Step)
            /\ UNCHANGED env
       ELSE UNCHANGED rd /\ Caught(frames, "truncated")

\* endBits() throws while bits are left, and masks the mismatch it is to report.
GroupField ==
    LET f == Head(Top.todo)
        ordered == SetEndian(rd, f.endian)
        v == BitsValue(Loaded(ordered, f.width), f.width)
    IN
    /\ Running /\ ret = Step /\ Top.k = "bits" /\ Top.todo # <<>>
    /\ IF Asserted(f, Num(v))
       THEN /\ rd' = Bits(ordered, f.width)
            /\ env' = Put(env, f.sym, v)
            /\ Goes(Append(StoredBelow(f.sym, Num(v)), [Top EXCEPT !.todo = Tail(@)]), Step)
       ELSE IF CanEndBits(Bits(ordered, f.width))
       THEN rd' = EndBits(Bits(ordered, f.width)) /\ Fails(Below, "assert")
       ELSE rd' = Bits(ordered, f.width) /\ Caught(Below, "bits")

EndGroup ==
    /\ Running /\ ret = Step /\ Top.k = "bits" /\ Top.todo = <<>>
    /\ IF CanEndBits(rd)
       THEN rd' = EndBits(rd) /\ Goes(Below, Step) /\ UNCHANGED env
       ELSE UNCHANGED rd /\ Caught(Below, "bits")

-----------------------------------------------------------------------------
\* member(): position.

DoAlign ==
    /\ Doing("align")
    /\ IF CanAlign(rd, Op.to)
       THEN rd' = Align(rd, Op.to) /\ Goes(Replace(Rest1), Step) /\ UNCHANGED env
       ELSE UNCHANGED rd /\ Caught(frames, "seek")

\* The offset is from the start of the input, inside the active limit.
BeginAt ==
    LET known == Put(env, "$next", rd.pos)
        offset == Chosen(Op.static, Op.offset)
    IN
    /\ Doing("at")
    /\ IF ~CanSize(offset, known)
       THEN UNCHANGED rd /\ Fails(frames, "expression")
       ELSE IF ~CanSeekRoot(rd, Eval(offset, known))
       THEN UNCHANGED rd /\ Caught(frames, "seek")
       ELSE /\ rd' = Seek(rd, Eval(offset, known))
            /\ Goes(Append(Replace(Rest1), [k |-> "at", todo |-> Op.body,
                                            obj |-> NoMembers, back |-> rd.pos]), Step)
            /\ UNCHANGED env

EndAt ==
    /\ Ending("at")
    /\ IF CanSeek(rd, Top.back)
       THEN rd' = Seek(rd, Top.back) /\ Goes(MergedBelow, Step) /\ UNCHANGED env
       ELSE UNCHANGED rd /\ Caught(Below, "seek")

FailAt ==
    /\ Running /\ ret = False /\ Top.k = "at"
    /\ IF CanSeek(rd, Top.back)
       THEN rd' = Seek(rd, Top.back) /\ Goes(Below, False) /\ UNCHANGED env
       ELSE UNCHANGED rd /\ Caught(Below, "rollback")

BeginBlock ==
    LET size == Chosen(Op.static, Op.size)
        n == Eval(size, env)
    IN
    /\ Doing("block")
    /\ IF ~CanSize(size, env)
       THEN UNCHANGED rd /\ Fails(frames, "expression")
       ELSE IF n > Remaining(rd)
       THEN UNCHANGED rd /\ Fails(frames, "block")
       ELSE /\ rd' = PushLimit(rd, n)
            /\ Goes(Append(Replace(Rest1), [k |-> "block", todo |-> Op.body,
                        obj |-> NoMembers, start |-> rd.pos, end |-> rd.pos + n]), Step)
            /\ UNCHANGED env

\* Mutant of EndBlock: the block ends where its members end.
EndBlockShort ==
    /\ Ending("block")
    /\ CanPopLimit(rd)
    /\ rd' = PopLimit(rd) /\ Goes(MergedBelow, Step) /\ UNCHANGED env

\* A block ends at its end whatever its members consumed.
EndBlock ==
    LET atEnd == Seek(rd, Top.end) IN
    /\ Ending("block")
    /\ IF rd.pos > Top.end
       THEN IF CanPopLimit(rd) /\ CanSeek(PopLimit(rd), Top.start)
            THEN rd' = Seek(PopLimit(rd), Top.start) /\ Fails(Below, "block")
            ELSE /\ rd' = (IF CanPopLimit(rd) THEN PopLimit(rd) ELSE rd)
                 /\ Caught(Below, "limit")
       ELSE IF CanSeek(rd, Top.end) /\ CanPopLimit(atEnd)
       THEN rd' = PopLimit(atEnd) /\ Goes(MergedBelow, Step) /\ UNCHANGED env
       ELSE /\ rd' = (IF CanSeek(rd, Top.end) THEN atEnd ELSE rd)
            /\ Caught(Below, "limit")

\* Mutant of FailBlock: the limit of the block is left behind.
FailBlockKeepsLimit ==
    /\ Running /\ ret = False /\ Top.k = "block"
    /\ rd' = Seek(rd, Top.start)
    /\ Goes(Below, False) /\ UNCHANGED env

FailBlock ==
    /\ Running /\ ret = False /\ Top.k = "block"
    /\ IF CanPopLimit(rd) /\ CanSeek(PopLimit(rd), Top.start)
       THEN /\ rd' = Seek(PopLimit(rd), Top.start)
            /\ Goes(Below, False) /\ UNCHANGED env
       ELSE /\ rd' = (IF CanPopLimit(rd) THEN PopLimit(rd) ELSE rd)
            /\ Caught(Below, "limit")

-----------------------------------------------------------------------------
\* member(): choice.

BeginIf ==
    /\ Doing("if")
    /\ UNCHANGED rd
    /\ IF Evaluable(Op.cond, env)
       THEN /\ Goes(Append(Replace(Rest1),
                           Body("branch", IF Eval(Op.cond, env) THEN Op.then ELSE Op.else)), Step)
            /\ UNCHANGED env
       ELSE Fails(frames, "expression")

EndBranch == Ending("branch") /\ UNCHANGED <<rd, env>> /\ Goes(MergedBelow, Step)

\* The first case whose tag matches, or the default.  A typed alternative is
\* read in whatever byte order the reader has.
BeginVariant ==
    LET tag == Eval(Op.tag, env)
        matching == {i \in DOMAIN Op.cases : Op.cases[i].tag = tag}
        chosen == IF matching = {} THEN Op.default ELSE <<Op.cases[Min(matching)]>>
    IN
    /\ Doing("variant")
    /\ UNCHANGED rd
    /\ IF ~Evaluable(Op.tag, env)
       THEN Fails(frames, "expression")
       ELSE IF chosen = <<>>
       THEN Fails(frames, "variant")
       ELSE /\ UNCHANGED env
            /\ IF Head(chosen).typed
               THEN Goes(Append(Replace(Rest1), [k |-> "typed", name |-> Op.sym]),
                         CallType(Head(chosen).type))
               ELSE Goes(Append(Replace(Rest1), [k |-> "case", todo |-> Head(chosen).body,
                                obj |-> NoMembers, name |-> Op.sym]), Step)

EndCase ==
    /\ Ending("case") /\ UNCHANGED <<rd, env>>
    /\ Goes(StoredBelow(Top.name, Object(Top.obj)), Step)

TypedValue ==
    /\ Getting("typed") /\ UNCHANGED <<rd, env>>
    /\ Goes(StoredBelow(Top.name, Object([x \in {"value"} |-> ret.value])), Step)

-----------------------------------------------------------------------------
\* member(): callbacks.  What a callback does to the reader before it returns
\* true stands; if it fails, the registry restores the reader it found.

CanTouch(how) == CASE how = "read"   -> CanUint(rd, 1)
                   [] how = "push"   -> CanPushLimit(rd, 0)
                   [] how = "pop"    -> CanPopLimit(rd)
                   [] OTHER          -> TRUE

Touched(how) == CASE how = "read"   -> Take(rd, 1)
                  [] how = "push"   -> PushLimit(rd, 0)
                  [] how = "pop"    -> PopLimit(rd)
                  [] how = "rewind" -> Seek(rd, 0)
                  [] how = "trap"   -> PushLimit(Seek(rd, 0), 0)
                  [] how = "order"  -> SetEndian(rd, "Big")
                  [] OTHER          -> rd

Callable == /\ Op.direction = "decode"
            /\ \A i \in DOMAIN Op.args : Evaluable(Op.args[i], env)
            /\ Op.name \in Registered

CallbackRefused == /\ Doing("callback") /\ ~Callable
                   /\ UNCHANGED rd /\ Fails(frames, "callback")

CallbackSucceeds == /\ Doing("callback") /\ Callable
                    /\ \E how \in Touches : CanTouch(how) /\ rd' = Touched(how)
                    /\ Goes(Replace(Rest1), Step) /\ UNCHANGED env

CallbackFails == /\ Doing("callback") /\ Callable /\ Restorable(rd)
                 /\ UNCHANGED rd /\ Fails(frames, "callback")

CallbackEscapes == /\ Doing("callback") /\ Callable /\ ~Restorable(rd)
                   /\ \E how \in Touches : CanTouch(how) /\ rd' = Touched(how)
                   /\ Caught(frames, "restore")

-----------------------------------------------------------------------------
\* Unwinding through the frames that undo nothing.

FailThrough ==
    /\ Running /\ ret = False
    /\ Top.k \in {"branch", "case", "field", "typed", "array"}
    /\ Goes(Below, False) /\ UNCHANGED <<rd, env>>

\* member() catches: the diagnostic is taken where the reader is left.
CatchThrow ==
    /\ Running /\ ret = Throw /\ Top.k \in MemberFrames
    /\ frames' = Below /\ ret' = False
    /\ diag' = (IF diag = NoDiag THEN rd.pos ELSE diag)
    /\ UNCHANGED <<rd, env, err, outcome>>

PassThrow ==
    /\ Running /\ ret = Throw /\ Top.k \notin MemberFrames
    /\ Goes(Below, Throw) /\ UNCHANGED <<rd, env>>

-----------------------------------------------------------------------------
\* run() and Engine::decode.

GoodParameters == /\ DOMAIN plan.given = DOMAIN plan.params
                  /\ \A s \in DOMAIN plan.params : plan.given[s] \in plan.params[s]

Start ==
    /\ status = "idle"
    /\ UNCHANGED <<plan, input, rd, frames, diag, consumed>>
    /\ status' = "running"
    /\ IF GoodParameters
       THEN /\ env' = Merge(plan.given, plan.consts)
            /\ ret' = CallType(Named(plan.root))
            /\ UNCHANGED err
       ELSE /\ env' = plan.given
            /\ ret' = False
            /\ err' = "parameters"

\* The root struct returned; the input may have to be used up.
Finish ==
    LET trailing == ret # False /\ RequireFullInput /\ rd.pos # Size IN
    /\ status = "running" /\ frames = <<>> /\ (ret.is = "value" \/ ret = False)
    /\ consumed' = rd.pos
    /\ status' = (IF ret = False \/ trailing THEN "failed" ELSE "decoded")
    /\ err' = (IF trailing THEN "trailing" ELSE err)
    /\ diag' = (IF trailing \/ (ret = False /\ diag = NoDiag) THEN rd.pos ELSE diag)
    /\ UNCHANGED <<plan, input, rd, env, frames, ret>>

Init == /\ plan \in Plans
        /\ input \in Inputs
        /\ rd = New
        /\ env = NoMembers
        /\ frames = <<>>
        /\ ret = Step
        /\ err = "none"
        /\ diag = NoDiag
        /\ status = "idle"
        /\ consumed = 0

Types == TypeStruct \/ TypeScalar \/ TypeBytes \/ TypeArray \/ TypeUntilBytes \/ TypeUntil
Loops == ArrayStep \/ ArrayValue \/ UntilStep \/ UntilValue
Values == DoVirtual \/ DoAlias \/ BeginField \/ FieldValue
Groups == BeginGroup \/ GroupField \/ EndGroup
Places == DoAlign \/ BeginAt \/ EndAt \/ BeginBlock \/ EndBlock
Branching == BeginIf \/ EndBranch \/ BeginVariant \/ EndCase \/ TypedValue
Callbacks == CallbackRefused \/ CallbackSucceeds \/ CallbackFails \/ CallbackEscapes
Unwinds == \/ FailStruct \/ FailUntil \/ FailAt \/ FailBlock \/ FailThrough
           \/ CatchThrow \/ PassThrow

Next == \/ Start \/ Finish \/ EndStruct
        \/ Types \/ Loops \/ Values \/ Groups \/ Places \/ Branching \/ Callbacks \/ Unwinds

Spec == Init /\ [][Next]_vars

\* decode() runs to its end: it is sequential code in one thread.
FairSpec == Spec /\ WF_vars(Next)

-----------------------------------------------------------------------------
\* Why a step gives up, and why decode() does before and after the steps.
Failures == {"alias", "array", "assert", "bits", "block", "callback", "depth", "expression",
             "invalid", "limit", "remaining", "requires", "restore", "rollback", "seek",
             "truncated", "unsized", "unterminated", "variant"}
Reasons == Failures \cup {"none", "parameters", "trailing"}

TypeOK == /\ Valid(rd)
          /\ err \in Reasons /\ status \in {"idle", "running", "decoded", "failed"}
          /\ diag \in {NoDiag} \cup 0..Size
          /\ ret.is \in {"step", "type", "value", "false", "throw"}
          /\ frames # <<>> => frames[1].k = "struct" /\ status = "running"
          /\ \A i \in 2..Len(frames) :
                frames[i].k = "struct" => frames[i - 1].k \in {"field", "typed", "array", "until"}

\* The decode failed because putting the reader back threw: the exceptions of
\* the rollbacks take the place of the error that started them.
Unrestored == err \in {"restore", "limit", "rollback"}

\* The limits, the outermost first and the active one last, are those of the
\* blocks and the terminated sequences among the first n frames of fs.
EndOf(f) == IF f.k = "block" THEN f.end
            ELSE f.saved.pos + Minimum(f.max + Len(f.term), Remaining(f.saved))
Bounding(fs, n) == {i \in 1..n : fs[i].k \in {"block", "until"}}
Mirrors(limits, fs, n) ==
    /\ Len(limits) = Cardinality(Bounding(fs, n)) + 1
    /\ limits[1] = Size
    /\ \A i \in Bounding(fs, n) : limits[Cardinality(Bounding(fs, i)) + 1] = EndOf(fs[i])

\* The reader's stack of limits is at every step, failed ones included, the
\* windows of the constructs being read: no path out of a block or a terminated
\* sequence forgets a limit or pops one too many.  Callbacks must leave the
\* limits alone, and a rollback that throws ends the promise.
LimitsMirrorFrames ==
    ~Unrestored => Mirrors(Append(rd.limits, rd.limit), frames, Len(frames))

\* Failing is transactional: whatever failed, wherever, and whatever callbacks
\* did to the reader before, a decode that fails has consumed nothing and has
\* left the environment with what the caller and the module gave it.
FailureLeavesNothing ==
    status = "failed" /\ err # "trailing" =>
        /\ consumed = 0
        /\ env = (IF err = "parameters" THEN plan.given ELSE Merge(plan.given, plan.consts))

\* Every exception of the reader is caught by a member() on the way out, also
\* those of the rollbacks: none leaves decode().
ExceptionsContained == ret = Throw => frames # <<>>

\* A terminated sequence that is read has taken at most max bytes of payload,
\* and its terminator after them, from where it began: also if a callback in an
\* element moves the cursor, to before the sequence too, where the number of bytes
\* taken wraps around.
PayloadWithinMax ==
    [][Running /\ ret = Step /\ Top.k = "until" /\ ret'.is = "value"
       => rd'.pos - Top.saved.pos - Len(Top.term) \in 0..Top.max]_vars

\* What is evaluated by the next step.
Needed == CASE Calling -> UsesOfType(ret.type)
            [] Running /\ ret = Step /\ Top.k \in Bodies /\ Top.todo # <<>> -> Uses(Op)
            [] Running /\ ret = Step /\ Top.k = "struct" /\ Top.todo = <<>> ->
                  UNION {Symbols(e) : e \in Range(Requirements)}
            [] OTHER -> {}

\* In a plan whose dependencies were validated, no expression is evaluated
\* before the values it names are bound, whichever branches were taken.
Resolved == Needed \ Builtins \subseteq DOMAIN env

\* No struct is read inside itself: the plan builder finds every way for a struct
\* to contain itself, so the depth of the stack is bounded by the plan and not
\* by the input.
NoRecursion == \A i, j \in {n \in DOMAIN frames : frames[n].k = "struct"} :
                  frames[i].name = frames[j].name => i = j

\* decode() returns, if every element of a terminated sequence takes a byte.
Termination == <>(status \in {"decoded", "failed"})

\* What is left to do.  Turns is how often the loop of frame i can still go round:
\* for a terminated sequence, the bytes from the element it is reading to the end
\* of the input.  Stage counts down within a turn.
Turns(fs, pos, i) ==
    CASE fs[i].k \in Bodies \cup {"bits"} -> Len(fs[i].todo)
      [] fs[i].k = "array" -> fs[i].left
      [] fs[i].k = "until" -> Size - (IF i = Len(fs) THEN pos ELSE fs[i + 1].start)
      [] OTHER -> 0

Stage(fs, next, i) ==
    CASE i < Len(fs) -> IF fs[i].k \in Bodies THEN 5 ELSE 2
      [] i = Len(fs) /\ next.is = "step" -> 4
      [] i = Len(fs) /\ next.is = "type" -> 3
      [] OTHER -> IF fs[i].k = "until" THEN 5 ELSE 1

\* A frame that is to unwind has nothing left to do; outside the root struct,
\* decode() has its own few steps.
GivingUp(next) == next.is \in {"false", "throw"}
Work(fs, next, pos, i) ==
    IF i = Len(fs) /\ GivingUp(next) THEN 0 ELSE 6 * Turns(fs, pos, i) + Stage(fs, next, i)
RootWork ==
    CASE status = "idle" -> 5
      [] status = "running" /\ ret.is = "type" /\ frames = <<>> -> 4
      [] status = "running" /\ frames # <<>> -> 3
      [] status = "running" /\ ret.is = "value" /\ frames = <<>> -> 2
      [] status = "running" /\ GivingUp(ret) /\ frames = <<>> -> 1
      [] OTHER -> 0
Works == [i \in 0..Len(frames) |->
             IF i = 0 THEN RootWork ELSE Work(frames, ret, rd.pos, i)]

\* Less work: less in the first frame that differs, or the same and more frames.
Precedes(u, v) ==
    \E i \in DOMAIN u : /\ \A j \in 0..(i - 1) : j \in DOMAIN v /\ u[j] = v[j]
                        /\ i \in DOMAIN v => u[i] < v[i]

\* An element of a terminated sequence returns where it began, or before.
Stalls == /\ Ending("struct") /\ ret'.is = "value"
          /\ Below # <<>> /\ Last(Below).k = "until"
          /\ rd.pos <= Top.start

\* Whatever callbacks do to the reader, the decoder can go on for ever only
\* through elements that take no bytes: every other step leaves less to do.
Progress == [][Stalls \/ Precedes(Works', Works)]_vars

-----------------------------------------------------------------------------
\* Statements of the documents that the decoder does not keep (README.md).

\* "The implementation must not permit a zero-progress element to create an
\* infinite loop": decode() returns, whatever the elements.
AlwaysTerminates == <>(status \in {"decoded", "failed"})

\* The byte order is resolved once, at plan time: a group of bits is loaded in
\* the order the plan gives it, whatever was read before it.
GroupInOwnOrder == Running /\ Top.k = "bits" /\ rd.container.total > 8 =>
                        Little(rd.container.endian) = Little(Top.order)

\* "$size_in_bytes is unavailable when minimum and maximum differ": while a
\* struct without an exact size is read, there is no such value.
Innermost == Max({i \in DOMAIN frames : frames[i].k = "struct"})
SizeOnlyIfExact ==
    Running /\ "$size_in_bytes" \in DOMAIN env =>
        LET s == plan.structs[frames[Innermost].name] IN s.max = {s.min}

\* "$next denotes the end of the immediately preceding sequential layout
\* operation": an `at` goes where its expression says, with the position of the
\* reader for $next, whatever the plan builder made of it.
NextIsHere ==
    LET known == Put(env, "$next", rd.pos) IN
    Doing("at") /\ Op.static # {} /\ CanSize(Op.offset, known) =>
        Op.static = {Eval(Op.offset, known)}
=============================================================================
