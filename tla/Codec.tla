-------------------------------- MODULE Codec --------------------------------
(***************************************************************************)
(* Decoder and encoder over one plan: an input is decoded, the value, or   *)
(* one that differs from it in one place, is encoded, and what was written *)
(* is decoded.  Values may also be encoded that no decode gave.            *)
(***************************************************************************)
EXTENDS DecoderReference, Encoder, LayoutGraph

CONSTANTS EncodeTouches,   \* what encode callbacks do
          Made             \* values to encode with plans that have callbacks

VARIABLES turn,            \* decode, encode, written, again
          value,           \* what is encoded
          first,           \* the first decode, if it gave this very value
          out              \* what encode() did, the bytes it returned, what callbacks did

codecVars == <<vars, turn, value, first, out>>

None == [val |-> NoMembers, size |-> 0]
NoOutput == [is |-> "none", data |-> <<>>, touch |-> "none"]

\* Values that differ from v in one place.
RECURSIVE Near(_)
Near(v) ==
    LET rest == IF v.v = <<>> THEN {} ELSE {Tail(v.v)}
        with(x) == {[v.v EXCEPT ![x] = y] : y \in Near(v.v[x])}
    IN  CASE v.t = "int"   -> {Num(n) : n \in {v.v - 1, v.v + 1, 256}}
          [] v.t = "bytes" -> {Raw(b) : b \in {Append(v.v, 0)} \cup rest}
          [] v.t = "list"  -> {List(l) : l \in {Append(v.v, Num(0))} \cup rest
                                                  \cup UNION {with(i) : i \in DOMAIN v.v}}
          [] v.t = "object" ->
                {Object(o) : o \in UNION {with(x) \cup {Restrict(v.v, DOMAIN v.v \ {x})} :
                                             x \in DOMAIN v.v}}

-----------------------------------------------------------------------------
\* What a plan is made of.

Ops == UNION {OpsIn(plan.structs[s].body) : s \in DOMAIN plan.structs}
Has(kinds) == \E op \in Ops : op.op \in kinds
PlanTypes == UNION {TypesIn(plan.structs[s].body) : s \in DOMAIN plan.structs}

-----------------------------------------------------------------------------
CodecInit ==
    /\ Init
    /\ first = None /\ out = NoOutput
    /\ \/ turn = "decode" /\ value = Object(NoMembers)
       \/ turn = "encode" /\ value \in Made /\ Has({"callback"})

Decoding == /\ turn \in {"decode", "again"}
            /\ Next /\ UNCHANGED <<turn, value, first, out>>

TakeValue ==
    /\ turn = "decode" /\ status = "decoded"
    /\ turn' = "encode"
    /\ \/ value' = ret.value /\ first' = [val |-> ret.value, size |-> consumed]
       \/ value' \in Near(ret.value) /\ first' = None
    /\ UNCHANGED <<vars, out>>

Encode ==
    /\ turn = "encode"
    /\ turn' = "written"
    /\ \E touch \in IF Has({"callback"}) THEN EncodeTouches ELSE {"none"} :
          LET w == EncodeOf(value, touch)
          IN  out' = [is |-> w.is, data |-> IF w.is = "ok" THEN w.data ELSE <<>>,
                      touch |-> touch]
    /\ UNCHANGED <<vars, value, first>>

\* Whatever follows the output in the input.
DecodeAgain ==
    /\ turn = "written" /\ out.is = "ok" /\ Len(out.data) <= Size
    /\ turn' = "again"
    /\ \E pad \in {0, 1} :
          input' = [i \in 1..Size |-> IF i <= Len(out.data) THEN out.data[i] ELSE pad]
    /\ rd' = New /\ env' = NoMembers /\ frames' = <<>> /\ ret' = Step
    /\ err' = "none" /\ diag' = NoDiag /\ status' = "idle" /\ consumed' = 0
    /\ UNCHANGED <<plan, value, first, out>>

CodecNext == Decoding \/ TakeValue \/ Encode \/ DecodeAgain
CodecSpec == CodecInit /\ [][CodecNext]_codecVars

-----------------------------------------------------------------------------
Written == turn \in {"written", "again"}
DecodedAgain == turn = "again" /\ status \in {"decoded", "failed"} /\ err # "restore"

-----------------------------------------------------------------------------
\* The zeros of alignment, and those at the end of a block, are written over what
\* an `at` before them wrote.
Erases(ops) == \E i, j \in DOMAIN ops :
                  i < j /\ ops[i].op = "at" /\ ops[j].op \in {"align", "block"}

\* What was decoded can be encoded, and decodes to the same value from as many
\* bytes, whatever follows them.
RoundTrip ==
    first # None /\ ~Erases(plan.structs[plan.root].body) =>
        /\ Written => out.is = "ok" /\ (Has({"at"}) \/ Len(out.data) = first.size)
        /\ DecodedAgain => /\ status = "decoded"
                           /\ ret.value = first.val
                           /\ consumed = first.size

RECURSIVE Agrees(_, _, _)
Agrees(given, got, computed) ==
    CASE given.t = "object" ->
            \A x \in DOMAIN given.v \cap DOMAIN got.v : x \notin computed =>
                Agrees(given.v[x], got.v[x], computed)
      [] given.t = "list" -> /\ DOMAIN given.v = DOMAIN got.v
                             /\ \A i \in DOMAIN given.v : Agrees(given.v[i], got.v[i], computed)
      [] OTHER -> given = got

Computed == {op.sym : op \in {o \in Ops : o.op = "virtual"}}

\* A terminator that ends with its own beginning.
Overlaps(term) ==
    \E i \in 1..Len(term) - 1 : SubSeq(term, 1, i) = SubSeq(term, Len(term) - i + 1, Len(term))

\* Where the bytes do not tell the value: an `at` or a callback may write over
\* what was written; an element that begins like the terminator, or a payload
\* that ends with a part of it, ends the sequence early; a length that is not
\* fixed is not held against the length of the bytes.
Ambiguous == \/ Has({"at", "callback"})
             \/ \E t \in PlanTypes : \/ t.loose
                                     \/ t.term # <<>> /\ (t.form # "bytes" \/ Overlaps(t.term))

\* Whatever the encoder accepts, decoded from an input or not, it writes so that
\* it is read back: members that were given come back as they were given.
AcceptedIsKept ==
    DecodedAgain /\ ~Ambiguous => status = "decoded" /\ Agrees(value, ret.value, Computed)

\* Without the members of blocks of a known size, which have no say.
RECURSIVE OutsideBlocks(_)
OutsideBlocks(ops) ==
    LET inner(op) == CASE op.op = "at" -> OutsideBlocks(op.body)
                       [] op.op = "block" /\ op.static = {} -> OutsideBlocks(op.body)
                       [] op.op = "if" -> OutsideBlocks(op.then \o op.else)
                       [] op.op = "variant" -> UNION {OutsideBlocks(c.body) :
                                                         c \in Range(Alternatives(op))}
                       [] OTHER -> {}
    IN  Range(ops) \cup UNION {inner(ops[i]) : i \in DOMAIN ops}

\* The bounds take alignment inside a branch from the start of the branch, and
\* nothing of what a callback does.
BoundsKnown ==
    LET kinds == {op.op : op \in UNION {OutsideBlocks(plan.structs[s].body) :
                                           s \in DOMAIN plan.structs}}
    IN  "callback" \notin kinds /\ ~("align" \in kinds /\ kinds \cap {"if", "variant"} # {})

\* What is written is as long as the layout bounds of the plan promise.
WrittenInBounds ==
    Written /\ out.is = "ok" /\ BoundsKnown =>
        LET root == plan.structs[plan.root]
        IN  /\ root.min <= Len(out.data)
            /\ \A max \in root.max : Len(out.data) <= max

\* What a struct was decoded from is as long as its layout bounds promise; the
\* least size counts members placed by `at` too, which take no bytes in sequence.
ReadInBounds ==
    turn \in {"decode", "again"} /\ Ending("struct") /\ BoundsKnown =>
        LET struct == plan.structs[Top.name]
        IN  /\ Has({"at"}) \/ struct.min <= rd.pos - Top.start
            /\ \A max \in struct.max : rd.pos - Top.start <= max

-----------------------------------------------------------------------------
\* Statements of the documents that the encoder does not keep (README.md).

\* "Encoder and decoder consume the same Plan semantics": a value that was just
\* decoded with a plan is not refused by the encoder.
DecodedEncodes == first # None /\ Written => out.is = "ok"
=============================================================================
