-------------------------------- MODULE Plan --------------------------------
(***************************************************************************)
(* The executable plan (src/plan/Plan.h): the form every backend consumes. *)
(* A plan is a set of structs; a struct is a list of operations, some of   *)
(* which hold lists of their own; operations hold types and expressions.   *)
(***************************************************************************)
EXTENDS Integers, Sequences

-----------------------------------------------------------------------------
\* Expressions, reduced to the shapes that differ in what can go wrong: a
\* literal, a symbol, an unsigned subtraction (which underflows) and a test.

Lit(n) == [kind |-> "lit", value |-> n]
Sym(s) == [kind |-> "sym", id |-> s]
Minus(s, n) == [kind |-> "minus", id |-> s, value |-> n]
Is(s, n) == [kind |-> "is", id |-> s, value |-> n]

\* Bound by the runtime: $next inside the offset of an `at`, and the properties
\* of the struct being read.
Builtins == {"$next", "$size_in_bytes", "$min_size_in_bytes", "$max_size_in_bytes"}

Symbols(e) == IF e.kind = "lit" THEN {} ELSE {e.id}

\* The expression evaluates: every symbol is bound, and the difference of
\* unsigned operands does not underflow.
Evaluable(e, env) == /\ Symbols(e) \subseteq DOMAIN env
                     /\ e.kind = "minus" => env[e.id] >= e.value

Eval(e, env) == CASE e.kind = "lit"   -> e.value
                  [] e.kind = "sym"   -> env[e.id]
                  [] e.kind = "minus" -> env[e.id] - e.value
                  [] e.kind = "is"    -> env[e.id] = e.value

\* evalSize: an evaluable expression whose value is a natural number.
CanSize(e, env) == Evaluable(e, env) /\ Eval(e, env) \in Nat

\* What an operation uses for a size or an offset: the number the plan builder
\* computed, if it did, otherwise the expression.
Chosen(static, e) == IF static = {} THEN e ELSE Lit(CHOOSE n \in static : TRUE)

-----------------------------------------------------------------------------
\* Types: a scalar of `width` bytes, bytes or a named struct, with a list of
\* dimensions (outermost first), and for a terminated sequence its terminator
\* and the greatest payload.  Rest is the dimension [*]; `loose` says that the
\* last dimension is one of kind Dynamic, from the modifier `length`.

Rest == [kind |-> "rest"]

Scalar(width, signed) == [form |-> "scalar", width |-> width, signed |-> signed,
                          ref |-> "", dims |-> <<>>, loose |-> FALSE, term |-> <<>>, max |-> 0]
U8 == Scalar(1, FALSE)
U16 == Scalar(2, FALSE)
I8 == Scalar(1, TRUE)
Bytes == [U8 EXCEPT !.form = "bytes"]
Named(struct) == [U8 EXCEPT !.form = "struct", !.ref = struct]

Dims(type, dims) == [type EXCEPT !.dims = dims]
Sized(type, e) == [type EXCEPT !.dims = Append(@, e), !.loose = TRUE]
Until(type, term, max) == [type EXCEPT !.term = term, !.max = max]

-----------------------------------------------------------------------------
\* Operations.  `assert` is the set of the values a field may have.  `length`
\* and `static` hold what the plan builder computed (staticLength, staticOffset,
\* staticSize), or nothing.

FieldOp(sym, endian, type, assert) ==
    [op |-> "field", sym |-> sym, endian |-> endian, type |-> type, assert |-> assert,
     length |-> {}]
VirtualOp(sym, e) == [op |-> "virtual", sym |-> sym, expr |-> e]
AliasOp(sym, target) == [op |-> "alias", sym |-> sym, target |-> target]
BitField(sym, endian, width, assert) ==
    [sym |-> sym, endian |-> endian, width |-> width, assert |-> assert]
BitsOp(total, fields) == [op |-> "bits", total |-> total, fields |-> fields]
AlignOp(n) == [op |-> "align", to |-> n]
AtOp(e, body) == [op |-> "at", offset |-> e, static |-> {}, body |-> body]
BlockOp(e, body) == [op |-> "block", size |-> e, static |-> {}, body |-> body]
IfOp(e, then, else) == [op |-> "if", cond |-> e, then |-> then, else |-> else]
CallbackOp(name, direction, args) ==
    [op |-> "callback", name |-> name, direction |-> direction, args |-> args]

\* A variant: cases are tried in order; `default` holds one alternative or none.
TypeCase(tag, type) == [tag |-> tag, typed |-> TRUE, type |-> type, body |-> <<>>]
BodyCase(tag, body) == [tag |-> tag, typed |-> FALSE, type |-> U8, body |-> body]
VariantOp(sym, e, cases, default) ==
    [op |-> "variant", sym |-> sym, tag |-> e, cases |-> cases, default |-> default]

\* A struct, with the layout bounds the plan builder gives it: the least size,
\* and the greatest one if it is finite (a set of one number, or empty).
StructDef(endian, body, requires) ==
    [endian |-> endian, body |-> body, requires |-> requires, min |-> 0, max |-> {}]

\* A module with its root struct and the names of its structs in source order;
\* params gives the values each parameter's type holds, given the values the
\* caller passes, consts the constants.  Layout makes the plan of it.
PlanOf(root, order, structs, params, given, consts) ==
    [root |-> root, order |-> order, structs |-> structs, params |-> params,
     given |-> given, consts |-> consts]
=============================================================================
