# Verification of EmbX

EmbX describes binary formats.  A source file is parsed, analysed, lowered to an
intermediate form (the IR) and then to an executable *plan*; the reference runtime decodes
and encodes bytes by walking the plan, and generators turn the same plan into C++.
This directory models the compiler from the syntax tree to the plan, the runtime (the
reader, the callbacks, the decoder, the encoder), and the code that the C++ generator writes.
TLC checks the models; TLAPS proves, for every instance, the properties of the reader and of
the callbacks, the safety of the decoder and its progress, the types and values of expressions,
and the values of constants.

## Inventory

Everything runs in one thread.  The hard behaviour of the runtime is nesting: one cursor, one
stack of limits, one byte order and one symbol environment are shared by constructs that nest
freely, fail at any point, undo what they did, and hand the cursor to user callbacks.  The
hard behaviour of the compiler is agreement: several walks over the same tree (names,
types, sizes, dependencies) decide separately what the runtime will find there.

| Component (src/src/...) | State | Operations | What makes it correct |
|---|---|---|---|
| `runtime/Runtime.*`: Reader | cursor, active limit, stack of outer limits, byte order, bit container | seek, seekRoot, align, uint, bytes, beginBits/bits/endBits, pushLimit, popLimit, state/restore | the cursor never leaves the active limit, limits nest, a saved state can be restored |
| `runtime/Runtime.*`: CallbackRegistry | callbacks by name | call for decode, call for encode | a failed callback leaves no trace; a callback cannot see past its block |
| `plan/Plan.h` | structs, operations, types, expressions | read only | - |
| `decoder/Decoder.cpp` | environment, recursion depth, diagnostic, a Reader | readType, field, member (ten kinds of operation), readStruct, run, decode | decodes exactly the inputs the plan describes; failing consumes nothing; exceptions stay inside; it returns |
| `encoder/Encoder.cpp` | output, position, environment | the mirror image of the decoder | what it writes decodes to what it was given |
| `runtime/ExpressionEvaluator.cpp` | - | evaluate on 64-bit signed and unsigned values | no overflow, no silent change of sign |
| `compiler/Compiler.cpp` | - | parse, analyse, lower, build | the first phase that refuses ends it |
| `semantic/SemanticAnalyzer.cpp` | - | checks of the syntax tree | rejects what later passes cannot handle |
| `ir/IrBuilder.cpp`, `core/Symbol.h`, `core/Resolver.h` | scopes, symbols | declare, resolve, lower | a name means the declaration a reader of the source would take |
| `plan/PlanBuilder.cpp` | the plan under construction, values of constants and enum items | lowering, constants, types of expressions, dependencies, layout bounds | values are those of the definitions in any order; accepted plans never name an unbound value or mix types; layout bounds contain every real size |
| `plan/LayoutGraph.cpp` | graph of values and types | build, cycle check, static layout safety | accepted plans do not contain themselves |
| `codegen/CppGenerator.cpp` | - | C++ for a plan: types, a decoder and an encoder for every struct | the code compiles, and does what the decoder and the encoder do |
| `parser` | - | text to syntax tree | - |
| `codegen/SourceGenerator.cpp`, `report`, `reflection`, `value`, `diagnostics`, `main.cpp` | - | text and records from a plan | - |

Calls go downwards only: `Engine::decode` creates a Reader, the decoder calls it and the
registry, the registry calls user code with the same Reader.  Exceptions travel upwards
from the reader to `member()`, which catches them; everything else fails by returning
false.  The encoder writes to a buffer of its own and hands it to callbacks.  `PROJECT.json`
lists each hazard at its line.

## Modules

| Module | Models |
|---|---|
| `Reader` | `runtime::Reader` as a record with two operators per method: `CanX`, under which the method returns instead of throwing, and `X`, the reader it leaves |
| `CallbackRegistry` | one reader in the hands of the decoder and of a decode callback that may call any method with any argument; `CallbackRegistry::call` with its rollback |
| `Plan` | the plan: operations, types, structs, and expressions in the four shapes that fail differently at run time |
| `Executable` | what every backend relies on in a plan: the checks of `validateExecutablePlan`, and what the checks of types and dependencies establish, stated without their recursion |
| `Dependencies` | dependency validation and bounded `[*]` |
| `Layout` | lowering of structs, their static layout, and layout bounds |
| `LayoutGraph` | the checks before a plan is published; `Accepted` is the filter on every plan that is run |
| `Decoder` | `Decoder.cpp`, one action per operation, return and unwinding path |
| `DecoderReference` | what the constructs mean, as a function of windows, to compare the decoder with |
| `Encoder` | `Encoder.cpp` and its writer, as a function from a value to output, failure or exception |
| `Codec` | decoder and encoder over one plan: decode, encode this value or one near it, decode what was written |
| `CppGenerator` | the plans the C++ generator takes, and whether the names in what it emits compile |
| `Generated` | what the emitted decoder and encoder do, as functions of the input and of the value |
| `Words` | 64-bit values and the operators on them, on words of any width |
| `Operators` | one step of each walk over an expression: what a literal, a symbol or an operator makes of what its operands gave, for evaluation and for both ways types are found; what an operation means over numbers without end |
| `Expressions` | the walks: evaluation, and the three ways types of expressions are found: from their form (`Infer`), by the analyzer (`LooksInteger`) and from declarations (`TypeOf`) |
| `Constants` | the passes over the set of pending constants, then the enum items |
| `ConstantMeaning` | what constants mean: the abstract specification of `Constants` |
| `Names` | the analyzer's checks of a body, scopes, and the symbols that the IR builder binds names to |
| `FrontEnd` | the phases from the syntax tree to the plan, built from the modules on expressions, constants and names; the reference for values (`Exact`) |
| `MCCallbackRegistry`, `MCDecoder`, `MCCodec`, `MCFrontEnd` | values for TLC |
| `Reader_proofs`, `CallbackRegistry_proofs`, `Words_proofs`, `Constants_proofs` | theorems |
| `Decoder_proofs`, `DecoderLimits_proofs`, `DecoderPlans_proofs`, `DecoderEnds_proofs` | theorems about the decoder: for all plans and callbacks; its limits; what the checks of a plan promise it; that it gets on |

### Decoder

The C++ recursion is the stack `frames`; every frame is an activation of `readType`,
`readStruct` or `member` that has called another one.  `ret` is what the callee gave the
top frame: a value, false, or an exception on its way.  A frame therefore has three kinds of
action: begin, end (`EndBlock`, `FieldValue`, ...), and fail (`FailBlock`, `FailStruct`, ...),
which is where the code undoes things by hand.  `member()` has a try block: its frames turn
an exception into false (`CatchThrow`, or `Caught` if the exception arises in that very
operation); `readType` and `readStruct` let it pass (`PassThrow`), and with it what they
meant to undo.

* `rd`, `env`, `frames`, `err`, `diag` are `r`, `env`, the C++ stack, `err` and `diag` (its
  offset); `status` and `consumed` are the `Result`.
* A terminated sequence probes for its terminator and restores the reader before every element
  (`UntilStep`); the model keeps the restore, with the condition under which it throws.
* An enum is read as the scalar under it; a string as bytes; an assertion is the set of
  values it accepts; symbols are names.  Expressions at run time are cut to a literal, a
  symbol, an unsigned difference and a comparison: what differs for the decoder is that a
  symbol may be unbound, a difference may underflow and a size may be negative.  `Words` and
  `Expressions` have the whole language.
* The plan is one of `Plans`, and `Operations` gives for each struct the set of its operations
  at every depth.  `PlanAssumption` says that the plans are executable (`Executable`); TLC
  evaluates it on all plans of every run of the decoder.
* `Keep` bounds the list of decoded elements (`MaxKept`), so that an endless sequence is
  a cycle of the model and not an endless run.  `MaxKept` exceeds the elements any other
  decode of the runs has.

A callback does one of `Touches` to the reader: nothing, read a byte, seek to the start,
change the byte order, push a limit, pop one, or seek to the start and push a limit of no
bytes there ("trap").  Success keeps what it did, failure restores, and a refused restore is
an exception with the reader where the callback left it.  In `CallbackRegistry`, any client calls any
method in any order, and `restore` with any state of `Handed`: `Reader::State` has public
fields, so a client may make one.

### Encoder and codec

`Encoder` computes with a writer `w`: the data, the position, the environment and `is`, which
is "ok", "false" (what the callee returned) or "throw" (the writer's exceptions, which leave
`encode()`); a step hands on a writer that is not ok as it is.  In `Codec`, the turn of a value is *decode*
(from an input, or made by hand), *encode* (the decoded value, or one that differs from it in
one place), *written*, and *again*, when what was written, followed by any byte, is decoded.

### Generated code

The generator has one function per construct, which writes C++ that does the construct; a
definition of `Generated` is what the C++ does.  The emitted `Reader` has an error flag that
is looked at after a field, where the runtime has exceptions; a block has a reader of its own,
a block and a struct are written to buffers of their own.  The object of a struct also holds
what an `at` places and an `if` chooses, as the values of the runtime do; the members of
a block, which is an object of its own in C++, are compared as members of the struct.
Names decide what compiles: an object declares every member once, sizes and tests use
members of their own object, and locals have fixed names (`Compiles`).  The claims about what
does not compile, the block out of place and the endless loop were made on emitted code with a
compiler before they were modelled.

### Front end

A module is a record: declarations with their expressions, the ids of its enum items in
order, the underlying types, the structs with names in place of symbols, and `uses`:
expressions with what the place they are in asks for (a size, a tag, a test or a value).  The
stages of `FrontEnd` are those of `compileFile`, and those inside `plan::build`.  `constants`
is a stage of several steps: `left` is what the loop over the `unordered_set` has still to
visit in this pass, in any order, `done` the vector of what it computed, which leaves
`pending` at the end of the pass only.  Words are of `2 * Half` numbers.

Floating-point numbers are one value, `Real`: an operation with one may succeed or fail, and
a comparison gives either answer.

## Runs

| Run | Expect | Shows |
|---|---|---|
| `MCCallbackRegistry.cfg` | pass | `Bounded`, `Confined` and `EscapesOnlyNested` for all sequences of calls |
| `MCDecoder.cfg` | pass | `MatchesReference`, `LimitsMirrorFrames`, `FailureLeavesNothing`, `Resolved`, `NoRecursion`, `Termination` |
| `MCDecoder_Callbacks.cfg` | pass | `FailureLeavesNothing`, `ExceptionsContained` and the type invariant (with the reader's `Valid`) when callbacks tamper with cursor and limits; `Progress`: every step leaves less to do; `PayloadWithinMax`: a terminated sequence takes no more than its maximum |
| `MCDecoder_ZeroProgress.cfg` | violation of `AlwaysTerminates` | elements without bytes repeat for ever |
| `MCDecoder_Nested.cfg` | violation of `NestedSequencesDecode` | a valid nested sequence is rejected |
| `MCDecoder_BitOrder.cfg` | violation of `GroupInOwnOrder` | a bit group is loaded in a stale byte order |
| `MCDecoder_StaleSize.cfg` | violation of `SizeOnlyIfExact` | `$size_in_bytes` of an enclosing struct is visible |
| `MCDecoder_Next.cfg` | violation of `NextIsHere` | `at($next)` in a struct that does not begin the input reads elsewhere |
| `MCCodec.cfg` | pass | `RoundTrip`, `AcceptedIsKept`, and sizes against the layout bounds: `WrittenInBounds`, `ReadInBounds`; generated code against both: `GeneratedDecodesAlike`, `GeneratedEncodesAlike` |
| `MCCodec_Static.cfg` | violation of `DecodedEncodes` | an array of two-byte elements with a constant count cannot be encoded |
| `MCCodec_Blocks.cfg` | violation of `BackendsWriteAlike` | generated code writes the field after a block over the block |
| `MCFrontEnd.cfg` | pass | `ValuesAreExact`, `OrderDoesNotMatter` (the refinement of `ConstantMeaning`), `TypedExpressionsEvaluate`, `NamesMeanNearest`, `Settles` |

**Bounds.**  The registry run has an input of two bytes, up to two nested limits
(`MaxDepth`), bit groups of 9 and 16 bits and one width too large, and nine handed
states, one for each check of `restore` and one that passes.  Two limits are enough for
the two to differ, which is where `front()`, `back()` and the pushes disagree.

The decoder run has 498 plans: a head byte `a`; then one operation of every kind, with
every leaf operation inside every construct that has a body, and every leaf two constructs
deep; then nothing, an array sized by what the operation bound, or an alias of it.
`Accepted` removes those the plan builder refuses, among them a struct that holds itself
behind a block and one that does as the default alternative of a variant, and one (`Behind`) whose rollback throws far before the end of what was read
is added.  Inputs are all of three bytes over {0, 1, 2}: sizes, tags and terminators
hit, miss by one and run past the end; a window can end before, at and after the end of what
is read in it.  The callback run has plans with a callback in every construct, nested
structs at the recursion limit, parameters good and bad, and `requireFullInput`.

The codec run has the same leaves and constructs, members that follow them (which meet
their end), terminators of one and two bytes that do and do not overlap themselves, encode
callbacks that write, rewind and fail, and, for each decoded value, every value with one
number, byte or element more, less or missing.  Of its 189 plans the generator takes 172, and
the code for 147 of these compiles; blocks, alternatives, placements and sequences are among
them, truncated inputs that hang and blocks that are not filled too.

The front end runs with words of three bits (-4..3 and 0..7), in which every operation on a grid of
literals at both ends is tried; graphs of three constants over every
combination of eleven expressions (each other, circles, a parameter, an enum item, an error,
an error that is not evaluated); enums of two widths and both signs, with items that
share names; 12 kinds of symbol in every pair under every operator; and names declared and
used in every kind of body, before, after and around each other.  About fifteen thousand modules,
with every order of the passes.

`CHECK_DEADLOCK FALSE` where the program ends: `decode()`, `encode()` and `compileFile()`
return.  `Termination` shows that decoding never stops half way, `Settles` that the values
of the constants are found or refused.

**What the properties leave out.**  `LimitsMirrorFrames` promises nothing once a rollback has
thrown (`Unrestored`): the exception of `popLimit` or `restore` takes the place of the error
that started it, and what the frames meant to pop stays.  The decode is failing then and reads
no more.  `MatchesReference` says nothing when an option or the
caller refuses (`parameters`, `depth`), a callback fails, or a rollback is refused
(`restore`): the last is the disagreement of `MCDecoder_Nested.cfg`, and no valid input is
lost in any other way.  In the plans of this run a bit group wider than a byte (nine
bits, so that there is padding) comes after fields of its own byte order, and typed alternatives
are of one byte: where the orders differ, `MCDecoder_BitOrder.cfg` shows what happens to groups.  `RoundTrip` leaves out a body in which
an alignment or a block comes after an `at` (its zeros may erase what was placed).
`AcceptedIsKept` leaves out plans for which bytes do not determine the value (`Ambiguous`):
`at` and callbacks that write over members, elements that begin like the terminator,
terminators that overlap themselves, bytes of dynamic length.  The bounds properties leave
out callbacks outside fixed blocks, and alignment in a branch (disagreement 8).
The generated code is compared where it compiles and the backends are not known to differ.  For
both directions, a typed alternative of two bytes must have the byte order of the struct
(`OneOrder`).  When decoding, a block must be filled (the runtime skips what is left, the
generated decoder refuses), the generated decoder makes no assertions and computes virtual
members only when used, and a truncated sequence of scalars hangs.  When encoding, blocks come
last (`BlocksLast`), places are counted at the root only (`PlacedAtRoot`: a struct and a
block start again from zero), and an alignment after an `at` erases nothing (`Erases`).
`TypedExpressionsEvaluate` leaves out scaled fields, decimal items of unsigned enums and
text (10, 12 and 13 below).

**Fairness.**  `FairSpec` of the decoder is weak fairness of the whole next-state relation:
decoding is sequential code in one thread that runs until it returns.  Callbacks are assumed
to return.  `Termination` is checked with elements that take at least a byte; without that it
fails (`MCDecoder_ZeroProgress.cfg`).  `FrontEndSpec` has weak fairness of `ConstantsNext`, the
loops over constants and items, for the same reason; which constant the loop takes next
is never assumed.

## Disagreements between documents and code

With a run:

1. `Runtime.h:80` compares `limits.back()`, the innermost saved limit, with the input size; the
   outermost one is `front()`.  A state saved inside two limits, the inner of which is enclosed
   by one shorter than the input, is refused.  A failed callback is then not rolled back
   (`tests/runtime_hardening_test.cpp:75`), and a terminated sequence inside another one, or
   inside a block that ends before the input, always fails (`docs/TERMINATED_SEQUENCE_SPEC.md:77`).
2. A terminated sequence does not check that an element consumed anything
   (`docs/TERMINATED_SEQUENCE_SPEC.md:167`).
3. The decoder loads a bit container before it sets the byte order of the group
   (`Decoder.cpp:252`; the encoder sets the order first; `docs/LANGUAGE.md:167`).
4. `$size_in_bytes` of an enclosing struct is visible in a nested struct whose size is not
   exact (`Decoder.cpp:274`; `docs/LANGUAGE.md:328`).
5. The encoder compares `staticLength`, a count of elements, with the bytes it wrote, so it
   refuses `u16[2]` (`Encoder.cpp:263`; `docs/PLAN_INVARIANTS.md:25`).
6. `$next` is materialized as an offset from the start of the struct and used as an offset in
   the input (`PlanBuilder.cpp:1358`; `docs/FOUNDATION_CLOSURE_SPEC.md:73`).
7. The generated encoder inserts a block at the end of the output and does not move on, so the
   next field is written over it (`CppGenerator.cpp:1462`;
   `docs/DIFFERENTIAL_CONFORMANCE_CONTRACT.md:18`).

Met while modelling, excluded from the properties as said above:

8. Layout bounds of a branch start at offset zero, so alignment inside an `if`, a `variant` or
   a nested struct that is not aligned can take more or fewer bytes than they say
   (`PlanBuilder.cpp:1575`; `docs/FOUNDATION_CLOSURE_SPEC.md:63`).
9. A hexadecimal item of an enum with a signed type makes `std::get` throw out of
   `plan::build` (`PlanBuilder.cpp:1859`; stage `thrown`).
10. A decimal item of an unsigned enum is a signed value at run time and an unsigned type in
   checks (`PlanBuilder.cpp:160`, `1864`), so `E::A - 6` can be negative.  Items of earlier
   enums are visible too, not only "an earlier item in the same enum" (`PlanBuilder.cpp:1819`).
11. A name may be declared again in the body of a block, an `at` or an `if`; the inner value
    then takes the place of the outer one in the decoded object (`Decoder.cpp:255`, `265`).
12. A field with `scale` has the type of the integer on the wire and a floating-point value, so
    a size made of it is accepted and always fails.
13. A virtual field or callback argument that is a string literal is accepted and always fails.
14. The generated loop of a sequence of scalars never looks at the error flag, so a truncated
    input is read for ever (`CppGenerator.cpp:1289`).
15. Two blocks, two alignments or two placements in one struct, bytes of a literal length, and
    sizes that are aliases are accepted by the generator, and the code does not compile
    (`CppGenerator.cpp:1421`-`1428`, `1302`).

## Proofs

TLAPS checks the following for every value of the constants.

*Reader and callbacks* (every input size, every set of arguments, every depth of limits):

* `TypeCorrect`: the type invariant of `CallbackRegistry`.
* `ReaderBounded`: the cursor is inside the active limit, the limits nest, the outermost
  is the input.
* `CallbackConfined`: a callback that pops only its own limits stays under the limit it
  was called under.
* `RefusedOnlyNested`: a rollback is refused only under two limits or more.

None of these is inductive alone.  The invariant `IInv` adds that the reader found by the
running callback was itself valid, and that while `kept` holds the limits it found are a prefix
of the reader's (`OnTop`), with the next limit no larger than the one it was called under.  The
lemmas of `Reader_proofs` say that each method preserves `Valid`; the one that takes work is
`RestorableValid`: `restore` walks the limits from the innermost outwards and checks neighbours
only, and compares the innermost one with the size.  From this, all saved limits equal the size
(`RestorableLimits`, by taking the least offending distance from the end), so an accepted state
is valid even though the check is not the one intended.  `ShallowRestorable` is the converse
for at most one limit.  Assumptions: `SizeAssumption` and `ArgumentAssumption` (sizes are
naturals, handed states are of the type `State`).

*Decoder* (every executable plan, every input, option, parameter and callback):

* `DecoderInvariant`: `DecoderInv`, the invariant under the others.
* `DecoderTypeOK`: the cursor stays inside nested limits, whatever is decoded and whatever
  callbacks do, and structs are read only where `readType` is called.
* `NoExceptionEscapes`: no exception leaves `decode()`.
* `FailuresLeaveNothing`: a decode that fails has consumed nothing and bound nothing.
* `LimitsAreMirrored`: if callbacks leave the limits alone (`LeavesLimits`), the reader's limits
  are at every step those of the blocks and terminated sequences being read.
* `PayloadsWithinMax`: a terminated sequence that is read has taken at most its maximum of
  payload, wherever callbacks move the cursor while its elements are read (`PayloadWithinMax`).
* `NoStructInItself`: if the structs of every plan can be ranked (`Layered`), no struct is
  decoded inside a decode of itself.
* `ValuesAreBound`: if every plan has a derivation of what its operations bind and want
  (`Derivable`), every symbol is bound when it is evaluated.

`DecoderInv` has, beside the reader's `Valid`, the shape of the C++ stack (`StackOK`, `TopOK`):
which frames can call which, that every list of operations in a frame consists of operations
of the plan and every type is one of its types, and, for a group of bits, that the container
holds exactly the bits of the fields still to be read, as the widths add up to the total.
It is needed because an action knows the frame it returns to only by the kind of the frame above;
without it, a returned value could meet a frame that takes none.  Two facts carry the rest.
Under every frame of `readType` and `readStruct` but the root struct there is one of `member()`, which catches
an exception; and the root struct begins at 0, so its own rollback, a seek, cannot throw,
whatever limits a callback has left.  It therefore always runs, and puts the environment back.

*The decoder gets on* (the same plans, inputs and callbacks):

* `DecodingProgresses`: `Progress`, an action property: every step of `decode()` leaves less to do
  (`Precedes(Works', Works)`), but for `Stalls`, the end of an element of a terminated sequence that
  stands where it began or before.
* `StackAsTallAsPlan`: the calls nest no deeper than the plan does.
* `WorkRunsOut`: on stacks of a bounded depth the order is well founded.
* `DecodingRunsOut`: the three together, for plans that are finite trees (`Finite`).
* `DecodingEnds`: the same without the exception, for every plan in which no terminated sequence
  is of structs (`PlainSequences`): on such a plan no input can keep `decode()` going for
  ever, whatever callbacks do to the reader.  The run `MCDecoder_ZeroProgress.cfg` has a plan that
  is not so, and there an input can.

`Works` counts, for every frame from the root outwards, the operations, elements or bytes it has
still to take and then how far it is with the present one; less work is less in the first frame
that differs, so a call, which adds a frame, and a return, which advances the one below, both go
down.  A terminated sequence has no counter: what it has left is the input behind the cursor, and
a callback may move the cursor back.  That is why the property has an exception, and why
`LoopInv` (`LoopsCountDown`) is needed: an array that waits for an element has one to take, and
only an element that is a struct is waited for by a terminated sequence, as scalars are read at
once.  The measure is a sequence as long as the stack, and such sequences, unlike tuples
of one length, are not well founded by themselves: `Heights` bounds the stack by the nesting of
the plan, and a missing frame counts as more than any work, which is the lexicographic order of
the library.  What is proved is thus the variant of `Termination`; that
a fair behaviour takes the steps is left to TLC.  `PlansHaveHeights` of `MCCodec` evaluates
the hypothesis on all plans of the decoder run, and `PlansOfBothKinds` finds plans with
terminated sequences among those that are `PlainSequences`, and plans that are not.  `PlainInv`,
which `DecodingEnds` needs, says that on a plain plan no frame is ever over that of a terminated
sequence: its elements are read without one.

`PayloadInv` says between two elements what `PayloadWithinMax` says of the whole: while an element
is read a callback may move the cursor, to before the sequence too, and only the comparison after
the element, in which such a difference is huge, brings it back.  Every other step goes on in
a frame that is not the loop's (`Elsewhere`).

`LimitInv` adds to `LimitsMirrorFrames` that it also held for the reader each terminated
sequence has saved, one frame further down: restoring it gives back the limits of the
frames below.  While a rollback's exception is on its way nothing is said, and then the top
frame can only fail.  Pushes and pops are related to frames by counting those that bound the
reader (`Bounding`), so the lemmas are about cardinalities of sets of indices.

`RankInv` says that every frame above a struct holds only operations and types of structs of
lower rank.  The stack has then no more structs than the plan, whatever the input.
`ValueInv` says, for every frame, that what it still wants is bound now or will be when the
frames above return: `there[i]` is what is sure to be bound when frame i goes on.  A block
or an `at` hands down what it binds; a branch, a case and an array hand down nothing; a
struct gives back the environment it found.

The hypotheses `LeavesLimits`, `Layered` and `Derivable` are what the code checks or what a client may do,
stated without recursion.  `Layered` and `Derivable` are the declarative forms of
`validateStaticLayoutSafety` and `validateLayoutDependencies`: that the recursive checks of
`LayoutGraph` and `Dependencies` imply them is an induction over plans, which the prover cannot make.
`MCCodec` states it as assumptions, `PlansAreLayered` and `PlansAreDerivable`, that TLC evaluates
on all 498 plans of the decoder run.  Without `LeavesLimits` the conclusion is false: a callback
that succeeds keeps a limit it pushed.  Other assumptions: `PlanAssumption`, `HostAssumption`,
`InputAssumption` (inputs are bytes), `OptionAssumption` (options are naturals) and the reader's.

*Constants* (every set of modules, every evaluation, every order of the set):

* `ConstantsInvariant`: `PassInv`, that values, `pending`, `left` and `done` fit together.
* `PassesMean`: `Constants` implements `ConstantMeaning`, that is, a constant gets the value of
  its expression when all it refers to is defined, and a module is refused only if a constant
  uses what is no constant, has no value, or is in a circle.

`PassInv` is needed because the model reads a value as soon as it is computed but counts the
constant as pending until the pass ends: `DOMAIN env` is what has left `pending` together with
`done`, and whatever the pass has visited in vain waits for something pending.  The last part is
what makes an unproductive pass a circle: then `done` is empty, so every pending constant waits for a pending one.
Assumption: `ItemsAreNotConstants`.

* `ConstantsAreExact`: without floating-point numbers, every constant and every enum item that has
  a value has the one arithmetic gives its definition, and the constants are refused only for a
  use of what is not a constant, a definition without a value, or a circle.

`ConstantsAreExact` is `ValuesAreExact` on the level of `Constants`.  Its invariant, `ExactInv`, adds
that only constants and items have values; in a step, the expressions all of whose names have
values are a set closed under operands, on which `EvaluationIsExact` holds.  The
hypothesis `Defines` says what `expr`, `names`, `meaning` and `exact` are: the definitions, the
names in them and what they mean.  It is a system of equations in `exact`, which has a
solution for definitions in a circle too.

*Expressions* (every width of word; `HalfAssumption`):

* `SignedIsExact`, `UnsignedIsExact`, `DivisionIsExact`: the tests the code makes before an
  operation, themselves free of overflow, refuse exactly the results that do not fit.
* `EvaluationIsExact`: a whole expression without floating-point numbers evaluates to one value,
  the exact one, or fails where the exact one is no word of its type.
* `TypesAreKept`: an expression that the plan builder gives a type evaluates to values of that
  type or fails for the numbers in it, and as a size never for its kind (the core of
  `TypedExpressionsEvaluate`, floating-point numbers and every nesting included).
* `AnalyzerRefusesNoTyped`: what the plan builder finds a type for, the analyzer, which knows
  nothing of the declarations, does not refuse.

The walks over an expression are recursive operators, which proofs cannot reach.  Each is
therefore split: `Operators` has the step, from the results of the operands to that of the
expression, and `Expressions` the recursion, which is nothing but the step applied again.
A theorem speaks of any set of expressions that has the operands of each (`Trees`, with a height
that falls), and of any functions on it that agree with the step everywhere (`Evaluates`,
`Infers`, `Types`, `Means`), and goes by induction on the height.  That the walks of
`Expressions` agree with the steps is their definition; `MCFrontEnd` has TLC evaluate it on the
expressions of the run, as `TypedWalks`, and together with `Defines` as `ExactWalks`, on all its
graphs of constants and enums without floating-point numbers, circles included.

**Only model-checked.**  What the decoder decodes (`MatchesReference`), and what the encoder and
the generated code do: `DecoderReference`, `Dependencies`, `Layout`, `LayoutGraph`, `Encoder`,
`Codec`, `CppGenerator` and `Generated` are recursive over plans, so theorems cannot reach them.
`RoundTrip`, `AcceptedIsKept`, the bounds properties and the comparison with generated code stay
with TLC for this reason, and so does `NamesMeanNearest`.  `ValuesAreExact` and
`TypedExpressionsEvaluate` are invariants of `FrontEnd`, whose definitions reach the recursive
walks; what carries them is proved (`ConstantsAreExact`, `TypesAreKept`), the invariants themselves
are checked.  Liveness (`Termination`, `Settles`) is beyond the prover; the variant that
`Termination` rests on is not.

## Not modelled

* The parser drives a generated ANTLR parser; the source generator, the report and reflection
  write text: no state across steps, and no meaning in this repository to compare the text with.
* Of the C++ generator: namespaces, aliases of types, enums, strings, the copies of objects,
  sizes below zero (their exception leaves `decode__`), the order of struct definitions, bytes of
  more than one dimension.  A callback of the generated decoder does nothing.
* Attributes, documentation, namespaces and imports: copied.
* Type aliases, also as underlying types of enums: chains of names, followed with a visited
  set.  A model has the type they end in.
* Of `validateExecutablePlan`: the identity of symbols and its tests of variant tags (the models'
  tags are distinct).
* Floats, strings, the scale transform, the texts of errors, diagnostic paths.
* Array views and descriptors: index arithmetic without interaction.
* Overflow of sizes in `LayoutSize` (64 bits): the bounds of a plan are numbers without end.

## Plan

Done: the reader, callbacks, decoder, encoder, plan builder from dependencies to layout
bounds, constants, expressions, names, the phases of the compiler, and generated code; proofs of the
reader, the registry, the decoder's safety and progress, expressions and constants.

Next:

1. The bits of a group and the bounds of sizes as lemmas on `Reader` and `Layout`.
2. The steps of `DecoderReference` and `Encoder` apart from their recursion, as `Operators` has
   those of expressions, so that what is decoded and encoded can be proved about.
3. Array descriptors and views as operators against their index maps.
4. Aliases of types in `Names` and `Layout`.
