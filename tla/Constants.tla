------------------------------ MODULE Constants ------------------------------
(***************************************************************************)
(* How the plan builder (build(), src/plan/PlanBuilder.cpp:1766-1866)      *)
(* computes the constants of a module and then the items of its enums.     *)
(* Constants are taken in passes over a set of those that are pending, in  *)
(* no particular order; enums and their items in the order of the source.  *)
(***************************************************************************)
EXTENDS Operators, Sequences

CONSTANTS Sources,           \* s.constants, s.items (a sequence of [id, enum]), s.under
          Uses(_, _),        \* collectExprSymbols of the expression of a symbol
          Evaluate(_, _, _)  \* the possible outcomes of that expression

\* An enum item is not a constant: the resolver gives each an identity of its own.
ASSUME ItemsAreNotConstants ==
    \A s \in Sources : \A i \in DOMAIN s.items : s.items[i].id \notin s.constants

VARIABLES source,    \* the module
          env,       \* the values of the constants and items so far
          pending,   \* constants without a value when the pass began
          left,      \* those the pass has still to visit
          done,      \* those it has computed
          next,      \* the next enum item
          stage      \* constants, items, valued, or how it ended

vars == <<source, env, pending, left, done, next, stage>>

Items == {source.items[i].id : i \in DOMAIN source.items}

Extended(x, value) == [y \in DOMAIN env \cup {x} |-> IF y = x THEN value ELSE env[y]]

InitWith(s) ==
    /\ source = s
    /\ env = [x \in {} |-> Fail]
    /\ pending = s.constants /\ left = s.constants /\ done = {}
    /\ next = 1

Init == \E s \in Sources : InitWith(s) /\ stage = "constants"

Stop(how) == stage' = how /\ UNCHANGED <<source, env, pending, left, done, next>>

-----------------------------------------------------------------------------
\* A pass visits the pending constants; what it computes can be read at once,
\* but counts as pending to its end.

Visiting(x) == stage = "constants" /\ x \in left
Available(x) == Uses(source, x) \subseteq source.constants

\* Mutant of Waiting: only what the pass has still to visit is waited for.
WaitingForLeft(x) == Uses(source, x) \cap left # {}

Waiting(x) == Uses(source, x) \cap pending # {}

Unavailable(x) == Visiting(x) /\ ~Available(x) /\ Stop("refused")

Wait(x) ==
    /\ Visiting(x) /\ Available(x) /\ Waiting(x)
    /\ left' = left \ {x}
    /\ UNCHANGED <<source, env, pending, done, next, stage>>

Compute(x) ==
    /\ Visiting(x) /\ Available(x) /\ ~Waiting(x)
    /\ \E v \in Evaluate(source, x, env) :
          \/ v \in Failures /\ Stop("refused")
          \/ /\ v \notin Failures
             /\ env' = Extended(x, v)
             /\ left' = left \ {x} /\ done' = done \cup {x}
             /\ UNCHANGED <<source, pending, next, stage>>

\* Mutant of EndPass: a pass that computes nothing does not end the search.
EndPassAnyway ==
    /\ stage = "constants" /\ pending # {} /\ left = {}
    /\ pending' = pending \ done /\ left' = pending \ done /\ done' = {}
    /\ UNCHANGED <<source, env, next, stage>>

EndPass ==
    /\ stage = "constants" /\ pending # {} /\ left = {}
    /\ IF done = {} THEN Stop("refused")
       ELSE /\ pending' = pending \ done /\ left' = pending \ done /\ done' = {}
            /\ UNCHANGED <<source, env, next, stage>>

ConstantsDone ==
    /\ stage = "constants" /\ pending = {}
    /\ stage' = "items"
    /\ UNCHANGED <<source, env, pending, left, done, next>>

-----------------------------------------------------------------------------
\* enumValueFits: an enum holds 2 * half numbers.
Fits(v, under) == /\ IsInteger(v)
                  /\ v.v \in IF under.signed THEN -under.half .. under.half - 1
                                             ELSE 0 .. 2 * under.half - 1

Repeated(item, v) == \E i \in 1..next - 1 : /\ source.items[i].enum = item.enum
                                            /\ env[source.items[i].id].v = v.v

\* The next item; an unsigned value in a signed enum is read as a signed one,
\* which std::get refuses with an exception.
ComputeItem ==
    /\ stage = "items" /\ next <= Len(source.items)
    /\ LET item == source.items[next]
           under == source.under[item.enum]
       IN  IF ~(Uses(source, item.id) \subseteq DOMAIN env) THEN Stop("badItem")
           ELSE \E v \in Evaluate(source, item.id, env) :
              \/ (v \in Failures \/ ~Fits(v, under)) /\ Stop("badItem")
              \/ /\ v \notin Failures /\ Fits(v, under)
                 /\ IF under.signed /\ v.t = "uint" THEN Stop("thrown")
                    ELSE IF Repeated(item, v) THEN Stop("badItem")
                    ELSE /\ env' = Extended(item.id, v)
                         /\ next' = next + 1
                         /\ UNCHANGED <<source, pending, left, done, stage>>

ItemsDone == stage = "items" /\ next > Len(source.items) /\ Stop("valued")

Visit(x) == Unavailable(x) \/ Wait(x) \/ Compute(x)
ConstantsNext == (\E x \in left : Visit(x)) \/ EndPass \/ ConstantsDone \/ ComputeItem \/ ItemsDone
Next == ConstantsNext

Spec == Init /\ [][Next]_vars

-----------------------------------------------------------------------------
\* The stages in which the constants have no values yet; "rejected" is for
\* modules that are turned down before.
Before == {"parsed", "analysed", "rejected", "constants"}

Meaning == INSTANCE ConstantMeaning WITH
    meaning <- [x \in DOMAIN env \cap source.constants |-> env[x]],
    outcome <- IF stage = "refused" THEN "refused"
               ELSE IF stage \in Before THEN "defining" ELSE "defined"

\* The passes give the constants the meaning they have whatever the order they
\* are taken in, and refuse a module only for a reason.
OrderDoesNotMatter == Meaning!Spec

-----------------------------------------------------------------------------
\* Reference: what the definitions of s mean, where expr[x] is that of x and es has
\* the expressions, with the names in each.  A name that is neither a constant nor
\* an item may mean anything.
Defines(s, es, names, expr, meaning, exact) ==
    /\ \A e \in es : e.kind # "float"
    /\ Mentions(es, names)
    /\ Means(es, meaning, exact)
    /\ \A x \in s.constants \cup {s.items[i].id : i \in DOMAIN s.items} :
          /\ expr[x] \in es
          /\ Uses(s, x) = names[expr[x]]
          /\ meaning[x] = exact[expr[x]]

\* `out` is a walk over es that finds what the expressions of s evaluate to.
Computes(s, es, expr, values, out) ==
    /\ Evaluates(es, values, out)
    /\ \A x \in s.constants \cup {s.items[i].id : i \in DOMAIN s.items} :
          Evaluate(s, x, values) = out[expr[x]]

Circle == \E S \in SUBSET source.constants :
             S # {} /\ \A x \in S : Uses(source, x) \cap S # {}

\* Every value is exact, and a module is refused only for a use of what is not a
\* constant, a definition without a value, or a circle.
AreExact(expr, exact) ==
    /\ \A x \in DOMAIN env : env[x] = exact[expr[x]]
    /\ stage = "refused" =>
          \/ Circle
          \/ \E x \in source.constants : \/ exact[expr[x]] = Fail
                                         \/ ~(Uses(source, x) \subseteq source.constants)
=============================================================================
