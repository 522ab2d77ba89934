--------------------------- MODULE ConstantMeaning ---------------------------
(***************************************************************************)
(* What the constants of a module mean, however they are computed: each is *)
(* the value of its expression once all it refers to is defined, in any    *)
(* order; a module is refused only for a reason.                           *)
(***************************************************************************)
CONSTANTS Uses(_, _),        \* the symbols the expression of a constant refers to
          Evaluate(_, _, _), \* its possible outcomes, given those of the others
          Failures           \* the outcomes that are not values

VARIABLES source,   \* any module; source.constants is the set of its constants
          meaning,  \* the values of those that are defined
          outcome

vars == <<source, meaning, outcome>>

Defined == DOMAIN meaning
Open == source.constants \ Defined
Ready(x) == x \in Open /\ Uses(source, x) \subseteq Defined

Init == /\ meaning = [x \in {} |-> x]
        /\ outcome = "defining"

Define(x, value) ==
    /\ outcome = "defining" /\ Ready(x)
    /\ value \in Evaluate(source, x, meaning) \ Failures
    /\ meaning' = [y \in Defined \cup {x} |-> IF y = x THEN value ELSE meaning[y]]
    /\ UNCHANGED <<source, outcome>>

\* A use of something that is not a constant, an expression that has no value,
\* or constants that all wait for one another.
Unavailable == \E x \in Open : ~(Uses(source, x) \subseteq source.constants)
Valueless == \E x \in Open : Ready(x) /\ Evaluate(source, x, meaning) \cap Failures # {}
Circular == \E S \in SUBSET Open : S # {} /\ \A x \in S : Uses(source, x) \cap S # {}

Refuse ==
    /\ outcome = "defining"
    /\ Unavailable \/ Valueless \/ Circular
    /\ outcome' = "refused"
    /\ UNCHANGED <<source, meaning>>

Finish ==
    /\ outcome = "defining" /\ Open = {}
    /\ outcome' = "defined"
    /\ UNCHANGED <<source, meaning>>

Next == \/ \E x \in Open : \E value \in Evaluate(source, x, meaning) : Define(x, value)
        \/ Refuse
        \/ Finish

Spec == Init /\ [][Next]_vars
=============================================================================
