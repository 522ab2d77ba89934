--------------------------- MODULE Constants_proofs ---------------------------
(***************************************************************************)
(* The passes over the constants implement what the constants mean, for    *)
(* every set of modules and whatever expressions evaluate to.              *)
(***************************************************************************)
EXTENDS Constants, Words_proofs

Stages == {"constants", "items", "valued", "refused", "badItem", "thrown"}

\* In a pass, what has a value is what earlier passes took out of `pending` and
\* what this one has computed; whatever the pass has visited in vain waits for
\* something that is pending.
PassInv ==
    /\ left \subseteq pending
    /\ done \subseteq pending
    /\ pending \subseteq source.constants
    /\ left \cap done = {}
    /\ DOMAIN env = (source.constants \ pending) \cup done
    /\ \A x \in pending \ (left \cup done) : Waiting(x)

ConstantsInv ==
    /\ source \in Sources
    /\ stage \in Stages
    /\ env = [x \in DOMAIN env |-> env[x]]
    /\ stage = "constants" => PassInv
    /\ next \in Nat \ {0}

\* The invariant holds when the search begins: nothing is computed.
LEMMA InitInv == Init => ConstantsInv
  BY DEF Init, InitWith, ConstantsInv, PassInv, Stages

\* Giving a symbol a value keeps the others.
LEMMA ExtendedFacts ==
  ASSUME NEW x, NEW v
  PROVE  /\ DOMAIN Extended(x, v) = DOMAIN env \cup {x}
         /\ Extended(x, v)[x] = v
         /\ \A y \in DOMAIN env \ {x} : Extended(x, v)[y] = env[y]
         /\ Extended(x, v) = [y \in DOMAIN Extended(x, v) |-> Extended(x, v)[y]]
  BY DEF Extended

\* What a visit of a pending constant finds: it has no value yet, and if it is
\* available and does not wait, all it refers to has one.
LEMMA VisitFacts ==
  ASSUME ConstantsInv, NEW x \in left, Visiting(x)
  PROVE  /\ x \in source.constants \ DOMAIN env
         /\ Available(x) /\ ~Waiting(x) => Uses(source, x) \subseteq DOMAIN env
  BY DEF ConstantsInv, PassInv, Visiting, Available, Waiting

\* No step breaks the invariant: a visit takes a constant off `left`, into `done`
\* if all it needed was there, and a new pass begins with what has no value.
LEMMA NextInv == ConstantsInv /\ [Next]_vars => ConstantsInv'
<1> SUFFICES ASSUME ConstantsInv, [Next]_vars PROVE ConstantsInv'
  OBVIOUS
<1>1. ASSUME NEW how \in Stages \ {"constants", "items"}, Stop(how) PROVE ConstantsInv'
  BY <1>1 DEF Stop, ConstantsInv
<1>2. ASSUME NEW x \in left, Unavailable(x) PROVE ConstantsInv'
  BY <1>1, <1>2 DEF Unavailable, Stages
<1>3. ASSUME NEW x \in left, Wait(x) PROVE ConstantsInv'
  BY <1>3 DEF Wait, Visiting, ConstantsInv, PassInv, Waiting
<1>4. ASSUME NEW x \in left, Compute(x) PROVE ConstantsInv'
  <2>1. PICK v \in Evaluate(source, x, env) :
          \/ v \in Failures /\ Stop("refused")
          \/ /\ v \notin Failures
             /\ env' = Extended(x, v)
             /\ left' = left \ {x} /\ done' = done \cup {x}
             /\ UNCHANGED <<source, pending, next, stage>>
    BY <1>4 DEF Compute
  <2>2. CASE Stop("refused")
    BY <1>1, <2>2 DEF Stages
  <2>3. CASE ~Stop("refused")
    <3>1. stage = "constants" /\ PassInv
      BY <1>4 DEF Compute, Visiting, ConstantsInv
    <3>2. DOMAIN env' = DOMAIN env \cup {x} /\ env' = [y \in DOMAIN env' |-> env'[y]]
      BY <2>1, <2>3, ExtendedFacts
    <3>3. PassInv'
      BY <2>1, <2>3, <3>1, <3>2 DEF PassInv, Waiting
    <3> QED BY <2>1, <2>3, <3>1, <3>2, <3>3 DEF ConstantsInv
  <2> QED BY <2>2, <2>3
<1>5. ASSUME EndPass PROVE ConstantsInv'
  <2>1. CASE done = {}
    BY <1>1, <1>5, <2>1 DEF EndPass, Stages
  <2>2. CASE done # {}
    BY <1>5, <2>2 DEF EndPass, ConstantsInv, PassInv, Waiting
  <2> QED BY <2>1, <2>2
<1>6. ASSUME ConstantsDone PROVE ConstantsInv'
  BY <1>6 DEF ConstantsDone, ConstantsInv, Stages
<1>7. ASSUME ComputeItem PROVE ConstantsInv'
  <2> DEFINE item == source.items[next]
             under == source.under[item.enum]
  <2>1. CASE Stop("badItem") \/ Stop("thrown")
    BY <1>1, <2>1 DEF Stages
  <2>2. CASE ~(Stop("badItem") \/ Stop("thrown"))
    <3>1. PICK v : /\ env' = Extended(item.id, v)
                   /\ next' = next + 1
                   /\ UNCHANGED <<source, pending, left, done, stage>>
      BY <1>7, <2>2 DEF ComputeItem
    <3>2. stage = "items"
      BY <1>7 DEF ComputeItem
    <3>3. env' = [y \in DOMAIN env' |-> env'[y]]
      BY <3>1 DEF Extended
    <3> QED BY <3>1, <3>2, <3>3 DEF ConstantsInv, Stages
  <2> QED BY <2>1, <2>2
<1>8. ASSUME ItemsDone PROVE ConstantsInv'
  BY <1>1, <1>8 DEF ItemsDone, Stages
<1>9. CASE UNCHANGED vars
  BY <1>9 DEF vars, ConstantsInv, PassInv, Waiting
<1> QED BY <1>2, <1>3, <1>4, <1>5, <1>6, <1>7, <1>8, <1>9 DEF Next, ConstantsNext, Visit

\* In every state of the search the pass is where PassInv says: a constant is in
\* exactly one of the sets of those with a value and those without.
THEOREM ConstantsInvariant == Spec => []ConstantsInv
  BY InitInv, NextInv, PTL DEF Spec

-----------------------------------------------------------------------------
\* The refinement.  While the passes run, what is defined is what has a value.

\* Before the first pass nothing is defined.
LEMMA MeaningOfInit == Init => Meaning!Init
  BY DEF Init, InitWith, Meaning!Init, Before

\* Every step of the passes is a step of the meaning or leaves it as it is.
LEMMA StepsMean == ConstantsInv /\ [Next]_vars => [Meaning!Next]_Meaning!vars
<1> SUFFICES ASSUME ConstantsInv, [Next]_vars PROVE [Meaning!Next]_Meaning!vars
  OBVIOUS
<1> DEFINE meaning == [x \in DOMAIN env \cap source.constants |-> env[x]]
<1>1. ASSUME stage = "constants"
      PROVE  /\ meaning = env
             /\ Meaning!Defined = DOMAIN env
             /\ Meaning!Open = source.constants \ DOMAIN env
  <2>1. DOMAIN env \subseteq source.constants /\ env = [x \in DOMAIN env |-> env[x]]
    BY <1>1 DEF ConstantsInv, PassInv
  <2>2. meaning = env
    BY <2>1
  <2> QED BY <2>1, <2>2 DEF Meaning!Defined, Meaning!Open
<1>2. ASSUME NEW x \in left, Unavailable(x) PROVE Meaning!Next
  <2>1. stage = "constants" /\ x \in source.constants \ DOMAIN env
    BY <1>2, VisitFacts DEF Unavailable, Visiting
  <2>2. Meaning!Unavailable
    BY <1>1, <1>2, <2>1 DEF Meaning!Unavailable, Unavailable, Available
  <2> QED BY <1>2, <2>1, <2>2 DEF Unavailable, Stop, Before, Meaning!Next, Meaning!Refuse
<1>3. ASSUME NEW x \in left, Wait(x) PROVE UNCHANGED Meaning!vars
  BY <1>3 DEF Wait, Meaning!vars
<1>4. ASSUME NEW x \in left, Compute(x) PROVE Meaning!Next
  <2>1. PICK v \in Evaluate(source, x, env) :
          \/ v \in Failures /\ Stop("refused")
          \/ /\ v \notin Failures
             /\ env' = Extended(x, v)
             /\ left' = left \ {x} /\ done' = done \cup {x}
             /\ UNCHANGED <<source, pending, next, stage>>
    BY <1>4 DEF Compute
  <2>2. stage = "constants" /\ Meaning!Ready(x) /\ x \in Meaning!Open
    BY <1>1, <1>4, VisitFacts DEF Compute, Visiting, Meaning!Ready
  <2>3. CASE v \in Failures /\ Stop("refused")
    <3>1. Meaning!Valueless
      BY <1>1, <2>1, <2>2, <2>3 DEF Meaning!Valueless
    <3> QED BY <2>2, <2>3, <3>1 DEF Stop, Before, Meaning!Next, Meaning!Refuse
  <2>4. CASE ~(v \in Failures /\ Stop("refused"))
    <3>1. meaning' = [y \in DOMAIN env \cup {x} |-> IF y = x THEN v ELSE env[y]]
      <4>1. DOMAIN env' \cap source'.constants = DOMAIN env \cup {x}
        <5>1. x \in source.constants /\ DOMAIN env \subseteq source.constants
          BY <1>1, <2>2 DEF ConstantsInv, PassInv
        <5>2. DOMAIN env' = DOMAIN env \cup {x} /\ source' = source
          BY <2>1, <2>4, ExtendedFacts
        <5> QED BY <5>1, <5>2
      <4> QED BY <2>1, <2>4, <4>1 DEF Extended
    <3>2. Meaning!Define(x, v)
      BY <1>1, <2>1, <2>2, <2>4, <3>1 DEF Meaning!Define, Before
    <3> QED BY <1>1, <2>1, <2>2, <3>2 DEF Meaning!Next
  <2> QED BY <2>3, <2>4
<1>5. ASSUME EndPass PROVE [Meaning!Next]_Meaning!vars
  <2>1. CASE done = {}
    <3>1. stage = "constants" /\ PassInv /\ left = {} /\ pending # {}
      BY <1>5 DEF EndPass, ConstantsInv
    <3>2. pending \in SUBSET Meaning!Open /\ \A x \in pending : Uses(source, x) \cap pending # {}
      BY <1>1, <2>1, <3>1 DEF PassInv, Waiting
    <3>3. Meaning!Circular
      BY <3>1, <3>2 DEF Meaning!Circular
    <3> QED BY <1>5, <2>1, <3>1, <3>3 DEF EndPass, Stop, Before, Meaning!Next, Meaning!Refuse
  <2>2. CASE done # {}
    BY <1>5, <2>2 DEF EndPass, Meaning!vars
  <2> QED BY <2>1, <2>2
<1>6. ASSUME ConstantsDone PROVE Meaning!Next
  <2>1. stage = "constants" /\ Meaning!Open = {}
    BY <1>1, <1>6 DEF ConstantsDone, ConstantsInv, PassInv
  <2> QED BY <1>6, <2>1 DEF ConstantsDone, Before, Meaning!Next, Meaning!Finish
<1>7. ASSUME ComputeItem PROVE UNCHANGED Meaning!vars
  <2> DEFINE item == source.items[next]
             under == source.under[item.enum]
  <2>1. CASE Stop("badItem") \/ Stop("thrown")
    BY <1>7, <2>1 DEF ComputeItem, Stop, Before, Meaning!vars
  <2>2. CASE ~(Stop("badItem") \/ Stop("thrown"))
    <3>1. PICK v : /\ env' = Extended(item.id, v)
                   /\ next' = next + 1
                   /\ UNCHANGED <<source, pending, left, done, stage>>
      BY <1>7, <2>2 DEF ComputeItem
    <3>2. item.id \notin source.constants
      <4>1. next \in 1..Len(source.items)
        BY <1>7 DEF ComputeItem, ConstantsInv
      <4> QED BY <4>1, ItemsAreNotConstants DEF ConstantsInv
    <3>3. meaning' = meaning
      BY <3>1, <3>2 DEF Extended
    <3> QED BY <3>1, <3>3 DEF Meaning!vars
  <2> QED BY <2>1, <2>2
<1>8. ASSUME ItemsDone PROVE UNCHANGED Meaning!vars
  BY <1>8 DEF ItemsDone, Stop, Before, Meaning!vars
<1>9. CASE UNCHANGED vars
  BY <1>9 DEF vars, Meaning!vars
<1> QED BY <1>2, <1>3, <1>4, <1>5, <1>6, <1>7, <1>8, <1>9 DEF Next, ConstantsNext, Visit

\* The passes (PlanBuilder.cpp:1766-1816) give every module's constants their
\* meaning whatever the order the set is walked in, and refuse only a module with
\* a use of what is no constant, an expression without a value, or a circle.
THEOREM PassesMean == Spec => OrderDoesNotMatter
<1>1. Init => Meaning!Init
  BY MeaningOfInit
<1>2. ConstantsInv /\ [Next]_vars => [Meaning!Next]_Meaning!vars
  BY StepsMean
<1> QED BY <1>1, <1>2, ConstantsInvariant, PTL DEF Spec, OrderDoesNotMatter, Meaning!Spec

-----------------------------------------------------------------------------
\* The values.

\* Values are given to constants and items, never to anything else.
OnlyDefined == DOMAIN env \subseteq source.constants \cup Items

ExactInv(s, expr, exact) ==
    source = s => /\ OnlyDefined
                  /\ \A x \in DOMAIN env : env[x] \in Exacts
                  /\ AreExact(expr, exact)

\* An expression whose names all have exact values evaluates to what it means.
LEMMA EvaluatedExactly ==
  ASSUME NEW s, NEW es, NEW height, Trees(es, height), NEW names, NEW expr, NEW meaning, NEW exact,
         Defines(s, es, names, expr, meaning, exact),
         NEW values, \A x \in DOMAIN values : values[x] \in Exacts /\ values[x] = exact[expr[x]],
         DOMAIN values \subseteq s.constants \cup {s.items[i].id : i \in DOMAIN s.items},
         NEW out, Computes(s, es, expr, values, out),
         NEW x \in s.constants \cup {s.items[i].id : i \in DOMAIN s.items},
         Uses(s, x) \subseteq DOMAIN values,
         NEW v \in Evaluate(s, x, values)
  PROVE  IF v \in Failures THEN exact[expr[x]] = Fail
                           ELSE v = exact[expr[x]] /\ v \in Exacts
<1> DEFINE E == {e \in es : names[e] \subseteq DOMAIN values}
           heightE == [e \in E |-> height[e]]
<1>1. ASSUME NEW e \in E PROVE \A y \in Operands(e) : y \in E
  <2>1. CASE e.kind = "id"
    BY <2>1 DEF Operands
  <2>2. CASE e.kind # "id"
    <3>1. names[e] = UNION {names[y] : y \in Operands(e)}
      BY <2>2 DEF Defines, Mentions
    <3> QED BY <3>1 DEF Trees
  <2> QED BY <2>1, <2>2
<1>2. Trees(E, heightE)
  BY <1>1 DEF Trees
<1>3. Evaluates(E, values, out) /\ Means(E, meaning, exact)
  BY DEF Computes, Evaluates, Defines, Means
<1>4. ASSUME NEW e \in E, e.kind = "id"
      PROVE  e.id \in DOMAIN values /\ values[e.id] \in Exacts /\ meaning[e.id] = values[e.id]
  <2>1. names[e] = {e.id}
    BY <1>4 DEF Defines, Mentions
  <2> QED BY <2>1 DEF Defines
<1>5. \A e \in E : Agree(out[e], exact[e]) /\ exact[e] \in Exacts \cup {Fail}
  <2>1. \A e \in E : e.kind # "float"
    BY DEF Defines
  <2> HIDE DEF E, heightE
  <2> QED BY <1>2, <1>3, <1>4, <2>1, EvaluationIsExact
<1>6. expr[x] \in E /\ Evaluate(s, x, values) = out[expr[x]]
  BY DEF Defines, Computes
<1> HIDE DEF E
<1> QED BY <1>5, <1>6 DEF Agree, Failures

LEMMA ExactInit ==
  ASSUME NEW s, NEW expr, NEW exact, Init
  PROVE  ExactInv(s, expr, exact)
  BY DEF Init, InitWith, ExactInv, OnlyDefined, AreExact

\* A step that gives a value gives the exact one, and one that refuses has a reason.
LEMMA ExactStep ==
  ASSUME NEW s, NEW es, NEW height, Trees(es, height), NEW names, NEW expr, NEW meaning, NEW exact,
         Defines(s, es, names, expr, meaning, exact),
         \A values : \E out : Computes(s, es, expr, values, out),
         ConstantsInv, ExactInv(s, expr, exact), [Next]_vars
  PROVE  ExactInv(s, expr, exact)'
<1> SUFFICES ASSUME source' = s PROVE ExactInv(s, expr, exact)'
  BY DEF ExactInv
<1>1. source = s /\ source' = source
  BY DEF Next, ConstantsNext, Visit, Unavailable, Wait, Compute, EndPass, ConstantsDone,
         ComputeItem, ItemsDone, Stop, vars
<1>2. /\ OnlyDefined
      /\ \A x \in DOMAIN env : env[x] \in Exacts /\ env[x] = exact[expr[x]]
      /\ AreExact(expr, exact)
  BY <1>1 DEF ExactInv, AreExact
<1>3. ASSUME env' = env, stage' = "refused" => stage = "refused" PROVE ExactInv(s, expr, exact)'
  BY <1>1, <1>2, <1>3 DEF ExactInv, OnlyDefined, Items, AreExact, Circle
<1>4. ASSUME env' = env,
             \/ Circle
             \/ \E x \in source.constants : \/ exact[expr[x]] = Fail
                                            \/ ~(Uses(source, x) \subseteq source.constants)
      PROVE  ExactInv(s, expr, exact)'
  BY <1>1, <1>2, <1>4 DEF ExactInv, OnlyDefined, Items, AreExact, Circle
<1>5. ASSUME NEW x \in s.constants \cup Items, Uses(s, x) \subseteq DOMAIN env,
             NEW v \in Evaluate(s, x, env)
      PROVE  IF v \in Failures THEN exact[expr[x]] = Fail
                               ELSE v = exact[expr[x]] /\ v \in Exacts
  <2>1. PICK out : Computes(s, es, expr, env, out)
    OBVIOUS
  <2>2. DOMAIN env \subseteq s.constants \cup {s.items[i].id : i \in DOMAIN s.items}
    BY <1>1, <1>2 DEF OnlyDefined, Items
  <2>3. x \in s.constants \cup {s.items[i].id : i \in DOMAIN s.items}
    BY <1>1 DEF Items
  <2> QED BY <1>2, <1>5, <2>1, <2>2, <2>3, EvaluatedExactly
<1>6. ASSUME NEW x \in s.constants \cup Items, NEW v, v = exact[expr[x]], v \in Exacts,
             env' = Extended(x, v), stage' = stage
      PROVE  ExactInv(s, expr, exact)'
  <2>1. /\ DOMAIN env' = DOMAIN env \cup {x}
        /\ env'[x] = v
        /\ \A y \in DOMAIN env \ {x} : env'[y] = env[y]
    BY <1>6 DEF Extended
  <2>2. Items' = Items
    BY <1>1 DEF Items
  <2>3. OnlyDefined'
    BY <1>1, <1>2, <1>6, <2>1, <2>2 DEF OnlyDefined
  <2>4. \A y \in DOMAIN env' : env'[y] \in Exacts /\ env'[y] = exact[expr[y]]
    BY <1>2, <1>6, <2>1
  <2> QED BY <1>1, <1>2, <1>6, <2>3, <2>4 DEF ExactInv, AreExact, Circle
<1>7. ASSUME NEW x \in left, Visit(x) PROVE ExactInv(s, expr, exact)'
  <2>1. CASE Unavailable(x)
    <3>1. x \in source.constants /\ ~(Uses(source, x) \subseteq source.constants)
      BY <2>1, VisitFacts DEF Unavailable, Available
    <3> QED BY <1>4, <2>1, <3>1 DEF Unavailable, Stop
  <2>2. CASE Wait(x)
    BY <1>3, <2>2 DEF Wait
  <2>3. CASE Compute(x)
    <3>1. x \in s.constants /\ Uses(s, x) \subseteq DOMAIN env
      BY <1>1, <2>3, VisitFacts DEF Compute
    <3>2. PICK v \in Evaluate(source, x, env) :
            \/ v \in Failures /\ Stop("refused")
            \/ /\ v \notin Failures
               /\ env' = Extended(x, v)
               /\ UNCHANGED stage
      BY <2>3 DEF Compute
    <3>3. IF v \in Failures THEN exact[expr[x]] = Fail
                            ELSE v = exact[expr[x]] /\ v \in Exacts
      BY <1>1, <1>5, <3>1, <3>2
    <3>4. CASE v \in Failures /\ Stop("refused")
      BY <1>1, <1>4, <3>1, <3>3, <3>4 DEF Stop
    <3>5. CASE v \notin Failures /\ env' = Extended(x, v) /\ stage' = stage
      BY <1>6, <3>1, <3>3, <3>5
    <3> QED BY <3>2, <3>4, <3>5
  <2> QED BY <1>7, <2>1, <2>2, <2>3 DEF Visit
<1>8. ASSUME EndPass PROVE ExactInv(s, expr, exact)'
  <2>1. CASE done = {}
    <3>1. stage = "constants" /\ PassInv /\ left = {} /\ pending # {}
      BY <1>8 DEF EndPass, ConstantsInv
    <3>2. pending \in SUBSET source.constants /\ \A x \in pending : Uses(source, x) \cap pending # {}
      BY <2>1, <3>1 DEF PassInv, Waiting
    <3>3. Circle
      BY <3>1, <3>2 DEF Circle
    <3> QED BY <1>4, <1>8, <2>1, <3>3 DEF EndPass, Stop
  <2>2. CASE done # {}
    BY <1>3, <1>8, <2>2 DEF EndPass
  <2> QED BY <2>1, <2>2
<1>9. ASSUME ComputeItem PROVE ExactInv(s, expr, exact)'
  <2> DEFINE item == source.items[next]
             under == source.under[item.enum]
  <2>1. CASE Stop("badItem") \/ Stop("thrown")
    BY <1>3, <2>1 DEF Stop
  <2>2. CASE ~(Stop("badItem") \/ Stop("thrown"))
    <3>1. PICK v \in Evaluate(source, item.id, env) :
            /\ v \notin Failures
            /\ env' = Extended(item.id, v)
            /\ stage' = stage
      BY <1>9, <2>2 DEF ComputeItem
    <3>2. Uses(source, item.id) \subseteq DOMAIN env
      BY <1>9, <2>2 DEF ComputeItem
    <3>3. item.id \in Items
      <4>1. next \in DOMAIN source.items
        BY <1>9 DEF ComputeItem, ConstantsInv
      <4> QED BY <4>1 DEF Items
    <3> HIDE DEF item
    <3>4. v = exact[expr[item.id]] /\ v \in Exacts
      BY <1>1, <1>5, <3>1, <3>2, <3>3
    <3> QED BY <1>6, <3>1, <3>3, <3>4
  <2> QED BY <2>1, <2>2
<1> QED BY <1>3, <1>7, <1>8, <1>9 DEF Next, ConstantsNext, ConstantsDone, ItemsDone, Stop, vars

\* Without floating-point numbers, the plan builder gives every constant and every
\* enum item the value that arithmetic on numbers without end gives its definition,
\* whatever order it takes them in, and refuses the constants of a module only for
\* a use of what is not a constant, a definition without a value, or a circle.
THEOREM ConstantsAreExact ==
  ASSUME NEW s, NEW es, NEW height, Trees(es, height), NEW names, NEW expr, NEW meaning, NEW exact,
         Defines(s, es, names, expr, meaning, exact),
         \A values : \E out : Computes(s, es, expr, values, out)
  PROVE  Spec => [](source = s => AreExact(expr, exact))
<1>1. Init => ExactInv(s, expr, exact)
  BY ExactInit
<1>2. ConstantsInv /\ ExactInv(s, expr, exact) /\ [Next]_vars => ExactInv(s, expr, exact)'
  BY ExactStep
<1>3. ExactInv(s, expr, exact) => (source = s => AreExact(expr, exact))
  BY DEF ExactInv
<1> QED BY <1>1, <1>2, <1>3, ConstantsInvariant, PTL DEF Spec
=============================================================================
