---------------------------- MODULE GraderProofs ----------------------------
(***************************************************************************)
(* The loops of Graders compared: on one row and one output for each of    *)
(* its steps, the C walk that goes on after a failure, the C walk that     *)
(* stops there and Python's walk over what C can read of the row have one  *)
(* verdict, provided the row holds no empty string where C takes it for an *)
(* absent one.                                                             *)
(*                                                                         *)
(* Walk and PyWalk are defined by recursive functions.  The prover takes   *)
(* such a function for SOME function with that equation, so what is proved *)
(* first is that there is one and that there is no other; both are         *)
(* inductions over the number of steps, made by asking for the first step  *)
(* at which the statement fails.                                           *)
(***************************************************************************)
EXTENDS Graders, WellFoundedInduction, TLAPS

\* One step of the two walks, from a state the loop carries to the next.
CNext(from, k, row, outputs, stops) ==
    IF stops /\ from.failed # 0 THEN from
    ELSE After(from, k, CVerifyStep(CCtx(from.state, row.steps[k]), outputs[k], FALSE))
PyNext(from, k, row, outputs) ==
    After(from, k, VerifyStep(PyCtx(from.state, row.steps[k]), outputs[k], FALSE))

\* w is what the loop carries before the first and after each of the first n steps.
IsWalk(w, n, row, outputs, stops) ==
    w = [k \in 0..n |-> IF k = 0 THEN Start(row) ELSE CNext(w[k - 1], k, row, outputs, stops)]
IsStoppedWalk(w, n, row, outputs) == IsWalk(w, n, row, outputs, TRUE)
IsWholeWalk(w, n, row, outputs) == IsWalk(w, n, row, outputs, FALSE)
IsPyWalk(w, n, row, outputs) ==
    w = [k \in 0..n |-> IF k = 0 THEN Start(row) ELSE PyNext(w[k - 1], k, row, outputs)]

\* The outputs up to the n-th are the same.
SameUpTo(n, old, outputs) == \A k \in 1..n : old[k] = outputs[k]

\* No state is given as an empty string; the steps' triggers and final_state may be.
NoBlankAfter(row) == \A k \in DOMAIN row.steps : row.steps[k].after # Empty
HasNoBlank(row) == row.initial # Empty /\ NoBlankAfter(row)

-----------------------------------------------------------------------------
\* What fails at some step, and not before the first, fails for the first time.
LEMMA FirstFailureExists ==
    ASSUME NEW T \in SUBSET Nat, T # {}, 0 \notin T
    PROVE  \E m \in T : m \in Nat \ {0} /\ m - 1 \in Nat /\ m - 1 \notin T
<1>1. PICK m \in T : \A n \in T : ~(<<n, m>> \in OpToRel(<, Nat))
  BY NatLessThanWellFounded, WFMin
<1>2. \A n \in T : ~(n < m)
  BY <1>1 DEF OpToRel
<1> QED
  BY <1>2

\* A walk, read step by step, and the walk a sequence of steps makes.
LEMMA WalkSteps ==
    ASSUME NEW n \in Nat, NEW row, NEW outputs, NEW stops, NEW w
    PROVE  IsWalk(w, n, row, outputs, stops) <=>
                /\ w = [k \in 0..n |-> w[k]]
                /\ w[0] = Start(row)
                /\ \A k \in 1..n : w[k] = CNext(w[k - 1], k, row, outputs, stops)
<1> DEFINE E(k) == IF k = 0 THEN Start(row) ELSE CNext(w[k - 1], k, row, outputs, stops)
<1>1. IsWalk(w, n, row, outputs, stops) <=>
        w = [k \in 0..n |-> w[k]] /\ \A k \in 0..n : w[k] = E(k)
  BY DEF IsWalk
<1>2. (\A k \in 0..n : w[k] = E(k)) <=> (w[0] = E(0) /\ \A k \in 1..n : w[k] = E(k))
  <2> HIDE DEF E
  <2>1. 0 \in 0..n /\ \A k \in 0..n : k = 0 \/ k \in 1..n
    OBVIOUS
  <2>2. \A k \in 1..n : k \in 0..n
    OBVIOUS
  <2> QED
    BY <2>1, <2>2
<1>3. E(0) = Start(row) /\ \A k \in 1..n : E(k) = CNext(w[k - 1], k, row, outputs, stops)
  OBVIOUS
<1> HIDE DEF E
<1> QED
  BY <1>1, <1>2, <1>3

LEMMA PyWalkSteps ==
    ASSUME NEW n \in Nat, NEW row, NEW outputs, NEW w
    PROVE  IsPyWalk(w, n, row, outputs) <=>
                /\ w = [k \in 0..n |-> w[k]]
                /\ w[0] = Start(row)
                /\ \A k \in 1..n : w[k] = PyNext(w[k - 1], k, row, outputs)
<1> DEFINE E(k) == IF k = 0 THEN Start(row) ELSE PyNext(w[k - 1], k, row, outputs)
<1>1. IsPyWalk(w, n, row, outputs) <=>
        w = [k \in 0..n |-> w[k]] /\ \A k \in 0..n : w[k] = E(k)
  BY DEF IsPyWalk
<1>2. (\A k \in 0..n : w[k] = E(k)) <=> (w[0] = E(0) /\ \A k \in 1..n : w[k] = E(k))
  <2> HIDE DEF E
  <2>1. 0 \in 0..n /\ \A k \in 0..n : k = 0 \/ k \in 1..n
    OBVIOUS
  <2>2. \A k \in 1..n : k \in 0..n
    OBVIOUS
  <2> QED
    BY <2>1, <2>2
<1>3. E(0) = Start(row) /\ \A k \in 1..n : E(k) = PyNext(w[k - 1], k, row, outputs)
  OBVIOUS
<1> HIDE DEF E
<1> QED
  BY <1>1, <1>2, <1>3

\* Two walks of one row with one output for each step are the same.
LEMMA WalkIsUnique ==
    ASSUME NEW n \in Nat, NEW row, NEW outputs, NEW stops,
           NEW v, IsWalk(v, n, row, outputs, stops),
           NEW w, IsWalk(w, n, row, outputs, stops)
    PROVE  v = w
<1> DEFINE T == {k \in 0..n : v[k] # w[k]}
<1>1. /\ v = [k \in 0..n |-> v[k]] /\ w = [k \in 0..n |-> w[k]]
      /\ v[0] = w[0]
      /\ \A k \in 1..n : v[k] = CNext(v[k - 1], k, row, outputs, stops)
      /\ \A k \in 1..n : w[k] = CNext(w[k - 1], k, row, outputs, stops)
  BY WalkSteps
<1>2. 0 \notin T
  BY <1>1
<1>3. ASSUME T # {}
      PROVE  FALSE
  <2>1. PICK m \in T : m \in Nat \ {0} /\ m - 1 \in Nat /\ m - 1 \notin T
    <3> HIDE DEF T
    <3>1. T \in SUBSET Nat
      BY DEF T
    <3> QED
      BY <1>2, <1>3, <3>1, FirstFailureExists
  <2>2. m \in 1..n /\ m - 1 \in 0..n
    BY <2>1
  <2>3. v[m - 1] = w[m - 1]
    BY <2>1, <2>2
  <2> QED
    BY <1>1, <2>1, <2>2, <2>3
<1> QED
  BY <1>1, <1>3

LEMMA PyWalkIsUnique ==
    ASSUME NEW n \in Nat, NEW row, NEW outputs,
           NEW v, IsPyWalk(v, n, row, outputs),
           NEW w, IsPyWalk(w, n, row, outputs)
    PROVE  v = w
<1> DEFINE T == {k \in 0..n : v[k] # w[k]}
<1>1. /\ v = [k \in 0..n |-> v[k]] /\ w = [k \in 0..n |-> w[k]]
      /\ v[0] = w[0]
      /\ \A k \in 1..n : v[k] = PyNext(v[k - 1], k, row, outputs)
      /\ \A k \in 1..n : w[k] = PyNext(w[k - 1], k, row, outputs)
  BY PyWalkSteps
<1>2. 0 \notin T
  BY <1>1
<1>3. ASSUME T # {}
      PROVE  FALSE
  <2>1. PICK m \in T : m \in Nat \ {0} /\ m - 1 \in Nat /\ m - 1 \notin T
    <3> HIDE DEF T
    <3>1. T \in SUBSET Nat
      BY DEF T
    <3> QED
      BY <1>2, <1>3, <3>1, FirstFailureExists
  <2>2. m \in 1..n /\ m - 1 \in 0..n
    BY <2>1
  <2>3. v[m - 1] = w[m - 1]
    BY <2>1, <2>2
  <2> QED
    BY <1>1, <2>1, <2>2, <2>3
<1> QED
  BY <1>1, <1>3

\* A walk over n steps goes on to the next, whatever the outputs after it are.
LEMMA WalkGoesOn ==
    ASSUME NEW n \in Nat, NEW row, NEW old, NEW outputs, NEW stops,
           SameUpTo(n, old, outputs),
           NEW w, IsWalk(w, n, row, old, stops)
    PROVE  \E v : /\ IsWalk(v, n + 1, row, outputs, stops)
                  /\ v[n + 1] = CNext(w[n], n + 1, row, outputs, stops)
<1> DEFINE v == [k \in 0..(n + 1) |->
                    IF k = n + 1 THEN CNext(w[n], n + 1, row, outputs, stops) ELSE w[k]]
<1>1. /\ w[0] = Start(row)
      /\ \A k \in 1..n : w[k] = CNext(w[k - 1], k, row, old, stops)
  BY WalkSteps
<1>2. \A k \in 1..n : w[k] = CNext(w[k - 1], k, row, outputs, stops)
  BY <1>1 DEF CNext, SameUpTo
<1>3. v[n + 1] = CNext(w[n], n + 1, row, outputs, stops) /\ n + 1 \in 0..(n + 1)
  OBVIOUS
<1>4. \A k \in 0..n : v[k] = w[k]
  OBVIOUS
<1> HIDE DEF v
<1>5. ASSUME NEW k \in 1..(n + 1)
      PROVE  v[k] = CNext(v[k - 1], k, row, outputs, stops)
  <2>1. CASE k \in 1..n
    <3>1. k - 1 \in 0..n /\ k \in 0..n
      BY <2>1
    <3> QED
      BY <1>2, <1>4, <2>1, <3>1
  <2>2. CASE k = n + 1
    <3>1. k - 1 = n /\ n \in 0..n
      BY <2>2
    <3> QED
      BY <1>3, <1>4, <2>2, <3>1
  <2> QED
    BY <2>1, <2>2
<1>6. IsWalk(v, n + 1, row, outputs, stops)
  <2>1. v = [k \in 0..(n + 1) |-> v[k]]
    BY DEF v
  <2>2. v[0] = Start(row) /\ n + 1 \in Nat
    BY <1>1, <1>4
  <2> DEFINE m == n + 1
  <2>3. m \in Nat /\ v = [k \in 0..m |-> v[k]]
        /\ \A k \in 1..m : v[k] = CNext(v[k - 1], k, row, outputs, stops)
    BY <1>5, <2>1, <2>2
  <2> HIDE DEF m
  <2>4. IsWalk(v, m, row, outputs, stops)
    BY <2>2, <2>3, WalkSteps
  <2> QED
    BY <2>4 DEF m
<1> QED
  BY <1>3, <1>6

\* Every row can be walked.
LEMMA WalkExists ==
    ASSUME NEW n \in Nat, NEW row, NEW outputs, NEW stops
    PROVE  \E w : IsWalk(w, n, row, outputs, stops)
<1> DEFINE T == {k \in Nat : ~(\E w : IsWalk(w, k, row, outputs, stops))}
<1>1. 0 \notin T
  <2> DEFINE w == [k \in 0..0 |-> Start(row)]
  <2>1. IsWalk(w, 0, row, outputs, stops)
    BY DEF IsWalk
  <2> QED
    BY <2>1
<1>2. ASSUME T # {}
      PROVE  FALSE
  <2>1. PICK m \in T : m \in Nat \ {0} /\ m - 1 \in Nat /\ m - 1 \notin T
    <3> HIDE DEF T
    <3>1. T \in SUBSET Nat
      BY DEF T
    <3> QED
      BY <1>1, <1>2, <3>1, FirstFailureExists
  <2>2. PICK w : IsWalk(w, m - 1, row, outputs, stops)
    BY <2>1
  <2>3. \E v : IsWalk(v, (m - 1) + 1, row, outputs, stops)
    BY <2>1, <2>2, WalkGoesOn DEF SameUpTo
  <2>4. (m - 1) + 1 = m
    BY <2>1
  <2> QED
    BY <2>3, <2>4
<1> QED
  BY <1>2

\* What Walk and PyWalk return is where a walk over all steps ends.
LEMMA WalkEndsThere ==
    ASSUME NEW row, Len(row.steps) \in Nat, NEW outputs, NEW stops,
           NEW w, IsWalk(w, Len(row.steps), row, outputs, stops)
    PROVE  Walk(row, outputs, stops) = w[Len(row.steps)]
<1> DEFINE v == CHOOSE u : IsWalk(u, Len(row.steps), row, outputs, stops)
<1>1. IsWalk(v, Len(row.steps), row, outputs, stops)
  OBVIOUS
<1>2. Walk(row, outputs, stops) = v[Len(row.steps)]
  BY DEF Walk, IsWalk, CNext
<1> HIDE DEF v
<1> QED
  BY <1>1, <1>2, WalkIsUnique

LEMMA PyWalkEndsThere ==
    ASSUME NEW row, Len(row.steps) \in Nat, NEW outputs,
           NEW w, IsPyWalk(w, Len(row.steps), row, outputs)
    PROVE  PyWalk(row, outputs) = w[Len(row.steps)]
<1> DEFINE v == CHOOSE u : IsPyWalk(u, Len(row.steps), row, outputs)
<1>1. IsPyWalk(v, Len(row.steps), row, outputs)
  OBVIOUS
<1>2. PyWalk(row, outputs) = v[Len(row.steps)]
  BY DEF PyWalk, IsPyWalk, PyNext
<1> HIDE DEF v
<1> QED
  BY <1>1, <1>2, PyWalkIsUnique

-----------------------------------------------------------------------------
\* A refusal is a result like any other: Python's exception has the verdict and the
\* subscores C gives an unknown method.
LEMMA RefusalFields ==
    /\ Fail.passed = FALSE /\ UnknownMethod.passed = FALSE
    /\ Raise.passed = UnknownMethod.passed
    /\ Raise.subscores = UnknownMethod.subscores
    /\ Raise.new_state = UnknownMethod.new_state
BY DEF Fail, Raise, UnknownMethod, Result

\* On a step whose states are not empty strings the two verifiers have one verdict.
LEMMA StepVerdictsAgree ==
    ASSUME NEW ctx, NEW out, ctx.prior # Empty, ctx.after # Empty
    PROVE  /\ CVerifyStep(ctx, out, FALSE).passed = VerifyStep(ctx, out, FALSE).passed
           /\ CVerifyStep(ctx, out, FALSE).subscores = VerifyStep(ctx, out, FALSE).subscores
           /\ CVerifyStep(ctx, out, FALSE).new_state = VerifyStep(ctx, out, FALSE).new_state
<1>1. /\ Blank(ctx.prior) <=> ctx.prior = None
      /\ Blank(ctx.after) <=> ctx.after = None
  BY DEF Blank
<1>2. CNewState(ctx, out.method, FALSE) = NewState(ctx, out.method, FALSE)
  BY <1>1 DEF CNewState, NewState, CPinnedState, PinnedState
<1>3. CASE out.form # "call"
  BY <1>3 DEF CVerifyStep, VerifyStep
<1>4. CASE out.form = "call" /\ out.method = Unhashable
  <2>1. out.method \notin Methods
    BY <1>4, VerifierAssumption
  <2>2. CVerifyStep(ctx, out, FALSE) = UnknownMethod /\ VerifyStep(ctx, out, FALSE) = Raise
    BY <1>4, <2>1 DEF CVerifyStep, VerifyStep
  <2> QED
    BY <2>2, RefusalFields
<1>5. CASE out.form = "call" /\ out.method # Unhashable
  BY <1>1, <1>2, <1>5 DEF CVerifyStep, VerifyStep
<1> QED
  BY <1>3, <1>4, <1>5

\* A step that passes leaves a state that is no empty string.
LEMMA NoStepBlanksTheState ==
    ASSUME NEW ctx, NEW out, ctx.prior # Empty, CVerifyStep(ctx, out, FALSE).passed
    PROVE  CVerifyStep(ctx, out, FALSE).new_state # Empty
<1> DEFINE new == CNewState(ctx, out.method, FALSE)
           schema == Score(out.paramsValid)
           met == Score(IsQuery(out.method) \/ Plausible(out.method, ctx.prior) # {})
<1>1. CVerifyStep(ctx, out, FALSE) = Grade(schema, met, new)
  BY RefusalFields DEF CVerifyStep
<1>2. /\ Grade(schema, met, new).passed => new # None
      /\ Grade(schema, met, new).new_state = new
  BY DEF Grade, Result
<1>3. new # None
  BY <1>1, <1>2
<1>4. CASE IsQuery(out.method)
  <2>1. new = ctx.prior
    BY <1>4 DEF CNewState
  <2> QED
    BY <1>1, <1>2, <2>1
<1>5. CASE ~IsQuery(out.method)
  <2>1. new = CPinnedState(ctx, out.method)
    BY <1>5 DEF CNewState
  <2>2. HasArc(ctx.prior, ctx.trigger) /\ new = Transition[<<ctx.prior, ctx.trigger>>]
    BY <1>3, <2>1 DEF CPinnedState
  <2>3. new \in States
    BY <2>2, VerifierAssumption DEF HasArc
  <2> QED
    BY <1>1, <1>2, <2>3, VerifierAssumption
<1> QED
  BY <1>4, <1>5

\* What C reads of a field is what Python gets of the row without the others.
LEMMA ReadableIsGot ==
    ASSUME NEW field
    PROVE  /\ PyGet(Readable(field)) = Readable(field)
           /\ Readable(field) = Empty => field = Empty
           /\ CReads(field) => Readable(field) = field
<1>1. None # Null /\ None # Empty
  BY VerifierAssumption
<1> QED
  BY <1>1 DEF PyGet, Readable, CReads

LEMMA ContextFields ==
    ASSUME NEW state, NEW step
    PROVE  /\ CCtx(state, step).prior = state
           /\ CCtx(state, step).after = Readable(step.after)
BY DEF CCtx, Ctx

\* A row without the fields C cannot read has as many steps, and Python meets in each
\* of them the context C reads.
LEMMA LegibleFields ==
    ASSUME NEW row, NEW S, row.steps \in Seq(S)
    PROVE  /\ Legible(row).initial = row.initial
           /\ PyGet(Legible(row).final) = Readable(row.final)
           /\ Len(Legible(row).steps) = Len(row.steps)
           /\ DOMAIN Legible(row).steps = DOMAIN row.steps
           /\ \A state : \A k \in DOMAIN row.steps :
                PyCtx(state, Legible(row).steps[k]) = CCtx(state, row.steps[k])
<1> DEFINE step(k) == [trigger |-> Readable(row.steps[k].trigger),
                       after   |-> Readable(row.steps[k].after)]
           steps == [k \in DOMAIN row.steps |-> step(k)]
<1>1. /\ Legible(row).initial = row.initial
      /\ Legible(row).final = Readable(row.final)
      /\ Legible(row).steps = steps
  BY DEF Legible
<1>2. DOMAIN steps = DOMAIN row.steps /\ Len(steps) = Len(row.steps)
  <2>1. DOMAIN row.steps = 1..Len(row.steps) /\ Len(row.steps) \in Nat
    OBVIOUS
  <2> HIDE DEF step
  <2> QED
    BY <2>1
<1>3. ASSUME NEW state, NEW k \in DOMAIN row.steps
      PROVE  PyCtx(state, steps[k]) = CCtx(state, row.steps[k])
  <2>1. /\ steps[k].trigger = Readable(row.steps[k].trigger)
        /\ steps[k].after = Readable(row.steps[k].after)
    OBVIOUS
  <2> HIDE DEF steps
  <2> QED
    BY <2>1, ReadableIsGot DEF PyCtx, CCtx
<1> HIDE DEF steps
<1> QED
  BY <1>1, <1>2, <1>3, ReadableIsGot

LEMMA AfterFields ==
    ASSUME NEW from, NEW k, NEW result
    PROVE  /\ After(from, k, result).state = IF result.passed THEN result.new_state ELSE from.state
           /\ After(from, k, result).failed =
                IF from.failed = 0 /\ ~result.passed THEN k ELSE from.failed
           /\ After(from, k, result).mode =
                IF from.failed = 0 /\ ~result.passed THEN FirstFailing(result.subscores)
                ELSE from.mode
BY DEF After

\* No walk comes to the empty string from elsewhere.
LEMMA WalkStatesAreNotBlank ==
    ASSUME NEW n \in Nat, NEW row, NEW outputs, NEW stops, row.initial # Empty,
           NEW w, IsWalk(w, n, row, outputs, stops)
    PROVE  \A k \in 0..n : w[k].state # Empty
<1> DEFINE T == {k \in 0..n : w[k].state = Empty}
<1>1. /\ w[0] = Start(row)
      /\ \A k \in 1..n : w[k] = CNext(w[k - 1], k, row, outputs, stops)
  BY WalkSteps
<1>2. T \in SUBSET Nat /\ 0 \notin T
  BY <1>1 DEF Start
<1>3. ASSUME T # {}
      PROVE  FALSE
  <2>1. PICK m \in T : m \in Nat \ {0} /\ m - 1 \in Nat /\ m - 1 \notin T
    <3> HIDE DEF T
    <3> QED
      BY <1>2, <1>3, FirstFailureExists
  <2>2. m \in 1..n /\ m - 1 \in 0..n
    BY <2>1
  <2> DEFINE from == w[m - 1]
             ctx == CCtx(from.state, row.steps[m])
             result == CVerifyStep(ctx, outputs[m], FALSE)
  <2>3. from.state # Empty /\ w[m].state = Empty
    BY <2>1, <2>2
  <2>4. result.passed => result.new_state # Empty
    BY <2>3, ContextFields, NoStepBlanksTheState
  <2>5. w[m] = from \/ w[m] = After(from, m, result)
    BY <1>1, <2>2 DEF CNext
  <2> HIDE DEF from, result
  <2> QED
    BY <2>3, <2>4, <2>5, AfterFields
<1> QED
  BY <1>3

\* The walk in C is Python's over what C can read, if no state is an empty string.
LEMMA WalkIsPyWalk ==
    ASSUME NEW row, NEW S, row.steps \in Seq(S), HasNoBlank(row), NEW outputs,
           NEW w, IsWalk(w, Len(row.steps), row, outputs, FALSE)
    PROVE  IsPyWalk(w, Len(row.steps), Legible(row), outputs)
<1> DEFINE n == Len(row.steps)
<1>1. n \in Nat /\ DOMAIN row.steps = 1..n
  OBVIOUS
<1> HIDE DEF n
<1>2. IsWalk(w, n, row, outputs, FALSE)
  BY DEF n
<1>3. /\ w = [k \in 0..n |-> w[k]] /\ w[0] = Start(row)
      /\ \A k \in 1..n : w[k] = CNext(w[k - 1], k, row, outputs, FALSE)
  <2> DEFINE stops == FALSE
  <2>1. IsWalk(w, n, row, outputs, stops)
    BY <1>2
  <2> HIDE DEF stops
  <2>2. /\ w = [k \in 0..n |-> w[k]] /\ w[0] = Start(row)
        /\ \A k \in 1..n : w[k] = CNext(w[k - 1], k, row, outputs, stops)
    BY <1>1, <2>1, WalkSteps
  <2> QED
    BY <2>2 DEF stops
<1>4. \A k \in 0..n : w[k].state # Empty
  BY <1>1, <1>2, WalkStatesAreNotBlank DEF HasNoBlank
<1>5. ASSUME NEW k \in 1..n
      PROVE  w[k] = PyNext(w[k - 1], k, Legible(row), outputs)
  <2> DEFINE ctx == CCtx(w[k - 1].state, row.steps[k])
             cResult == CVerifyStep(ctx, outputs[k], FALSE)
             pyResult == VerifyStep(ctx, outputs[k], FALSE)
  <2>1. ctx.prior # Empty /\ ctx.after # Empty
    <3>1. k - 1 \in 0..n
      BY <1>1
    <3> QED
      BY <1>1, <1>4, <3>1, ContextFields, ReadableIsGot DEF HasNoBlank, NoBlankAfter
  <2> HIDE DEF ctx
  <2>2. /\ cResult.passed = pyResult.passed /\ cResult.subscores = pyResult.subscores
        /\ cResult.new_state = pyResult.new_state
    BY <2>1, StepVerdictsAgree
  <2> HIDE DEF cResult, pyResult
  <2>3. After(w[k - 1], k, cResult) = After(w[k - 1], k, pyResult)
    BY <2>2 DEF After
  <2>4. CNext(w[k - 1], k, row, outputs, FALSE) = After(w[k - 1], k, cResult)
    BY DEF CNext, cResult, ctx
  <2>5. PyNext(w[k - 1], k, Legible(row), outputs) = After(w[k - 1], k, pyResult)
    <3>1. PyCtx(w[k - 1].state, Legible(row).steps[k]) = ctx
      BY <1>1, LegibleFields DEF ctx
    <3> QED
      BY <3>1 DEF PyNext, pyResult
  <2> QED
    BY <1>3, <2>3, <2>4, <2>5
<1>6. IsPyWalk(w, n, Legible(row), outputs)
  <2>1. Start(Legible(row)) = Start(row)
    BY LegibleFields DEF Start
  <2> QED
    BY <1>1, <1>3, <1>5, <2>1, PyWalkSteps
<1> QED
  BY <1>6 DEF n

\* Stopping at the first failure changes neither the failure nor the verdict.
LEMMA StoppingKeepsTheVerdict ==
    ASSUME NEW n \in Nat, NEW row, NEW outputs,
           NEW v, IsStoppedWalk(v, n, row, outputs),
           NEW w, IsWholeWalk(w, n, row, outputs)
    PROVE  \A k \in 0..n : /\ v[k].failed = w[k].failed
                           /\ v[k].mode = w[k].mode
                           /\ w[k].failed = 0 => v[k] = w[k]
<1> DEFINE Same(k) == /\ v[k].failed = w[k].failed
                      /\ v[k].mode = w[k].mode
                      /\ w[k].failed = 0 => v[k] = w[k]
           T == {k \in 0..n : ~Same(k)}
<1>1. /\ v[0] = Start(row) /\ w[0] = Start(row)
      /\ \A k \in 1..n : v[k] = CNext(v[k - 1], k, row, outputs, TRUE)
      /\ \A k \in 1..n : w[k] = CNext(w[k - 1], k, row, outputs, FALSE)
  <2> DEFINE yes == TRUE
             no == FALSE
  <2>1. IsWalk(v, n, row, outputs, yes) /\ IsWalk(w, n, row, outputs, no)
    BY DEF IsStoppedWalk, IsWholeWalk
  <2> HIDE DEF yes, no
  <2>2. /\ v[0] = Start(row) /\ w[0] = Start(row)
        /\ \A k \in 1..n : v[k] = CNext(v[k - 1], k, row, outputs, yes)
        /\ \A k \in 1..n : w[k] = CNext(w[k - 1], k, row, outputs, no)
    BY <2>1, WalkSteps
  <2> QED
    BY <2>2 DEF yes, no
<1>2. T \in SUBSET Nat /\ 0 \notin T
  BY <1>1
<1>3. ASSUME T # {}
      PROVE  FALSE
  <2>1. PICK m \in T : m \in Nat \ {0} /\ m - 1 \in Nat /\ m - 1 \notin T
    <3> HIDE DEF T
    <3> QED
      BY <1>2, <1>3, FirstFailureExists
  <2>2. m \in 1..n /\ m - 1 \in 0..n
    BY <2>1
  <2>3. Same(m - 1) /\ ~Same(m)
    BY <2>1, <2>2
  <2>4. /\ v[m] = CNext(v[m - 1], m, row, outputs, TRUE)
        /\ w[m] = CNext(w[m - 1], m, row, outputs, FALSE)
    BY <1>1, <2>2
  <2>5. CASE w[m - 1].failed = 0
    <3>1. v[m - 1] = w[m - 1]
      BY <2>3, <2>5
    <3>2. v[m] = w[m]
      BY <2>4, <2>5, <3>1 DEF CNext
    <3> QED
      BY <2>3, <3>2
  <2>6. CASE w[m - 1].failed # 0
    <3>1. v[m] = v[m - 1]
      BY <2>3, <2>4, <2>6 DEF CNext
    <3>2. w[m].failed = w[m - 1].failed /\ w[m].mode = w[m - 1].mode
      <4> DEFINE from == w[m - 1]
                 result == CVerifyStep(CCtx(from.state, row.steps[m]), outputs[m], FALSE)
      <4>1. w[m] = After(from, m, result)
        BY <2>4 DEF CNext
      <4> HIDE DEF result
      <4> QED
        BY <2>6, <4>1, AfterFields
    <3> QED
      BY <2>3, <2>6, <3>1, <3>2
  <2> QED
    BY <2>5, <2>6
<1> QED
  BY <1>3

\* The verdicts of the three loops on a row are one.
LEMMA VerdictsAgree ==
    ASSUME NEW row, NEW S, row.steps \in Seq(S), HasNoBlank(row), NEW outputs
    PROVE  /\ PyWalk(Legible(row), outputs) = Walk(row, outputs, FALSE)
           /\ LET stopped == Walk(row, outputs, TRUE)
                  whole == Walk(row, outputs, FALSE)
              IN  /\ stopped.failed = whole.failed /\ stopped.mode = whole.mode
                  /\ \A final : Verdict(stopped, final) = Verdict(whole, final)
<1> DEFINE n == Len(row.steps)
<1>1. n \in Nat
  OBVIOUS
<1>2. PICK w : IsWalk(w, n, row, outputs, FALSE)
  BY <1>1, WalkExists
<1>3. PICK v : IsWalk(v, n, row, outputs, TRUE)
  BY <1>1, WalkExists
<1>4. Walk(row, outputs, FALSE) = w[n] /\ Walk(row, outputs, TRUE) = v[n]
  BY <1>1, <1>2, <1>3, WalkEndsThere
<1>5. PyWalk(Legible(row), outputs) = w[n]
  <2>1. IsPyWalk(w, n, Legible(row), outputs)
    BY <1>2, WalkIsPyWalk
  <2>2. Len(Legible(row).steps) = n
    BY LegibleFields
  <2> QED
    BY <1>1, <2>1, <2>2, PyWalkEndsThere
<1>6. n \in 0..n
  BY <1>1
<1> HIDE DEF n
<1>7. v[n].failed = w[n].failed /\ v[n].mode = w[n].mode /\ (w[n].failed = 0 => v[n] = w[n])
  <2>1. \A k \in 0..n : /\ v[k].failed = w[k].failed
                        /\ v[k].mode = w[k].mode
                        /\ w[k].failed = 0 => v[k] = w[k]
    <3>1. IsStoppedWalk(v, n, row, outputs) /\ IsWholeWalk(w, n, row, outputs)
      BY <1>2, <1>3 DEF IsStoppedWalk, IsWholeWalk
    <3> QED
      BY <1>1, <3>1, StoppingKeepsTheVerdict
  <2> QED
    BY <1>6, <2>1
<1>8. \A final : Verdict(v[n], final) = Verdict(w[n], final)
  BY <1>7 DEF Verdict
<1> QED
  BY <1>4, <1>5, <1>7, <1>8
-----------------------------------------------------------------------------
(* The live evaluation makes its walk one step at a time, with the outputs  *)
(* as they come.                                                            *)

\* Before the first output the walk is where the row starts.
LEMMA WholeWalkStarts ==
    ASSUME NEW row, NEW outputs
    PROVE  \E w : IsWholeWalk(w, 0, row, outputs) /\ w[0] = Start(row)
<1> DEFINE w == [k \in 0..0 |-> Start(row)]
<1>1. IsWholeWalk(w, 0, row, outputs)
  BY DEF IsWholeWalk, IsWalk
<1>2. w[0] = Start(row)
  OBVIOUS
<1> QED
  BY <1>1, <1>2

\* One more output takes it one step on.
LEMMA WholeWalkGoesOn ==
    ASSUME NEW n \in Nat, NEW row, NEW old, NEW outputs,
           SameUpTo(n, old, outputs),
           NEW w, IsWholeWalk(w, n, row, old)
    PROVE  \E v : /\ IsWholeWalk(v, n + 1, row, outputs)
                  /\ v[n + 1] = After(w[n], n + 1,
                        CVerifyStep(CCtx(w[n].state, row.steps[n + 1]), outputs[n + 1], FALSE))
<1> DEFINE no == FALSE
<1>1. IsWalk(w, n, row, old, no)
  BY DEF IsWholeWalk
<1> HIDE DEF no
<1>2. PICK v : /\ IsWalk(v, n + 1, row, outputs, no)
               /\ v[n + 1] = CNext(w[n], n + 1, row, outputs, no)
  BY <1>1, WalkGoesOn
<1>3. IsWholeWalk(v, n + 1, row, outputs)
  BY <1>2 DEF IsWholeWalk, no
<1>4. CNext(w[n], n + 1, row, outputs, no) = After(w[n], n + 1,
            CVerifyStep(CCtx(w[n].state, row.steps[n + 1]), outputs[n + 1], FALSE))
  BY DEF CNext, no
<1> QED
  BY <1>2, <1>3, <1>4

\* After the last it is where Walk says.
LEMMA WholeWalkEndsThere ==
    ASSUME NEW row, Len(row.steps) \in Nat, NEW outputs,
           NEW w, IsWholeWalk(w, Len(row.steps), row, outputs)
    PROVE  Walk(row, outputs, FALSE) = w[Len(row.steps)]
<1> DEFINE no == FALSE
<1>1. IsWalk(w, Len(row.steps), row, outputs, no)
  BY DEF IsWholeWalk
<1> HIDE DEF no
<1>2. Walk(row, outputs, no) = w[Len(row.steps)]
  BY <1>1, WalkEndsThere
<1> QED
  BY <1>2 DEF no
-----------------------------------------------------------------------------
(* What the teacher gate accepts.                                           *)

\* C takes a row that starts in the empty string for one without a state, and its
\* first step fails.
LEMMA BlankStartFails ==
    ASSUME NEW n \in Nat \ {0}, NEW row, row.initial = Empty, NEW outputs,
           NEW w, IsWholeWalk(w, n, row, outputs)
    PROVE  w[n].failed # 0
<1> DEFINE T == {k \in 1..n : w[k].failed = 0}
           Outcome(k) == CVerifyStep(CCtx(w[k - 1].state, row.steps[k]), outputs[k], FALSE)
<1>1. w[0] = Start(row) /\ \A k \in 1..n : w[k] = After(w[k - 1], k, Outcome(k))
  <2> DEFINE no == FALSE
  <2>1. IsWalk(w, n, row, outputs, no)
    BY DEF IsWholeWalk
  <2> HIDE DEF no
  <2>2. w[0] = Start(row) /\ \A k \in 1..n : w[k] = CNext(w[k - 1], k, row, outputs, no)
    BY <2>1, WalkSteps
  <2> QED
    BY <2>2 DEF CNext, no
<1> HIDE DEF Outcome
<1>2. ASSUME T # {}
      PROVE  FALSE
  <2>1. PICK m \in T : m \in Nat \ {0} /\ m - 1 \in Nat /\ m - 1 \notin T
    <3>1. T \in SUBSET Nat /\ 0 \notin T
      OBVIOUS
    <3> HIDE DEF T
    <3> QED
      BY <1>2, <3>1, FirstFailureExists
  <2>2. m \in 1..n /\ w[m].failed = 0 /\ w[m] = After(w[m - 1], m, Outcome(m))
    BY <1>1, <2>1
  <2>3. w[m - 1].failed = 0 /\ Outcome(m).passed
    BY <2>1, <2>2, AfterFields
  <2>4. m - 1 = 0
    BY <2>1, <2>2, <2>3
  <2>5. w[m - 1].state = Empty
    BY <1>1, <2>4 DEF Start
  <2>6. Blank(CCtx(w[m - 1].state, row.steps[m]).prior)
    BY <2>5, ContextFields DEF Blank
  <2>7. ~Outcome(m).passed
    BY <2>6, RefusalFields DEF Outcome, CVerifyStep
  <2> QED
    BY <2>3, <2>7
<1> QED
  BY <1>2

\* A walk without a failure met no call that Python raises an exception at.
LEMMA NoFailureNoException ==
    ASSUME NEW row, NEW n \in Nat, NEW outputs,
           NEW w, IsWholeWalk(w, n, row, outputs), w[n].failed = 0
    PROVE  \A k \in 1..n : ~(outputs[k].form = "call" /\ outputs[k].method = Unhashable)
<1> DEFINE Outcome(k) == CVerifyStep(CCtx(w[k - 1].state, row.steps[k]), outputs[k], FALSE)
           T == {k \in Nat : k <= n /\ w[n - k].failed # 0}
<1>1. \A k \in 1..n : w[k] = After(w[k - 1], k, Outcome(k))
  <2> DEFINE no == FALSE
  <2>1. IsWalk(w, n, row, outputs, no)
    BY DEF IsWholeWalk
  <2> HIDE DEF no
  <2>2. \A k \in 1..n : w[k] = CNext(w[k - 1], k, row, outputs, no)
    BY <2>1, WalkSteps
  <2> QED
    BY <2>2 DEF CNext, no
<1> HIDE DEF Outcome
<1>2. ASSUME NEW k \in 1..n, w[k].failed = 0
      PROVE  w[k - 1].failed = 0 /\ Outcome(k).passed
  <2>1. w[k] = After(w[k - 1], k, Outcome(k)) /\ k # 0
    BY <1>1
  <2> QED
    BY <1>2, <2>1, AfterFields
<1>3. ASSUME T # {}
      PROVE  FALSE
  <2>1. PICK m \in T : m \in Nat \ {0} /\ m - 1 \in Nat /\ m - 1 \notin T
    <3>1. T \in SUBSET Nat /\ 0 \notin T
      OBVIOUS
    <3> HIDE DEF T
    <3> QED
      BY <1>3, <3>1, FirstFailureExists
  <2>2. w[n - (m - 1)].failed = 0 /\ w[n - m].failed # 0 /\ n - (m - 1) \in 1..n
    BY <2>1
  <2>3. (n - (m - 1)) - 1 = n - m
    BY <2>1
  <2> QED
    BY <1>2, <2>2, <2>3
<1>4. ASSUME NEW k \in 1..n
      PROVE  ~(outputs[k].form = "call" /\ outputs[k].method = Unhashable)
  <2>1. w[k].failed = 0
    <3>1. n - k \in Nat /\ n - k <= n /\ n - (n - k) = k
      OBVIOUS
    <3> QED
      BY <1>3, <3>1
  <2>2. Outcome(k).passed
    BY <1>2, <2>1
  <2>3. outputs[k].form = "call" => outputs[k].method \in Methods
    BY <2>2, RefusalFields DEF Outcome, CVerifyStep
  <2> QED
    BY <2>3, VerifierAssumption
<1> QED
  BY <1>4

\* An exception comes from a call whose method is a list or an object.
LEMMA PyRaisesIff ==
    ASSUME NEW row, NEW outputs
    PROVE  PyRaises(row, outputs) <=>
                \E k \in DOMAIN row.steps :
                    outputs[k].form = "call" /\ outputs[k].method = Unhashable
<1>1. /\ \A s, p, n : Grade(s, p, n).raised = FALSE
      /\ Fail.raised = FALSE /\ UnknownMethod.raised = FALSE /\ Raise.raised = TRUE
  BY DEF Grade, Fail, Raise, UnknownMethod, Result
<1>2. \A ctx, out : VerifyStep(ctx, out, FALSE).raised <=>
                        out.form = "call" /\ out.method = Unhashable
  BY <1>1, VerifierAssumption DEF VerifyStep
<1> QED
  BY <1>2 DEF PyRaises

\* A row the gate accepts is complete and Python passes what C can read of it, if no step
\* gives its expected state as an empty string.
LEMMA AcceptedRowVerifies ==
    ASSUME NEW row, NEW S, row.steps \in Seq(S), NoBlankAfter(row), GateClass(row) = "accept"
    PROVE  IsShaped(row) /\ PyVerdict(Legible(row), OwnOutputs(row)).passed
<1> DEFINE outputs == OwnOutputs(row)
           n == Len(row.steps)
           end == Walk(row, outputs, FALSE)
<1>1. /\ IsShaped(row) /\ n # 0
      /\ Verdict(end, Readable(row.final)).passed
  BY DEF GateClass
<1>2. n \in Nat \ {0} /\ DOMAIN row.steps = 1..n
  BY <1>1
<1> HIDE DEF end
<1>3. end.failed = 0
  BY <1>1 DEF Verdict
<1> HIDE DEF outputs
<1>4. PICK w : IsWholeWalk(w, n, row, outputs) /\ w[n].failed = 0
  <2> DEFINE no == FALSE
  <2> HIDE DEF no
  <2>1. PICK w : IsWalk(w, n, row, outputs, no)
    BY <1>2, WalkExists
  <2>2. IsWholeWalk(w, n, row, outputs)
    BY <2>1 DEF IsWholeWalk, no
  <2>3. w[n].failed = 0
    BY <1>2, <1>3, <2>2, WholeWalkEndsThere DEF end
  <2> QED
    BY <2>2, <2>3
<1>5. row.initial # Empty
  BY <1>2, <1>4, BlankStartFails
<1>6. PyWalk(Legible(row), outputs) = end
  BY <1>5, VerdictsAgree DEF HasNoBlank, end
<1>7. ~PyRaises(Legible(row), outputs) /\ Len(Legible(row).steps) = n
  <2>1. /\ DOMAIN Legible(row).steps = DOMAIN row.steps
        /\ Len(Legible(row).steps) = n
    BY LegibleFields
  <2>2. \A k \in 1..n : ~(outputs[k].form = "call" /\ outputs[k].method = Unhashable)
    BY <1>2, <1>4, NoFailureNoException
  <2> QED
    BY <1>2, <2>1, <2>2, PyRaisesIff
<1>8. PyVerdict(Legible(row), outputs) = Verdict(end, PyGet(Legible(row).final))
  BY <1>1, <1>6, <1>7 DEF PyVerdict
<1>9. PyGet(Legible(row).final) = Readable(row.final)
  BY LegibleFields
<1> QED
  BY <1>1, <1>8, <1>9 DEF outputs
=============================================================================
