-------------------------- MODULE TrajectoryProofs --------------------------
(***************************************************************************)
(* The verifier over any state machine, any set of methods and any row:    *)
(* a grader never leaves the lifecycle, the subscores are a cascade, the   *)
(* reward accepts what some trigger would have made the grader accept, and *)
(* the Python and the C grader give every row C can read one verdict and C *)
(* passes no other, provided no context carries an empty string, which C   *)
(* takes for an absent one.                                                *)
(***************************************************************************)
EXTENDS Trajectory, WellFoundedInduction, TLAPS

NoBlankTexts == Empty \notin Texts

\* What a context may carry: a text, nothing, or what is no state and no trigger.
LEMMA FieldFacts ==
    /\ Texts \subseteq Fields \ {Null} /\ None \in Fields \ {Null}
    /\ NoBlankTexts => \A field \in Fields \ {Null} : Blank(field) <=> field = None
BY VerifierAssumption DEF Fields, Blank, NoBlankTexts

-----------------------------------------------------------------------------
(* The operators.                                                           *)

\* A nonempty set of positions has a first one.
LEMMA FirstIsMember ==
    ASSUME NEW I \in SUBSET Nat, I # {}
    PROVE  First(I) \in I
<1>1. PICK m \in I : \A n \in I : ~(<<n, m>> \in OpToRel(<, Nat))
  BY NatLessThanWellFounded, WFMin
<1>2. \A n \in I : ~(n < m)
  BY <1>1 DEF OpToRel
<1>3. \A n \in I : m <= n
  BY <1>2
<1> QED
  BY <1>3 DEF First

\* A plausible position is a trigger of the method with an arc from the state.
LEMMA PlausibleIsArc ==
    ASSUME NEW m \in Methods, NEW s, NEW k \in Plausible(m, s)
    PROVE  /\ MethodTriggers[m][k] \in Texts /\ MethodTriggers[m][k] # Empty
           /\ CanEmit(m, MethodTriggers[m][k])
           /\ HasArc(s, MethodTriggers[m][k])
           /\ Target(m, s, k) = Transition[<<s, MethodTriggers[m][k]>>]
           /\ Target(m, s, k) \in States
<1>1. k \in 1..Len(MethodTriggers[m]) /\ HasArc(s, MethodTriggers[m][k])
  BY DEF Plausible
<1>2. MethodTriggers[m] \in Seq(Texts)
  BY VerifierAssumption
<1>3. MethodTriggers[m][k] \in Texts
  BY <1>1, <1>2
<1>4. <<s, MethodTriggers[m][k]>> \in DOMAIN Transition
  BY <1>1 DEF HasArc
<1>5. /\ MethodTriggers[m][k] # Empty
      /\ Transition[<<s, MethodTriggers[m][k]>>] \in States
  BY <1>4, VerifierAssumption
<1> QED
  BY <1>1, <1>3, <1>5 DEF CanEmit, Target

LEMMA PlausibleIsNat ==
    ASSUME NEW m \in Methods, NEW s
    PROVE  Plausible(m, s) \in SUBSET Nat
BY DEF Plausible

\* A state of the machine is neither missing nor empty.
LEMMA StatesAreTexts == States \subseteq Texts /\ None \notin States /\ Empty \notin States
BY VerifierAssumption

\* The state inference chooses is the target of a plausible position, and the expected
\* one if there is an expectation.
LEMMA InferredIsTarget ==
    ASSUME NEW m \in Methods, NEW ctx \in Contexts, InferredState(ctx, m) # None
    PROVE  \E k \in Plausible(m, ctx.prior) :
              /\ InferredState(ctx, m) = Target(m, ctx.prior, k)
              /\ ctx.after = None \/ ctx.after = Target(m, ctx.prior, k)
<1> DEFINE candidates == Plausible(m, ctx.prior)
           matching == {j \in candidates : Target(m, ctx.prior, j) = ctx.after}
           chosen == IF ~Blank(ctx.after) /\ matching # {} THEN matching ELSE candidates
<1>1. candidates # {} /\ InferredState(ctx, m) = Target(m, ctx.prior, First(chosen))
  BY DEF InferredState
<1>2. ctx.after = None \/ Target(m, ctx.prior, First(chosen)) = ctx.after
  BY DEF InferredState
<1>3. chosen # {} /\ chosen \subseteq candidates
  BY <1>1
<1>4. chosen \in SUBSET Nat
  BY <1>3, PlausibleIsNat
<1> HIDE DEF chosen
<1>5. First(chosen) \in candidates
  BY <1>3, <1>4, FirstIsMember
<1> QED
  BY <1>1, <1>2, <1>5

\* Inference finds a state whenever some plausible position leads where it is expected.
LEMMA InferredIfTarget ==
    ASSUME NEW m \in Methods, NEW ctx \in Contexts, NEW k \in Plausible(m, ctx.prior),
           ctx.after = None \/ ctx.after = Target(m, ctx.prior, k)
    PROVE  InferredState(ctx, m) # None
<1> DEFINE candidates == Plausible(m, ctx.prior)
           matching == {j \in candidates : Target(m, ctx.prior, j) = ctx.after}
           chosen == IF ~Blank(ctx.after) /\ matching # {} THEN matching ELSE candidates
<1>1. candidates \in SUBSET Nat /\ matching \in SUBSET Nat /\ k \in candidates
  BY PlausibleIsNat
<1>2. \A j \in candidates : Target(m, ctx.prior, j) # None
  BY PlausibleIsArc, StatesAreTexts, ZenonT(60)
<1>3. CASE ctx.after = None
  <2>1. chosen = candidates
    BY <1>3 DEF Blank
  <2>2. First(candidates) \in candidates
    BY <1>1, FirstIsMember
  <2> QED
    BY <1>1, <1>2, <1>3, <2>1, <2>2 DEF InferredState
<1>4. CASE ctx.after # None
  <2>1. ~Blank(ctx.after)
    <3>1. ctx.after \in States
      BY <1>4, PlausibleIsArc, ZenonT(60)
    <3> QED
      BY <3>1, StatesAreTexts DEF Blank
  <2>2. k \in matching
    BY <1>4
  <2>3. chosen = matching
    BY <2>1, <2>2
  <2>4. First(matching) \in matching
    BY <1>1, <2>2, FirstIsMember
  <2>5. Target(m, ctx.prior, First(matching)) = ctx.after /\ First(matching) \in candidates
    BY <2>4
  <2> HIDE DEF matching
  <2>6. InferredState(ctx, m) = Target(m, ctx.prior, First(matching))
    BY <1>1, <2>3, <2>5 DEF InferredState, matching
  <2> QED
    BY <1>2, <2>5, <2>6
<1> QED
  BY <1>3, <1>4

\* A trigger the method can emit, with an arc from the state, is a plausible position.
LEMMA ArcIsPlausible ==
    ASSUME NEW m \in Methods, NEW s, NEW t, CanEmit(m, t), HasArc(s, t)
    PROVE  \E k \in Plausible(m, s) :
              MethodTriggers[m][k] = t /\ Target(m, s, k) = Transition[<<s, t>>]
BY DEF CanEmit, Plausible, Target

\* Pinning finds a state exactly when the pinned trigger has the expected arc.
LEMMA PinnedIsArc ==
    ASSUME NEW ctx \in Contexts, NEW m \in Methods
    PROVE  /\ PinnedState(ctx, m) # None <=>
                /\ ~Blank(ctx.trigger)
                /\ CanEmit(m, ctx.trigger)
                /\ HasArc(ctx.prior, ctx.trigger)
                /\ ctx.after = None \/ Transition[<<ctx.prior, ctx.trigger>>] = ctx.after
           /\ PinnedState(ctx, m) # None =>
                PinnedState(ctx, m) = Transition[<<ctx.prior, ctx.trigger>>]
<1>1. HasArc(ctx.prior, ctx.trigger) => Transition[<<ctx.prior, ctx.trigger>>] # None
  BY VerifierAssumption, StatesAreTexts DEF HasArc
<1> QED
  BY <1>1 DEF PinnedState

\* The new state of a call that is no query is the target of one of its triggers.
LEMMA NewStateIsTarget ==
    ASSUME NEW ctx \in Contexts, NEW m \in Methods, NEW infer \in BOOLEAN,
           ~IsQuery(m), NewState(ctx, m, infer) # None
    PROVE  \E k \in Plausible(m, ctx.prior) :
              NewState(ctx, m, infer) = Target(m, ctx.prior, k)
<1>1. CASE infer /\ Blank(ctx.trigger)
  <2>1. NewState(ctx, m, infer) = InferredState(ctx, m)
    BY <1>1 DEF NewState
  <2> QED
    BY <2>1, InferredIsTarget
<1>2. CASE ~(infer /\ Blank(ctx.trigger))
  <2>1. NewState(ctx, m, infer) = PinnedState(ctx, m)
    BY <1>2 DEF NewState
  <2>2. /\ CanEmit(m, ctx.trigger) /\ HasArc(ctx.prior, ctx.trigger)
        /\ PinnedState(ctx, m) = Transition[<<ctx.prior, ctx.trigger>>]
    BY <2>1, PinnedIsArc
  <2> QED
    BY <2>1, <2>2, ArcIsPlausible
<1> QED
  BY <1>1, <1>2

\* How a result comes about: a refusal, or the grade of a known method's call.
IsResultOf(r, ctx, out, new) ==
    \/ r \in {Fail, Raise, UnknownMethod}
    \/ /\ out.form = "call" /\ out.method \in Methods /\ ctx.prior # None
       /\ r = Grade(Score(out.paramsValid),
                    Score(\/ IsQuery(out.method)
                          \/ Plausible(out.method, ctx.prior) # {}),
                    new)

LEMMA VerifyStepIsResult ==
    ASSUME NEW ctx, NEW out, NEW infer
    PROVE  /\ IsResultOf(VerifyStep(ctx, out, infer), ctx, out, NewState(ctx, out.method, infer))
           /\ IsResultOf(CVerifyStep(ctx, out, infer), ctx, out, CNewState(ctx, out.method, infer))
BY DEF IsResultOf, VerifyStep, CVerifyStep, Blank

\* The refusals have no state, no pass and an error.
LEMMA RefusalShape ==
    /\ Fail.passed = FALSE /\ Fail.error = TRUE /\ Fail.subscores = NoScores
    /\ UnknownMethod.passed = FALSE /\ UnknownMethod.error = TRUE
    /\ UnknownMethod.subscores = [NoScores EXCEPT !.parse = 1]
    /\ Raise.passed = FALSE /\ Raise.error = TRUE
    /\ Raise.subscores = [NoScores EXCEPT !.parse = 1]
    /\ Fail.raised = FALSE /\ UnknownMethod.raised = FALSE /\ Raise.raised = TRUE
BY DEF Fail, Raise, UnknownMethod, Result

\* A grade passes exactly when its three conditions do, and carries an error otherwise
\* for a wrong schema or a missing state.
LEMMA GradeVerdict ==
    ASSUME NEW s \in 0..1, NEW p \in 0..1, NEW n, NEW r, r = Grade(s, p, n)
    PROVE  /\ r.passed <=> (s = 1 /\ p = 1 /\ n # None)
           /\ r.error <=> (s = 0 \/ n = None)
BY DEF Grade, Result

LEMMA GradeFields ==
    ASSUME NEW s \in 0..1, NEW p \in 0..1, NEW n, NEW r, r = Grade(s, p, n)
    PROVE  /\ r.passed \in BOOLEAN /\ r.error \in BOOLEAN
           /\ r.new_state = n
BY DEF Grade, Result

LEMMA GradeScores ==
    ASSUME NEW s \in 0..1, NEW p \in 0..1, NEW n, NEW r, r = Grade(s, p, n)
    PROVE  r.subscores = [parse |-> 1, schema |-> s, method_known |-> 1,
                          precondition_met |-> p,
                          transition_valid |-> IF n # None THEN 1 ELSE 0,
                          sequence_optimal |-> IF n # None THEN 1 ELSE 0]
BY DEF Grade, Result, Score

\* What a result looks like, and what it takes to pass.
LEMMA ResultShape ==
    ASSUME NEW ctx, NEW out \in Outputs, NEW r, NEW new, IsResultOf(r, ctx, out, new)
    PROVE  /\ r.passed \in BOOLEAN /\ r.error \in BOOLEAN
           /\ r.subscores \in Subscores
           /\ r.passed =>
                /\ out.form = "call" /\ out.method \in Methods /\ out.paramsValid
                /\ ctx.prior # None
                /\ r.new_state = new
                /\ new # None
<1> DEFINE schema == Score(out.paramsValid)
           precondition == Score(IsQuery(out.method) \/ Plausible(out.method, ctx.prior) # {})
<1>1. NoScores \in Subscores /\ [NoScores EXCEPT !.parse = 1] \in Subscores
  BY DEF NoScores, Subscores
<1>2. CASE r \in {Fail, Raise, UnknownMethod}
  BY <1>1, <1>2, RefusalShape
<1>3. CASE /\ out.form = "call" /\ out.method \in Methods /\ ctx.prior # None
           /\ r = Grade(schema, precondition, new)
  <2>1. /\ schema \in 0..1 /\ precondition \in 0..1
        /\ schema = 1 => out.paramsValid
    BY DEF Score
  <2>2. r = Grade(schema, precondition, new)
    BY <1>3
  <2> HIDE DEF schema, precondition
  <2>3. r.passed <=> (schema = 1 /\ precondition = 1 /\ new # None)
    BY <2>1, <2>2, GradeVerdict
  <2>4. r.passed \in BOOLEAN /\ r.error \in BOOLEAN /\ r.new_state = new
    BY <2>1, <2>2, GradeFields
  <2>5. r.subscores = [parse |-> 1, schema |-> schema, method_known |-> 1,
                       precondition_met |-> precondition,
                       transition_valid |-> IF new # None THEN 1 ELSE 0,
                       sequence_optimal |-> IF new # None THEN 1 ELSE 0]
    BY <2>1, <2>2, GradeScores
  <2>6. r.subscores \in Subscores
    BY <2>1, <2>5 DEF Subscores
  <2> QED
    BY <1>3, <2>1, <2>3, <2>4, <2>6
<1> QED
  BY <1>2, <1>3 DEF IsResultOf

\* The first failing subscore is one of the six, if there is one.
LEMMA FirstFailingType ==
    ASSUME NEW scores
    PROVE  FirstFailing(scores) \in {SubscoreNames[k] : k \in 1..6} \union {None}
<1> DEFINE failing == {k \in 1..6 : scores[SubscoreNames[k]] < 1}
<1>1. failing \in SUBSET Nat
  OBVIOUS
<1>2. failing # {} => First(failing) \in 1..6
  BY <1>1, FirstIsMember
<1> QED
  BY <1>2 DEF FirstFailing

\* In either implementation the state a passing step leads to is a text, and a state of
\* the machine if the step started from one.
LEMMA CNewStateIsTarget ==
    ASSUME NEW ctx \in Contexts, NEW m \in Methods, NEW infer \in BOOLEAN,
           ~IsQuery(m), CNewState(ctx, m, infer) # None
    PROVE  \E k \in Plausible(m, ctx.prior) :
              CNewState(ctx, m, infer) = Target(m, ctx.prior, k)
<1>1. CASE infer /\ Blank(ctx.trigger)
  <2> DEFINE accepted == {j \in Plausible(m, ctx.prior) :
                            Blank(ctx.after) \/ Target(m, ctx.prior, j) = ctx.after}
  <2>1. CNewState(ctx, m, infer) = CInferredState(ctx, m)
    BY <1>1 DEF CNewState
  <2>2. accepted # {} /\ CInferredState(ctx, m) = Target(m, ctx.prior, First(accepted))
    BY <2>1 DEF CInferredState
  <2>3. accepted \in SUBSET Nat /\ accepted \subseteq Plausible(m, ctx.prior)
    BY PlausibleIsNat
  <2> HIDE DEF accepted
  <2>4. First(accepted) \in Plausible(m, ctx.prior)
    BY <2>2, <2>3, FirstIsMember
  <2> QED
    BY <2>1, <2>2, <2>4
<1>2. CASE ~(infer /\ Blank(ctx.trigger))
  <2>1. CNewState(ctx, m, infer) = CPinnedState(ctx, m)
    BY <1>2 DEF CNewState
  <2>2. /\ CanEmit(m, ctx.trigger) /\ HasArc(ctx.prior, ctx.trigger)
        /\ CPinnedState(ctx, m) = Transition[<<ctx.prior, ctx.trigger>>]
    BY <2>1 DEF CPinnedState
  <2> QED
    BY <2>1, <2>2, ArcIsPlausible
<1> QED
  BY <1>1, <1>2

LEMMA NewStateType ==
    ASSUME NEW ctx \in Contexts, NEW m \in Methods, NEW infer \in BOOLEAN, ctx.prior # None
    PROVE  /\ NewState(ctx, m, infer) # None =>
                /\ NewState(ctx, m, infer) \in Texts
                /\ ctx.prior \in States => NewState(ctx, m, infer) \in States
           /\ CNewState(ctx, m, infer) # None => CNewState(ctx, m, infer) \in Texts
<1>1. ctx.prior \in Texts
  BY DEF Contexts
<1>2. CASE IsQuery(m)
  BY <1>1, <1>2 DEF NewState, CNewState
<1>3. CASE ~IsQuery(m)
  <2>1. \A k \in Plausible(m, ctx.prior) :
            Target(m, ctx.prior, k) \in States /\ Target(m, ctx.prior, k) \in Texts
    BY PlausibleIsArc, StatesAreTexts
  <2>2. NewState(ctx, m, infer) # None =>
            \E k \in Plausible(m, ctx.prior) : NewState(ctx, m, infer) = Target(m, ctx.prior, k)
    BY <1>3, NewStateIsTarget
  <2>3. CNewState(ctx, m, infer) # None =>
            \E k \in Plausible(m, ctx.prior) : CNewState(ctx, m, infer) = Target(m, ctx.prior, k)
    BY <1>3, CNewStateIsTarget
  <2> QED
    BY <2>1, <2>2, <2>3
<1> QED
  BY <1>2, <1>3

-----------------------------------------------------------------------------
(* The walk.                                                                *)

\* The context of a step, in either grader.
LEMMA ContextType ==
    ASSUME NEW state \in Texts, NEW trigger \in Fields \ {Null}, NEW after \in Fields \ {Null}
    PROVE  /\ Context(state, trigger, after) \in Contexts
           /\ Context(state, trigger, after).prior = state
BY DEF Context, Contexts

\* What Python reads of a row is no null, and what C reads is what Python reads.
LEMMA StepFields ==
    ASSUME NEW step \in RowSteps
    PROVE  /\ PyGet(step.trigger) \in Fields \ {Null} /\ PyGet(step.after) \in Fields \ {Null}
           /\ StepIsValid(step) =>
                /\ PyGet(step.trigger) = step.trigger
                /\ PyGet(step.after) = step.after
<1>1. step.trigger \in Fields /\ step.after \in Fields
  BY TrajectoryAssumption DEF Steps
<1>2. None \in Fields /\ None # Null
  BY VerifierAssumption DEF Fields
<1> QED
  BY <1>1, <1>2 DEF PyGet, StepIsValid, IsString

LEMMA PyContextType ==
    ASSUME NEW step \in RowSteps, py \in Summaries
    PROVE  PyContext(step) \in Contexts /\ PyContext(step).prior = py.state
<1>1. py.state \in Texts
  BY DEF Summaries
<1> QED
  BY <1>1, StepFields, ContextType DEF PyContext

\* A refused row's summary is a summary.
LEMMA RefusedType ==
    ASSUME NEW summary \in Summaries
    PROVE  /\ Refused(summary) \in Summaries
           /\ Refused(summary).failed = 0 /\ Refused(summary).passed = FALSE
           /\ Refused(summary).mode = "schema"
<1>1. "schema" \in {SubscoreNames[k] : k \in 1..6}
  BY DEF SubscoreNames
<1>2. 0 \in 0..MaxSteps
  BY TrajectoryAssumption
<1> QED
  BY <1>1, <1>2 DEF Refused, Summaries

\* A step's result keeps a summary a summary, in either implementation.
LEMMA AdvanceType ==
    ASSUME NEW summary \in Summaries, NEW k \in 1..MaxSteps, NEW ctx \in Contexts,
           NEW out \in Outputs
    PROVE  /\ Advance(summary, k, VerifyStep(ctx, out, FALSE)) \in Summaries
           /\ Advance(summary, k, CVerifyStep(ctx, out, FALSE)) \in Summaries
<1>1. ASSUME NEW r, r.passed \in BOOLEAN, r.passed => r.new_state \in Texts
      PROVE  Advance(summary, k, r) \in Summaries
  <2>1. FirstFailing(r.subscores) \in {SubscoreNames[j] : j \in 1..6} \union {None}
    BY FirstFailingType
  <2>2. k \in 0..MaxSteps
    BY TrajectoryAssumption
  <2> DEFINE mode == FirstFailing(r.subscores)
             modes == {SubscoreNames[j] : j \in 1..6} \union {None}
  <2>3. mode \in modes
    BY <2>1
  <2>4. summary \in [state : Texts, failed : 0..MaxSteps, passed : BOOLEAN, mode : modes]
    BY DEF Summaries
  <2> HIDE DEF mode, modes
  <2>5. [summary EXCEPT !.state = IF r.passed THEN r.new_state ELSE @,
                        !.failed = IF @ = 0 /\ ~r.passed THEN k ELSE @,
                        !.mode = IF summary.failed = 0 THEN mode ELSE @]
            \in [state : Texts, failed : 0..MaxSteps, passed : BOOLEAN, mode : modes]
    BY <1>1, <2>2, <2>3, <2>4
  <2> QED
    BY <2>5 DEF Advance, Summaries, mode, modes
<1>2. \A m \in Methods : ctx.prior # None =>
        /\ NewState(ctx, m, FALSE) # None => NewState(ctx, m, FALSE) \in Texts
        /\ CNewState(ctx, m, FALSE) # None => CNewState(ctx, m, FALSE) \in Texts
  BY NewStateType
<1> DEFINE r == VerifyStep(ctx, out, FALSE)
           cr == CVerifyStep(ctx, out, FALSE)
           new == NewState(ctx, out.method, FALSE)
           cnew == CNewState(ctx, out.method, FALSE)
<1>3. IsResultOf(r, ctx, out, new) /\ IsResultOf(cr, ctx, out, cnew)
  BY VerifyStepIsResult
<1> HIDE DEF r, cr
<1>4. r.passed \in BOOLEAN /\ (r.passed => r.new_state \in Texts)
  <2>1. /\ r.passed \in BOOLEAN
        /\ r.passed => /\ out.method \in Methods /\ ctx.prior # None
                       /\ r.new_state = new /\ new # None
    BY <1>3, ResultShape
  <2> QED
    BY <1>2, <2>1
<1>5. cr.passed \in BOOLEAN /\ (cr.passed => cr.new_state \in Texts)
  <2>1. /\ cr.passed \in BOOLEAN
        /\ cr.passed => /\ out.method \in Methods /\ ctx.prior # None
                        /\ cr.new_state = cnew /\ cnew # None
    BY <1>3, ResultShape
  <2> QED
    BY <1>2, <2>1
<1>6. Advance(summary, k, r) \in Summaries /\ Advance(summary, k, cr) \in Summaries
  BY <1>1, <1>4, <1>5
<1> QED
  BY <1>6 DEF r, cr

LEMMA TypeInit == Init => TypeOK
<1> SUFFICES ASSUME Init
             PROVE  TypeOK
  OBVIOUS
<1>1. NoStep \in [ctx : Contexts, output : StepOutputs] \union {NoStep}
  OBVIOUS
<1>2. py \in Summaries
  BY TrajectoryAssumption DEF Init, Summaries
<1>3. c \in Summaries
  BY <1>2, RefusedType DEF Init
<1>4. None \in Fields \ {Null}
  BY VerifierAssumption DEF Fields
<1> QED
  BY <1>1, <1>2, <1>3, <1>4, TrajectoryAssumption DEF Init, TypeOK

\* What C makes of a step and of the end of a row is a summary.
LEMMA CGradesType ==
    ASSUME TypeOK, i < MaxSteps, NEW step \in RowSteps, NEW output \in StepOutputs
    PROVE  CGrades(step, output) \in Summaries
<1>1. c \in Summaries /\ c.state \in Texts /\ output \in Outputs /\ i + 1 \in 1..MaxSteps
  BY TrajectoryAssumption DEF TypeOK, Summaries
<1>2. Refused(c) \in Summaries
  BY <1>1, RefusedType
<1>3. [c EXCEPT !.failed = i + 1, !.mode = "schema"] \in Summaries
  <2>1. "schema" \in {SubscoreNames[k] : k \in 1..6} /\ i + 1 \in 0..MaxSteps
    BY <1>1, TrajectoryAssumption DEF SubscoreNames
  <2> QED
    BY <1>1, <2>1 DEF Summaries
<1>4. ASSUME StepIsValid(step)
      PROVE  Advance(c, i + 1, CVerifyStep(Context(c.state, step.trigger, step.after), output,
                                           FALSE)) \in Summaries
  <2>1. Context(c.state, step.trigger, step.after) \in Contexts
    BY <1>1, <1>4, StepFields, ContextType
  <2> QED
    BY <1>1, <2>1, AdvanceType
<1> QED
  BY <1>1, <1>2, <1>3, <1>4 DEF CGrades

LEMMA CVerdictType ==
    ASSUME TypeOK, NEW field
    PROVE  CVerdict(field) \in Summaries
<1>1. c \in Summaries
  BY DEF TypeOK
<1>2. "schema" \in {SubscoreNames[k] : k \in 1..6}
  BY DEF SubscoreNames
<1>3. ReachesFinal(c, field) \in BOOLEAN
  BY DEF ReachesFinal
<1>4. /\ [c EXCEPT !.mode = "schema"] \in Summaries
      /\ [c EXCEPT !.passed = ReachesFinal(c, field)] \in Summaries
  BY <1>1, <1>2, <1>3 DEF Summaries
<1> QED
  BY <1>1, <1>4, RefusedType DEF CVerdict

LEMMA TypeStep == TypeOK /\ [Next]_vars => TypeOK'
<1> SUFFICES ASSUME TypeOK, [Next]_vars
             PROVE  TypeOK'
  OBVIOUS
<1>1. CASE RejectMismatch
  BY <1>1 DEF TypeOK, RejectMismatch
<1>2. CASE RejectEmpty
  BY <1>2, RefusedType DEF TypeOK, RejectEmpty
<1>3. CASE Step
  <2>1. PICK step \in RowSteps, output \in StepOutputs :
                GradeStep(step, output) \/ GradeRaises(step, output)
    BY <1>3 DEF Step
  <2>2. /\ i \in 0..MaxSteps /\ i < MaxSteps
        /\ i' = i + 1 /\ last' = [ctx |-> PyContext(step), output |-> output]
        /\ UNCHANGED <<initial, final>>
    BY <2>1 DEF TypeOK, GradeStep, GradeRaises, Grading
  <2>3. i + 1 \in 1..MaxSteps /\ i' \in 0..MaxSteps
    BY <2>2, TrajectoryAssumption
  <2>4. py \in Summaries /\ c \in Summaries /\ output \in Outputs
    BY TrajectoryAssumption DEF TypeOK
  <2>5. PyContext(step) \in Contexts
    BY <2>4, PyContextType
  <2>6. last' \in [ctx : Contexts, output : StepOutputs] \union {NoStep}
    BY <2>2, <2>5
  <2>7. phase' \in {"grading", "graded", "mismatched", "raised"}
    BY <2>1 DEF TypeOK, GradeStep, GradeRaises
  <2>8. py' \in Summaries /\ c' \in Summaries
    <3>1. CASE GradeStep(step, output)
      <4>1. /\ py' = Advance(py, i + 1, VerifyStep(PyContext(step), output, FALSE))
            /\ c' = CGrades(step, output)
        BY <3>1 DEF GradeStep
      <4>2. c' \in Summaries
        BY <2>2, <4>1, CGradesType
      <4> QED
        BY <2>3, <2>4, <2>5, <4>1, <4>2, AdvanceType
    <3>2. CASE GradeRaises(step, output)
      BY <3>2 DEF GradeRaises, TypeOK
    <3> QED
      BY <2>1, <3>1, <3>2
  <2>9. valid' \in BOOLEAN /\ fits' \in BOOLEAN
    BY <2>1 DEF TypeOK, GradeStep, GradeRaises, StepIsValid, StepFits, IsString
  <2> QED
    BY <2>2, <2>3, <2>6, <2>7, <2>8, <2>9 DEF TypeOK
<1>4. CASE \E field \in Fields : Verdict(field)
  <2>1. PICK field \in Fields : Verdict(field)
    BY <1>4
  <2>2. /\ phase' = "graded" /\ final' = PyGet(field) /\ c' = CVerdict(field)
        /\ py' = [py EXCEPT !.passed = py.failed = 0 /\ ReachesFinal(py, PyGet(field))]
        /\ UNCHANGED <<initial, i, last>> /\ valid' \in BOOLEAN /\ fits' \in BOOLEAN
    BY <2>1 DEF Verdict, TypeOK, IsString
  <2>3. PyGet(field) \in Fields \ {Null}
    BY VerifierAssumption DEF PyGet, Fields
  <2>4. py' \in Summaries
    BY <2>2 DEF TypeOK, Summaries, ReachesFinal
  <2> QED
    BY <2>2, <2>3, <2>4, CVerdictType DEF TypeOK
<1>5. CASE UNCHANGED vars
  BY <1>5 DEF TypeOK, vars
<1> QED
  BY <1>1, <1>2, <1>3, <1>4, <1>5 DEF Next

\* Every variable keeps its type: a state the walk reaches is always a text.
THEOREM TypeCorrect == Spec => []TypeOK
BY TypeInit, TypeStep, PTL DEF Spec

-----------------------------------------------------------------------------
(* The subscores and the two modes.                                         *)

\* A known method's call has a state only if its precondition holds.
LEMMA StateNeedsPrecondition ==
    ASSUME NEW ctx \in Contexts, NEW m \in Methods, NEW infer \in BOOLEAN,
           NewState(ctx, m, infer) # None
    PROVE  IsQuery(m) \/ Plausible(m, ctx.prior) # {}
BY NewStateIsTarget

LEMMA CascadeOfStep ==
    ASSUME NEW ctx \in Contexts, NEW out \in Outputs, NEW infer \in BOOLEAN
    PROVE  LET r == VerifyStep(ctx, out, infer)
           IN  /\ IsCascade(r.subscores)
               /\ r.passed <=> \A name \in DOMAIN r.subscores : r.subscores[name] = 1
               /\ r.error <=> ~r.passed
<1> DEFINE r == VerifyStep(ctx, out, infer)
           new == NewState(ctx, out.method, infer)
           schema == Score(out.paramsValid)
           precondition == Score(IsQuery(out.method) \/ Plausible(out.method, ctx.prior) # {})
<1>1. \/ r \in {Fail, Raise, UnknownMethod}
      \/ out.method \in Methods /\ r = Grade(schema, precondition, new)
  <2>1. IsResultOf(r, ctx, out, new)
    BY VerifyStepIsResult
  <2> HIDE DEF r, new
  <2> QED
    BY <2>1 DEF IsResultOf
<1>2. CASE r \in {Fail, Raise, UnknownMethod}
  <2> HIDE DEF r
  <2>1. r.passed = FALSE /\ r.error = TRUE
    BY <1>2, RefusalShape
  <2>2. r.subscores \in {NoScores, [NoScores EXCEPT !.parse = 1]}
    BY <1>2, RefusalShape
  <2>3. IsCascade(NoScores) /\ IsCascade([NoScores EXCEPT !.parse = 1])
    BY DEF IsCascade, NoScores
  <2>4. \A s \in {NoScores, [NoScores EXCEPT !.parse = 1]} :
            "schema" \in DOMAIN s /\ s["schema"] = 0
    BY DEF NoScores
  <2> QED
    BY <2>1, <2>2, <2>3, <2>4 DEF r
<1>3. CASE out.method \in Methods /\ r = Grade(schema, precondition, new)
  <2>1. /\ schema \in 0..1 /\ precondition \in 0..1
        /\ new # None => precondition = 1
    BY <1>3, StateNeedsPrecondition DEF Score
  <2> HIDE DEF r, schema, precondition, new
  <2>2. r.passed <=> (schema = 1 /\ precondition = 1 /\ new # None)
    BY <1>3, <2>1, GradeVerdict
  <2>3. r.error <=> (schema = 0 \/ new = None)
    BY <1>3, <2>1, GradeVerdict
  <2>4. r.error <=> ~r.passed
    BY <2>1, <2>2, <2>3
  <2>5. r.subscores = [parse |-> 1, schema |-> schema, method_known |-> 1,
                       precondition_met |-> precondition,
                       transition_valid |-> IF new # None THEN 1 ELSE 0,
                       sequence_optimal |-> IF new # None THEN 1 ELSE 0]
    BY <1>3, <2>1, GradeScores
  <2>6. IsCascade(r.subscores)
    BY <2>1, <2>5 DEF IsCascade
  <2>7. (\A name \in DOMAIN r.subscores : r.subscores[name] = 1) <=>
            schema = 1 /\ precondition = 1 /\ new # None
    BY <2>1, <2>5
  <2> QED
    BY <2>2, <2>4, <2>6, <2>7 DEF r
<1> QED
  BY <1>1, <1>2, <1>3

\* A graded step has a context and an output.
LEMMA LastType ==
    ASSUME TypeOK, Graded
    PROVE  last.ctx \in Contexts /\ last.output \in Outputs
BY TrajectoryAssumption DEF TypeOK, Graded

\* In every walk the subscores are a cascade and passed means "all six are 1"
\* (core.py:40-62).
THEOREM CascadeHolds == Spec => []SubscoresCascade
<1>1. TypeOK => SubscoresCascade
  <2> SUFFICES ASSUME TypeOK, Graded, NEW r \in {Pinned, Inferred}
               PROVE  /\ IsCascade(r.subscores)
                      /\ r.passed <=> \A name \in DOMAIN r.subscores : r.subscores[name] = 1
                      /\ r.error <=> ~r.passed
    BY DEF SubscoresCascade
  <2>1. last.ctx \in Contexts /\ last.output \in Outputs
    BY LastType
  <2>2. [last.ctx EXCEPT !.trigger = None] \in Contexts
    BY <2>1, FieldFacts DEF Contexts
  <2>3. PICK ctx \in Contexts, infer \in BOOLEAN : r = VerifyStep(ctx, last.output, infer)
    BY <2>1, <2>2 DEF Pinned, Inferred
  <2> QED
    BY <2>1, <2>3, CascadeOfStep
<1> QED
  BY <1>1, TypeCorrect, PTL

\* When a step passes: its call and its state are accepted.
LEMMA PassesIff ==
    ASSUME NEW ctx \in Contexts, NEW out \in Outputs, NEW infer \in BOOLEAN
    PROVE  VerifyStep(ctx, out, infer).passed <=>
                /\ out.form = "call" /\ out.method \in Methods /\ out.paramsValid
                /\ ctx.prior # None
                /\ NewState(ctx, out.method, infer) # None
<1> DEFINE r == VerifyStep(ctx, out, infer)
           new == NewState(ctx, out.method, infer)
<1>1. IsResultOf(r, ctx, out, new)
  BY VerifyStepIsResult
<1>2. r.passed =>
        /\ out.form = "call" /\ out.method \in Methods /\ out.paramsValid
        /\ ctx.prior # None /\ new # None
  <2> HIDE DEF r, new
  <2> QED
    BY <1>1, ResultShape
<1>3. ASSUME /\ out.form = "call" /\ out.method \in Methods /\ out.paramsValid
             /\ ctx.prior # None /\ new # None
      PROVE  r.passed
  <2> DEFINE schema == Score(out.paramsValid)
             precondition == Score(IsQuery(out.method) \/ Plausible(out.method, ctx.prior) # {})
  <2>1. schema = 1 /\ precondition = 1
    BY <1>3, StateNeedsPrecondition DEF Score
  <2>2. r = Grade(schema, precondition, new)
    BY <1>3, VerifierAssumption DEF VerifyStep
  <2> HIDE DEF r, new, schema, precondition
  <2> QED
    BY <1>3, <2>1, <2>2, GradeVerdict
<1> QED
  BY <1>2, <1>3

\* Inference finds a state exactly when pinning some trigger would.
LEMMA InferenceIsSomePin ==
    ASSUME NEW ctx \in Contexts, NEW m \in Methods
    PROVE  InferredState([ctx EXCEPT !.trigger = None], m) # None <=>
                \E t \in Texts : PinnedState([ctx EXCEPT !.trigger = t], m) # None
<1> DEFINE open == [ctx EXCEPT !.trigger = None]
           pin(t) == [ctx EXCEPT !.trigger = t]
<1>1. open \in Contexts /\ open.prior = ctx.prior /\ open.after = ctx.after
  BY FieldFacts DEF Contexts
<1>2. \A t \in Texts : /\ pin(t) \in Contexts /\ pin(t).prior = ctx.prior
                        /\ pin(t).after = ctx.after /\ pin(t).trigger = t
  BY FieldFacts DEF Contexts
<1> HIDE DEF open, pin
<1>3. ASSUME InferredState(open, m) # None
      PROVE  \E t \in Texts : PinnedState(pin(t), m) # None
  <2>1. PICK k \in Plausible(m, ctx.prior) : ctx.after = None \/ ctx.after = Target(m, ctx.prior, k)
    BY <1>1, <1>3, InferredIsTarget
  <2> DEFINE t == MethodTriggers[m][k]
  <2>2. /\ t \in Texts /\ t # Empty /\ CanEmit(m, t) /\ HasArc(ctx.prior, t)
        /\ Target(m, ctx.prior, k) = Transition[<<ctx.prior, t>>]
    BY PlausibleIsArc
  <2> HIDE DEF t
  <2>3. ~Blank(t)
    BY <2>2, VerifierAssumption DEF Blank
  <2>4. PinnedState(pin(t), m) # None
    BY <1>2, <2>1, <2>2, <2>3, PinnedIsArc
  <2> QED
    BY <2>2, <2>4
<1>4. ASSUME NEW t \in Texts, PinnedState(pin(t), m) # None
      PROVE  InferredState(open, m) # None
  <2>1. /\ CanEmit(m, t) /\ HasArc(ctx.prior, t)
        /\ ctx.after = None \/ Transition[<<ctx.prior, t>>] = ctx.after
    BY <1>2, <1>4, PinnedIsArc
  <2>2. PICK k \in Plausible(m, ctx.prior) : Target(m, ctx.prior, k) = Transition[<<ctx.prior, t>>]
    BY <2>1, ArcIsPlausible
  <2>3. ctx.after = None \/ ctx.after = Target(m, ctx.prior, k)
    BY <2>1, <2>2
  <2> QED
    BY <1>1, <2>2, <2>3, InferredIfTarget
<1> QED
  BY <1>3, <1>4 DEF open, pin

\* The reward passes a call exactly when some trigger, had the row pinned it, would have
\* made the grader pass it (core.py:118-158, reward.py).
THEOREM RewardIsBestPin == Spec => []InferenceIsTheBestPin
<1>1. TypeOK => InferenceIsTheBestPin
  <2> SUFFICES ASSUME TypeOK, Graded
               PROVE  Inferred.passed <=>
                        \E t \in Texts :
                            VerifyStep([last.ctx EXCEPT !.trigger = t], last.output, FALSE).passed
    BY DEF InferenceIsTheBestPin
  <2> DEFINE ctx == last.ctx
             out == last.output
             m == out.method
             open == [ctx EXCEPT !.trigger = None]
             pin(t) == [ctx EXCEPT !.trigger = t]
  <2>1. ctx \in Contexts /\ out \in Outputs
    BY LastType
  <2>2. open \in Contexts /\ open.prior = ctx.prior /\ open.trigger = None
    BY <2>1, FieldFacts DEF Contexts
  <2>3. \A t \in Texts : pin(t) \in Contexts /\ pin(t).prior = ctx.prior
    BY <2>1, FieldFacts DEF Contexts
  <2> DEFINE Known == /\ out.form = "call" /\ m \in Methods /\ out.paramsValid
                      /\ ctx.prior # None
  <2>4. Inferred.passed <=> Known /\ NewState(open, m, TRUE) # None
    BY <2>1, <2>2, PassesIff DEF Inferred
  <2>5. \A t \in Texts : VerifyStep(pin(t), out, FALSE).passed <=>
                            Known /\ NewState(pin(t), m, FALSE) # None
    BY <2>1, <2>3, PassesIff
  <2>6. ASSUME Known
        PROVE  NewState(open, m, TRUE) # None <=>
                    \E t \in Texts : NewState(pin(t), m, FALSE) # None
    <3>1. CASE IsQuery(m)
      <4>1. ctx.prior \in Texts /\ ctx.prior # None
        BY <2>1, <2>6 DEF Contexts
      <4>2. NewState(open, m, TRUE) = ctx.prior
        BY <2>2, <3>1 DEF NewState
      <4>3. \A t \in Texts : NewState(pin(t), m, FALSE) = ctx.prior
        BY <2>3, <3>1 DEF NewState
      <4> QED
        BY <4>1, <4>2, <4>3
    <3>2. CASE ~IsQuery(m)
      <4>1. NewState(open, m, TRUE) = InferredState(open, m)
        BY <2>2, <3>2 DEF NewState, Blank
      <4>2. \A t \in Texts : NewState(pin(t), m, FALSE) = PinnedState(pin(t), m)
        BY <3>2 DEF NewState
      <4>3. m \in Methods
        BY <2>6
      <4> HIDE DEF ctx, out, m
      <4> QED
        BY <2>1, <4>1, <4>2, <4>3, InferenceIsSomePin
    <3> QED
      BY <3>1, <3>2
  <2> HIDE DEF Known
  <2>7. Inferred.passed <=> \E t \in Texts : VerifyStep(pin(t), out, FALSE).passed
    BY <2>4, <2>5, <2>6
  <2> QED
    BY <2>7
<1> QED
  BY <1>1, TypeCorrect, PTL

-----------------------------------------------------------------------------
(* The walk stays in the lifecycle.                                         *)

\* A step that passes and moves takes the arc of the trigger it was graded with.
LEMMA PassingStepTakesArc ==
    ASSUME NEW ctx \in Contexts, NEW out \in Outputs,
           VerifyStep(ctx, out, FALSE).passed
    PROVE  LET r == VerifyStep(ctx, out, FALSE)
           IN  /\ out.method \in Methods /\ out.paramsValid
               /\ ctx.prior \in States => r.new_state \in States
               /\ r.new_state # ctx.prior =>
                    /\ ctx.trigger \in Texts
                    /\ HasArc(ctx.prior, ctx.trigger)
                    /\ CanEmit(out.method, ctx.trigger)
                    /\ r.new_state = Transition[<<ctx.prior, ctx.trigger>>]
<1> DEFINE r == VerifyStep(ctx, out, FALSE)
           new == NewState(ctx, out.method, FALSE)
<1>1. IsResultOf(r, ctx, out, new)
  BY VerifyStepIsResult
<1>2. /\ out.method \in Methods /\ out.paramsValid /\ ctx.prior # None
      /\ r.new_state = new /\ new # None
  <2> HIDE DEF new
  <2>1. r.passed
    OBVIOUS
  <2> HIDE DEF r
  <2> QED
    BY <1>1, <2>1, ResultShape
<1>3. ctx.prior \in States => new \in States
  BY <1>2, NewStateType
<1>4. ASSUME new # ctx.prior
      PROVE  /\ ctx.trigger \in Texts
             /\ HasArc(ctx.prior, ctx.trigger)
             /\ CanEmit(out.method, ctx.trigger)
             /\ new = Transition[<<ctx.prior, ctx.trigger>>]
  <2>1. new = PinnedState(ctx, out.method)
    BY <1>4 DEF NewState
  <2>2. CanEmit(out.method, ctx.trigger)
    BY <1>2, <2>1, PinnedIsArc
  <2>3. ctx.trigger \in Texts
    <3>1. PICK k \in 1..Len(MethodTriggers[out.method]) :
                MethodTriggers[out.method][k] = ctx.trigger
      BY <2>2 DEF CanEmit
    <3>2. MethodTriggers[out.method] \in Seq(Texts)
      BY <1>2, VerifierAssumption
    <3> QED
      BY <3>1, <3>2
  <2> QED
    BY <1>2, <2>1, <2>3, PinnedIsArc
<1> QED
  BY <1>2, <1>3, <1>4

\* The Python grader's state only ever moves along an arc that the step's own method
\* can emit, and never on a step that fails (trajectory.py:50-66).
THEOREM StateStaysOnArcs == Spec => StateFollowsArcs
<1> DEFINE Follows ==
            py.state' # py.state =>
                \E trigger \in Texts :
                    /\ HasArc(py.state, trigger)
                    /\ py.state' = Transition[<<py.state, trigger>>]
                    /\ last'.output.method \in Methods
                    /\ CanEmit(last'.output.method, trigger)
                    /\ last'.output.paramsValid
                    /\ py'.failed = py.failed
<1>1. TypeOK /\ [Next]_vars => [Follows]_vars
  <2> SUFFICES ASSUME TypeOK, [Next]_vars, py.state' # py.state
               PROVE  \E trigger \in Texts :
                        /\ HasArc(py.state, trigger)
                        /\ py.state' = Transition[<<py.state, trigger>>]
                        /\ last'.output.method \in Methods
                        /\ CanEmit(last'.output.method, trigger)
                        /\ last'.output.paramsValid
                        /\ py'.failed = py.failed
    OBVIOUS
  <2>1. py \in Summaries
    BY DEF TypeOK
  <2>2. PICK step \in RowSteps, output \in StepOutputs : GradeStep(step, output)
    BY <2>1 DEF Next, RejectMismatch, RejectEmpty, Step, GradeRaises, Verdict, vars, Summaries
  <2> DEFINE ctx == PyContext(step)
             r == VerifyStep(ctx, output, FALSE)
  <2>3. /\ py' = Advance(py, i + 1, r)
        /\ last' = [ctx |-> ctx, output |-> output]
    BY <2>2 DEF GradeStep
  <2>4. ctx \in Contexts /\ ctx.prior = py.state /\ output \in Outputs
    BY <2>1, TrajectoryAssumption, PyContextType
  <2> HIDE DEF ctx, r
  <2>5. /\ py'.state = IF r.passed THEN r.new_state ELSE py.state
        /\ r.passed => py'.failed = py.failed
    BY <2>1, <2>3 DEF Advance, Summaries
  <2>6. r.passed /\ r.new_state # py.state
    BY <2>5
  <2>7. /\ output.method \in Methods /\ output.paramsValid
        /\ ctx.trigger \in Texts /\ HasArc(py.state, ctx.trigger)
        /\ CanEmit(output.method, ctx.trigger)
        /\ r.new_state = Transition[<<py.state, ctx.trigger>>]
    BY <2>4, <2>6, PassingStepTakesArc DEF r
  <2> QED
    BY <2>3, <2>5, <2>6, <2>7
<1> QED
  BY <1>1, TypeCorrect, PTL DEF Spec, StateFollowsArcs

\* Until the verdict nothing has passed; the verdict passes only a walk with no failed
\* step; and a walk that starts in the lifecycle stays in it.
WalkInv ==
    /\ py.passed =>
        /\ phase = "graded"
        /\ i > 0
        /\ py.failed = 0
        /\ final \in {None, py.state}
    /\ initial \in States => py.state \in States

LEMMA WalkStep == TypeOK /\ WalkInv /\ [Next]_vars => WalkInv'
<1> SUFFICES ASSUME TypeOK, WalkInv, [Next]_vars
             PROVE  WalkInv'
  OBVIOUS
<1>1. py \in Summaries
  BY DEF TypeOK
<1>2. CASE RejectMismatch \/ RejectEmpty \/ \E step, output : GradeRaises(step, output)
  BY <1>2 DEF WalkInv, RejectMismatch, RejectEmpty, GradeRaises, Grading
<1>3. CASE \E step \in RowSteps, output \in StepOutputs : GradeStep(step, output)
  <2>1. PICK step \in RowSteps, output \in StepOutputs : GradeStep(step, output)
    BY <1>3
  <2> DEFINE ctx == PyContext(step)
             r == VerifyStep(ctx, output, FALSE)
  <2>2. /\ py' = Advance(py, i + 1, r) /\ phase = "grading" /\ UNCHANGED initial
    BY <2>1 DEF GradeStep, Grading
  <2>3. ctx \in Contexts /\ ctx.prior = py.state /\ output \in Outputs
    BY <1>1, TrajectoryAssumption, PyContextType
  <2>4. r.passed /\ py.state \in States => r.new_state \in States
    BY <2>3, PassingStepTakesArc
  <2> HIDE DEF ctx, r
  <2>5. /\ py'.state = IF r.passed THEN r.new_state ELSE py.state
        /\ py'.passed = py.passed
    BY <1>1, <2>2 DEF Advance, Summaries
  <2> QED
    BY <2>2, <2>4, <2>5 DEF WalkInv
<1>4. CASE \E field \in Fields : Verdict(field)
  <2>1. PICK field \in Fields : Verdict(field)
    BY <1>4
  <2> DEFINE state == PyGet(field)
  <2>2. /\ phase' = "graded" /\ i > 0 /\ i' = i /\ final' = state /\ initial' = initial
        /\ py' = [py EXCEPT !.passed = py.failed = 0 /\ ReachesFinal(py, state)]
    BY <2>1 DEF Verdict
  <2>3. /\ py'.state = py.state /\ py'.failed = py.failed
        /\ py'.passed => py.failed = 0 /\ ReachesFinal(py, state)
    BY <1>1, <2>2 DEF Summaries
  <2> QED
    BY <2>2, <2>3 DEF WalkInv, ReachesFinal
<1>5. CASE UNCHANGED vars
  BY <1>5 DEF WalkInv, vars
<1> QED
  BY <1>2, <1>3, <1>4, <1>5 DEF Next, Step

\* A row that passes was walked by the table from its initial to its final state, and no
\* step of it failed (trajectory.py:50-74).
PassedWalkIsComplete ==
    (phase = "graded" /\ py.passed) =>
        /\ i > 0
        /\ py.failed = 0
        /\ final \in {None, py.state}
        /\ initial \in States => py.state \in States

\* Whatever the length of a row, a pass is a complete walk of it (trajectory.py:50-74).
THEOREM PassMeansComplete == Spec => []PassedWalkIsComplete
<1>1. Init => WalkInv
  BY DEF Init, WalkInv
<1>2. WalkInv => PassedWalkIsComplete
  BY DEF WalkInv, PassedWalkIsComplete
<1> QED
  BY <1>1, <1>2, WalkStep, TypeCorrect, PTL DEF Spec

-----------------------------------------------------------------------------
(* Python and C.                                                            *)

\* Without empty strings, the two inferences choose the same state.
LEMMA InferencesAgree ==
    ASSUME NoBlankTexts, NEW ctx \in Contexts, NEW m \in Methods
    PROVE  CInferredState(ctx, m) = InferredState(ctx, m)
<1> DEFINE candidates == Plausible(m, ctx.prior)
           matching == {j \in candidates : Target(m, ctx.prior, j) = ctx.after}
           accepted == {j \in candidates :
                            Blank(ctx.after) \/ Target(m, ctx.prior, j) = ctx.after}
           chosen == IF ~Blank(ctx.after) /\ matching # {} THEN matching ELSE candidates
           result == Target(m, ctx.prior, First(chosen))
<1>1. CInferredState(ctx, m) =
            IF accepted # {} THEN Target(m, ctx.prior, First(accepted)) ELSE None
  BY DEF CInferredState
<1>2. InferredState(ctx, m) =
            IF candidates # {} /\ (ctx.after = None \/ result = ctx.after) THEN result ELSE None
  BY DEF InferredState
<1>3. Blank(ctx.after) <=> ctx.after = None
  BY FieldFacts DEF Contexts
<1>4. CASE ctx.after = None
  <2>1. accepted = candidates /\ chosen = candidates
    BY <1>3, <1>4
  <2> HIDE DEF accepted, chosen, candidates
  <2> QED
    BY <1>1, <1>2, <1>4, <2>1
<1>5. CASE ctx.after # None /\ matching # {}
  <2>1. accepted = matching /\ chosen = matching /\ candidates # {}
    BY <1>3, <1>5
  <2>2. matching \in SUBSET Nat
    BY PlausibleIsNat
  <2>3. First(matching) \in matching
    BY <1>5, <2>2, FirstIsMember
  <2>4. Target(m, ctx.prior, First(matching)) = ctx.after
    BY <2>3
  <2> HIDE DEF accepted, chosen, candidates, matching
  <2> QED
    BY <1>1, <1>2, <1>5, <2>1, <2>4
<1>6. CASE ctx.after # None /\ matching = {}
  <2>1. accepted = {} /\ chosen = candidates
    BY <1>3, <1>6
  <2>2. candidates # {} => First(candidates) \in candidates
    BY PlausibleIsNat, FirstIsMember
  <2>3. candidates # {} => Target(m, ctx.prior, First(candidates)) # ctx.after
    BY <1>6, <2>2
  <2> HIDE DEF accepted, chosen, candidates, matching
  <2> QED
    BY <1>1, <1>2, <1>6, <2>1, <2>3
<1> QED
  BY <1>4, <1>5, <1>6

LEMMA NewStatesAgree ==
    ASSUME NoBlankTexts, NEW ctx \in Contexts, NEW m \in Methods, NEW infer \in BOOLEAN
    PROVE  CNewState(ctx, m, infer) = NewState(ctx, m, infer)
<1>1. CPinnedState(ctx, m) = PinnedState(ctx, m)
  <2>1. Blank(ctx.after) <=> ctx.after = None
    BY FieldFacts DEF Contexts
  <2> QED
    BY <2>1 DEF CPinnedState, PinnedState
<1> QED
  BY <1>1, InferencesAgree DEF CNewState, NewState

\* Without empty strings, the two verifiers are one function, wherever Python's has a
\* result.
LEMMA VerifiersAgree ==
    ASSUME NoBlankTexts, NEW ctx \in Contexts, NEW out \in Outputs, NEW infer \in BOOLEAN,
           ~VerifyStep(ctx, out, infer).raised
    PROVE  CVerifyStep(ctx, out, infer) = VerifyStep(ctx, out, infer)
<1>1. Blank(ctx.prior) <=> ctx.prior = None
  BY DEF Contexts, Blank, NoBlankTexts
<1>2. ~(out.form = "call" /\ out.method = Unhashable)
  <2>1. Raise.raised
    BY RefusalShape
  <2> QED
    BY <2>1 DEF VerifyStep
<1>3. CASE out.form # "call" \/ out.method \notin Methods \/ ctx.prior = None
  BY <1>1, <1>2, <1>3 DEF VerifyStep, CVerifyStep
<1>4. CASE out.form = "call" /\ out.method \in Methods /\ ctx.prior # None
  <2>1. CNewState(ctx, out.method, infer) = NewState(ctx, out.method, infer)
    BY <1>4, NewStatesAgree
  <2> QED
    BY <1>1, <1>2, <1>4, <2>1 DEF VerifyStep, CVerifyStep
<1> QED
  BY <1>3, <1>4

\* Whether Python has a result depends on the output alone.
LEMMA RaisedIff ==
    ASSUME NEW ctx, NEW out, NEW infer
    PROVE  VerifyStep(ctx, out, infer).raised <=>
                out.form = "call" /\ out.method = Unhashable
<1>1. \A s, p, n : Grade(s, p, n).raised = FALSE
  BY DEF Grade, Result
<1> QED
  BY <1>1, RefusalShape, VerifierAssumption DEF VerifyStep

\* A step that was graded has a result in Python.
GradedInv == Graded /\ phase # "raised" =>
                ~(last.output.form = "call" /\ last.output.method = Unhashable)

\* On the same rows, reward and grade of a step are the same in Python and C, if no
\* context holds an empty string (core.py:66, verifier.c:92).
THEOREM StepsAgreeUnlessBlank == ASSUME NoBlankTexts PROVE Spec => []StepsAgree
<1>1. Init => GradedInv
  BY DEF Init, GradedInv, Graded
<1>2. GradedInv /\ [Next]_vars => GradedInv'
  <2> SUFFICES ASSUME GradedInv, [Next]_vars
               PROVE  GradedInv'
    OBVIOUS
  <2>1. CASE \E step \in RowSteps, output \in StepOutputs : GradeStep(step, output)
    <3>1. PICK step \in RowSteps, output \in StepOutputs : GradeStep(step, output)
      BY <2>1
    <3>2. /\ ~VerifyStep(PyContext(step), output, FALSE).raised
          /\ last'.output = output
      BY <3>1 DEF GradeStep
    <3> QED
      BY <3>2, RaisedIff DEF GradedInv
  <2>2. CASE \E step \in RowSteps, output \in StepOutputs : GradeRaises(step, output)
    BY <2>2 DEF GradeRaises, GradedInv
  <2>3. CASE RejectMismatch \/ RejectEmpty \/ \E field \in Fields : Verdict(field)
    BY <2>3 DEF RejectMismatch, RejectEmpty, Verdict, GradedInv, Graded
  <2>4. CASE UNCHANGED vars
    BY <2>4 DEF vars, GradedInv, Graded
  <2> QED
    BY <2>1, <2>2, <2>3, <2>4 DEF Next, Step
<1>3. TypeOK /\ GradedInv => StepsAgree
  <2> SUFFICES ASSUME TypeOK, GradedInv, Graded, phase # "raised", NEW infer \in BOOLEAN
               PROVE  VerifyStep(last.ctx, last.output, infer)
                        = CVerifyStep(last.ctx, last.output, infer)
    BY DEF StepsAgree
  <2>1. last.ctx \in Contexts /\ last.output \in Outputs
    BY LastType
  <2>2. ~VerifyStep(last.ctx, last.output, infer).raised
    BY RaisedIff DEF GradedInv
  <2> QED
    BY <2>1, <2>2, VerifiersAgree
<1> QED
  BY <1>1, <1>2, <1>3, TypeCorrect, PTL DEF Spec

\* Grading on after a failure (Python) and stopping at it (C) report the same of a row C
\* can read, and until the first failure the two states are one.
Alike ==
    /\ py.failed = c.failed
    /\ py.mode = c.mode
    /\ py.passed = c.passed
    /\ py.failed = 0 => py.state = c.state
IsRefused == ~c.passed /\ c.failed = 0 /\ c.mode = "schema"
\* A text C's buffers do not hold has ended its walk, or a failure before it has.
IsStopped ==
    /\ ~c.passed
    /\ phase = "grading" => c.failed # 0
    /\ c.mode = "schema" \/ (c.failed = py.failed /\ c.failed # 0 /\ c.mode = py.mode)
AgreeInv ==
    /\ valid /\ fits => Alike
    /\ ~valid => IsRefused
    /\ valid /\ ~fits => IsStopped

LEMMA AdvanceFields ==
    ASSUME NEW summary \in Summaries, NEW k \in 1..MaxSteps, NEW r
    PROVE  LET new == Advance(summary, k, r)
           IN  /\ new.state = IF r.passed THEN r.new_state ELSE summary.state
               /\ new.failed = IF summary.failed = 0 /\ ~r.passed THEN k ELSE summary.failed
               /\ new.mode = IF summary.failed = 0 THEN FirstFailing(r.subscores)
                             ELSE summary.mode
               /\ new.passed = summary.passed
BY DEF Advance, Summaries

LEMMA AgreeStepOfRow ==
    ASSUME NoBlankTexts, TypeOK, WalkInv, AgreeInv,
           NEW step \in RowSteps, NEW output \in StepOutputs, GradeStep(step, output)
    PROVE  AgreeInv'
<1> DEFINE r == VerifyStep(PyContext(step), output, FALSE)
           cr == CVerifyStep(Context(c.state, step.trigger, step.after), output, FALSE)
<1>1. /\ py \in Summaries /\ c \in Summaries /\ output \in Outputs
      /\ valid \in BOOLEAN /\ fits \in BOOLEAN
  BY TrajectoryAssumption DEF TypeOK
<1>2. /\ ~r.raised /\ i < MaxSteps /\ phase = "grading" /\ phase' = "grading"
      /\ py' = Advance(py, i + 1, r) /\ c' = CGrades(step, output)
      /\ valid' = (valid /\ StepIsValid(step)) /\ fits' = (fits /\ StepFits(step))
  BY DEF GradeStep, Grading
<1>3. i + 1 \in 1..MaxSteps /\ i + 1 # 0
  BY <1>2, TrajectoryAssumption DEF TypeOK
<1>4. ~py.passed
  BY <1>2 DEF WalkInv
<1> HIDE DEF r
<1>5. CASE ~valid'
  <2>1. c' = Refused(c)
    BY <1>2, <1>5 DEF CGrades
  <2> QED
    BY <1>1, <1>5, <2>1, RefusedType DEF AgreeInv, IsRefused
<1>6. CASE valid' /\ c.failed # 0
  <2>1. c' = c /\ valid
    BY <1>2, <1>6 DEF CGrades
  <2>2. c.mode = "schema" \/ (c.failed = py.failed /\ c.mode = py.mode)
    BY <1>6, <2>1 DEF AgreeInv, Alike, IsStopped
  <2>3. py.failed # 0 => py'.failed = py.failed /\ py'.mode = py.mode
    BY <1>1, <1>2, <1>3, AdvanceFields
  <2>4. py'.passed = py.passed
    BY <1>1, <1>2, <1>3, AdvanceFields
  <2>5. ~c.passed
    BY <1>4, <2>1 DEF AgreeInv, Alike, IsStopped
  <2>6. fits => Alike'
    BY <1>6, <2>1, <2>3, <2>4 DEF AgreeInv, Alike
  <2>7. IsStopped'
    <3>1. CASE c.mode = "schema"
      BY <1>6, <2>1, <2>5, <3>1 DEF IsStopped
    <3>2. CASE c.failed = py.failed /\ c.mode = py.mode
      BY <1>6, <2>1, <2>3, <2>5, <3>2 DEF IsStopped
    <3> QED
      BY <2>2, <3>1, <3>2
  <2> QED
    BY <1>2, <1>6, <2>6, <2>7 DEF AgreeInv
<1>7. CASE valid' /\ c.failed = 0 /\ ~StepFits(step)
  <2>1. c' = [c EXCEPT !.failed = i + 1, !.mode = "schema"] /\ valid
    BY <1>2, <1>7 DEF CGrades
  <2>2. c'.failed = i + 1 /\ c'.mode = "schema" /\ c'.passed = c.passed
    BY <1>1, <2>1 DEF Summaries
  <2>3. ~c.passed
    BY <1>4, <2>1 DEF AgreeInv, Alike, IsStopped
  <2>4. IsStopped'
    BY <1>3, <2>2, <2>3 DEF IsStopped
  <2> QED
    BY <1>2, <1>7, <2>4 DEF AgreeInv
<1>8. CASE valid' /\ c.failed = 0 /\ StepFits(step)
  <2>1. valid /\ StepIsValid(step) /\ fits
    BY <1>2, <1>8 DEF AgreeInv, IsStopped
  <2>2. Alike
    BY <2>1 DEF AgreeInv
  <2>3. py.failed = 0 /\ py.state = c.state
    BY <1>8, <2>2 DEF Alike
  <2>4. cr = r
    <3>1. PyContext(step) = Context(c.state, step.trigger, step.after)
      BY <2>1, <2>3, StepFields DEF PyContext
    <3>2. PyContext(step) \in Contexts
      BY <1>1, PyContextType
    <3> QED
      BY <1>1, <1>2, <3>1, <3>2, VerifiersAgree DEF r
  <2>5. c' = Advance(c, i + 1, cr)
    BY <1>2, <1>8, <2>1 DEF CGrades
  <2> HIDE DEF cr
  <2>6. ASSUME NEW sum \in Summaries, sum.failed = 0
        PROVE  /\ Advance(sum, i + 1, r).state = IF r.passed THEN r.new_state ELSE sum.state
               /\ Advance(sum, i + 1, r).failed = IF ~r.passed THEN i + 1 ELSE sum.failed
               /\ Advance(sum, i + 1, r).mode = FirstFailing(r.subscores)
               /\ Advance(sum, i + 1, r).passed = sum.passed
    BY <2>6 DEF Advance, Summaries
  <2>7. /\ py' = Advance(py, i + 1, r) /\ c' = Advance(c, i + 1, r)
        /\ py.failed = 0 /\ c.failed = 0 /\ py.passed = c.passed
    BY <1>2, <1>8, <2>2, <2>4, <2>5 DEF Alike
  <2>8. Alike'
    BY <1>1, <2>3, <2>6, <2>7 DEF Alike
  <2> QED
    BY <1>2, <1>8, <2>1, <2>8 DEF AgreeInv
<1> QED
  BY <1>2, <1>5, <1>6, <1>7, <1>8

LEMMA AgreeVerdict ==
    ASSUME TypeOK, WalkInv, AgreeInv, NEW field \in Fields, Verdict(field)
    PROVE  AgreeInv'
<1>1. /\ py \in Summaries /\ c \in Summaries /\ valid \in BOOLEAN /\ fits \in BOOLEAN
  BY DEF TypeOK
<1> DEFINE pyPasses == py.failed = 0 /\ ReachesFinal(py, PyGet(field))
<1>2. /\ phase = "grading" /\ phase' = "graded" /\ c' = CVerdict(field)
      /\ py' = [py EXCEPT !.passed = pyPasses]
      /\ valid' = (valid /\ IsString(field)) /\ fits' = (fits /\ field # LongText)
  BY DEF Verdict
<1>3. ~py.passed
  BY <1>2 DEF WalkInv
<1> HIDE DEF pyPasses
<1>4. /\ py'.state = py.state /\ py'.failed = py.failed /\ py'.mode = py.mode
      /\ py'.passed = pyPasses
  BY <1>1, <1>2 DEF Summaries
<1>5. CASE ~valid'
  <2>1. c' = Refused(c)
    BY <1>2, <1>5 DEF CVerdict
  <2> QED
    BY <1>1, <1>5, <2>1, RefusedType DEF AgreeInv, IsRefused
<1>6. CASE valid' /\ c.failed # 0
  <2>1. c' = c /\ valid
    BY <1>2, <1>6 DEF CVerdict
  <2>2. ~c.passed
    BY <1>3, <2>1 DEF AgreeInv, Alike, IsStopped
  <2>3. fits => Alike'
    <3>1. fits => py.failed # 0
      BY <1>6, <2>1 DEF AgreeInv, Alike
    <3>2. c.passed = FALSE /\ (fits => pyPasses = FALSE)
      BY <1>1, <2>2, <3>1 DEF Summaries, pyPasses
    <3> QED
      BY <1>4, <1>6, <2>1, <3>2 DEF AgreeInv, Alike
  <2>4. IsStopped'
    BY <1>2, <1>4, <1>6, <2>1, <2>2 DEF AgreeInv, Alike, IsStopped
  <2> QED
    BY <1>2, <1>6, <2>3, <2>4 DEF AgreeInv
<1>7. CASE valid' /\ c.failed = 0 /\ field = LongText
  <2>1. c' = [c EXCEPT !.mode = "schema"] /\ valid
    BY <1>2, <1>7 DEF CVerdict
  <2>2. c'.mode = "schema" /\ c'.passed = c.passed
    BY <1>1, <2>1 DEF Summaries
  <2>3. ~c.passed
    BY <1>3, <2>1 DEF AgreeInv, Alike, IsStopped
  <2>4. IsStopped'
    BY <1>2, <2>2, <2>3 DEF IsStopped
  <2> QED
    BY <1>2, <1>7, <2>4 DEF AgreeInv
<1>8. CASE valid' /\ c.failed = 0 /\ field # LongText
  <2>1. valid /\ IsString(field) /\ fits
    BY <1>2, <1>8 DEF AgreeInv, IsStopped
  <2>2. Alike
    BY <2>1 DEF AgreeInv
  <2>3. py.failed = 0 /\ py.state = c.state /\ py.mode = c.mode
    BY <1>8, <2>2 DEF Alike
  <2>4. c' = [c EXCEPT !.passed = ReachesFinal(c, field)]
    BY <1>2, <1>8, <2>1 DEF CVerdict
  <2>5. /\ c'.state = c.state /\ c'.failed = c.failed /\ c'.mode = c.mode
        /\ c'.passed = ReachesFinal(c, field)
    BY <1>1, <2>4 DEF Summaries
  <2>6. PyGet(field) = field
    BY <2>1 DEF PyGet, IsString
  <2>7. pyPasses = ReachesFinal(c, field)
    BY <2>3, <2>6 DEF pyPasses, ReachesFinal
  <2>8. Alike'
    BY <1>4, <1>8, <2>3, <2>5, <2>7 DEF Alike
  <2> QED
    BY <1>2, <1>8, <2>1, <2>8 DEF AgreeInv
<1> QED
  BY <1>2, <1>5, <1>6, <1>7, <1>8

LEMMA AgreeStep ==
    ASSUME NoBlankTexts
    PROVE  TypeOK /\ WalkInv /\ AgreeInv /\ [Next]_vars => AgreeInv'
<1> SUFFICES ASSUME TypeOK, WalkInv, AgreeInv, [Next]_vars
             PROVE  AgreeInv'
  OBVIOUS
<1>1. CASE RejectMismatch
  <2>1. phase' = "mismatched" /\ UNCHANGED <<valid, fits, py, c>>
    BY <1>1 DEF RejectMismatch
  <2> QED
    BY <2>1 DEF AgreeInv, Alike, IsRefused, IsStopped
<1>2. CASE RejectEmpty
  <2>1. valid' = FALSE /\ c' = Refused(c) /\ c \in Summaries
    BY <1>2 DEF RejectEmpty, TypeOK
  <2> QED
    BY <2>1, RefusedType DEF AgreeInv, IsRefused
<1>3. CASE \E step \in RowSteps, output \in StepOutputs : GradeStep(step, output)
  BY <1>3, AgreeStepOfRow
<1>4. CASE \E step \in RowSteps, output \in StepOutputs : GradeRaises(step, output)
  <2>1. phase' = "raised" /\ UNCHANGED <<valid, fits, py, c>>
    BY <1>4 DEF GradeRaises
  <2> QED
    BY <2>1 DEF AgreeInv, Alike, IsRefused, IsStopped
<1>5. CASE \E field \in Fields : Verdict(field)
  BY <1>5, AgreeVerdict
<1>6. CASE UNCHANGED vars
  BY <1>6 DEF vars, AgreeInv, Alike, IsRefused, IsStopped
<1> QED
  BY <1>1, <1>2, <1>3, <1>4, <1>5, <1>6 DEF Next, Step

\* Both graders give every row that the schema takes and C's buffers hold one verdict, one
\* first failing step and one subscore to blame, and C passes no other row, if no context
\* holds an empty string (trajectory.py:50-74, cli.c:345-480).
THEOREM GradersAgreeUnlessBlank == ASSUME NoBlankTexts PROVE Spec => []GradersAgree
<1>1. Init => AgreeInv /\ WalkInv
  <2> SUFFICES ASSUME Init
               PROVE  AgreeInv /\ WalkInv
    OBVIOUS
  <2>1. WalkInv
    BY DEF Init, WalkInv
  <2>2. py \in Summaries
    BY TypeInit DEF TypeOK
  <2>3. valid => Alike
    BY DEF Init, Alike
  <2>4. ~valid => IsRefused
    BY <2>2, RefusedType DEF Init, IsRefused
  <2> QED
    BY <2>1, <2>3, <2>4 DEF Init, AgreeInv
<1>2. TypeOK /\ AgreeInv /\ WalkInv => GradersAgree
  <2> SUFFICES ASSUME TypeOK, AgreeInv, WalkInv, phase = "graded"
               PROVE  GradersAgree
    BY DEF GradersAgree
  <2>1. CASE ~valid
    BY <2>1 DEF AgreeInv, IsRefused, GradersAgree
  <2>2. CASE valid /\ ~fits
    BY <2>2 DEF AgreeInv, IsStopped, GradersAgree
  <2>3. CASE valid /\ fits
    BY <2>3 DEF AgreeInv, Alike, WalkInv, GradersAgree
  <2> QED
    BY <2>1, <2>2, <2>3
<1> QED
  BY <1>1, <1>2, AgreeStep, WalkStep, TypeCorrect, PTL DEF Spec
=============================================================================
