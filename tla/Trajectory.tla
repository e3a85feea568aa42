------------------------------ MODULE Trajectory ------------------------------
(***************************************************************************)
(* A trajectory is graded: verify_trajectory of                            *)
(* src/toyforge/verifier/trajectory.py on the one side,                    *)
(* summarize_trajectory_span of c/src/cli.c on the other.  Both thread a   *)
(* state through the steps, each step's verdict feeding the next; Python   *)
(* grades every step, C stops at the first that fails.  The steps and the  *)
(* outputs are chosen as the walk goes, and so are their number and the    *)
(* final_state, so they range over everything a file or a model can hold.  *)
(*                                                                         *)
(* C first validates the row against trajectory-schema.yaml, to its end,   *)
(* and refuses a row of another form before it grades a step; Python asks  *)
(* nothing of the row.  As the walk meets the row piece by piece, "valid"  *)
(* says whether the schema takes what was met so far, and what C reports   *)
(* of the steps is dropped when it does not.  "fits" says the same of C's  *)
(* buffers, which only the step that needs them finds too small.           *)
(***************************************************************************)
EXTENDS Verifier

CONSTANTS
    StepOutputs, \* outputs a step may come with, a subset of Outputs
    RowSteps,    \* steps a row may have, a subset of Steps
    MaxSteps     \* bound: steps of a trajectory

\* The shape of a step is "other" when a key the schema requires is missing or of
\* another type, and "long" when its thinking is beyond C's buffer.
Steps == [trigger : Fields, after : Fields, shape : {"plain", "other", "long"}]

ASSUME TrajectoryAssumption ==
    /\ StepOutputs \subseteq Outputs
    /\ RowSteps \subseteq Steps
    /\ MaxSteps \in Nat

VARIABLES
    initial,  \* trajectory["initial_state"]
    final,    \* trajectory.get("final_state"), once the verdict asks for it
    valid,    \* has trajectory-schema.yaml taken the row so far?
    fits,     \* have the buffers of the C port held it so far?
    phase,    \* "grading", "graded", "mismatched" or "raised"
    i,        \* steps graded so far
    last,     \* the step just graded
    py,       \* verify_trajectory: the state, the first failing step (0: none), the
              \* subscore reported for it, the verdict
    c         \* summarize_trajectory_span: the same

vars == <<initial, final, valid, fits, phase, i, last, py, c>>

Summaries == [state : Texts, failed : 0..MaxSteps, passed : BOOLEAN,
              mode : {SubscoreNames[k] : k \in 1..6} \union {None}]
NoStep == [ctx |-> None, output |-> None]

\* What C reports of a row its schema does not take.
Refused(summary) == [summary EXCEPT !.failed = 0, !.passed = FALSE, !.mode = "schema"]

\* The keys of the row beside its steps may be of any form.
Init ==
    /\ initial \in Texts
    /\ final = None
    /\ valid \in BOOLEAN /\ (valid => initial \in States)
    /\ fits = TRUE
    /\ phase = "grading"
    /\ i = 0
    /\ last = NoStep
    /\ py = [state |-> initial, failed |-> 0, passed |-> FALSE, mode |-> None]
    /\ c = IF valid THEN py ELSE Refused(py)

\* "length mismatch": Python's outputs come apart from the row; those of C are in it.
RejectMismatch ==
    /\ phase = "grading"
    /\ i = 0
    /\ phase' = "mismatched"
    /\ UNCHANGED <<initial, final, valid, fits, i, last, py, c>>

\* "empty trajectory (no steps)" in Python, which names no failing step; C's schema
\* asks for one.
RejectEmpty ==
    /\ phase = "grading"
    /\ i = 0
    /\ phase' = "graded"
    /\ valid' = FALSE
    /\ c' = Refused(c)
    /\ UNCHANGED <<initial, final, fits, i, last, py>>

Grading ==
    /\ phase = "grading"
    /\ i < MaxSteps

Context(state, trigger, after) == [prior |-> state, trigger |-> trigger, after |-> after]

\* Mutant: the state follows every result, passed or not.
AdvanceAlways(summary, k, result) ==
    [summary EXCEPT
        !.state = result.new_state,
        !.failed = IF @ = 0 /\ ~result.passed THEN k ELSE @,
        !.mode = IF summary.failed = 0 THEN FirstFailing(result.subscores) ELSE @]

\* How one grader goes on after the result of step k.
Advance(summary, k, result) ==
    [summary EXCEPT
        !.state = IF result.passed THEN result.new_state ELSE @,
        !.failed = IF @ = 0 /\ ~result.passed THEN k ELSE @,
        !.mode = IF summary.failed = 0 THEN FirstFailing(result.subscores) ELSE @]

StepIsValid(step) == step.shape # "other" /\ IsString(step.trigger) /\ IsString(step.after)
StepFits(step) == step.shape # "long" /\ LongText \notin {step.trigger, step.after}

\* C at the next step: a row that is not valid was refused before its first step.
CGrades(step, output) ==
    IF ~(valid /\ StepIsValid(step)) THEN Refused(c)
    ELSE IF c.failed # 0 THEN c
    ELSE IF ~StepFits(step) THEN [c EXCEPT !.failed = i + 1, !.mode = "schema"]
    ELSE Advance(c, i + 1,
            CVerifyStep(Context(c.state, step.trigger, step.after), output, FALSE))

PyContext(step) == Context(py.state, PyGet(step.trigger), PyGet(step.after))

GradeStep(step, output) ==
    LET result == VerifyStep(PyContext(step), output, FALSE)
    IN  /\ Grading
        /\ ~result.raised
        /\ i' = i + 1
        /\ last' = [ctx |-> PyContext(step), output |-> output]
        /\ py' = Advance(py, i + 1, result)
        /\ c' = CGrades(step, output)
        /\ valid' = (valid /\ StepIsValid(step))
        /\ fits' = (fits /\ StepFits(step))
        /\ UNCHANGED <<initial, final, phase>>

\* The exception leaves verify_trajectory.
GradeRaises(step, output) ==
    /\ Grading
    /\ VerifyStep(PyContext(step), output, FALSE).raised
    /\ i' = i + 1
    /\ last' = [ctx |-> PyContext(step), output |-> output]
    /\ phase' = "raised"
    /\ UNCHANGED <<initial, final, valid, fits, py, c>>

ReachesFinal(summary, state) == state = None \/ summary.state = state

\* Mutant: the form of final_state is asked about only when the walk has come to it.
CVerdictAfterTheWalk(field) ==
    IF c.failed # 0 THEN c
    ELSE IF ~(valid /\ IsString(field)) THEN Refused(c)
    ELSE IF field = LongText THEN [c EXCEPT !.mode = "schema"]
    ELSE [c EXCEPT !.passed = ReachesFinal(c, field)]

\* C at the end of the row.
CVerdict(field) ==
    IF ~(valid /\ IsString(field)) THEN Refused(c)
    ELSE IF c.failed # 0 THEN c
    ELSE IF field = LongText THEN [c EXCEPT !.mode = "schema"]
    ELSE [c EXCEPT !.passed = ReachesFinal(c, field)]

\* The steps are over: no step failed and the last state is the expected one.
Verdict(field) ==
    /\ phase = "grading"
    /\ i > 0
    /\ phase' = "graded"
    /\ final' = PyGet(field)
    /\ py' = [py EXCEPT !.passed = py.failed = 0 /\ ReachesFinal(py, PyGet(field))]
    /\ c' = CVerdict(field)
    /\ valid' = (valid /\ IsString(field))
    /\ fits' = (fits /\ field # LongText)
    /\ UNCHANGED <<initial, i, last>>

Step ==
    \E step \in RowSteps, output \in StepOutputs :
        GradeStep(step, output) \/ GradeRaises(step, output)

Next == RejectMismatch \/ RejectEmpty \/ Step \/ \E field \in Fields : Verdict(field)

Spec == Init /\ [][Next]_vars

-----------------------------------------------------------------------------
\* Every variable holds a value of its kind.
TypeOK ==
    /\ initial \in Texts
    /\ final \in Fields \ {Null}
    /\ valid \in BOOLEAN /\ fits \in BOOLEAN
    /\ i \in 0..MaxSteps
    /\ phase \in {"grading", "graded", "mismatched", "raised"}
    /\ last \in [ctx : Contexts, output : StepOutputs] \union {NoStep}
    /\ py \in Summaries
    /\ c \in Summaries

\* The result of a step, as the two consumers of the verifier ask for it: graded
\* against the row's own trigger, or with the trigger inferred (the reward).
Graded == last # NoStep
Pinned == VerifyStep(last.ctx, last.output, FALSE)
Inferred == VerifyStep([last.ctx EXCEPT !.trigger = None], last.output, TRUE)

\* A state the grader reaches is reached by an arc of the table that the step's
\* own method can emit, and a failed step leaves the state alone: whatever the row
\* claims, the grader never leaves the lifecycle.
StateFollowsArcs ==
    [][py.state' # py.state =>
        \E trigger \in Texts :
            /\ HasArc(py.state, trigger)
            /\ py.state' = Transition[<<py.state, trigger>>]
            /\ last'.output.method \in Methods
            /\ CanEmit(last'.output.method, trigger)
            /\ last'.output.paramsValid
            /\ py'.failed = py.failed]_vars

\* A subscore is earned only on top of those before it (test_verifier_cascade), and
\* passed is exactly "all six are 1".
IsCascade(s) ==
    /\ s.parse = 0 => s = NoScores
    /\ s.method_known = 0 => s = [NoScores EXCEPT !.parse = s.parse]
    /\ s.transition_valid = 1 => s.precondition_met = 1
SubscoresCascade ==
    Graded => \A r \in {Pinned, Inferred} :
        /\ IsCascade(r.subscores)
        /\ r.passed <=> \A name \in DOMAIN r.subscores : r.subscores[name] = 1
        /\ r.error <=> ~r.passed

\* The reward agrees with the grader: the inferred mode accepts a call exactly when
\* some trigger, had the row pinned it, would have made the grader accept it.
InferenceIsTheBestPin ==
    Graded =>
        (Inferred.passed <=>
            \E trigger \in Texts :
                VerifyStep([last.ctx EXCEPT !.trigger = trigger], last.output, FALSE).passed)

\* Grading on after a failure changes nothing of what is reported: a row the schema
\* takes and C's buffers hold has one verdict in Python and in C, the same state on a
\* pass, the same first failing step and the same mode (c/README.md: "asserts they
\* agree").  What C cannot read it never passes: a row the schema refuses is reported
\* as "schema" with no step, whatever Python finds in it, and an oversized text as
\* "schema" where the walk comes to it, unless a step before it failed for both.
GradersAgree ==
    phase = "graded" =>
        IF ~valid
        THEN ~c.passed /\ c.failed = 0 /\ c.mode = "schema"
        ELSE IF ~fits
        THEN ~c.passed /\ (c.mode = "schema" \/ (c.failed = py.failed /\ c.mode = py.mode))
        ELSE /\ py.passed = c.passed
             /\ py.passed => py.state = c.state
             /\ py.failed = c.failed
             /\ py.mode = c.mode

\* The C port's reward and grade of a step are Python's, in either mode, wherever
\* Python has one and C can read the row's fields ("the GRPO reward and the eval
\* grade", c/README.md:76).
StepsAgree ==
    (Graded /\ phase # "raised" /\ last.ctx \in CContexts) => \A infer \in BOOLEAN :
        VerifyStep(last.ctx, last.output, infer) = CVerifyStep(last.ctx, last.output, infer)
=============================================================================
