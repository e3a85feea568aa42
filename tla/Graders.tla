------------------------------- MODULE Graders -------------------------------
(***************************************************************************)
(* Three loops of c/src/cli.c thread a state through the steps of a row    *)
(* and ask tf_verify_step about each: the gate of teacher-expand, the live *)
(* evaluation and the scoring of saved responses.  They differ in where a  *)
(* step's output comes from, in what they refuse before the first step, in *)
(* what they do with a field they cannot read and in whether they stop at  *)
(* a failure.  Module Trajectory steps through a fourth, verify-data; here *)
(* each is the verdict on a whole row.                                     *)
(*                                                                         *)
(* A row is an object with an array of steps.  Its initial is None when it *)
(* has no initial_state C can read; a step's output is Unshaped when its   *)
(* thinking or its tool_call is missing.                                   *)
(***************************************************************************)
EXTENDS Verifier, FiniteSets

CONSTANTS
    Unshaped,    \* the output of a step that build_model_output cannot render
    Lost         \* no output: the request or the saved response failed

StepsOf(outputs) == [trigger : Fields, after : Fields, output : outputs \union {Unshaped}]

NoMode == None
NoFailure == [failed |-> 0, mode |-> NoMode, passed |-> FALSE]
FailedRow(k, mode) == [failed |-> k, mode |-> mode, passed |-> FALSE]

\* What get_optional_string gives a caller that does not ask whether it could read.
Readable(field) == IF CReads(field) THEN field ELSE None

Ctx(state, trigger, after) == [prior |-> state, trigger |-> trigger, after |-> after]
CCtx(state, step) == Ctx(state, Readable(step.trigger), Readable(step.after))
PyCtx(state, step) == Ctx(state, PyGet(step.trigger), PyGet(step.after))

\* A state as the loop carries it; failed is the first failing step, 0 for none.
Start(row) == [state |-> row.initial, failed |-> 0, mode |-> NoMode]

\* What the verdict on step k does to the loop: the state follows a pass only, and
\* the first failure is kept.
After(at, k, result) ==
    [state  |-> IF result.passed THEN result.new_state ELSE at.state,
     failed |-> IF at.failed = 0 /\ ~result.passed THEN k ELSE at.failed,
     mode   |-> IF at.failed = 0 /\ ~result.passed
                THEN FirstFailing(result.subscores) ELSE at.mode]

\* The loop over the steps, with one output for each; it may stop at a failure.
Walk(row, outputs, stops) ==
    LET at[k \in 0..Len(row.steps)] ==
            IF k = 0 THEN Start(row)
            ELSE IF stops /\ at[k - 1].failed # 0 THEN at[k - 1]
            ELSE After(at[k - 1], k,
                       CVerifyStep(CCtx(at[k - 1].state, row.steps[k]), outputs[k], FALSE))
    IN  at[Len(row.steps)]

\* Has the walk ended where the row says?  A missing final_state asks nothing.
Verdict(at, final) ==
    [failed |-> at.failed, mode |-> at.mode,
     passed |-> at.failed = 0 /\ (final = None \/ final = at.state)]

OwnOutputs(row) == [k \in DOMAIN row.steps |-> row.steps[k].output]
IsShaped(row) == \A k \in DOMAIN row.steps : row.steps[k].output # Unshaped

-----------------------------------------------------------------------------
\* The teacher gate: what kind of row a reply is.  An expectation it cannot read is
\* none.
GateClass(row) ==
    IF ~IsShaped(row) THEN "malformed_structure"
    ELSE IF Len(row.steps) = 0 THEN "verifier_failed"
    ELSE IF row.initial = None THEN "malformed_structure"
    ELSE IF Verdict(Walk(row, OwnOutputs(row), FALSE), Readable(row.final)).passed
         THEN "accept"
    ELSE "verifier_failed"

-----------------------------------------------------------------------------
\* trajectory-schema.yaml; row.rest says whether it takes what is no part of the walk.
SchemaAccepts(row) ==
    /\ row.rest
    /\ row.initial \in States
    /\ Len(row.steps) > 0
    /\ \A k \in DOMAIN row.steps : IsString(row.steps[k].trigger) /\ IsString(row.steps[k].after)
    /\ IsString(row.final)

\* The expected texts that the buffers of the C port hold.
StepFits(step) == LongText \notin {step.trigger, step.after}
Fits(row) == row.final # LongText /\ \A k \in DOMAIN row.steps : StepFits(row.steps[k])

\* score-responses takes a row the schema takes and whose trajectory_id may stand in a
\* path, reads the output of each step from a file, and stops at the first step that it
\* cannot read or whose files are not there.
Responses(row, outputs) ==
    LET lost == {k \in DOMAIN row.steps : ~StepFits(row.steps[k]) \/ outputs[k] = Lost}
        read == IF lost = {} THEN Len(row.steps) ELSE First(lost) - 1
        at == Walk([row EXCEPT !.steps = SubSeq(@, 1, read)], outputs, TRUE)
    IN  IF ~SchemaAccepts(row) \/ ~row.safe THEN FailedRow(0, "schema")
        ELSE IF at.failed # 0 THEN FailedRow(at.failed, at.mode)
        ELSE IF lost # {}
             THEN FailedRow(read + 1, IF StepFits(row.steps[read + 1]) THEN "parse" ELSE "schema")
        ELSE IF row.final = LongText THEN FailedRow(0, "schema")
        ELSE Verdict(at, row.final)

-----------------------------------------------------------------------------
\* verify_trajectory of Python on a row with its outputs: no schema, every step
\* graded, an empty trajectory refused.
PyWalk(row, outputs) ==
    LET at[k \in 0..Len(row.steps)] ==
            IF k = 0 THEN Start(row)
            ELSE After(at[k - 1], k,
                         VerifyStep(PyCtx(at[k - 1].state, row.steps[k]), outputs[k], FALSE))
    IN  at[Len(row.steps)]

\* The exception of a step leaves verify_trajectory; no state of the walk prevents it.
PyRaises(row, outputs) ==
    \E k \in DOMAIN row.steps :
        VerifyStep(PyCtx(None, row.steps[k]), outputs[k], FALSE).raised
TypeError == FailedRow(0, "TypeError")

PyVerdict(row, outputs) ==
    IF Len(row.steps) = 0 THEN NoFailure
    ELSE IF PyRaises(row, outputs) THEN TypeError
    ELSE Verdict(PyWalk(row, outputs), PyGet(row.final))

\* The row without the expectations that C cannot read, as far as a verdict asks for it.
Legible(row) ==
    [initial |-> row.initial,
     steps   |-> [k \in DOMAIN row.steps |-> [trigger |-> Readable(row.steps[k].trigger),
                                              after   |-> Readable(row.steps[k].after)]],
     final   |-> Readable(row.final)]
=============================================================================
