------------------------------- MODULE Verifier -------------------------------
(***************************************************************************)
(* The step verifier, twice: verify_step of src/toyforge/verifier/core.py  *)
(* and its C port tf_verify_step of c/src/verifier.c.  Both are pure, so   *)
(* they are operators here, over any state machine the schemas describe.   *)
(*                                                                         *)
(* A model output is reduced to what the verifier finds in it: how far it  *)
(* parses, the method it names, and whether the JSON Schema validator      *)
(* accepts its params.  The error text is reduced to its presence.         *)
(***************************************************************************)
EXTENDS Naturals, Sequences

CONSTANTS
    States,         \* schemas.states
    Methods,        \* schemas.method_names
    MethodTriggers, \* method -> the triggers it can emit; none for a query
    Transition,     \* <<state, trigger>> -> state, where the table has an arc
    Texts,          \* strings a context or a trajectory may carry
    Empty,          \* "", which is false where the code tests a string
    None,           \* a missing value
    Null,           \* null, where a text is expected
    NotText,        \* another value that is no string
    LongText,       \* a string that a 96-byte buffer of the C port does not hold
    NoMethod,       \* the method of a call whose "method" is null
    Unhashable      \* the method of a call whose "method" is a list or an object

ASSUME VerifierAssumption ==
    /\ States \subseteq Texts
    /\ MethodTriggers \in [Methods -> Seq(Texts)]
    /\ \A arc \in DOMAIN Transition :
          /\ arc \in States \X Texts
          /\ arc[2] # Empty
          /\ Transition[arc] \in States
    /\ Empty \notin States
    /\ None \notin Texts \union {Empty}
    /\ {Null, NotText, LongText} \cap (Texts \union {None, Empty}) = {}
    /\ Null \notin {NotText, LongText} /\ NotText # LongText
    /\ NoMethod \notin Methods
    /\ Unhashable \notin Methods

\* What a row may hold under expected_trigger, expected_state_after and final_state.
Fields == Texts \union {None, Null, NotText, LongText}

\* row.get(key): a null is a missing value, and every other value is kept.
PyGet(field) == IF field = Null THEN None ELSE field

\* get_optional_string (cli.c): does it give the caller what the row holds?
CReads(field) == field \notin {Null, NotText, LongText}

\* "type: string" of trajectory-schema.yaml.
IsString(field) == field \notin {Null, NotText}

Contexts == [prior : Texts \union {None},
             trigger : Fields \ {Null},
             after : Fields \ {Null}]
CContexts == [prior : Texts, trigger : Texts \union {None}, after : Texts \union {None}]

\* "text" is prose without the <think> wrapper, JSON that does not parse, a JSON
\* value that is no object, or a call with a key missing or the wrong version.
Outputs == [form : {"text", "call"}, method : Texts \union Methods \union {NoMethod, Unhashable},
            paramsValid : BOOLEAN]

Subscores == [parse : 0..1, schema : 0..1, method_known : 0..1,
              precondition_met : 0..1, transition_valid : 0..1,
              sequence_optimal : 0..1]

Blank(text) == text \in {None, Empty}
Score(condition) == IF condition THEN 1 ELSE 0

IsQuery(method) == Len(MethodTriggers[method]) = 0
CanEmit(method, trigger) ==
    \E i \in 1..Len(MethodTriggers[method]) : MethodTriggers[method][i] = trigger
HasArc(state, trigger) == <<state, trigger>> \in DOMAIN Transition

\* Positions of the method's triggers that have an arc from the state, and where
\* the arc at a position leads.
Plausible(method, state) ==
    {i \in 1..Len(MethodTriggers[method]) : HasArc(state, MethodTriggers[method][i])}
Target(method, state, i) == Transition[<<state, MethodTriggers[method][i]>>]
First(positions) == CHOOSE i \in positions : \A j \in positions : i <= j

\* The failure mode a report counts: the first subscore that is not 1, in the
\* order of score.py and of first_failing_subscore in cli.c.
SubscoreNames == <<"parse", "schema", "method_known", "precondition_met",
                   "transition_valid", "sequence_optimal">>
FirstFailing(s) ==
    LET failing == {k \in 1..6 : s[SubscoreNames[k]] < 1}
    IN  IF failing = {} THEN None ELSE SubscoreNames[First(failing)]

Result(passed, subscores, newState, error) ==
    [passed |-> passed, subscores |-> subscores, new_state |-> newState,
     error |-> error, raised |-> FALSE]

NoScores == [parse |-> 0, schema |-> 0, method_known |-> 0, precondition_met |-> 0,
             transition_valid |-> 0, sequence_optimal |-> 0]

Fail == Result(FALSE, NoScores, None, TRUE)
UnknownMethod == Result(FALSE, [NoScores EXCEPT !.parse = 1], None, TRUE)

\* "method not in schemas.method_names" hashes the method: TypeError.
Raise == [UnknownMethod EXCEPT !.raised = TRUE]

-----------------------------------------------------------------------------
(* The Python verifier.                                                     *)

\* Mutant: the expected state does not choose between two arcs.
InferredStateFirst(ctx, method) ==
    LET candidates == Plausible(method, ctx.prior)
        resulting == Target(method, ctx.prior, First(candidates))
    IN  IF candidates # {} /\ (ctx.after = None \/ resulting = ctx.after)
        THEN resulting ELSE None

\* The state the call leads to, or None when transition_valid is 0.
InferredState(ctx, method) ==
    LET candidates == Plausible(method, ctx.prior)
        matching == {i \in candidates : Target(method, ctx.prior, i) = ctx.after}
        chosen == IF ~Blank(ctx.after) /\ matching # {} THEN matching ELSE candidates
        resulting == Target(method, ctx.prior, First(chosen))
    IN  IF candidates # {} /\ (ctx.after = None \/ resulting = ctx.after)
        THEN resulting ELSE None

PinnedState(ctx, method) ==
    IF /\ ~Blank(ctx.trigger)
       /\ CanEmit(method, ctx.trigger)
       /\ HasArc(ctx.prior, ctx.trigger)
       /\ \/ ctx.after = None
          \/ Transition[<<ctx.prior, ctx.trigger>>] = ctx.after
    THEN Transition[<<ctx.prior, ctx.trigger>>] ELSE None

NewState(ctx, method, infer) ==
    IF IsQuery(method) THEN ctx.prior
    ELSE IF infer /\ Blank(ctx.trigger) THEN InferredState(ctx, method)
    ELSE PinnedState(ctx, method)

\* Mutant: a call passes with params its schema refuses.
GradeIgnoresSchema(schema, precondition, newState) ==
    Result(precondition = 1 /\ newState # None,
           [parse |-> 1, schema |-> schema, method_known |-> 1,
            precondition_met |-> precondition,
            transition_valid |-> Score(newState # None),
            sequence_optimal |-> Score(newState # None)],
           newState,
           schema = 0 \/ newState = None)

\* The state logic: everything after the call is known and its params are graded.
Grade(schema, precondition, newState) ==
    Result(schema = 1 /\ precondition = 1 /\ newState # None,
           [parse |-> 1, schema |-> schema, method_known |-> 1,
            precondition_met |-> precondition,
            transition_valid |-> Score(newState # None),
            sequence_optimal |-> Score(newState # None)],
           newState,
           schema = 0 \/ newState = None)

VerifyStep(ctx, output, infer) ==
    IF output.form # "call" THEN Fail
    ELSE IF output.method = Unhashable THEN Raise
    ELSE IF output.method \notin Methods THEN UnknownMethod
    ELSE IF ctx.prior = None THEN Fail
    ELSE Grade(Score(output.paramsValid),
               Score(\/ IsQuery(output.method)
                     \/ Plausible(output.method, ctx.prior) # {}),
               NewState(ctx, output.method, infer))

-----------------------------------------------------------------------------
(* The C port: every optional string is absent when it is "".               *)

\* Mutant: the loop over the candidates lacks its break, the last one wins.
CInferredStateLast(ctx, method) ==
    LET accepted == {i \in Plausible(method, ctx.prior) :
                        Blank(ctx.after) \/ Target(method, ctx.prior, i) = ctx.after}
    IN  IF accepted # {}
        THEN Target(method, ctx.prior, CHOOSE i \in accepted : \A j \in accepted : j <= i)
        ELSE None

CInferredState(ctx, method) ==
    LET accepted == {i \in Plausible(method, ctx.prior) :
                        Blank(ctx.after) \/ Target(method, ctx.prior, i) = ctx.after}
    IN  IF accepted # {} THEN Target(method, ctx.prior, First(accepted)) ELSE None

CPinnedState(ctx, method) ==
    IF /\ ~Blank(ctx.trigger)
       /\ CanEmit(method, ctx.trigger)
       /\ HasArc(ctx.prior, ctx.trigger)
       /\ \/ Blank(ctx.after)
          \/ Transition[<<ctx.prior, ctx.trigger>>] = ctx.after
    THEN Transition[<<ctx.prior, ctx.trigger>>] ELSE None

CNewState(ctx, method, infer) ==
    IF IsQuery(method) THEN ctx.prior
    ELSE IF infer /\ Blank(ctx.trigger) THEN CInferredState(ctx, method)
    ELSE CPinnedState(ctx, method)

CVerifyStep(ctx, output, infer) ==
    IF output.form # "call" THEN Fail
    ELSE IF output.method \notin Methods THEN UnknownMethod
    ELSE IF Blank(ctx.prior) THEN Fail
    ELSE Grade(Score(output.paramsValid),
               Score(\/ IsQuery(output.method)
                     \/ Plausible(output.method, ctx.prior) # {}),
               CNewState(ctx, output.method, infer))
=============================================================================
