------------------------------ MODULE SchemaCalls ------------------------------
(***************************************************************************)
(* tf_jsonschema_validate_ex and tf_jsonschema_validate_method_params,     *)
(* each called on every input of a bounded set, and what they answer.      *)
(***************************************************************************)
EXTENDS SchemaStandard, MethodParams

CONSTANTS
    Cases,        \* [schema, registry, order]
    Instances,
    ParamSchemas, \* of methods
    Params,
    Checked       \* for each format Python's checker knows here, the strings of it

VARIABLES op, input, answer
vars == <<op, input, answer>>

\* tf_jsonschema_validate_ex.
ValidateInstance ==
    \E case \in Cases, tree \in Instances :
        /\ op' = "validate"
        /\ input' = [schema |-> case.schema, registry |-> case.registry, tree |-> tree]
        /\ answer' = Verdict(case.schema, case.registry, case.order, tree)

\* load_methods_json, then tf_jsonschema_validate_method_params.
ValidateParams ==
    \E schema \in ParamSchemas, tree \in Params :
        /\ op' = "params"
        /\ input' = [schema |-> schema, registry |-> << >>, tree |-> tree]
        /\ CompiledParams(schema).ok
        /\ answer' = ParamsFit(CompiledParams(schema), tree)

Init == op = "none" /\ input = << >> /\ answer = FALSE
Next == op = "none" /\ (ValidateInstance \/ ValidateParams)
Spec == Init /\ [][Next]_vars

-----------------------------------------------------------------------------

\* The evaluator accepts exactly the valid instances: no order of the members, no
\* reference through the index, no way through the dynamic scope and no bookkeeping of
\* what was evaluated makes a difference (jsonschema.c validate_root_body and all it
\* calls).  The one exception is a reference by a name that an "$id" or an "$anchor"
\* within const, enum, default or an unknown keyword holds too: the index has these as
\* well, and takes what comes first (index_build, index_lookup).  The schemas stay
\* within the limits, and each reference leads somewhere or to an unknown document.
EvaluatorMeansTheStandard ==
    op = "validate" /\ NoReferenceMeetsData(input.schema, input.registry) =>
        answer = Meant(input.schema, input.registry, input.tree)

\* Python's verifier, a Draft202012Validator with a FormatChecker (schemas.py): a string
\* has the format its schema names, if the checker knows that format.
RECURSIVE FormatsHold(_, _)
FormatsHold(s, tree) ==
    /\ Has(s, "format") /\ TypeOf(tree) = "string" /\ s.format \in DOMAIN Checked =>
          tree.str \in Checked[s.format]
    /\ Has(s, "properties") /\ TypeOf(tree) = "object" =>
          \A name \in DOMAIN s.properties \cap DOMAIN tree.obj :
              FormatsHold(s.properties[name], tree.obj[name])
PythonAccepts(s, tree) == Meant(s, << >>, tree) /\ FormatsHold(s, tree)

\* A schema of which the compiled form drops nothing but formats: no other keyword than
\* those it reads, patterns that are literal prefixes with room for them, required names
\* that are properties, and in an object in the object strings alone.
Metacharacters == NotAnAtom \union {".", "[", "\\", "$", "^"}
Switches(s) == Has(s, "additionalProperties") => Has(s.additionalProperties, "boolean")
KeptString(s) ==
    /\ DOMAIN s \subseteq {"type", "minLength", "pattern", "format"} /\ s.type = {"string"}
    /\ Has(s, "pattern") =>
          /\ Len(s.pattern) <= PatternCap /\ Len(s.pattern) - 1 <= PrefixCap
          /\ \A k \in 2..Len(s.pattern) : s.pattern[k] \notin Metacharacters
KeptObject(s) ==
    /\ DOMAIN s \subseteq {"type", "properties", "additionalProperties"} /\ s.type = {"object"}
    /\ Switches(s)
    /\ Has(s, "properties") => \A child \in DOMAIN s.properties : KeptString(s.properties[child])
KeptWhole(s) ==
    /\ DOMAIN s \subseteq {"type", "properties", "additionalProperties", "required"} /\ Switches(s)
    /\ FieldOr(s, "required", {}) \subseteq DOMAIN s.properties
    /\ \A name \in DOMAIN s.properties :
          KeptString(s.properties[name]) \/ KeptObject(s.properties[name])


\* What exceeds a limit of the evaluator is refused, never accepted by mistake: "exceeding
\* any of these fails loud (an error) rather than silently mis-validating"
\* (c/include/toyforge/jsonschema.h:45-46).
LimitsFailLoud ==
    op = "validate" /\ answer => Meant(input.schema, input.registry, input.tree)
=============================================================================
