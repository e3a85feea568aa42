----------------------------- MODULE MethodParams -----------------------------
(***************************************************************************)
(* The compiled form of a method's params schema: schemas.c reads the      *)
(* schema of each method once, and tf_jsonschema_validate_method_params    *)
(* (jsonschema.c) checks a call's params against what it kept, where       *)
(* Python asks a general validator.  Kept are the properties of the object *)
(* and of the objects in it, with type, minLength and a literal prefix;    *)
(* dropped are format and every other keyword, what an object in it        *)
(* requires, and a required name that is no property.                      *)
(***************************************************************************)
EXTENDS JsonSchema

CONSTANTS
    MaxChildren, \* TF_MAX_SCHEMA_CHILD_PROPERTIES
    MaxText,     \* bytes of a string that TF_MAX_TEXT has room for
    PatternCap,  \* bytes of a pattern that is read at all
    PrefixCap    \* bytes TF_MAX_SCHEMA_PREFIX has room for

ASSUME MethodParamsAssumption ==
    \A cap \in {MaxChildren, MaxText, PatternCap, PrefixCap} : cap \in Nat

Uncompiled == [ok |-> FALSE]
FieldOr(s, field, default) == IF Has(s, field) THEN s[field] ELSE default

\* compile_string_constraints: a pattern is taken for "^" and a literal prefix, of which
\* as much is kept as there is room for; one that is too long is passed over.
CompiledString(s) ==
    LET heeded == Has(s, "pattern") /\ Len(s.pattern) <= PatternCap
        literal == IF heeded THEN Drop(s.pattern, 1) ELSE << >>
    IN  IF heeded /\ ~Starts(s.pattern, <<"^">>) THEN Uncompiled
        ELSE [ok |-> TRUE, type |-> "string", min |-> FieldOr(s, "minLength", 0),
              prefix |-> IF Len(literal) <= PrefixCap THEN literal ELSE SubSeq(literal, 1, PrefixCap)]

\* compile_child_property.
CompiledChild(s) ==
    CASE FieldOr(s, "type", {}) = {"string"} -> CompiledString(s)
      [] FieldOr(s, "type", {}) = {"object"} -> [ok |-> TRUE, type |-> "object"]
      [] OTHER -> Uncompiled

\* Anything but the literal false lets additional members in.
LetsMore(s) == FieldOr(s, "additionalProperties", [boolean |-> TRUE]) # [boolean |-> FALSE]

AllCompiled(children) == \A name \in DOMAIN children : children[name].ok

\* compile_schema_property.
CompiledProperty(s) ==
    LET properties == FieldOr(s, "properties", << >>)
        children == [name \in DOMAIN properties |-> CompiledChild(properties[name])]
    IN  CASE FieldOr(s, "type", {}) = {"string"} -> CompiledString(s)
          [] FieldOr(s, "type", {}) = {"object"} ->
                IF Cardinality(DOMAIN children) <= MaxChildren /\ AllCompiled(children)
                THEN [ok |-> TRUE, type |-> "object", children |-> children, more |-> LetsMore(s)]
                ELSE Uncompiled
          [] OTHER -> Uncompiled

\* compile_param_schema.  A required name that is no property is forgotten.
CompiledParams(s) ==
    LET properties == [name \in DOMAIN s.properties |-> CompiledProperty(s.properties[name])]
    IN  IF /\ FieldOr(s, "type", {}) = {"object"} /\ Has(s, "properties")
           /\ Cardinality(FieldOr(s, "required", {})) <= MaxMembers
           /\ Cardinality(DOMAIN properties) <= MaxMembers /\ AllCompiled(properties)
        THEN [ok |-> TRUE, more |-> LetsMore(s), properties |-> properties,
              required |-> FieldOr(s, "required", {}) \cap DOMAIN properties]
        ELSE Uncompiled

-----------------------------------------------------------------------------


\* utf8_codepoints_cstr.
CharactersCounted(str) == Cardinality({k \in DOMAIN str : str[k] \notin Continuations})

\* tf_json_object_get_string and validate_string_constraints.
StringFits(c, tree) ==
    /\ TypeOf(tree) = "string" /\ Len(tree.str) <= MaxText
    /\ CharactersCounted(tree.str) >= c.min
    /\ Starts(tree.str, c.prefix)

\* validate_child_object: an object inside an object has no compiled form.
ChildrenFit(c, obj) ==
    /\ Cardinality(DOMAIN obj) <= MaxMembers
    /\ c.more \/ DOMAIN obj \subseteq DOMAIN c.children
    /\ \A name \in DOMAIN c.children \cap DOMAIN obj :
          c.children[name].type = "string" /\ StringFits(c.children[name], obj[name])

\* validate_object_schema.
ParamsFit(c, tree) ==
    /\ TypeOf(tree) = "object" /\ Cardinality(DOMAIN tree.obj) <= MaxMembers
    /\ c.more \/ DOMAIN tree.obj \subseteq DOMAIN c.properties
    /\ c.required \subseteq DOMAIN tree.obj
    /\ \A name \in DOMAIN c.properties \cap DOMAIN tree.obj :
          LET property == c.properties[name]
              value == tree.obj[name]
          IN  IF property.type = "string" THEN StringFits(property, value)
              ELSE TypeOf(value) = "object" /\ ChildrenFit(property, value.obj)
=============================================================================
