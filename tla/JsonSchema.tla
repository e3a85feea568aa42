------------------------------ MODULE JsonSchema ------------------------------
(***************************************************************************)
(* c/src/jsonschema.c: the evaluator of JSON Schema Draft 2020-12.         *)
(*                                                                         *)
(* An instance is a tree with one field: word ("true", "false", "null"),   *)
(* num (in tenths), str (bytes), arr (items) or obj (key -> tree).  A      *)
(* schema is a record with a field for each keyword it has, without the    *)
(* "$", or has the one field boolean.  A URI is a sequence of pieces: a    *)
(* scheme with its authority, slashes, and what is between them.  An order *)
(* is a list of member names: the members of an object stand in its text   *)
(* in that order.                                                          *)
(* That object lookups and equality mean what they should is shown of      *)
(* module Json, and of patterns in module Regex.                           *)
(***************************************************************************)
EXTENDS Regex

LOCAL INSTANCE SequencesExt

CONSTANTS
    Continuations,  \* the bytes that continue a character
    MaxSchemaDepth, \* TF_SCHEMA_MAX_DEPTH
    MaxMembers,     \* TF_MAX_SCHEMA_PROPERTIES
    IndexCap,       \* TF_ID_INDEX_CAP
    DynCap,         \* TF_DYN_SCOPE_CAP
    MaxItems        \* TF_EVAL_MAX_ITEMS

ASSUME JsonSchemaAssumption ==
    /\ Continuations \subseteq Bytes
    /\ \A cap \in {MaxSchemaDepth, MaxMembers, IndexCap, DynCap, MaxItems} : cap \in Nat

Has(node, field) == field \in DOMAIN node
TypeOf(tree) ==
    CASE Has(tree, "word") -> IF tree.word = "null" THEN "null" ELSE "boolean"
      [] Has(tree, "num") -> "number" [] Has(tree, "str") -> "string"
      [] Has(tree, "arr") -> "array"  [] Has(tree, "obj") -> "object"

CodePoints(str) == Cardinality({k \in DOMAIN str : str[k] \notin Continuations})

-----------------------------------------------------------------------------
(* URIs.                                                                    *)

Scheme(uri) == IF uri # << >> /\ uri[1] = "x:" THEN <<"x:">> ELSE << >>
Path(uri) == SubSeq(uri, Len(Scheme(uri)) + 1, Len(uri))
UpToSlash(path) ==
    LET slashes == {k \in DOMAIN path : path[k] = "/"}
    IN  IF slashes = {} THEN << >>
        ELSE SubSeq(path, 1, CHOOSE k \in slashes : \A l \in slashes : l <= k)

Starts(in, prefix) == Len(in) >= Len(prefix) /\ SubSeq(in, 1, Len(prefix)) = prefix
Drop(in, n) == SubSeq(in, n + 1, Len(in))

\* Without its last piece and the slash before it.
Pop(out) ==
    LET kept == UpToSlash(out) IN IF kept = << >> THEN << >> ELSE SubSeq(kept, 1, Len(kept) - 1)

\* remove_dot_segments.  After a last "/.." one of the dots is left over.
RECURSIVE RemoveDots(_, _)
RemoveDots(in, out) ==
    IF in = << >> THEN out
    ELSE CASE Starts(in, <<"..", "/">>) -> RemoveDots(Drop(in, 2), out)
           [] Starts(in, <<".", "/">>) -> RemoveDots(Drop(in, 2), out)
           [] Starts(in, <<"/", ".", "/">>) -> RemoveDots(Drop(in, 2), out)
           [] in = <<"/", ".">> -> Append(out, "/")
           [] Starts(in, <<"/", "..", "/">>) -> RemoveDots(Drop(in, 2), Pop(out))
           [] in = <<"/", "..">> -> RemoveDots(<<".">>, Pop(out))
           [] in[1] = "/" /\ Len(in) > 1 /\ in[2] # "/" ->
                 RemoveDots(Drop(in, 2), out \o <<"/", in[2]>>)
           [] OTHER -> RemoveDots(Tail(in), Append(out, in[1]))

\* resolve_uri without the fragment, which references carry beside it.
Resolve(base, ref) ==
    IF ref = << >> THEN base
    ELSE IF Scheme(ref) # << >> THEN ref
    ELSE Scheme(base) \o
         RemoveDots(IF ref[1] = "/" THEN ref ELSE UpToSlash(Path(base)) \o ref, << >>)

-----------------------------------------------------------------------------
(* The index of $id, $anchor and $dynamicAnchor.                            *)

InList == {"allOf", "anyOf", "oneOf", "prefixItems"}
InMap == {"properties", "patternProperties", "dependentSchemas", "defs"}
InPlace == {"not", "if", "then", "else", "contains", "items", "unevaluatedItems",
            "additionalProperties", "propertyNames", "unevaluatedProperties"}

\* Members that hold no schema, only data: one value, or a list of them.  A value that
\* looks like a schema with identifiers is written as one.
InData == {"const", "default", "unknown"}
InDataList == {"enum"}

Entry(uri, fragment, parent, schema, dynamic) ==
    [uri |-> uri, fragment |-> fragment, parent |-> parent, schema |-> schema,
     dynamic |-> dynamic]
NoFragment == ""

BaseOf(schema, base) == IF Has(schema, "id") THEN Resolve(base, schema.id) ELSE base

EntriesAt(schema, base) ==
    LET own == BaseOf(schema, base)
        Given(field, entry) == IF Has(schema, field) THEN <<entry>> ELSE << >>
    IN  Given("id", Entry(own, NoFragment, base, schema, FALSE))
        \o Given("anchor", Entry(own, schema.anchor, own, schema, FALSE))
        \o Given("dynamicAnchor", Entry(own, schema.dynamicAnchor, own, schema, TRUE))

Listed(node, order) == SelectSeq(order, LAMBDA name : Has(node, name))
NamesIn(map, field, order) == IF field = "defs" THEN Listed(map, order) ELSE SetToSeq(DOMAIN map)

\* index_build: every member is looked into, whether it holds schemas or data; a node
\* with more members than it can list is not looked into.
RECURSIVE IndexFrom(_, _, _, _)
IndexFrom(node, base, depth, order) ==
    LET own == BaseOf(node, base)
        Each(field, names) ==
            FlattenSeq([k \in DOMAIN names |-> IndexFrom(node[field][names[k]], own, depth + 2, order)])
        Under(field) ==
            CASE field \in InPlace \union InData -> IndexFrom(node[field], own, depth + 1, order)
              [] field \in InList \union InDataList ->
                    Each(field, [k \in DOMAIN node[field] |-> k])
              [] field \in InMap ->
                    IF Cardinality(DOMAIN node[field]) > MaxMembers THEN << >>
                    ELSE Each(field, NamesIn(node[field], field, order))
              [] OTHER -> << >>
        fields == Listed(node, order)
    IN  IF depth > MaxSchemaDepth \/ Has(node, "boolean") THEN << >>
        ELSE EntriesAt(node, base) \o
             IF Cardinality(DOMAIN node) > MaxMembers THEN << >>
             ELSE FlattenSeq([k \in DOMAIN fields |-> Under(fields[k])])

\* index_lookup: the first entry is taken.
Found(index, uri, fragment) ==
    SelectSeq(index, LAMBDA entry : entry.uri = uri /\ entry.fragment = fragment)

\* resolve_json_pointer, through objects.
RECURSIVE Follow(_, _)
Follow(node, pointer) ==
    IF pointer = << >> THEN [ok |-> TRUE, schema |-> node]
    ELSE IF pointer[1] \in DOMAIN node THEN Follow(node[pointer[1]], Tail(pointer))
    ELSE [ok |-> FALSE, schema |-> node]

-----------------------------------------------------------------------------
(* Evaluation.  c holds the root, the index, the base URI, the dynamic      *)
(* scope and the depth; the verdict has the annotations for unevaluated*.   *)

Passed(props, items, all) == [ok |-> TRUE, props |-> props, items |-> items, all |-> all]
Plain == Passed({}, {}, FALSE)
Failed == [Plain EXCEPT !.ok = FALSE]
Only(condition) == IF condition THEN Plain ELSE Failed

\* Fail when one fails, otherwise all that any of them evaluated.
Merge(verdicts) ==
    IF \E v \in verdicts : ~v.ok THEN Failed
    ELSE Passed(UNION {v.props : v \in verdicts}, UNION {v.items : v \in verdicts},
                \E v \in verdicts : v.all)

RECURSIVE Validate(_, _, _)
Sub(c, schema, tree) == Validate([c EXCEPT !.depth = @ + 1], schema, tree)
Accepts(c, schema, tree) == Sub(c, schema, tree).ok

\* A reference is [uri, fragment, pointer]; an unknown document constrains nothing.
RefVerdict(c, ref, tree) ==
    LET uri == Resolve(c.base, ref.uri)
        document == Found(c.index, uri, NoFragment)
        entry == IF uri = << >> THEN Entry(c.base, NoFragment, c.base, c.root, FALSE)
                 ELSE Head(document)
        doc_base == IF uri = << >> THEN c.base ELSE uri
        anchored == Found(c.index, uri, ref.fragment)
        pointed == Follow(entry.schema, ref.pointer)
    IN  IF uri # << >> /\ document = << >> THEN Plain
        ELSE IF ref.pointer # << >>
             THEN IF pointed.ok THEN Sub([c EXCEPT !.base = doc_base], pointed.schema, tree) ELSE Failed
        ELSE IF ref.fragment = NoFragment THEN Sub([c EXCEPT !.base = entry.parent], entry.schema, tree)
        ELSE IF anchored = << >> THEN Failed
        ELSE Sub([c EXCEPT !.base = doc_base], Head(anchored).schema, tree)

OutermostOf(scopes) == CHOOSE k \in scopes : \A l \in scopes : k <= l

DynamicRefVerdict(c, ref, tree) ==
    LET static == Found(c.index, Resolve(c.base, ref.uri), ref.fragment)
        binding(k) == Found(c.index, c.dyn[k], ref.fragment)
        scopes == {k \in DOMAIN c.dyn : binding(k) # << >> /\ Head(binding(k)).dynamic}
        bound == c.dyn[OutermostOf(scopes)]
    IN  IF ref.fragment = NoFragment \/ static = << >> \/ ~Head(static).dynamic
        THEN RefVerdict(c, ref, tree)
        ELSE IF scopes = {} THEN Sub(c, Head(static).schema, tree)
        ELSE Sub([c EXCEPT !.base = bound],
                 Head(Found(c.index, bound, ref.fragment)).schema, tree)

TypeMatches(name, tree) ==
    \/ name = TypeOf(tree)
    \/ name = "integer" /\ TypeOf(tree) = "number" /\ tree.num % 10 = 0

\* type, enum, const
Asserted(s, tree) ==
    /\ Has(s, "type") => \E name \in s.type : TypeMatches(name, tree)
    /\ Has(s, "enum") => \E k \in DOMAIN s.enum : s.enum[k] = tree
    /\ Has(s, "const") => s.const = tree

AllOf(c, s, tree) ==
    IF Has(s, "allOf") THEN Merge({Sub(c, s.allOf[k], tree) : k \in DOMAIN s.allOf}) ELSE Plain

\* Mutant: the first branch that matches is enough, the others annotate nothing.
AnyOfShortCircuit(c, s, tree) ==
    IF ~Has(s, "anyOf") THEN Plain
    ELSE LET passing == {k \in DOMAIN s.anyOf : Accepts(c, s.anyOf[k], tree)}
         IN  IF passing = {} THEN Failed
             ELSE Sub(c, s.anyOf[CHOOSE k \in passing : \A l \in passing : k <= l], tree)

AnyOf(c, s, tree) ==
    IF ~Has(s, "anyOf") THEN Plain
    ELSE LET passing == {k \in DOMAIN s.anyOf : Accepts(c, s.anyOf[k], tree)}
         IN  IF passing = {} THEN Failed
             ELSE Merge({Sub(c, s.anyOf[k], tree) : k \in passing})

OneOf(c, s, tree) ==
    IF ~Has(s, "oneOf") THEN Plain
    ELSE LET passing == {k \in DOMAIN s.oneOf : Accepts(c, s.oneOf[k], tree)}
         IN  IF Cardinality(passing) # 1 THEN Failed
             ELSE Sub(c, s.oneOf[CHOOSE k \in passing : TRUE], tree)

Not(c, s, tree) == Only(Has(s, "not") => ~Accepts(c, s.not, tree))

IfThenElse(c, s, tree) ==
    IF ~Has(s, "if") THEN Plain
    ELSE LET if == Sub(c, s.if, tree)
             Branch(field) == IF Has(s, field) THEN Sub(c, s[field], tree) ELSE Plain
         IN  IF if.ok THEN Merge({if, Branch("then")}) ELSE Branch("else")

Abs(n) == IF n < 0 THEN -n ELSE n
NumberKeywords(s, num) ==
    /\ Has(s, "minimum") => num >= s.minimum
    /\ Has(s, "maximum") => num <= s.maximum
    /\ Has(s, "exclusiveMinimum") => num > s.exclusiveMinimum
    /\ Has(s, "exclusiveMaximum") => num < s.exclusiveMaximum
    /\ Has(s, "multipleOf") => s.multipleOf = 0 \/ num % Abs(s.multipleOf) = 0

\* A pattern the regular expressions do not support is an annotation.
Allows(search) == search.supported => search.found
StringKeywords(s, str) ==
    /\ Has(s, "minLength") => CodePoints(str) >= s.minLength
    /\ Has(s, "maxLength") => CodePoints(str) <= s.maxLength
    /\ Has(s, "pattern") => Allows(Search(s.pattern, str))

\* The items contains accepts, and whether there are as many as asked for.
Contained(c, s, arr) ==
    IF Has(s, "contains") THEN {k \in DOMAIN arr : Accepts(c, s.contains, arr[k])} ELSE {}
CountOk(s, matches) ==
    Has(s, "contains") =>
        /\ matches >= IF Has(s, "minContains") THEN s.minContains ELSE 1
        /\ Has(s, "maxContains") => matches <= s.maxContains

ItemsOk(s, arr) ==
    /\ Has(s, "minItems") => Len(arr) >= s.minItems
    /\ Has(s, "maxItems") => Len(arr) <= s.maxItems
    /\ Has(s, "uniqueItems") /\ s.uniqueItems => \A k, l \in DOMAIN arr : arr[k] = arr[l] => k = l

\* The schema of item k, from prefixItems or items.
Positional(c, s, arr) ==
    LET prefix == IF Has(s, "prefixItems") THEN DOMAIN s.prefixItems \cap DOMAIN arr ELSE {}
        rest == IF Has(s, "items") THEN DOMAIN arr \ prefix ELSE {}
    IN  IF /\ \A k \in prefix : Accepts(c, s.prefixItems[k], arr[k])
           /\ \A k \in rest : Accepts(c, s.items, arr[k])
        THEN Passed({}, prefix \union rest, Has(s, "items"))
        ELSE Failed

\* What is left for unevaluatedItems after the keywords beside it, so far.
Unevaluated(c, s, arr, sofar) ==
    LET left == {k \in DOMAIN arr : k > MaxItems \/ k \notin sofar.items}
    IN  IF ~sofar.ok \/ sofar.all \/ ~Has(s, "unevaluatedItems") THEN sofar
        ELSE IF Len(arr) <= MaxItems /\ \A k \in left : Accepts(c, s.unevaluatedItems, arr[k])
        THEN [sofar EXCEPT !.items = @ \union left] ELSE Failed

ArrayKeywords(c, s, arr, local) ==
    LET contained == Contained(c, s, arr)
    IN  Unevaluated(c, s, arr,
            Merge({local, Only(ItemsOk(s, arr) /\ CountOk(s, Cardinality(contained))),
                   Passed({}, contained, FALSE), Positional(c, s, arr)}))

\* Of more names than there is room for, a dependency keyword takes none and
\* patternProperties those that come first in the text.
Dependents(map) == IF Cardinality(DOMAIN map) > MaxMembers THEN {} ELSE DOMAIN map
Patterns(map) ==
    LET names == SetToSeq(DOMAIN map) IN {names[k] : k \in DOMAIN names \cap 1..MaxMembers}

MembersOk(c, s, obj) ==
    /\ Has(s, "required") => s.required \subseteq DOMAIN obj
    /\ Cardinality(DOMAIN obj) <= MaxMembers
    /\ Has(s, "minProperties") => Cardinality(DOMAIN obj) >= s.minProperties
    /\ Has(s, "maxProperties") => Cardinality(DOMAIN obj) <= s.maxProperties
    /\ Has(s, "propertyNames") => \A key \in DOMAIN obj : Accepts(c, s.propertyNames, [str |-> key])
    /\ Has(s, "dependentRequired") =>
          \A key \in Dependents(s.dependentRequired) \cap DOMAIN obj :
              s.dependentRequired[key] \subseteq DOMAIN obj

\* The subschemas that properties and patternProperties have for a key.
Named(s, key) ==
    (IF Has(s, "properties") /\ Has(s.properties, key) THEN {s.properties[key]} ELSE {})
    \union (IF Has(s, "patternProperties")
            THEN {s.patternProperties[p] : p \in {q \in Patterns(s.patternProperties) : Search(q, key).found}}
            ELSE {})

Additional(c, s, obj) ==
    LET keys == {key \in DOMAIN obj : Named(s, key) = {}}
    IN  IF Has(s, "additionalProperties")
        THEN Merge({Only(\A key \in keys : Accepts(c, s.additionalProperties, obj[key])),
                    Passed(keys, {}, FALSE)})
        ELSE Plain
Members(c, s, obj) ==
    LET keys == {key \in DOMAIN obj : Named(s, key) # {}}
    IN  Merge({Only(\A key \in keys : \A sub \in Named(s, key) : Accepts(c, sub, obj[key])),
               Passed(keys, {}, FALSE), Additional(c, s, obj)})

DependentSchemas(c, s, obj) ==
    IF Has(s, "dependentSchemas")
    THEN Merge({Sub(c, s.dependentSchemas[key], [obj |-> obj]) :
                    key \in Dependents(s.dependentSchemas) \cap DOMAIN obj})
    ELSE Plain

UnevaluatedMembers(c, s, obj, sofar) ==
    LET left == DOMAIN obj \ sofar.props
    IN  IF ~sofar.ok \/ ~Has(s, "unevaluatedProperties") THEN sofar
        ELSE IF \A key \in left : Accepts(c, s.unevaluatedProperties, obj[key])
        THEN [sofar EXCEPT !.props = @ \union left] ELSE Failed
ObjectKeywords(c, s, obj, local) ==
    UnevaluatedMembers(c, s, obj,
        Merge({local, Only(MembersOk(c, s, obj)), Members(c, s, obj), DependentSchemas(c, s, obj)}))

\* validate_root_body.
ByType(c, s, tree, local) ==
    LET type == TypeOf(tree)
    IN  IF ~local.ok THEN Failed
        ELSE CASE type = "number" -> Merge({local, Only(NumberKeywords(s, tree.num))})
               [] type = "string" -> Merge({local, Only(StringKeywords(s, tree.str))})
               [] type = "array"  -> ArrayKeywords(c, s, tree.arr, local)
               [] type = "object" -> ObjectKeywords(c, s, tree.obj, local)
               [] OTHER -> local
Body(c, s, tree) ==
    LET refs == {IF Has(s, "ref") THEN RefVerdict(c, s.ref, tree) ELSE Plain,
                 IF Has(s, "dynamicRef") THEN DynamicRefVerdict(c, s.dynamicRef, tree) ELSE Plain}
        anywhere == {Only(Asserted(s, tree)), AllOf(c, s, tree), AnyOf(c, s, tree),
                     OneOf(c, s, tree), Not(c, s, tree), IfThenElse(c, s, tree)}
    IN  IF c.depth > MaxSchemaDepth THEN Failed
        ELSE IF Has(s, "boolean") THEN Only(s.boolean)
        ELSE ByType(c, s, tree, Merge(refs \union anywhere))

\* validate_root: a schema's own $id becomes the base, and joins the dynamic scope.
Validate(c, s, tree) ==
    LET base == BaseOf(s, c.base)
        entered == base # c.base /\ Len(c.dyn) < DynCap
    IN  Body([c EXCEPT !.base = base, !.dyn = IF entered THEN Append(@, base) ELSE @], s, tree)

\* tf_jsonschema_validate_ex; registry is a list of further documents.
EntriesOf(schema, registry, order) ==
    IndexFrom(schema, << >>, 0, order)
    \o <<Entry(BaseOf(schema, << >>), NoFragment, << >>, schema, FALSE)>>
    \o FlattenSeq([k \in DOMAIN registry |-> IndexFrom(registry[k], << >>, 0, order)])
VerdictWith(index, schema, tree) ==
    LET base == BaseOf(schema, << >>)
    IN  /\ Len(index) <= IndexCap
        /\ Validate([root |-> schema, index |-> index, base |-> base, dyn |-> <<base>>, depth |-> 0],
                    schema, tree).ok
Verdict(schema, registry, order, tree) ==
    VerdictWith(EntriesOf(schema, registry, order), schema, tree)
=============================================================================
