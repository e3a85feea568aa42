---------------------------- MODULE SchemaStandard ----------------------------
(***************************************************************************)
(* What a schema means, without index, caps, depth or order: a schema has  *)
(* a place in its document, with the base URI there; a reference is the    *)
(* set of places it points to; an instance is valid when every keyword     *)
(* holds.  The keywords that look at one value alone are those of          *)
(* JsonSchema: compared here are references, scopes, applicators and what  *)
(* counts as evaluated.                                                    *)
(***************************************************************************)
EXTENDS JsonSchema

-----------------------------------------------------------------------------
(* RFC 3986, 5.2.                                                           *)

\* A path is a list of segments, each after a slash.
Segments(path) ==
    LET from[k \in 1..(Len(path) + 1)] ==
            IF k > Len(path) THEN << >>
            ELSE IF path[k] # "/" THEN from[k + 1]
            ELSE <<IF k < Len(path) /\ path[k + 1] # "/" THEN path[k + 1] ELSE "">> \o from[k + 1]
    IN  from[1]
PathOf(segments) ==
    LET from[k \in 1..(Len(segments) + 1)] ==
            IF k > Len(segments) THEN << >>
            ELSE (IF segments[k] = "" THEN <<"/">> ELSE <<"/", segments[k]>>) \o from[k + 1]
    IN  from[1]

\* The segments that stay: "." goes, ".." takes the one before it along.
RECURSIVE Normal(_, _)
Normal(segments, kept) ==
    IF segments = << >> THEN kept
    ELSE LET shorter == SubSeq(kept, 1, IF kept = << >> THEN 0 ELSE Len(kept) - 1)
             slash == IF Len(segments) = 1 THEN <<"">> ELSE << >>
         IN  Normal(Tail(segments),
                    CASE segments[1] = "." -> kept \o slash
                      [] segments[1] = ".." -> shorter \o slash
                      [] OTHER -> Append(kept, segments[1]))

Reference(base, ref) ==
    IF ref = << >> THEN base
    ELSE IF Scheme(ref) # << >> THEN ref
    ELSE Scheme(base) \o PathOf(Normal(Segments(
             IF ref[1] = "/" THEN ref ELSE UpToSlash(Path(base)) \o ref), << >>))

-----------------------------------------------------------------------------
(* Places.                                                                  *)

Place(schema, around) ==
    [schema |-> schema,
     base |-> IF Has(schema, "id") THEN Reference(around, schema.id) ELSE around]
Below(x, sub) == Place(sub, x.base)

RECURSIVE PlacesFrom(_)
PlacesFrom(x) ==
    LET s == x.schema
        single == {s[f] : f \in DOMAIN s \cap InPlace}
        many == UNION {{s[f][k] : k \in DOMAIN s[f]} : f \in DOMAIN s \cap (InList \union InMap)}
    IN  {x} \union UNION {PlacesFrom(Below(x, sub)) : sub \in single \union many}

\* d: all places of the documents, and those that have a URI of their own.
Documents(schema, registry) ==
    LET documents == {schema} \union {registry[k] : k \in DOMAIN registry}
        roots == {Place(doc, << >>) : doc \in documents}
        places == UNION {PlacesFrom(root) : root \in roots}
    IN  [places |-> places, resources |-> roots \union {x \in places : Has(x.schema, "id")}]

RECURSIVE Along(_, _)
Along(x, pointer) ==
    IF pointer = << >> THEN x
    ELSE LET s == x.schema[pointer[1]]
         IN  IF pointer[1] \in InMap \union InList
             THEN Along(Below(x, s[pointer[2]]), SubSeq(pointer, 3, Len(pointer)))
             ELSE Along(Below(x, s), Tail(pointer))

Names(x, anchor) ==
    \/ Has(x.schema, "anchor") /\ x.schema.anchor = anchor
    \/ Has(x.schema, "dynamicAnchor") /\ x.schema.dynamicAnchor = anchor
Binds(x, anchor) == Has(x.schema, "dynamicAnchor") /\ x.schema.dynamicAnchor = anchor

Targets(d, x, ref) ==
    LET uri == Reference(x.base, ref.uri)
        resources == {r \in d.resources : r.base = uri}
    IN  IF ref.pointer # << >> THEN {Along(r, ref.pointer) : r \in resources}
        ELSE IF ref.fragment = NoFragment THEN resources
        ELSE {p \in d.places : p.base = uri /\ Names(p, ref.fragment)}

\* Of a $dynamicRef: the outermost resource on the way here that binds the name.
DynamicTargets(d, x, scope, ref) ==
    LET static == Targets(d, x, ref)
        bound(k) == {p \in d.places : p.base = scope[k] /\ Binds(p, ref.fragment)}
        scopes == {k \in DOMAIN scope : bound(k) # {}}
    IN  IF \E p \in static : Binds(p, ref.fragment)
        THEN bound(CHOOSE k \in scopes : \A l \in scopes : k <= l)
        ELSE static

\* What looks like a place in the data of a document, and the references that give its
\* name; a dynamic one may take any base on the way.
DataOf(s) ==
    {s[f] : f \in DOMAIN s \cap InData}
    \union UNION {{s[f][k] : k \in DOMAIN s[f]} : f \in DOMAIN s \cap InDataList}
DataPlaces(d) ==
    UNION {UNION {PlacesFrom(Below(x, data)) : data \in DataOf(x.schema)} : x \in d.places}
Meets(d, x, ref, dynamic) ==
    \E y \in DataPlaces(d) :
        \/ /\ y.base = Reference(x.base, ref.uri)
           /\ Has(y.schema, "id") \/ Names(y, ref.fragment)
        \/ dynamic /\ Names(y, ref.fragment)
NoReferenceMeetsData(schema, registry) ==
    LET d == Documents(schema, registry)
    IN  \A x \in d.places :
            /\ Has(x.schema, "ref") => ~Meets(d, x, x.schema.ref, FALSE)
            /\ Has(x.schema, "dynamicRef") => ~Meets(d, x, x.schema.dynamicRef, TRUE)

-----------------------------------------------------------------------------
(* Validity.  scope: the resources entered on the way, outermost first.     *)

Enter(scope, x) == Append(scope, x.base)

RECURSIVE Valid(_, _, _, _), Keys(_, _, _, _), Items(_, _, _, _)
Holds(d, x, scope, sub, tree) == Valid(d, Below(x, sub), Enter(scope, Below(x, sub)), tree)

\* The places that apply to the same instance: those that must hold, and those among
\* the others that do.
Applying(d, x, scope, tree) ==
    LET s == x.schema
        Field(f) == IF Has(s, f) THEN {Below(x, s[f])} ELSE {}
        List(f) == IF Has(s, f) THEN {Below(x, s[f][k]) : k \in DOMAIN s[f]} ELSE {}
        True(p) == Valid(d, p, Enter(scope, p), tree)
        branch == IF ~Has(s, "if") THEN {}
                  ELSE IF \A p \in Field("if") : True(p) THEN Field("then") ELSE Field("else")
        dependent == IF Has(s, "dependentSchemas") /\ TypeOf(tree) = "object"
                     THEN {Below(x, s.dependentSchemas[k]) :
                               k \in DOMAIN s.dependentSchemas \cap DOMAIN tree.obj}
                     ELSE {}
    IN  [must |-> List("allOf") \union branch \union dependent
                  \union (IF Has(s, "ref") THEN Targets(d, x, s.ref) ELSE {})
                  \union (IF Has(s, "dynamicRef")
                          THEN DynamicTargets(d, x, scope, s.dynamicRef) ELSE {}),
         may |-> {p \in List("anyOf") \union List("oneOf") \union Field("if") : True(p)}]

Here(d, x, scope, tree) ==
    LET applying == Applying(d, x, scope, tree) IN applying.must \union applying.may

\* The subschemas that properties and patternProperties have for a key.
NamedAnywhere(s, key) ==
    (IF Has(s, "properties") /\ Has(s.properties, key) THEN {s.properties[key]} ELSE {})
    \union (IF Has(s, "patternProperties")
            THEN {s.patternProperties[p] : p \in {q \in DOMAIN s.patternProperties : Search(q, key).found}}
            ELSE {})

\* The members and items the keywords at x evaluate, unevaluated* left aside.
OwnKeys(s, obj) ==
    IF Has(s, "additionalProperties") THEN DOMAIN obj ELSE {k \in DOMAIN obj : NamedAnywhere(s, k) # {}}
OwnItems(d, x, scope, arr) ==
    LET s == x.schema
    IN  IF Has(s, "items") THEN DOMAIN arr
        ELSE (IF Has(s, "prefixItems") THEN DOMAIN s.prefixItems \cap DOMAIN arr ELSE {})
             \union (IF Has(s, "contains")
                     THEN {k \in DOMAIN arr : Holds(d, x, scope, s.contains, arr[k])} ELSE {})
BeforeRest(d, x, scope, tree) ==
    IF TypeOf(tree) = "object"
    THEN OwnKeys(x.schema, tree.obj)
         \union UNION {Keys(d, p, Enter(scope, p), tree) : p \in Here(d, x, scope, tree)}
    ELSE OwnItems(d, x, scope, tree.arr)
         \union UNION {Items(d, p, Enter(scope, p), tree) : p \in Here(d, x, scope, tree)}
Keys(d, x, scope, tree) ==
    IF Has(x.schema, "unevaluatedProperties") THEN DOMAIN tree.obj
    ELSE IF Has(x.schema, "boolean") THEN {} ELSE BeforeRest(d, x, scope, tree)
Items(d, x, scope, tree) ==
    IF Has(x.schema, "unevaluatedItems") THEN DOMAIN tree.arr
    ELSE IF Has(x.schema, "boolean") THEN {} ELSE BeforeRest(d, x, scope, tree)

ValidArray(d, x, scope, arr) ==
    LET s == x.schema
        Ok(sub, k) == Holds(d, x, scope, sub, arr[k])
        prefix == IF Has(s, "prefixItems") THEN DOMAIN s.prefixItems ELSE {}
    IN  /\ ItemsOk(s, arr)
        /\ \A k \in prefix \cap DOMAIN arr : Ok(s.prefixItems[k], k)
        /\ Has(s, "items") => \A k \in DOMAIN arr \ prefix : Ok(s.items, k)
        /\ Has(s, "contains") => CountOk(s, Cardinality({k \in DOMAIN arr : Ok(s.contains, k)}))
        /\ Has(s, "unevaluatedItems") =>
              \A k \in DOMAIN arr \ BeforeRest(d, x, scope, [arr |-> arr]) :
                  Ok(s.unevaluatedItems, k)

ValidObject(d, x, scope, obj) ==
    LET s == x.schema
        Ok(sub, k) == Holds(d, x, scope, sub, obj[k])
        size == Cardinality(DOMAIN obj)
    IN  /\ Has(s, "required") => s.required \subseteq DOMAIN obj
        /\ Has(s, "minProperties") => size >= s.minProperties
        /\ Has(s, "maxProperties") => size <= s.maxProperties
        /\ Has(s, "propertyNames") =>
              \A k \in DOMAIN obj : Holds(d, x, scope, s.propertyNames, [str |-> k])
        /\ Has(s, "dependentRequired") =>
              \A k \in DOMAIN s.dependentRequired \cap DOMAIN obj :
                  s.dependentRequired[k] \subseteq DOMAIN obj
        /\ \A k \in DOMAIN obj : \A sub \in NamedAnywhere(s, k) : Ok(sub, k)
        /\ Has(s, "additionalProperties") =>
              \A k \in DOMAIN obj : NamedAnywhere(s, k) = {} => Ok(s.additionalProperties, k)
        /\ Has(s, "unevaluatedProperties") =>
              \A k \in DOMAIN obj \ BeforeRest(d, x, scope, [obj |-> obj]) :
                  Ok(s.unevaluatedProperties, k)

Valid(d, x, scope, tree) ==
    LET s == x.schema
        Ok(sub) == Holds(d, x, scope, sub, tree)
        type == TypeOf(tree)
    IN  IF Has(s, "boolean") THEN s.boolean
        ELSE /\ Asserted(s, tree)
             /\ \A p \in Applying(d, x, scope, tree).must : Valid(d, p, Enter(scope, p), tree)
             /\ Has(s, "anyOf") => \E k \in DOMAIN s.anyOf : Ok(s.anyOf[k])
             /\ Has(s, "oneOf") => \E k \in DOMAIN s.oneOf :
                                      \A l \in DOMAIN s.oneOf : Ok(s.oneOf[l]) <=> l = k
             /\ Has(s, "not") => ~Ok(s.not)
             /\ type = "number" => NumberKeywords(s, tree.num)
             /\ type = "string" => StringKeywords(s, tree.str)
             /\ type = "array" => ValidArray(d, x, scope, tree.arr)
             /\ type = "object" => ValidObject(d, x, scope, tree.obj)

Meant(schema, registry, tree) ==
    Valid(Documents(schema, registry), Place(schema, << >>),
          Enter(<< >>, Place(schema, << >>)), tree)
=============================================================================
