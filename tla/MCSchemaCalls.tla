---------------------------- MODULE MCSchemaCalls ----------------------------
(* Schemas that put every applicator over every other, documents that refer to one
   another, and instances of a few members and items. *)
EXTENDS SchemaCalls, SequencesExt, TLC

MCByteOrder == <<".", "0", "^", "a", "b", "c", "~">>
A == <<"a">>
B == <<"b">>
C == <<"c">>

Numeric == [type |-> {"number"}]
Anything == [boolean |-> TRUE]
Nothing == [boolean |-> FALSE]
Num == [num |-> 10]
Null == [word |-> "null"]
Text(str) == [str |-> str]
List(items) == [arr |-> items]
Object(members) == [obj |-> members]

\* The members of an object stand in the text in this order, or in the reverse one.
MCOrder ==
    <<"not", "if", "then", "else", "contains", "items", "unevaluatedItems",
      "additionalProperties", "propertyNames", "unevaluatedProperties", "const", "default",
      "unknown", "enum", "allOf", "anyOf", "oneOf", "prefixItems", "properties",
      "patternProperties", "dependentSchemas", "defs", "one", "two", "here", "low", "leaf">>
With(schema, registry) == [schema |-> schema, registry |-> registry, order |-> MCOrder]
Alone(schema) == With(schema, << >>)
Reversed(case) == [case EXCEPT !.order = Reverse(@)]

Ids(uri, fragment, pointer) == [uri |-> uri, fragment |-> fragment, pointer |-> pointer]
RefTo(uri) == [ref |-> Ids(uri, NoFragment, << >>)]
RefHere(fragment) == [ref |-> Ids(<< >>, fragment, << >>)]
RefDown(pointer) == [ref |-> Ids(<< >>, NoFragment, pointer)]

Combined(leaves) ==
    {[allOf |-> <<l, m>>] : l, m \in leaves} \union {[anyOf |-> <<l, m>>] : l, m \in leaves}
    \union {[oneOf |-> <<l, m>>] : l, m \in leaves} \union {[not |-> l] : l \in leaves}
    \union {[if |-> l, then |-> m, else |-> [not |-> m]] : l, m \in leaves}
Over(leaves, beside) == {s @@ b : s \in Combined(leaves), b \in beside}

ObjectLeaves ==
    {[properties |-> (A :> Numeric)],
     [patternProperties |-> (<<"^", "b">> :> Anything), required |-> {B}],
     [properties |-> (B :> Anything), additionalProperties |-> Numeric],
     [dependentSchemas |-> (A :> [properties |-> (C :> Anything)])],
     [anyOf |-> <<[required |-> {C}], [properties |-> (A :> Anything)]>>, unevaluatedProperties |-> Numeric]}
ObjectBesides ==
    {[properties |-> (A :> Anything)], [unevaluatedProperties |-> Nothing],
     [unevaluatedProperties |-> Numeric, dependentRequired |-> (B :> {A})]}
ArrayLeaves ==
    {[prefixItems |-> <<Numeric>>], [contains |-> Numeric],
     [prefixItems |-> <<Anything>>, unevaluatedItems |-> Numeric],
     [items |-> Numeric], [minItems |-> 2]}
ArrayBesides ==
    {[unevaluatedItems |-> Nothing], [prefixItems |-> <<Anything>>],
     [contains |-> [type |-> {"null"}], maxContains |-> 1, unevaluatedItems |-> Numeric]}
Small ==
    {Alone(s) : s \in Over(ObjectLeaves, ObjectBesides) \union Over(ArrayLeaves, ArrayBesides)}
FlatObjects == {Object(f) : f \in UNION {[keys -> {Num, Null}] : keys \in SUBSET {A, B, C}}}
Flat ==
    FlatObjects
    \union {List(f) : f \in UNION {[1..n -> {Num, Null}] : n \in 0..3}}

\* Documents with identifiers.
UriOf(name) == <<"x:", "/", "d", "/", name>>
Nested ==
    [id |-> UriOf("root"),
     properties |-> (A :> RefTo(<<"s", "/", "one">>)) @@ (B :> RefTo(<<"s", "/", "two">>))
                    @@ (C :> RefHere("here")),
     defs |-> [one |-> [id |-> <<"s", "/", "one">>, type |-> {"number"}],
               two |-> [id |-> <<"s", "/", "two">>,
                        allOf |-> <<RefTo(<<"..", "/", "s", "/", ".", "/", "one">>),
                                    RefHere("here")>>,
                        defs |-> [here |-> [anchor |-> "here", minimum |-> 10]]],
               here |-> [anchor |-> "here", type |-> {"null"}]]]
\* A tree of members "a" and children "b", and the same without other members.
Tree == [id |-> UriOf("tree"), dynamicAnchor |-> "node",
         properties |-> (A :> Numeric)
             @@ (B :> [items |-> [dynamicRef |-> Ids(<< >>, "node", << >>)]])]
Strict == [id |-> UriOf("strict"), dynamicAnchor |-> "node",
           allOf |-> <<RefTo(<<"tree">>)>>, unevaluatedProperties |-> Nothing]
Loose == [id |-> UriOf("loose"), ref |-> Ids(<<"tree">>, NoFragment, << >>)]
Chained == [id |-> UriOf("chain"), defs |-> [low |-> [maximum |-> 10]],
            properties |-> (A :> RefDown(<<"defs", "low">>))
                           @@ (B :> [items |-> [ref |-> Ids(UriOf("strict"), NoFragment, << >>)]])]
Unknown == RefTo(UriOf("nowhere"))
\* Anchors of other resources, in this document and in another one.
Leafy == [id |-> UriOf("leafy"), type |-> {"object"},
          defs |-> [leaf |-> [anchor |-> "leaf", type |-> {"number"}],
                    low |-> [id |-> <<"low">>,
                             defs |-> [leaf |-> [anchor |-> "leaf", type |-> {"null"}]]]]]
Across == [id |-> UriOf("across"),
           properties |-> (A :> [ref |-> Ids(<<"leafy">>, "leaf", << >>)])
               @@ (B :> [items |-> [properties |-> (A :> [ref |-> Ids(<<"low">>, "leaf", << >>)])]])
               @@ (C :> [ref |-> Ids(<<"own">>, "leaf", << >>)]),
           defs |-> [one |-> [id |-> <<"own">>,
                              defs |-> [leaf |-> [anchor |-> "leaf", minimum |-> 20]]]]]
\* Data that looks like a schema: its names are those of places, or nobody's.
Data(anchor, name) ==
    {[const |-> [anchor |-> anchor, maximum |-> 0]], [default |-> [id |-> UriOf(name), boolean |-> FALSE]],
     [enum |-> <<Null, [anchor |-> anchor, type |-> {"null"}]>>],
     [unknown |-> [id |-> UriOf(name), defs |-> [two |-> [anchor |-> anchor, minimum |-> 30]]]]}
Holding(data) ==
    [id |-> UriOf("data"),
     properties |-> (A :> RefHere("here")) @@ (C :> RefTo(<<"one">>))
                    @@ (B :> [items |-> [properties |-> (C :> [not |-> data])]]),
     defs |-> [here |-> [anchor |-> "here", type |-> {"number"}],
               one |-> [id |-> <<"one">>, type |-> {"number"}]]]
HoldingData ==
    {Alone(Holding(data)) : data \in Data("here", "one") \union Data("apart", "elsewhere")}
References ==
    {Alone(Nested), Alone(Unknown), With(Strict, <<Tree>>), With(Loose, <<Tree>>),
     With(Tree, <<Strict>>), With(Chained, <<Tree, Strict>>), With(Loose, <<Strict, Tree>>),
     With(Across, <<Leafy>>)}
    \union HoldingData
Referring == References \union {Reversed(case) : case \in References}
Inner == {Object(A :> Num), Object(C :> Num), Object(A :> Null)}
Deep ==
    {Object(B :> List(<<x>>)) : x \in Inner}
    \union {Object((A :> a) @@ (B :> List(<<Object(B :> List(<<x>>))>>))) :
               x \in Inner, a \in {Num, Null, [num |-> 20]}}

MCCases == Small \union Referring
MCInstances == Flat \union Deep

\* More members than a limit has room for, behind "not", and more names than a keyword
\* has room for.
ToEach(value) == [name \in {A, B, C} |-> value]
CapCases ==
    {Alone([not |-> [properties |-> (B :> [required |-> {A}])]]),
     Alone([patternProperties |-> ToEach(Numeric)]),
     Alone([dependentRequired |-> ToEach({A, B, C})]),
     Alone([dependentSchemas |-> ToEach([minProperties |-> 2])])}
CapInstances == FlatObjects \union {Object(B :> x) : x \in Flat}

Strings == {[type |-> {"string"}],
            [type |-> {"string"}, minLength |-> 2],
            [type |-> {"string"}, pattern |-> <<"^", "a">>]}
FormatStrings == {[type |-> {"string"}, format |-> format] : format \in {"known", "date-time"}}
MCChecked == [known |-> {A, <<"a", "~">>}]
\* What the compiled form drops, or takes for something else.
DroppedStrings ==
    {[type |-> {"string"}, pattern |-> <<"^", "a", ".">>],
     [type |-> {"string"}, pattern |-> <<"^", "a", "b", "c">>],
     [type |-> {"string"}, pattern |-> <<"^", "a", "b", "c", "a">>],
     [type |-> {"string"}, maxLength |-> 1]}
ObjectTypes ==
    {[type |-> {"object"}]}
    \union {[type |-> {"object"}, properties |-> (A :> s), additionalProperties |-> more] :
               s \in Strings, more \in {Anything, Nothing}}
ParamsOf(p, q, required) ==
    [type |-> {"object"}, properties |-> (A :> p) @@ (B :> q), required |-> required]
DroppedSchemas ==
    {ParamsOf(p, [type |-> {"string"}], {A, C}) : p \in DroppedStrings}
    \union {ParamsOf([type |-> {"string"}], q, {B}) :
        q \in {[type |-> {"object"}, properties |-> (A :> p)] : p \in DroppedStrings}
              \union {[type |-> {"object"}, properties |-> (A :> [type |-> {"object"}])],
                     [type |-> {"object"}, properties |-> (A :> [type |-> {"string"}]), required |-> {C}],
                     [type |-> {"object"}, additionalProperties |-> Numeric]}}
MCParamSchemas ==
    DroppedSchemas \union
    {ParamsOf(p, q, {A}) : p \in FormatStrings \union Strings,
                           q \in {[type |-> {"object"}, properties |-> (A :> f)] : f \in FormatStrings}}
    \union
    {[type |-> {"object"}, properties |-> (A :> p) @@ (B :> q), required |-> required,
      additionalProperties |-> more] :
        p \in Strings, q \in Strings \union ObjectTypes,
        required \in SUBSET {A, B}, more \in {Anything, Nothing}}
Texts == {Text(<< >>), Text(A), Text(<<"a", "~">>), Text(<<"b", "a">>), Text(<<"a", "b", "c", "a">>),
          Text(<<"a", "b", "c", "a", "a">>)}
ParamValues == Texts \union {Num, Object(A :> Text(A)), Object(A :> Text(<<"b", "~", "~">>)),
                             Object((A :> Text(<<"a", "b">>)) @@ (C :> Num))}
MCParams ==
    {Num, List(<< >>), Object(A :> Text(A))}
    \union {Object((A :> v) @@ (B :> w)) : v \in Texts \union {Null}, w \in ParamValues}
    \union {Object((A :> v) @@ (C :> w)) : v \in Texts, w \in {Num}}
=============================================================================
