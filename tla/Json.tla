--------------------------------- MODULE Json ---------------------------------
(***************************************************************************)
(* c/src/json.c: the items of an array, the keys of an object and the      *)
(* equality of two values, all by scanning the text again (JsonScan).      *)
(***************************************************************************)
EXTENDS JsonScan, FiniteSets

CONSTANTS
    CollectCap,  \* bytes of a key that tf_json_collect_object_keys can hold
    EqualKeys    \* TF_JSON_EQ_MAX_KEYS

ASSUME JsonAssumption == CollectCap \in Nat /\ CollectCap <= LookupCap /\ EqualKeys \in Nat

-----------------------------------------------------------------------------
(* Looking things up.                                                       *)

\* tf_json_array_count and tf_json_array_get: where the items of an array start.
ArrayItems(text, i) ==
    LET from[k \in Nat] ==
            IF Kind(text, Skip(text, k)) = "comma" THEN <<k>> \o from[Skip(text, k) + 1] ELSE <<k>>
    IN  IF Kind(text, i) # "lbracket" \/ Skip(text, i) = 0
        THEN [ok |-> FALSE, items |-> << >>]
        ELSE [ok |-> TRUE, items |-> IF Kind(text, i + 1) = "rbracket" THEN << >> ELSE from[i + 1]]

\* tf_json_collect_object_keys: unlike the scanner it lets a comma end the object.
RECURSIVE CollectFrom(_, _, _, _), CollectOn(_, _, _, _)
CollectOn(text, next, keys, max) ==
    CASE Kind(text, next) = "comma" -> CollectFrom(text, next + 1, keys, max)
      [] Kind(text, next) = "rbrace" -> [ok |-> TRUE, keys |-> keys]
      [] OTHER -> [ok |-> FALSE, keys |-> keys]
CollectAt(text, i, keys, max, read, next) ==
    IF \/ Kind(text, i) # "string" \/ Len(keys) >= max
       \/ ~read.ok \/ Kind(text, i + 1) # "colon" \/ next = 0
    THEN [ok |-> FALSE, keys |-> keys]
    ELSE CollectOn(text, next, Append(keys, read.key), max)
CollectFrom(text, i, keys, max) ==
    IF Kind(text, i) = "rbrace" THEN [ok |-> TRUE, keys |-> keys]
    ELSE CollectAt(text, i, keys, max, ReadKey(text[i].units, CollectCap), Skip(text, i + 2))
Collect(text, i, max) ==
    IF Kind(text, i) = "lbrace" THEN CollectFrom(text, i + 1, << >>, max)
                           ELSE [ok |-> FALSE, keys |-> << >>]

\* Mutant: the keys of the first object decide alone.
KeyCountUnasked(keysA, keysB) == keysA.ok /\ keysB.ok
SameKeyCount(keysA, keysB) == keysA.ok /\ keysB.ok /\ Len(keysA.keys) = Len(keysB.keys)

\* tf_json_equal of the values at a and b: items in their order, members by their keys.
RECURSIVE Equal(_, _, _)
EqualItems(text, a, b) ==
    /\ a.ok /\ b.ok /\ Len(a.items) = Len(b.items)
    /\ \A k \in DOMAIN a.items : Equal(text, a.items[k], b.items[k])
EqualMember(text, a, b) == a # 0 /\ b # 0 /\ Equal(text, a, b)
EqualMembers(text, a, b, keysA, keysB) ==
    /\ SameKeyCount(keysA, keysB)
    /\ \A k \in DOMAIN keysA.keys :
          EqualMember(text, Get(text, a, keysA.keys[k]), Get(text, b, keysA.keys[k]))
Equal(text, a, b) ==
    /\ Kind(text, a) = Kind(text, b)
    /\ CASE Kind(text, a) \in {"null", "true", "false"} -> TRUE
         [] Kind(text, a) = "number" -> text[a].num = text[b].num
         [] IsString(text, a) /\ IsString(text, b) ->
                Decode(text[a].units) = Decode(text[b].units)
         [] Kind(text, a) = "lbracket" -> EqualItems(text, ArrayItems(text, a), ArrayItems(text, b))
         [] Kind(text, a) = "lbrace" ->
                EqualMembers(text, a, b, Collect(text, a, EqualKeys), Collect(text, b, EqualKeys))
         [] OTHER -> FALSE

-----------------------------------------------------------------------------
(* A value as a tree: one field, named for its type.                        *)

\* The text of a tree.
RECURSIVE Render(_), RenderList(_, _)
RenderList(list, inObject) ==
    IF list = << >> THEN << >>
    ELSE (IF inObject THEN <<StringToken(list[1].key), Token("colon")>> \o Render(list[1].value)
                      ELSE Render(list[1]))
         \o (IF Len(list) = 1 THEN << >> ELSE <<Token("comma")>> \o RenderList(Tail(list), inObject))
Render(tree) ==
    CASE "word" \in DOMAIN tree -> <<Token(tree.word)>>
      [] "num" \in DOMAIN tree  -> <<NumberToken(tree.num)>>
      [] "str" \in DOMAIN tree  -> <<StringToken(tree.str)>>
      [] "arr" \in DOMAIN tree  -> <<Token("lbracket")>> \o RenderList(tree.arr, FALSE) \o <<Token("rbracket")>>
      [] "obj" \in DOMAIN tree  -> <<Token("lbrace")>> \o RenderList(tree.obj, TRUE) \o <<Token("rbrace")>>

KeyOf(member) == Decode(member.key).bytes
DistinctKeys(tree) ==
    \A i, j \in DOMAIN tree.obj : KeyOf(tree.obj[i]) = KeyOf(tree.obj[j]) => i = j

\* No object in the tree has more keys, or a longer one, than tf_json_equal collects.
RECURSIVE Collectable(_)
Collectable(tree) ==
    /\ "arr" \in DOMAIN tree => \A i \in DOMAIN tree.arr : Collectable(tree.arr[i])
    /\ "obj" \in DOMAIN tree =>
          /\ Len(tree.obj) <= EqualKeys
          /\ \A i \in DOMAIN tree.obj :
                Len(KeyOf(tree.obj[i])) <= CollectCap /\ Collectable(tree.obj[i].value)

\* Equality of two trees in which no object names a key twice.
RECURSIVE Same(_, _)
Same(a, b) ==
    /\ DOMAIN a = DOMAIN b
    /\ CASE "word" \in DOMAIN a -> a.word = b.word
         [] "num" \in DOMAIN a -> a.num = b.num
         [] "str" \in DOMAIN a -> Decode(a.str) = Decode(b.str)
         [] "arr" \in DOMAIN a -> /\ Len(a.arr) = Len(b.arr)
                                  /\ \A i \in DOMAIN a.arr : Same(a.arr[i], b.arr[i])
         [] "obj" \in DOMAIN a ->
                /\ Len(a.obj) = Len(b.obj)
                /\ \A i \in DOMAIN a.obj : \E j \in DOMAIN b.obj :
                      /\ KeyOf(a.obj[i]) = KeyOf(b.obj[j])
                      /\ Same(a.obj[i].value, b.obj[j].value)
=============================================================================
