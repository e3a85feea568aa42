------------------------------ MODULE JsonCalls ------------------------------
(***************************************************************************)
(* The entry points of c/src/json.c to strings, to the scanner and to the  *)
(* members of an object, each called on every input of a set, and what     *)
(* they answer.  The invariants compare the answers with what UTF-8 and    *)
(* JSON are.                                                               *)
(***************************************************************************)
EXTENDS JsonScan, Calls

CONSTANTS
    Leads, Trails,          \* bytes of what may be a character
    Contents, MaxContents,  \* the C strings written
    Units, MaxUnits,        \* what is read between two quotes
    Texts,                  \* the texts scanned
    ObjectKeys, Values, MaxMembers \* the objects looked into

Byte == 0..255
Unit == [u : {"raw"}, bytes : Seq(Byte) \ {<< >>}, code : {0}]
        \union [u : {"short"}, bytes : {<< >>}, code : ShortEscapes \union {47}]
        \union [u : {"hex"}, bytes : {<< >>}, code : {code \in Nat : code <= 65535}]
        \union {Junk}
Kinds == {"string", "number", "true", "false", "null", "lbrace", "rbrace", "lbracket", "rbracket", "comma", "colon"}
Lexeme == [kind : Kinds, units : Seq(Unit), num : Int]

ASSUME StringAssumption ==
    /\ Leads \subseteq Byte /\ Trails \subseteq Byte
    /\ Contents \subseteq Byte \ {0} /\ MaxContents \in Nat
    /\ Units \subseteq Unit
    /\ MaxUnits \in Nat

\* A key is one that strcmp reads to its end, and a value is a value.
IsKey(units) == LET key == Decode(units) IN key.ok /\ CString(key.bytes) = key.bytes
ASSUME TextAssumption ==
    /\ Texts \subseteq Seq(Lexeme)
    /\ ObjectKeys \subseteq Seq(Unit) /\ \A units \in ObjectKeys : IsKey(units)
    /\ Values \subseteq Seq(Lexeme)
    /\ \A value \in Values : IsValue(value, 1, Len(value))
    /\ MaxMembers \in Nat

\* raw_utf8_len.
Measure ==
    \E lead \in Leads, trail \in [1..3 -> Trails] :
        Call("measure", <<lead>> \o trail, RawLen(<<lead>> \o trail))

\* tf_json_read_string.
Read ==
    \E units \in SeqsUpTo(Units, MaxUnits) : Call("read", units, Decode(units))

\* tf_json_write_string.
Write ==
    \E bytes \in SeqsUpTo(Contents, MaxContents) : Call("write", bytes, WriteString(bytes))

\* tf_json_skip_value.
ScanText ==
    \E text \in Texts : Call("scan", text, Skip(text, 1))

\* An object of the members, as a text.
MemberText(member) == <<StringToken(member.key), Token("colon")>> \o member.value
ObjectText(members) ==
    LET from[k \in 1..(Len(members) + 1)] ==
            IF k > Len(members) THEN <<Token("rbrace")>>
            ELSE (IF k = 1 THEN << >> ELSE <<Token("comma")>>) \o MemberText(members[k]) \o from[k + 1]
    IN  <<Token("lbrace")>> \o from[1]

\* tf_json_object_get_value.
LookUp ==
    \E key \in ObjectKeys, members \in SeqsUpTo([key : ObjectKeys, value : Values], MaxMembers) :
        Call("lookup", [key |-> key, members |-> members],
             Get(ObjectText(members), 1, Decode(key).bytes))

Next == op = "none" /\ (Measure \/ Read \/ Write \/ ScanText \/ LookUp)
Spec == Init /\ [][Next]_vars

-----------------------------------------------------------------------------
(* UTF-8: the lengths n at which the bytes start with the one encoding of a  *)
(* code point.                                                               *)

CodePoint(b, n) ==
    LET low(k) == b[k] % 64
    IN  CASE n = 1 -> b[1]
          [] n = 2 -> (b[1] % 32) * 64 + low(2)
          [] n = 3 -> (b[1] % 16) * 4096 + low(2) * 64 + low(3)
          [] n = 4 -> (b[1] % 8) * 262144 + low(2) * 4096 + low(3) * 64 + low(4)
CharLengths(b) ==
    {n \in 1..4 : n <= Len(b) /\ Encode(CodePoint(b, n)) = SubSeq(b, 1, n)}
IsUtf8(b) ==
    LET from[k \in 1..(Len(b) + 1)] ==
            k > Len(b) \/ \E n \in CharLengths(From(b, k)) : from[k + n]
    IN  from[1]

-----------------------------------------------------------------------------

\* The length of a character is that of the one shortest encoding of a code point that
\* is no surrogate, or zero: overlong forms, surrogates and stray continuations are
\* refused (json.c raw_utf8_len against append_codepoint).
CharactersAreUtf8 ==
    op = "measure" =>
        LET lengths == {n \in CharLengths(input) : input[1] >= 32}
        IN  IF lengths = {} THEN answer = 0 ELSE lengths = {answer}

\* What is written reads back as the same bytes, controls, quotes and backslashes
\* included, and bytes that are no UTF-8 make the writer fail instead of writing a
\* string no reader takes (json.c tf_json_write_string against read_json_string_impl).
WrittenReadsBack ==
    op = "write" =>
        IF IsUtf8(input) THEN Decode(answer) = [ok |-> TRUE, bytes |-> input]
                         ELSE \E k \in DOMAIN answer : answer[k] = Junk

\* Whatever is read is UTF-8, though it is put together from escapes; and a string is
\* refused only for a character that is none or for half of a surrogate pair: each half
\* that is read belongs to one pair (json.c read_json_string_impl).
ReadsUtf8 ==
    op = "read" =>
        LET Paired(k) ==
                /\ High(input[k]) => k < Len(input) /\ Low(input[k + 1])
                /\ Low(input[k]) => k > 1 /\ High(input[k - 1])
            IsReadable(k) ==
                /\ input[k] # Junk /\ Paired(k)
                /\ input[k].u = "raw" => IsWholeChar(input[k].bytes)
        IN  /\ answer.ok <=> \A k \in DOMAIN input : IsReadable(k)
            /\ answer.ok => IsUtf8(answer.bytes)

\* The scanner accepts a value exactly when JSON's grammar does and it is not too
\* deep, and stops right behind it (json.c skip_value_depth and its callees).
ScannerAcceptsExactlyJson ==
    op = "scan" =>
        IF answer = 0 THEN ~\E j \in DOMAIN input : IsValue(input, 1, j)
                      ELSE IsValue(input, 1, answer - 1)

\* A lookup finds the last member of that name, however the name is spelled, as
\* json.loads would; when a key of the object is too long to read it finds nothing
\* rather than another member (json.c tf_json_object_get_value).
LookupTakesTheLastMember ==
    op = "lookup" =>
        LET text == ObjectText(input.members)
            Name(k) == Decode(input.members[k].key).bytes
            named == {k \in DOMAIN input.members : Name(k) = Decode(input.key).bytes}
            fits == \A k \in DOMAIN input.members : Len(Name(k)) <= LookupCap
        IN  IF named = {} \/ ~fits THEN answer = 0
            ELSE \E k \in named :
                    /\ \A l \in named : l <= k
                    /\ SubSeq(text, answer, Skip(text, answer) - 1) = input.members[k].value
=============================================================================
