------------------------------- MODULE JsonScan -------------------------------
(***************************************************************************)
(* c/src/json.c: the C port keeps JSON as text and scans it again for      *)
(* every question.  Here a text is its sequence of tokens, and a cursor a  *)
(* position in it; white space is left out.  A string token holds the      *)
(* units of JsonStrings.                                                   *)
(* A number is its value in tenths; that C compares doubles, of which two  *)
(* different large numbers may be one, is left out.                        *)
(*                                                                         *)
(* The scanner is written as functions over the places of the text, one    *)
(* for each depth, and the grammar of JSON as the places where a value may *)
(* end.                                                                    *)
(***************************************************************************)
EXTENDS JsonStrings

CONSTANTS
    MaxDepth,    \* TF_JSON_MAX_DEPTH
    LookupCap    \* bytes of a key that tf_json_object_get_value can hold

ASSUME ScanAssumption == MaxDepth \in Nat /\ LookupCap \in Nat

Token(kind) == [kind |-> kind, units |-> << >>, num |-> 0]
StringToken(units) == [Token("string") EXCEPT !.units = units]
NumberToken(num) == [Token("number") EXCEPT !.num = num]
Kind(text, i) == IF i \in DOMAIN text THEN text[i].kind ELSE "end"

Places(text) == 1..(Len(text) + 1)
Closing(kind) == IF kind = "lbrace" THEN "rbrace" ELSE "rbracket"

-----------------------------------------------------------------------------
(* Scanning: the place after what starts at a place, 0 when nothing does.   *)

\* skip_json_string.
IsString(text, i) == Kind(text, i) = "string" /\ Decode(text[i].units).ok
IsAtomic(text, i) == IsString(text, i) \/ Kind(text, i) \in {"number", "true", "false", "null"}

\* Where the value of the item or member at i starts, 0 for no member.
EntryValue(text, i, open) ==
    IF open = "lbracket" THEN i
    ELSE IF IsString(text, i) /\ Kind(text, i + 1) = "colon" THEN i + 2 ELSE 0

EntryEnd(skip, value) == IF value = 0 THEN 0 ELSE skip[value]
SkipOn(text, open, next, end) ==
    IF Kind(text, next) = "comma" THEN end[next + 1]
    ELSE IF Kind(text, next) = Closing(open) THEN next + 1 ELSE 0

\* The loops of skip_array_depth and skip_object_depth behind the open bracket: the end
\* of a list from each place on, where skip is the end of a value.
SkipList(text, open, skip) ==
    LET end[i \in Places(text)] ==
            SkipOn(text, open, EntryEnd(skip, EntryValue(text, i, open)), end)
    IN  end

\* One level of skip_value_depth, where inner is the next one.
SkipLevel(text, inner) ==
    [i \in Places(text) |->
        IF IsAtomic(text, i) THEN i + 1
        ELSE IF Kind(text, i) \notin {"lbrace", "lbracket"} THEN 0
        ELSE IF Kind(text, i + 1) = Closing(Kind(text, i)) THEN i + 2
        ELSE SkipList(text, Kind(text, i), inner)[i + 1]]

\* skip_value_depth, for every depth and place.
SkipValue(text) ==
    LET skip[depth \in 0..(MaxDepth + 1)] ==
            IF depth > MaxDepth THEN [i \in Places(text) |-> 0]
                                ELSE SkipLevel(text, skip[depth + 1])
    IN  skip

\* Mutant: a comma may end an array.
SkipTrailing(text, i) ==
    IF Kind(text, i) = "lbracket" /\ Kind(text, i + 2) = "comma" /\ Kind(text, i + 3) = "rbracket"
    THEN i + 4 ELSE SkipValue(text)[0][i]

\* tf_json_skip_value.
Skip(text, i) == SkipValue(text)[0][i]

-----------------------------------------------------------------------------
(* Looking a member up.                                                     *)

\* Mutant: the first member with the key is the one.
GetFirst(text, i, key) ==
    LET get[k \in Places(text)] ==
            LET read == ReadKey(text[k].units, LookupCap)
                next == Skip(text, k + 2)
            IN  IF \/ Kind(text, k) # "string" \/ ~read.ok
                   \/ Kind(text, k + 1) # "colon" \/ next = 0 THEN 0
                ELSE IF read.key = key THEN k + 2
                ELSE IF Kind(text, next) = "comma" THEN get[next + 1] ELSE 0
    IN  IF Kind(text, i) = "lbrace" THEN get[i + 1] ELSE 0

LookOn(text, next, last, get) ==
    IF Kind(text, next) = "comma" THEN get[next + 1][last]
    ELSE IF Kind(text, next) = "rbrace" THEN last ELSE 0

\* The member at k, its key read and its value skipped.  Every key is read on the way,
\* and one that does not fit ends the search.
LookAt(text, key, k, found, read, next, get) ==
    IF \/ Kind(text, k) # "string" \/ ~read.ok
       \/ Kind(text, k + 1) # "colon" \/ next = 0 THEN 0
    ELSE LookOn(text, next, IF read.key = key THEN k + 2 ELSE found, get)

\* tf_json_object_get_value: where the last value of the key starts, 0 for nowhere.
\* The loop is at k, and found is where the key was found so far.
Get(text, i, key) ==
    LET get[k \in Places(text)] == [found \in 0..Len(text) |->
            LookAt(text, key, k, found, ReadKey(text[k].units, LookupCap), Skip(text, k + 2), get)]
    IN  IF Kind(text, i) = "lbrace" THEN get[i + 1][0] ELSE 0

-----------------------------------------------------------------------------
(* What JSON is: where what starts at a place may end.                      *)

EntryEnds(text, i, open, values) ==
    IF open = "lbracket" THEN values[i]
    ELSE IF IsString(text, i) /\ Kind(text, i + 1) = "colon" THEN values[i + 2] ELSE {}

\* One entry, or one and a comma and a list.
ListEnds(text, open, values) ==
    LET ends[i \in Places(text)] ==
            LET entries == EntryEnds(text, i, open, values)
            IN  entries \union
                UNION {ends[j + 2] : j \in {j \in entries : Kind(text, j + 1) = "comma"}}
    IN  ends

LevelEnds(text, inner) ==
    [i \in Places(text) |->
        {j \in Places(text) :
            \/ j = i /\ IsAtomic(text, i)
            \/ \E open \in {"lbrace", "lbracket"} :
                  /\ Kind(text, i) = open /\ Kind(text, j) = Closing(open)
                  /\ j = i + 1 \/ j - 1 \in ListEnds(text, open, inner)[i + 1]}]

\* At each depth, down to one that is too deep.
ValueEnds(text) ==
    LET ends[depth \in 0..(MaxDepth + 1)] ==
            IF depth > MaxDepth THEN [i \in Places(text) |-> {}]
                                ELSE LevelEnds(text, ends[depth + 1])
    IN  ends

\* The tokens from i to j are a value that is not too deep.
IsValue(text, i, j) == j \in ValueEnds(text)[0][i]
=============================================================================
