------------------------------ MODULE TextCalls ------------------------------
(***************************************************************************)
(* The calls of RegexCalls and JsonCalls side by side, and with them       *)
(* tf_json_equal of c/src/json.c, called on the texts of two trees.        *)
(***************************************************************************)
EXTENDS RegexCalls, Json, JsonCalls

CONSTANTS Trees  \* the values compared

\* tf_json_equal.
Compare ==
    \E a, b \in Trees :
        Call("compare", <<a, b>>, Equal(Render(a) \o Render(b), 1, Len(Render(a)) + 1))

TextNext == op = "none" /\ Compare
TextSpec == Init /\ [][TextNext \/ SearchNext \/ Next]_vars

-----------------------------------------------------------------------------

\* Two values are equal exactly when they are the same JSON value and every object in
\* them fits the buffer its keys are collected into, 128 of 95 bytes: the order of the
\* members and the spelling of strings do not count, their number and their values do;
\* an object that does not fit equals nothing, not even itself (json.c tf_json_equal,
\* which enum, const and uniqueItems stand on).  Of objects that name no key twice, and
\* none with a NUL.
EqualIsValueEquality ==
    op = "compare" =>
        answer = (Same(input[1], input[2]) /\ Collectable(input[1]))
=============================================================================
