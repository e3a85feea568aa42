----------------------------- MODULE RegexCalls ------------------------------
(***************************************************************************)
(* tf_regex_search of c/src/regex.c, called with patterns put together     *)
(* from pieces and with any others.                                        *)
(***************************************************************************)
EXTENDS Regex, Calls

CONSTANTS
    Pieces,      \* [text, set]: how a pattern spells a set of bytes
    Quantifiers, \* [text, bounds]: how it spells a quantifier, a lazy mark included
    MaxPieces, Subjects,   \* pieces in a pattern, and the texts searched
    Syntax, MaxSyntax      \* bytes and length of the patterns that may be refused

\* What a piece or a quantifier means is what the compiler takes from its text alone.
ASSUME PieceAssumption ==
    /\ \A piece \in Pieces :
        /\ piece.text \in Seq(Bytes)
        /\ Unquantified(piece.text, 1) = Compiled("one", piece.set, Len(piece.text) + 1)
    /\ \A quantifier \in Quantifiers :
        /\ quantifier.text \in Seq(Bytes)
        /\ quantifier.bounds \in Nat \X (Nat \union {Unbounded})
        /\ Quantified(quantifier.text, 1)
              = [bounds |-> quantifier.bounds, next |-> Len(quantifier.text) + 1]
    /\ MaxPieces \in Nat /\ MaxPieces + 2 <= MaxAtoms
    /\ {"^", "$"} \subseteq Bytes

\* Any text is searched, and any pattern tried that holds no class.
ASSUME SubjectAssumption ==
    /\ Subjects \subseteq Seq(Bytes)
    /\ Syntax \subseteq Bytes \ {"["} /\ MaxSyntax \in Nat

\* The pattern of the pieces, each with its quantifier, between anchors if any.
Spelled(parts, from, to) ==
    LET spelled[k \in 1..(Len(parts) + 1)] ==
            IF k > Len(parts) THEN IF to THEN <<"$">> ELSE << >>
            ELSE parts[k][1].text \o parts[k][2].text \o spelled[k + 1]
    IN  (IF from THEN <<"^">> ELSE << >>) \o spelled[1]

\* tf_regex_search of a pattern put together from pieces.
SearchFor ==
    \E parts \in SeqsUpTo(Pieces \X Quantifiers, MaxPieces), from, to \in BOOLEAN,
       subject \in Subjects :
        Call("search", [parts |-> parts, from |-> from, to |-> to, subject |-> subject],
             Search(Spelled(parts, from, to), subject))

\* tf_regex_search of any pattern, in a text of its own.
TryPattern ==
    \E pattern \in SeqsUpTo(Syntax, MaxSyntax) :
        Call("try", pattern, Search(pattern, pattern))

SearchNext == op = "none" /\ (SearchFor \/ TryPattern)
SearchSpec == Init /\ [][SearchNext]_vars

-----------------------------------------------------------------------------

\* The atoms of such a pattern, as it is read.
Meant(parts, from, to) ==
    LET anchor(on, kind) == IF on THEN <<Atom(kind, {}, Once)>> ELSE << >>
    IN  anchor(from, "start")
        \o [k \in DOMAIN parts |-> Atom("one", parts[k][1].set, parts[k][2].bounds)]
        \o anchor(to, "end")

\* A supported pattern matches exactly where some choice of counts for its quantifiers
\* spells a part of the text out: backtracking, lazy marks, classes and anchors lose
\* no match and add none.  A group, an alternation or a word boundary is reported as
\* unsupported wherever it stands, never matched as bytes of the text: schemas then
\* treat the pattern as an annotation (regex.c rx_compile, rx_match_from,
\* tf_regex_search).
SearchFindsWhatThePatternDenotes ==
    /\ op = "search" =>
        answer = [supported |-> TRUE,
                  found |-> Denotes(Meant(input.parts, input.from, input.to), input.subject)]
    /\ op = "try" /\ answer.supported =>
        LET backslashes(k) ==
                {j \in 1..(k - 1) : \A l \in j..(k - 1) : input[l] = "\\"}
            Escaped(k) == Cardinality(backslashes(k)) % 2 = 1
        IN  \A k \in DOMAIN input :
                /\ input[k] \in {"(", ")", "|"} => Escaped(k)
                /\ input[k] = "b" => ~Escaped(k)
=============================================================================
