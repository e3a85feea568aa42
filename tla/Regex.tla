-------------------------------- MODULE Regex --------------------------------
(***************************************************************************)
(* c/src/regex.c: the flat regular expressions of JSON Schema patterns.  A *)
(* pattern is compiled to a sequence of atoms, each a set of bytes with a  *)
(* quantifier or an anchor, and searched for by backtracking.              *)
(*                                                                         *)
(* A pattern and a text are sequences of bytes, and a byte is a string: it *)
(* or its name.  The end of a pattern reads as End, its NUL.  A loop over  *)
(* a pattern or a text is a function of the place it is at.                *)
(***************************************************************************)
EXTENDS Integers, Sequences, FiniteSets

CONSTANTS
    ByteOrder, \* the bytes that occur, in their order
    Digits, Letters, Spaces, \* of them, the ones of \d, \w (with Digits and the underscore) and \s
    MaxAtoms   \* RX_MAX_ATOMS

End == "END"
Bytes == {ByteOrder[i] : i \in DOMAIN ByteOrder}

ASSUME RegexAssumption ==
    /\ \A i, j \in DOMAIN ByteOrder : ByteOrder[i] = ByteOrder[j] => i = j
    /\ End \notin Bytes
    /\ Digits \subseteq Bytes \cap {"0", "1", "2", "3", "4", "5", "6", "7", "8", "9"}
    /\ MaxAtoms \in Nat

Code(byte) == CHOOSE i \in DOMAIN ByteOrder : ByteOrder[i] = byte
At(pattern, i) == IF i <= Len(pattern) THEN pattern[i] ELSE End
Turns(pattern) == 1..(Len(pattern) + 1)

\* Where a loop from a place on stops that goes on at the places of a set.
LoopEnd(from, to, on) == CHOOSE k \in from..to : k \notin on /\ \A j \in from..(k - 1) : j \in on

Unbounded == -1
Atom(kind, set, quantifier) ==
    [kind |-> kind, set |-> set, min |-> quantifier[1], max |-> quantifier[2]]
Once == <<1, 1>>
Refused == [ok |-> FALSE]
Compiled(kind, set, next) == [ok |-> TRUE, kind |-> kind, set |-> set, next |-> next]

-----------------------------------------------------------------------------
(* Compiling.                                                               *)

ShorthandNames == {"d", "D", "w", "W", "s", "S"}
Shorthand(name) ==
    LET words == Digits \union Letters \union {"underscore"}
    IN  CASE name = "d" -> Digits [] name = "D" -> Bytes \ Digits
          [] name = "w" -> words  [] name = "W" -> Bytes \ words
          [] name = "s" -> Spaces [] name = "S" -> Bytes \ Spaces

\* The byte an escape stands for; \n and its like are controls, others themselves.
Controls == [n |-> "\n", t |-> "\t", r |-> "\r", f |-> "\f", v |-> "VT"]
EscapeLiteral(e) ==
    IF e \in DOMAIN Controls THEN Controls[e] ELSE IF e = "0" THEN "NUL" ELSE e

\* An end of a range inside a class, or a shorthand: what is at i, and what comes next.
Element(pattern, i, isHigh) ==
    LET byte == At(pattern, i)
        escaped == At(pattern, i + 1)
    IN  IF byte # "\\" THEN [ok |-> TRUE, short |-> FALSE, byte |-> byte, next |-> i + 1]
        ELSE IF escaped = End THEN Refused
        ELSE IF escaped \in ShorthandNames
             THEN IF isHigh THEN Refused
                  ELSE [ok |-> TRUE, short |-> TRUE, byte |-> escaped, next |-> i + 2]
        ELSE IF escaped \in {"p", "P"} /\ ~isHigh THEN Refused
        ELSE [ok |-> TRUE, short |-> FALSE, byte |-> EscapeLiteral(escaped), next |-> i + 2]

RangeOf(low, high) == {byte \in Bytes : Code(low) <= Code(byte) /\ Code(byte) <= Code(high)}

\* The bytes of a member, and what the rest of the class holds.
Added(set, rest) == IF rest.ok THEN [rest EXCEPT !.set = set \union @] ELSE Refused
ClassRange(low, high, rest) ==
    IF ~high.ok \/ Code(high.byte) < Code(low.byte) THEN Refused
    ELSE Added(RangeOf(low.byte, high.byte), rest[high.next])
IsDashed(pattern, i) == At(pattern, i) = "-" /\ At(pattern, i + 1) \notin {"]", End}
MemberFrom(pattern, low, rest) ==
    IF ~low.ok THEN Refused
    ELSE IF low.short THEN Added(Shorthand(low.byte), rest[low.next])
    ELSE IF ~IsDashed(pattern, low.next) THEN Added({low.byte}, rest[low.next])
    ELSE ClassRange(low, Element(pattern, low.next + 1, TRUE), rest)

\* One member of a class, the byte or shorthand or range at i, and the rest of it.
ClassMember(pattern, i, rest) == MemberFrom(pattern, Element(pattern, i, FALSE), rest)

\* What a class holds from each place on.
ClassBody(pattern) ==
    LET rest[i \in Turns(pattern)] ==
            IF At(pattern, i) = End THEN Refused
            ELSE IF At(pattern, i) = "]" THEN Compiled("one", {}, i + 1)
            ELSE ClassMember(pattern, i, rest)
    IN  rest

\* A "]" in the first place is a member.
ClassMembers(pattern, first) ==
    IF At(pattern, first) = End THEN Refused
    ELSE ClassMember(pattern, first, ClassBody(pattern))
Negated(body, negated) == IF body.ok /\ negated THEN [body EXCEPT !.set = Bytes \ @] ELSE body
FirstMember(pattern, i) == IF At(pattern, i) = "^" THEN i + 1 ELSE i
Class(pattern, i) ==
    Negated(ClassMembers(pattern, FirstMember(pattern, i)), At(pattern, i) = "^")

NotAnAtom == {"(", ")", "|", "*", "+", "?", "lbrace"}

\* Outside a class; \p, word boundaries and backreferences are refused too.
Unquantified(pattern, i) ==
    LET byte == At(pattern, i)
        escaped == At(pattern, i + 1)
    IN  CASE byte \in NotAnAtom -> Refused
          [] byte = "^" -> Compiled("start", {}, i + 1)
          [] byte = "$" -> Compiled("end", {}, i + 1)
          [] byte = "." -> Compiled("one", Bytes \ {"\n"}, i + 1)
          [] byte = "[" -> Class(pattern, i + 1)
          [] byte = "\\" ->
                IF escaped \in ShorthandNames THEN Compiled("one", Shorthand(escaped), i + 2)
                ELSE IF escaped \in {End, "p", "P", "b", "B"} \union (Digits \ {"0"})
                     THEN Refused
                ELSE Compiled("one", {EscapeLiteral(escaped)}, i + 2)
          [] OTHER -> Compiled("one", {byte}, i + 1)

DigitValue(byte) == Code(byte) - Code("0")

Decimal(digits) ==
    LET value[k \in 0..Len(digits)] ==
            IF k = 0 THEN 0 ELSE 10 * value[k - 1] + DigitValue(digits[k])
    IN  value[Len(digits)]

\* A decimal number from i on; next is i when there is none.
Number(pattern, i) ==
    LET NumberTo(next) == [value |-> Decimal(SubSeq(pattern, i, next - 1)), next |-> next]
    IN  NumberTo(LoopEnd(i, Len(pattern) + 1, {k \in DOMAIN pattern : pattern[k] \in Digits}))

\* {n}, {n,} and {n,m}; anything else in braces is left where it is.
Braced(pattern, i, low, max, close) ==
    IF low.next > i + 1 /\ At(pattern, close) = "rbrace"
    THEN [bounds |-> <<low.value, max>>, next |-> close + 1]
    ELSE [bounds |-> Once, next |-> i]
BracesTo(pattern, i, low, high) ==
    Braced(pattern, i, low, IF high.next = low.next + 1 THEN Unbounded ELSE high.value, high.next)
BracesFrom(pattern, i, low) ==
    IF At(pattern, low.next) # "comma" THEN Braced(pattern, i, low, low.value, low.next)
    ELSE BracesTo(pattern, i, low, Number(pattern, low.next + 1))
Braces(pattern, i) == BracesFrom(pattern, i, Number(pattern, i + 1))

Quantifier(pattern, i) ==
    LET byte == At(pattern, i)
    IN  CASE byte = "*" -> [bounds |-> <<0, Unbounded>>, next |-> i + 1]
          [] byte = "+" -> [bounds |-> <<1, Unbounded>>, next |-> i + 1]
          [] byte = "?" -> [bounds |-> <<0, 1>>, next |-> i + 1]
          [] byte = "lbrace" -> Braces(pattern, i)
          [] OTHER      -> [bounds |-> Once, next |-> i]

\* The "?" of a lazy quantifier is skipped, except after {1}.
LazyMark(pattern, quantifier) ==
    IF At(pattern, quantifier.next) = "?" /\ quantifier.bounds # Once
    THEN [quantifier EXCEPT !.next = @ + 1] ELSE quantifier
Quantified(pattern, i) == LazyMark(pattern, Quantifier(pattern, i))

\* An anchor takes no quantifier.
Suffix(pattern, atom) ==
    IF atom.kind = "one" THEN Quantified(pattern, atom.next)
                         ELSE [bounds |-> Once, next |-> atom.next]

\* An atom and its quantifier, and what is compiled from behind them on.
Prefixed(atom, rest) ==
    IF ~rest.ok THEN Refused ELSE [ok |-> TRUE, atoms |-> <<atom>> \o rest.atoms]
CompileSuffix(atom, suffix, n, from) ==
    Prefixed(Atom(atom.kind, atom.set, suffix.bounds), from[suffix.next][n + 1])
CompileAtom(pattern, atom, n, from) ==
    IF ~atom.ok THEN Refused ELSE CompileSuffix(atom, Suffix(pattern, atom), n, from)

\* rx_compile: from each place on, where n atoms have been compiled before.
Compile(pattern) ==
    LET from[i \in Turns(pattern)] == [n \in 0..MaxAtoms |->
            IF At(pattern, i) = End THEN [ok |-> TRUE, atoms |-> << >>]
            ELSE IF n = MaxAtoms THEN Refused
            ELSE CompileAtom(pattern, Unquantified(pattern, i), n, from)]
    IN  from[1][0]

-----------------------------------------------------------------------------
(* Searching.                                                               *)

\* How many bytes behind pos the atom takes when it takes all it can.
Greedy(atom, text, pos) ==
    LoopEnd(0, Len(text) - pos,
            {k \in 0..(Len(text) - pos - 1) :
                /\ atom.max = Unbounded \/ k < atom.max
                /\ text[pos + k + 1] \in atom.set})

\* Mutant: the atom gives nothing back.
PossessiveTakes(atom, text, pos) ==
    LET k == Greedy(atom, text, pos) IN IF k >= atom.min THEN {k} ELSE {}

\* The numbers of bytes the atom is tried with.
Takes(atom, text, pos) == atom.min..Greedy(atom, text, pos)

\* rx_match_from: the atoms from i on match from pos on; pos counts from 0.
Matches(atoms, text) ==
    LET at[i \in 1..(Len(atoms) + 1)] == [pos \in 0..Len(text) |->
            IF i > Len(atoms) THEN TRUE
            ELSE CASE atoms[i].kind = "start" -> pos = 0 /\ at[i + 1][pos]
                   [] atoms[i].kind = "end" -> pos = Len(text) /\ at[i + 1][pos]
                   [] OTHER -> \E n \in Takes(atoms[i], text, pos) : at[i + 1][pos + n]]
    IN  at

\* tf_regex_search.
SearchCompiled(rx, text) ==
    [supported |-> rx.ok,
     found |-> rx.ok /\ \E start \in 0..Len(text) : Matches(rx.atoms, text)[1][start]]
Search(pattern, text) == SearchCompiled(Compile(pattern), text)

-----------------------------------------------------------------------------
(* What a sequence of atoms means: where a match of the first ones may end. *)

MayTake(atom, text, pos) ==
    {n \in atom.min..(Len(text) - pos) :
        /\ atom.max = Unbounded \/ n <= atom.max
        /\ \A k \in 1..n : text[pos + k] \in atom.set}
EndsAfter(atom, text, pos) ==
    CASE atom.kind = "start" -> {pos} \cap {0}
      [] atom.kind = "end"   -> {pos} \cap {Len(text)}
      [] OTHER               -> {pos + n : n \in MayTake(atom, text, pos)}
Denotes(atoms, text) ==
    LET ends[k \in 0..Len(atoms)] ==
            IF k = 0 THEN 0..Len(text)
            ELSE UNION {EndsAfter(atoms[k], text, pos) : pos \in ends[k - 1]}
    IN  ends[Len(atoms)] # {}
=============================================================================
