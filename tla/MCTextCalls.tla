----------------------------- MODULE MCTextCalls -----------------------------
(* Bounded inputs for the entry points of regex.c and json.c. *)
EXTENDS TextCalls

MCByteOrder == <<"\n", "space", "$", "(", ")", "*", "+", "comma", "-", ".", "0", "1", "2", "?",
                 "[", "\\", "]", "^", "a", "b", "c", "d", "n", "s", "w", "lbrace", "|", "rbrace">>
MCDigits == {"0", "1", "2"}
MCLetters == {"a", "b", "c", "d", "n", "s", "w"}
MCSpaces == {"space", "\n"}

Piece(text, set) == [text |-> text, set |-> set]
MCPieces == {Piece(<<"a">>, {"a"}),
             Piece(<<".">>, Bytes \ {"\n"}),
             Piece(<<"[", "^", "a", "-", "b", "]">>, Bytes \ {"a", "b"}),
             Piece(<<"[", "]", "b", "-", "c", "\\", "d", "]">>, {"]", "b", "c"} \union MCDigits)}
Times(text, min, max) == [text |-> text, bounds |-> <<min, max>>]
MCQuantifiers == {Times(<< >>, 1, 1), Times(<<"*">>, 0, Unbounded), Times(<<"?">>, 0, 1),
                  Times(<<"+", "?">>, 1, Unbounded), Times(<<"lbrace", "2", "rbrace">>, 2, 2),
                  Times(<<"lbrace", "0", "comma", "2", "rbrace">>, 0, 2)}
MCSubjects == SeqsUpTo({"a", "b"}, 3) \union {<<"a", "c">>, <<"\n", "a">>, <<"2", "]">>}
MCSyntax == {"a", "b", "(", "|", "\\", "?"}

Str(byte) == StringToken(<<Raw(<<byte>>)>>)
MCTokens == {Str(97), StringToken(<<Hex(55357)>>)}
            \union {Token(kind) : kind \in {"lbrace", "rbrace", "lbracket", "rbracket", "comma", "colon"}}
MCTexts == SeqsUpTo(MCTokens, 5) \union SeqsUpTo({Str(97), Token("lbracket"), Token("rbracket")}, 7)

MCObjectKeys == {<<Raw(<<97>>)>>, <<Hex(97)>>, <<Raw(<<98>>)>>,
                 <<Raw(<<195, 169>>), Raw(<<97>>)>>}
Num(n) == [num |-> n]
Word(w) == [word |-> w]
Text(units) == [str |-> units]
List(items) == [arr |-> items]
Member(key, value) == [key |-> <<Raw(<<key>>)>>, value |-> value]
Object(members) == [obj |-> members]
MCValues == {<<NumberToken(10)>>, <<Token("lbrace"), Str(97), Token("colon"), NumberToken(20), Token("rbrace")>>}

Pair == <<Hex(55357), Hex(56832)>>
Leaves == {Num(10), Word("true"), Text(Pair), Text(<<Raw(<<240, 159, 152, 128>>)>>)}
MCTrees ==
    LET objects == {Object(<<Member(k, a), Member(l, b)>>) :
                        k \in {97, 98}, l \in {97, 98, 99}, a, b \in {Num(10), Word("true")}}
        flat == Leaves \union {Object(<< >>), List(<< >>)}
                \union {Object(<<Member(97, leaf)>>) : leaf \in Leaves}
                \union {t \in objects : DistinctKeys(t)}
                \union {Object(<<Member(k, Num(10)), Member(l, Num(10)), Member(99, a)>>) :
                            <<k, l>> \in {<<97, 98>>, <<98, 97>>}, a \in {Num(10), Word("true")}}
                \union {Object(<<[key |-> key, value |-> Num(10)]>>) :
                            key \in {<<Raw(<<97>>), Raw(<<98>>)>>, <<Hex(97), Raw(<<98>>)>>}}
                \union {List(<<a, b>>) : a, b \in {Num(10), Text(Pair)}}
    IN  flat \union {List(<<t>>) : t \in flat} \union {Object(<<Member(98, t)>>) : t \in flat}

MCLeads == {0, 31, 32, 127, 128, 191, 192, 193, 194, 223, 224, 225, 236, 237, 238, 239, 240,
            241, 243, 244, 245, 247, 248, 255}
MCTrails == {0, 127, 128, 143, 144, 159, 160, 191, 192}
MCContents == {1, 10, 34, 92, 97, 169, 195, 226, 237}
MCUnits == {Raw(<<97>>), Raw(<<34>>), Raw(<<195, 169>>), Raw(<<237, 160, 128>>), Short(10), Junk,
            Hex(0), Hex(233), Hex(55296), Hex(56319), Hex(56320), Hex(57343), Hex(65535)}
=============================================================================
