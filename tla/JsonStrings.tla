----------------------------- MODULE JsonStrings -----------------------------
(***************************************************************************)
(* The strings of c/src/json.c.  What stands between two quotes is a       *)
(* sequence of units:                                                      *)
(*   raw    the bytes of one character;                                    *)
(*   short  an escape such as \n, for a code point;                        *)
(*   hex    \uXXXX, for a UTF-16 code unit;                                *)
(*   junk   what no string may hold.                                       *)
(***************************************************************************)
EXTENDS Integers, Sequences

Raw(bytes) == [u |-> "raw", bytes |-> bytes, code |-> 0]
Short(byte) == [u |-> "short", bytes |-> << >>, code |-> byte]
Hex(code) == [u |-> "hex", bytes |-> << >>, code |-> code]
Junk == [u |-> "junk", bytes |-> << >>, code |-> 0]

Quote == 34
Backslash == 92

-----------------------------------------------------------------------------
(* Characters.                                                              *)

Between(n, low, high) == low <= n /\ n <= high
\* is_utf8_cont.
IsCont(b, i) == i \in DOMAIN b /\ Between(b[i], 128, 191)

\* Mutant: surrogates pass as three-byte characters.
RawLenWithSurrogates(b) ==
    CASE Between(b[1], 32, 127)  -> 1
      [] Between(b[1], 194, 223) /\ IsCont(b, 2) -> 2
      [] Between(b[1], 225, 239) /\ IsCont(b, 2) /\ IsCont(b, 3) -> 3
      [] b[1] = 224 /\ IsCont(b, 2) /\ b[2] >= 160 /\ IsCont(b, 3) -> 3
      [] Between(b[1], 241, 243) /\ IsCont(b, 2) /\ IsCont(b, 3) /\ IsCont(b, 4) -> 4
      [] b[1] = 240 /\ IsCont(b, 2) /\ b[2] >= 144 /\ IsCont(b, 3) /\ IsCont(b, 4) -> 4
      [] b[1] = 244 /\ IsCont(b, 2) /\ b[2] <= 143 /\ IsCont(b, 3) /\ IsCont(b, 4) -> 4
      [] OTHER -> 0

\* raw_utf8_len: the length of the character at the start of the bytes, 0 for none.
RawLen(b) ==
    CASE Between(b[1], 32, 127)  -> 1
      [] Between(b[1], 194, 223) /\ IsCont(b, 2) -> 2
      [] Between(b[1], 225, 239) /\ b[1] # 237 /\ IsCont(b, 2) /\ IsCont(b, 3) -> 3
      [] b[1] = 224 /\ IsCont(b, 2) /\ b[2] >= 160 /\ IsCont(b, 3) -> 3
      [] b[1] = 237 /\ IsCont(b, 2) /\ b[2] <= 159 /\ IsCont(b, 3) -> 3
      [] Between(b[1], 241, 243) /\ IsCont(b, 2) /\ IsCont(b, 3) /\ IsCont(b, 4) -> 4
      [] b[1] = 240 /\ IsCont(b, 2) /\ b[2] >= 144 /\ IsCont(b, 3) /\ IsCont(b, 4) -> 4
      [] b[1] = 244 /\ IsCont(b, 2) /\ b[2] <= 143 /\ IsCont(b, 3) /\ IsCont(b, 4) -> 4
      [] OTHER -> 0

IsSurrogate(cp) == Between(cp, 55296, 57343)
SixBits(cp, shift) == 128 + ((cp \div shift) % 64)
TwoBytes(cp) == <<192 + cp \div 64, SixBits(cp, 1)>>
ThreeBytes(cp) == <<224 + cp \div 4096, SixBits(cp, 64), SixBits(cp, 1)>>
FourBytes(cp) == <<240 + cp \div 262144, SixBits(cp, 4096), SixBits(cp, 64), SixBits(cp, 1)>>

\* append_codepoint: the bytes of a code point, none for a surrogate.
Encode(cp) ==
    IF cp <= 127 THEN <<cp>>
    ELSE IF cp <= 2047 THEN TwoBytes(cp)
    ELSE IF IsSurrogate(cp) THEN << >>
    ELSE IF cp <= 65535 THEN ThreeBytes(cp)
    ELSE IF cp <= 1114111 THEN FourBytes(cp)
    ELSE << >>

-----------------------------------------------------------------------------
(* Reading.                                                                 *)

High(unit) == unit.u = "hex" /\ Between(unit.code, 55296, 56319)
Low(unit) == unit.u = "hex" /\ Between(unit.code, 56320, 57343)
PairOf(high, low) == 65536 + (high.code - 55296) * 1024 + (low.code - 56320)

\* A character between the quotes: one that neither ends the string nor starts an
\* escape.
IsWholeChar(b) == b[1] \notin {Quote, Backslash} /\ RawLen(b) = Len(b)

\* Mutant: half of a pair is read as nothing.
TakenByHalves(units, i) ==
    LET unit == units[i]
        paired == i < Len(units) /\ Low(units[i + 1])
    IN  CASE unit.u = "raw" /\ IsWholeChar(unit.bytes) -> [n |-> 1, bytes |-> unit.bytes]
          [] unit.u = "short" -> [n |-> 1, bytes |-> <<unit.code>>]
          [] High(unit) /\ paired -> [n |-> 2, bytes |-> Encode(PairOf(unit, units[i + 1]))]
          [] unit.u = "hex" /\ ~(High(unit) /\ paired) -> [n |-> 1, bytes |-> Encode(unit.code)]
          [] OTHER -> [n |-> 0, bytes |-> << >>]

\* What one turn of the loop of read_json_string_impl reads at i: how many units, none
\* when it fails, and the bytes they stand for.
Taken(units, i) ==
    LET unit == units[i]
        paired == i < Len(units) /\ Low(units[i + 1])
    IN  CASE unit.u = "raw" /\ IsWholeChar(unit.bytes) -> [n |-> 1, bytes |-> unit.bytes]
          [] unit.u = "short" -> [n |-> 1, bytes |-> <<unit.code>>]
          [] High(unit) /\ paired -> [n |-> 2, bytes |-> Encode(PairOf(unit, units[i + 1]))]
          [] unit.u = "hex" /\ ~IsSurrogate(unit.code) -> [n |-> 1, bytes |-> Encode(unit.code)]
          [] OTHER -> [n |-> 0, bytes |-> << >>]

NoString == [ok |-> FALSE, bytes |-> << >>]
Behind(bytes, rest) == IF rest.ok THEN [ok |-> TRUE, bytes |-> bytes \o rest.bytes] ELSE NoString

\* What a turn at i and the turns after it make together.
ReadOn(taken, i, from) ==
    IF taken.n = 0 THEN NoString ELSE Behind(taken.bytes, from[i + taken.n])

\* read_json_string_impl: the decoded bytes, if the units are a string.
Decode(units) ==
    LET from[i \in 1..(Len(units) + 1)] ==
            IF i > Len(units) THEN [ok |-> TRUE, bytes |-> << >>]
            ELSE ReadOn(Taken(units, i), i, from)
    IN  from[1]

\* A key as strcmp reads it: up to its first NUL.
CString(bytes) ==
    LET nuls == {i \in DOMAIN bytes : bytes[i] = 0}
    IN  IF nuls = {} THEN bytes
        ELSE SubSeq(bytes, 1, (CHOOSE i \in nuls : \A j \in nuls : i <= j) - 1)
ReadKey(units, cap) ==
    LET key == Decode(units)
    IN  [ok |-> key.ok /\ Len(key.bytes) <= cap, key |-> CString(key.bytes)]

-----------------------------------------------------------------------------
(* Writing.                                                                 *)

ShortEscapes == {Quote, Backslash, 8, 12, 10, 13, 9}

\* Mutant: a backslash is written as it is.
WrittenBackslash(bytes) ==
    CASE bytes[1] \in ShortEscapes \ {Backslash} -> [n |-> 1, unit |-> Short(bytes[1])]
      [] bytes[1] \notin ShortEscapes /\ bytes[1] < 32 -> [n |-> 1, unit |-> Hex(bytes[1])]
      [] bytes[1] = Backslash \/ (bytes[1] \notin ShortEscapes /\ bytes[1] >= 32) ->
            [n |-> RawLen(bytes), unit |-> Raw(SubSeq(bytes, 1, RawLen(bytes)))]

\* What one turn of the loop of tf_json_write_string makes of the start of the bytes:
\* how many it takes, none when it fails, and the unit it writes for them.
Written(bytes) ==
    CASE bytes[1] \in ShortEscapes -> [n |-> 1, unit |-> Short(bytes[1])]
      [] bytes[1] \notin ShortEscapes /\ bytes[1] < 32 -> [n |-> 1, unit |-> Hex(bytes[1])]
      [] bytes[1] \notin ShortEscapes /\ bytes[1] >= 32 ->
            [n |-> RawLen(bytes), unit |-> Raw(SubSeq(bytes, 1, RawLen(bytes)))]

From(bytes, i) == SubSeq(bytes, i, Len(bytes))

\* tf_json_write_string of a C string; it fails, here with junk, on bytes that are
\* no UTF-8.
WriteString(bytes) ==
    LET from[i \in 1..(Len(bytes) + 1)] ==
            IF i > Len(bytes) THEN << >>
            ELSE IF Written(From(bytes, i)).n = 0 THEN <<Junk>>
            ELSE <<Written(From(bytes, i)).unit>> \o from[i + Written(From(bytes, i)).n]
    IN  from[1]
=============================================================================
