----------------------------- MODULE TextProofs -----------------------------
(***************************************************************************)
(* The strings, the scanner and the lookups of json.c and the searches of  *)
(* regex.c, whatever the bytes, the texts and the patterns.                *)
(*                                                                         *)
(* Strings.  The bits of a code point are put together and taken apart     *)
(* (LowBits to Apart), and the four forms raw_utf8_len tells apart are     *)
(* just those append_codepoint makes (CharLengthsAre, RawLenIs).  What is  *)
(* read and written is followed from the end (ReadsWell, WritesWell).      *)
(*                                                                         *)
(* Scanner.  At every depth and place what is skipped is the one value the *)
(* grammar allows there (LevelAgrees), and it is skipped alike wherever    *)
(* its tokens stand (LevelCarries), so that a lookup meets the members of  *)
(* an object one by one (FindsOn).                                         *)
(*                                                                         *)
(* Searches.  Backtracking loses no match: the numbers of bytes an atom is *)
(* tried with lead to every place its set and bounds allow                 *)
(* (SearchIsComplete). A piece is compiled inside a pattern as it is       *)
(* alone, whatever stands around it (the lemmas named ...There), so that   *)
(* the pattern of the pieces has their atoms (SpelledCompiles). Of any     *)
(* pattern, what is compiled at a place is no group, alternation or word   *)
(* boundary (CompiledIsPlain).                                             *)
(*                                                                         *)
(* The model's recursive functions are taken by the prover for SOME        *)
(* function with that equation: that there is one follows from             *)
(* BackwardExists, AheadExists or BackExists, and what holds of all its    *)
(* values from BackInduction, FallInduction or RiseInduction, which ask    *)
(* for the last or the first place where it fails.                         *)
(***************************************************************************)
EXTENDS JsonCalls, RegexCalls, SequenceTheorems, FiniteSetTheorems, WellFoundedInduction, TLAPS

-----------------------------------------------------------------------------
(* Characters.                                                              *)

\* The bits of a code point, put together six by six, are found again.
LEMMA LowBits ==
    ASSUME NEW x \in Nat, NEW y \in Nat, y <= 63
    PROVE  /\ x * 64 + y \in Nat
           /\ (x * 64 + y) \div 64 = x
           /\ (x * 64 + y) % 64 = y
OBVIOUS

LEMMA TwelveBits ==
    ASSUME NEW x \in Nat, NEW y \in Nat, y <= 63, NEW z \in Nat, z <= 63
    PROVE  LET cp == x * 4096 + y * 64 + z
           IN  /\ cp \in Nat /\ cp \div 4096 = x
               /\ cp \div 64 = x * 64 + y /\ (cp \div 64) % 64 = y
               /\ (cp \div 1) % 64 = z
<1> DEFINE cp == x * 4096 + y * 64 + z
<1>1. cp \in Nat /\ cp = (x * 64 + y) * 64 + z /\ cp \div 1 = cp
  OBVIOUS
<1>2. x * 64 + y \in Nat /\ (x * 64 + y) % 64 = y
  BY LowBits
<1>3. cp \div 64 = x * 64 + y /\ cp % 64 = z
  BY <1>1
<1>4. cp \div 4096 = x
  OBVIOUS
<1> QED
  BY <1>1, <1>2, <1>3, <1>4

LEMMA EighteenBits ==
    ASSUME NEW w \in Nat, NEW x \in Nat, x <= 63, NEW y \in Nat, y <= 63, NEW z \in Nat, z <= 63
    PROVE  LET cp == w * 262144 + x * 4096 + y * 64 + z
           IN  /\ cp \in Nat /\ cp \div 262144 = w
               /\ (cp \div 4096) % 64 = x /\ (cp \div 64) % 64 = y /\ (cp \div 1) % 64 = z
<1> DEFINE cp == w * 262144 + x * 4096 + y * 64 + z
           top == w * 64 + x
<1>1. top \in Nat /\ top % 64 = x
  BY LowBits
<1>2. cp = top * 4096 + y * 64 + z
  OBVIOUS
<1>3. /\ top * 4096 + y * 64 + z \in Nat /\ (top * 4096 + y * 64 + z) \div 4096 = top
      /\ ((top * 4096 + y * 64 + z) \div 64) % 64 = y
      /\ ((top * 4096 + y * 64 + z) \div 1) % 64 = z
  <2> HIDE DEF top
  <2> QED
    BY <1>1, TwelveBits
<1>4. cp \div 262144 = w
  OBVIOUS
<1> HIDE DEF top, cp
<1>5. cp \in Nat /\ cp \div 4096 = top /\ (cp \div 64) % 64 = y /\ (cp \div 1) % 64 = z
  BY <1>2, <1>3
<1> QED
  BY <1>1, <1>4, <1>5 DEF cp

\* The encoding of a code point is as long as its bits need, and none for a surrogate.
LEMMA EncodeIs ==
    ASSUME NEW cp \in Nat
    PROVE  /\ cp <= 127 => Encode(cp) = <<cp>>
           /\ 128 <= cp /\ cp <= 2047 => Encode(cp) = TwoBytes(cp)
           /\ 2048 <= cp /\ cp <= 65535 /\ ~IsSurrogate(cp) => Encode(cp) = ThreeBytes(cp)
           /\ 65536 <= cp /\ cp <= 1114111 => Encode(cp) = FourBytes(cp)
           /\ IsSurrogate(cp) \/ cp > 1114111 => Encode(cp) = << >>
BY DEF Encode, IsSurrogate, Between

LEMMA TupleOne == ASSUME NEW S, NEW s \in Seq(S), Len(s) = 1 PROVE s = <<s[1]>>
OBVIOUS
LEMMA TupleTwo == ASSUME NEW S, NEW s \in Seq(S), Len(s) = 2 PROVE s = <<s[1], s[2]>>
OBVIOUS
LEMMA TupleThree == ASSUME NEW S, NEW s \in Seq(S), Len(s) = 3 PROVE s = <<s[1], s[2], s[3]>>
OBVIOUS
LEMMA TupleFour == ASSUME NEW S, NEW s \in Seq(S), Len(s) = 4 PROVE s = <<s[1], s[2], s[3], s[4]>>
OBVIOUS

\* A beginning of a sequence has its elements.
LEMMA BeginningOf ==
    ASSUME NEW S, NEW b \in Seq(S), NEW n \in Nat, n <= Len(b)
    PROVE  /\ SubSeq(b, 1, n) \in Seq(S) /\ Len(SubSeq(b, 1, n)) = n
           /\ \A k \in 1..n : SubSeq(b, 1, n)[k] = b[k]
<1>1. \A k \in 1..Len(b) : b[k] \in S
  BY LenProperties
<1>2. Len(b) \in Nat
  BY LenProperties
<1>3. \A k \in 1..n : b[k] \in S
  BY <1>1, <1>2
<1>4. /\ SubSeq(b, 1, n) \in Seq(S)
      /\ Len(SubSeq(b, 1, n)) = IF 1 <= n THEN n - 1 + 1 ELSE 0
      /\ \A k \in 1..(n - 1 + 1) : SubSeq(b, 1, n)[k] = b[1 + k - 1]
  BY <1>3, SubSeqProperties
<1> QED
  BY <1>4

\* As a tuple.
LEMMA Beginnings ==
    ASSUME NEW S, NEW b \in Seq(S)
    PROVE  /\ 1 <= Len(b) => SubSeq(b, 1, 1) = <<b[1]>>
           /\ 2 <= Len(b) => SubSeq(b, 1, 2) = <<b[1], b[2]>>
           /\ 3 <= Len(b) => SubSeq(b, 1, 3) = <<b[1], b[2], b[3]>>
           /\ 4 <= Len(b) => SubSeq(b, 1, 4) = <<b[1], b[2], b[3], b[4]>>
<1>1. ASSUME 1 <= Len(b) PROVE SubSeq(b, 1, 1) = <<b[1]>>
  <2> DEFINE s == SubSeq(b, 1, 1)
  <2>1. s \in Seq(S) /\ Len(s) = 1 /\ s[1] = b[1]
    BY <1>1, BeginningOf
  <2> HIDE DEF s
  <2> QED
    BY <2>1, TupleOne DEF s
<1>2. ASSUME 2 <= Len(b) PROVE SubSeq(b, 1, 2) = <<b[1], b[2]>>
  <2> DEFINE s == SubSeq(b, 1, 2)
  <2>1. s \in Seq(S) /\ Len(s) = 2 /\ s[1] = b[1] /\ s[2] = b[2]
    BY <1>2, BeginningOf
  <2> HIDE DEF s
  <2>2. s = <<s[1], s[2]>>
    BY <2>1, TupleTwo
  <2> QED
    BY <2>1, <2>2 DEF s
<1>3. ASSUME 3 <= Len(b) PROVE SubSeq(b, 1, 3) = <<b[1], b[2], b[3]>>
  <2> DEFINE s == SubSeq(b, 1, 3)
  <2>1. s \in Seq(S) /\ Len(s) = 3 /\ s[1] = b[1] /\ s[2] = b[2] /\ s[3] = b[3]
    BY <1>3, BeginningOf
  <2> HIDE DEF s
  <2>2. s = <<s[1], s[2], s[3]>>
    BY <2>1, TupleThree
  <2> QED
    BY <2>1, <2>2 DEF s
<1>4. ASSUME 4 <= Len(b) PROVE SubSeq(b, 1, 4) = <<b[1], b[2], b[3], b[4]>>
  <2> DEFINE s == SubSeq(b, 1, 4)
  <2>1. s \in Seq(S) /\ Len(s) = 4 /\ s[1] = b[1] /\ s[2] = b[2] /\ s[3] = b[3] /\ s[4] = b[4]
    BY <1>4, BeginningOf
  <2> HIDE DEF s
  <2>2. s = <<s[1], s[2], s[3], s[4]>>
    BY <2>1, TupleFour
  <2> QED
    BY <2>1, <2>2 DEF s
<1> QED
  BY <1>1, <1>2, <1>3, <1>4

LEMMA ElementsOf == ASSUME NEW S, NEW b \in Seq(S) PROVE \A k \in 1..Len(b) : b[k] \in S
BY LenProperties

\* A byte and its bits.
LEMMA Divided ==
    ASSUME NEW x \in Nat
    PROVE  /\ x \div 64 \in Nat /\ x % 64 \in Nat /\ x % 64 <= 63 /\ x = (x \div 64) * 64 + (x % 64)
           /\ x \div 32 \in Nat /\ x % 32 \in Nat /\ x % 32 <= 31 /\ x = (x \div 32) * 32 + (x % 32)
           /\ x \div 16 \in Nat /\ x % 16 \in Nat /\ x % 16 <= 15 /\ x = (x \div 16) * 16 + (x % 16)
           /\ x \div 8 \in Nat /\ x % 8 \in Nat /\ x % 8 <= 7 /\ x = (x \div 8) * 8 + (x % 8)
<1>64a. x \div 64 \in Nat
  OBVIOUS
<1>64b. x % 64 \in Nat /\ x % 64 <= 63
  OBVIOUS
<1>64c. x = (x \div 64) * 64 + (x % 64)
  OBVIOUS
<1>32a. x \div 32 \in Nat
  OBVIOUS
<1>32b. x % 32 \in Nat /\ x % 32 <= 31
  OBVIOUS
<1>32c. x = (x \div 32) * 32 + (x % 32)
  OBVIOUS
<1>16a. x \div 16 \in Nat
  OBVIOUS
<1>16b. x % 16 \in Nat /\ x % 16 <= 15
  OBVIOUS
<1>16c. x = (x \div 16) * 16 + (x % 16)
  OBVIOUS
<1>8a. x \div 8 \in Nat
  OBVIOUS
<1>8b. x % 8 \in Nat /\ x % 8 <= 7
  OBVIOUS
<1>8c. x = (x \div 8) * 8 + (x % 8)
  OBVIOUS
<1> QED
  BY <1>64a, <1>64b, <1>64c, <1>32a, <1>32b, <1>32c, <1>16a, <1>16b, <1>16c, <1>8a, <1>8b, <1>8c, Zenon

\* The bits of a byte say what kind of byte it is.
LEMMA ByteKinds ==
    ASSUME NEW x \in Nat, x <= 255
    PROVE  /\ x % 64 \in Nat /\ x % 64 <= 63 /\ (x = 128 + (x % 64) <=> Between(x, 128, 191))
           /\ x % 32 \in Nat /\ x % 32 <= 31 /\ (x = 192 + (x % 32) <=> Between(x, 192, 223))
           /\ x % 16 \in Nat /\ x % 16 <= 15 /\ (x = 224 + (x % 16) <=> Between(x, 224, 239))
           /\ x % 8 \in Nat /\ x % 8 <= 7 /\ (x = 240 + (x % 8) <=> Between(x, 240, 247))
<1>1. /\ x \div 64 \in Nat /\ x % 64 \in Nat /\ x % 64 <= 63 /\ x = (x \div 64) * 64 + (x % 64)
      /\ x \div 32 \in Nat /\ x % 32 \in Nat /\ x % 32 <= 31 /\ x = (x \div 32) * 32 + (x % 32)
      /\ x \div 16 \in Nat /\ x % 16 \in Nat /\ x % 16 <= 15 /\ x = (x \div 16) * 16 + (x % 16)
      /\ x \div 8 \in Nat /\ x % 8 \in Nat /\ x % 8 <= 7 /\ x = (x \div 8) * 8 + (x % 8)
  BY Divided
<1>2. x = 128 + (x % 64) <=> Between(x, 128, 191)
  <2> DEFINE q == x \div 64
             r == x % 64
  <2>1. q \in Nat /\ r \in Nat /\ r <= 63 /\ x = q * 64 + r
    BY <1>1
  <2> HIDE DEF q, r
  <2>2. x = 128 + r <=> Between(x, 128, 191)
    BY <2>1 DEF Between
  <2> QED
    BY <2>2 DEF r
<1>3. x = 192 + (x % 32) <=> Between(x, 192, 223)
  <2> DEFINE q == x \div 32
             r == x % 32
  <2>1. q \in Nat /\ r \in Nat /\ r <= 31 /\ x = q * 32 + r
    BY <1>1
  <2> HIDE DEF q, r
  <2>2. x = 192 + r <=> Between(x, 192, 223)
    BY <2>1 DEF Between
  <2> QED
    BY <2>2 DEF r
<1>4. x = 224 + (x % 16) <=> Between(x, 224, 239)
  <2> DEFINE q == x \div 16
             r == x % 16
  <2>1. q \in Nat /\ r \in Nat /\ r <= 15 /\ x = q * 16 + r
    BY <1>1
  <2> HIDE DEF q, r
  <2>2. x = 224 + r <=> Between(x, 224, 239)
    BY <2>1 DEF Between
  <2> QED
    BY <2>2 DEF r
<1>5. x = 240 + (x % 8) <=> Between(x, 240, 247)
  <2> DEFINE q == x \div 8
             r == x % 8
  <2>1. q \in Nat /\ r \in Nat /\ r <= 7 /\ x = q * 8 + r
    BY <1>1
  <2> HIDE DEF q, r
  <2>2. x = 240 + r <=> Between(x, 240, 247)
    BY <2>1 DEF Between
  <2> QED
    BY <2>2 DEF r
<1> QED
  BY <1>1, <1>2, <1>3, <1>4, <1>5, Zenon

\* When the encoding of a code point, given by its bits, has a length, and what it is then.
LEMMA OneByteOf ==
    ASSUME NEW x \in Nat, x <= 255
    PROVE  Encode(x) = <<x>> <=> x <= 127
<1>1. x <= 127 => Encode(x) = <<x>>
  BY EncodeIs
<1>2. x > 127 => Encode(x) = TwoBytes(x)
  BY EncodeIs
<1>3. TwoBytes(x) # <<x>>
  BY DEF TwoBytes
<1> QED
  BY <1>1, <1>2, <1>3

LEMMA TwoBytesOf ==
    ASSUME NEW p \in Nat, p <= 31, NEW q \in Nat, q <= 63, NEW x \in Nat, NEW y \in Nat
    PROVE  Encode(p * 64 + q) = <<x, y>> <=> p >= 2 /\ x = 192 + p /\ y = 128 + q
<1> DEFINE cp == p * 64 + q
<1>1. cp \in Nat /\ cp \div 64 = p /\ cp % 64 = q /\ cp \div 1 = cp
  BY LowBits
<1>2. cp <= 2047 /\ (cp <= 127 <=> p < 2)
  OBVIOUS
<1> HIDE DEF cp
<1>3. CASE p < 2
  <2>1. Encode(cp) = <<cp>>
    BY <1>1, <1>2, <1>3, EncodeIs
  <2> QED
    BY <2>1, <1>3 DEF cp
<1>4. CASE p >= 2
  <2>1. Encode(cp) = TwoBytes(cp)
    BY <1>1, <1>2, <1>4, EncodeIs
  <2>2. TwoBytes(cp) = <<192 + p, 128 + q>>
    BY <1>1 DEF TwoBytes, SixBits
  <2> QED
    BY <2>1, <2>2, <1>4 DEF cp
<1> QED
  BY <1>3, <1>4

ThreeBits(p, q, r) == p * 4096 + q * 64 + r
FourBits(p, q, r, s) == p * 262144 + q * 4096 + r * 64 + s

LEMMA ThreeBytesOf ==
    ASSUME NEW p \in Nat, p <= 15, NEW q \in Nat, q <= 63, NEW r \in Nat, r <= 63
    PROVE  /\ (p = 0 => q >= 32) /\ (p = 13 => q <= 31) =>
                  Encode(ThreeBits(p, q, r)) = <<224 + p, 128 + q, 128 + r>>
           /\ ~((p = 0 => q >= 32) /\ (p = 13 => q <= 31)) => Len(Encode(ThreeBits(p, q, r))) # 3
<1> DEFINE cp == ThreeBits(p, q, r)
<1>1. /\ cp \in Nat /\ cp \div 4096 = p
      /\ (cp \div 64) % 64 = q /\ (cp \div 1) % 64 = r
  BY TwelveBits DEF ThreeBits
<1>2. cp <= 65535 /\ (cp <= 2047 <=> p = 0 /\ q <= 31)
  BY DEF ThreeBits
<1>3. IsSurrogate(cp) <=> p = 13 /\ q >= 32
  BY DEF IsSurrogate, Between, ThreeBits
<1> HIDE DEF cp
<1>4. CASE p = 0 /\ q <= 31
  <2>1. Encode(cp) = <<cp>> \/ Encode(cp) = TwoBytes(cp)
    BY <1>1, <1>2, <1>4, EncodeIs
  <2>2. Len(Encode(cp)) # 3
    BY <2>1 DEF TwoBytes
  <2> QED
    BY <2>2, <1>4 DEF cp
<1>5. CASE p = 13 /\ q >= 32
  <2>1. Encode(cp) = << >>
    BY <1>1, <1>3, <1>5, EncodeIs
  <2> QED
    BY <2>1, <1>5 DEF cp
<1>6. CASE ~(p = 0 /\ q <= 31) /\ ~(p = 13 /\ q >= 32)
  <2>1. Encode(cp) = ThreeBytes(cp)
    BY <1>1, <1>2, <1>3, <1>6, EncodeIs
  <2>2. ThreeBytes(cp) = <<224 + p, 128 + q, 128 + r>>
    BY <1>1 DEF ThreeBytes, SixBits
  <2> QED
    BY <2>1, <2>2, <1>6 DEF cp
<1> QED
  BY <1>4, <1>5, <1>6

LEMMA FourBytesOf ==
    ASSUME NEW p \in Nat, p <= 7, NEW q \in Nat, q <= 63, NEW r \in Nat, r <= 63,
           NEW s \in Nat, s <= 63
    PROVE  /\ p <= 4 /\ (p = 0 => q >= 16) /\ (p = 4 => q <= 15) =>
                  Encode(FourBits(p, q, r, s)) = <<240 + p, 128 + q, 128 + r, 128 + s>>
           /\ ~(p <= 4 /\ (p = 0 => q >= 16) /\ (p = 4 => q <= 15)) =>
                  Len(Encode(FourBits(p, q, r, s))) # 4
<1> DEFINE cp == FourBits(p, q, r, s)
<1>1. /\ cp \in Nat /\ cp \div 262144 = p /\ (cp \div 4096) % 64 = q
      /\ (cp \div 64) % 64 = r /\ (cp \div 1) % 64 = s
  BY EighteenBits DEF FourBits
<1>2. cp <= 65535 <=> p = 0 /\ q <= 15
  BY DEF FourBits
<1>3. cp <= 1114111 <=> p <= 4 /\ (p = 4 => q <= 15)
  BY DEF FourBits
<1> HIDE DEF cp
<1>4. CASE p = 0 /\ q <= 15
  <2>1. \/ Encode(cp) = <<cp>> \/ Encode(cp) = TwoBytes(cp)
        \/ Encode(cp) = ThreeBytes(cp) \/ Encode(cp) = << >>
    BY <1>1, <1>2, <1>4, EncodeIs
  <2>2. Len(<<cp>>) # 4 /\ Len(TwoBytes(cp)) # 4 /\ Len(ThreeBytes(cp)) # 4 /\ Len(<< >>) # 4
    BY DEF TwoBytes, ThreeBytes
  <2>3. Len(Encode(cp)) # 4
    BY <2>1, <2>2, Zenon
  <2> QED
    BY <2>3, <1>4 DEF cp
<1>5. CASE ~(p <= 4 /\ (p = 4 => q <= 15))
  <2>1. Encode(cp) = << >>
    BY <1>1, <1>3, <1>5, EncodeIs
  <2> QED
    BY <2>1, <1>5 DEF cp
<1>6. CASE ~(p = 0 /\ q <= 15) /\ p <= 4 /\ (p = 4 => q <= 15)
  <2>1. Encode(cp) = FourBytes(cp)
    BY <1>1, <1>2, <1>3, <1>6, EncodeIs
  <2>2. FourBytes(cp) = <<240 + p, 128 + q, 128 + r, 128 + s>>
    BY <1>1 DEF FourBytes, SixBits
  <2> QED
    BY <2>1, <2>2, <1>6 DEF cp
<1> QED
  BY <1>4, <1>5, <1>6

\* The same, of bytes.
LEMMA CharacterTwo ==
    ASSUME NEW x \in Nat, x <= 255, NEW y \in Nat, y <= 255
    PROVE  Encode((x % 32) * 64 + (y % 64)) = <<x, y>> <=> Between(x, 194, 223) /\ Between(y, 128, 191)
<1> DEFINE p == x % 32
           q == y % 64
<1>1. p \in Nat /\ p <= 31 /\ (x = 192 + p <=> Between(x, 192, 223))
  BY ByteKinds
<1>2. q \in Nat /\ q <= 63 /\ (y = 128 + q <=> Between(y, 128, 191))
  BY ByteKinds
<1> HIDE DEF p, q
<1>3. Encode(p * 64 + q) = <<x, y>> <=> p >= 2 /\ x = 192 + p /\ y = 128 + q
  BY <1>1, <1>2, TwoBytesOf
<1>4. Encode(p * 64 + q) = <<x, y>> <=> Between(x, 194, 223) /\ Between(y, 128, 191)
  BY <1>1, <1>2, <1>3 DEF Between
<1> QED
  BY <1>4 DEF p, q

IsThree(x, y, z) == Encode(ThreeBits(x % 16, y % 64, z % 64)) = <<x, y, z>>
IsFour(x, y, z, w) == Encode(FourBits(x % 8, y % 64, z % 64, w % 64)) = <<x, y, z, w>>

LEMMA CharacterThree ==
    ASSUME NEW x \in Nat, x <= 255, NEW y \in Nat, y <= 255, NEW z \in Nat, z <= 255
    PROVE  IsThree(x, y, z) <=>
              /\ Between(x, 224, 239) /\ Between(y, 128, 191) /\ Between(z, 128, 191)
              /\ x = 224 => y >= 160
              /\ x = 237 => y <= 159
<1> DEFINE p == x % 16
           q == y % 64
           r == z % 64
           e == Encode(ThreeBits(p, q, r))
<1>1. p \in Nat /\ p <= 15 /\ (x = 224 + p <=> Between(x, 224, 239))
  BY ByteKinds
<1>2. q \in Nat /\ q <= 63 /\ (y = 128 + q <=> Between(y, 128, 191))
  BY ByteKinds
<1>3. r \in Nat /\ r <= 63 /\ (z = 128 + r <=> Between(z, 128, 191))
  BY ByteKinds
<1>4. /\ (p = 0 => q >= 32) /\ (p = 13 => q <= 31) => e = <<224 + p, 128 + q, 128 + r>>
      /\ ~((p = 0 => q >= 32) /\ (p = 13 => q <= 31)) => Len(e) # 3
  <2> HIDE DEF p, q, r
  <2> QED
    BY <1>1, <1>2, <1>3, ThreeBytesOf
<1> HIDE DEF p, q, r, e
<1>5. e = <<x, y, z>> <=>
          /\ (p = 0 => q >= 32) /\ (p = 13 => q <= 31)
          /\ x = 224 + p /\ y = 128 + q /\ z = 128 + r
  BY <1>4
<1>6. e = <<x, y, z>> <=>
          /\ Between(x, 224, 239) /\ Between(y, 128, 191) /\ Between(z, 128, 191)
          /\ x = 224 => y >= 160
          /\ x = 237 => y <= 159
  BY <1>1, <1>2, <1>3, <1>5 DEF Between
<1> QED
  BY <1>6 DEF e, p, q, r, IsThree

LEMMA CharacterFour ==
    ASSUME NEW x \in Nat, x <= 255, NEW y \in Nat, y <= 255, NEW z \in Nat, z <= 255,
           NEW w \in Nat, w <= 255
    PROVE  IsFour(x, y, z, w) <=>
              /\ Between(x, 240, 244) /\ Between(y, 128, 191) /\ Between(z, 128, 191)
              /\ Between(w, 128, 191)
              /\ x = 240 => y >= 144
              /\ x = 244 => y <= 143
<1> DEFINE p == x % 8
           q == y % 64
           r == z % 64
           s == w % 64
           e == Encode(FourBits(p, q, r, s))
<1>1. p \in Nat /\ p <= 7 /\ (x = 240 + p <=> Between(x, 240, 247))
  BY ByteKinds
<1>2. q \in Nat /\ q <= 63 /\ (y = 128 + q <=> Between(y, 128, 191))
  BY ByteKinds
<1>3. r \in Nat /\ r <= 63 /\ (z = 128 + r <=> Between(z, 128, 191))
  BY ByteKinds
<1>4. s \in Nat /\ s <= 63 /\ (w = 128 + s <=> Between(w, 128, 191))
  BY ByteKinds
<1>5. /\ p <= 4 /\ (p = 0 => q >= 16) /\ (p = 4 => q <= 15) =>
             e = <<240 + p, 128 + q, 128 + r, 128 + s>>
      /\ ~(p <= 4 /\ (p = 0 => q >= 16) /\ (p = 4 => q <= 15)) => Len(e) # 4
  <2> HIDE DEF p, q, r, s
  <2> QED
    BY <1>1, <1>2, <1>3, <1>4, FourBytesOf
<1> HIDE DEF p, q, r, s, e
<1>6. e = <<x, y, z, w>> <=>
          /\ p <= 4 /\ (p = 0 => q >= 16) /\ (p = 4 => q <= 15)
          /\ x = 240 + p /\ y = 128 + q /\ z = 128 + r /\ w = 128 + s
  BY <1>5
<1>7. e = <<x, y, z, w>> <=>
          /\ Between(x, 240, 244) /\ Between(y, 128, 191) /\ Between(z, 128, 191)
          /\ Between(w, 128, 191)
          /\ x = 240 => y >= 144
          /\ x = 244 => y <= 143
  BY <1>1, <1>2, <1>3, <1>4, <1>6 DEF Between
<1> QED
  BY <1>7 DEF e, p, q, r, s, IsFour

\* The bytes of a sequence of bytes.
LEMMA BytesOf ==
    ASSUME NEW b \in Seq(Byte)
    PROVE  /\ Len(b) \in Nat /\ DOMAIN b = 1..Len(b)
           /\ \A k \in 1..Len(b) : b[k] \in Nat /\ b[k] <= 255
<1>1. \A k \in 1..Len(b) : b[k] \in Byte
  <2> HIDE DEF Byte
  <2> QED
    BY ElementsOf
<1>2. \A x \in Byte : x \in Nat /\ x <= 255
  BY DEF Byte
<1> QED
  BY <1>1, <1>2, LenProperties

\* The forms of the longer characters.
OfTwo(b) == Between(b[1], 194, 223) /\ IsCont(b, 2)
OfThree(b) ==
    /\ Between(b[1], 224, 239) /\ IsCont(b, 2) /\ IsCont(b, 3)
    /\ b[1] = 224 => b[2] >= 160
    /\ b[1] = 237 => b[2] <= 159
OfFour(b) ==
    /\ Between(b[1], 240, 244) /\ IsCont(b, 2) /\ IsCont(b, 3) /\ IsCont(b, 4)
    /\ b[1] = 240 => b[2] >= 144
    /\ b[1] = 244 => b[2] <= 143

\* The lengths of the characters that bytes start with.
LEMMA CharLengthsAre ==
    ASSUME NEW b \in Seq(Byte), b # << >>
    PROVE  /\ 1 \in CharLengths(b) <=> b[1] <= 127
           /\ 2 \in CharLengths(b) <=> OfTwo(b)
           /\ 3 \in CharLengths(b) <=> OfThree(b)
           /\ 4 \in CharLengths(b) <=> OfFour(b)
           /\ \A n \in CharLengths(b) : n \in {1, 2, 3, 4} /\ n <= Len(b)
<1>1. /\ Len(b) \in Nat /\ Len(b) >= 1 /\ DOMAIN b = 1..Len(b)
      /\ \A k \in 1..Len(b) : b[k] \in Nat /\ b[k] <= 255
  BY BytesOf, EmptySeq
<1>2. /\ 1 <= Len(b) => SubSeq(b, 1, 1) = <<b[1]>>
      /\ 2 <= Len(b) => SubSeq(b, 1, 2) = <<b[1], b[2]>>
      /\ 3 <= Len(b) => SubSeq(b, 1, 3) = <<b[1], b[2], b[3]>>
      /\ 4 <= Len(b) => SubSeq(b, 1, 4) = <<b[1], b[2], b[3], b[4]>>
  BY Beginnings
<1>3. \A n : n \in CharLengths(b) <=>
          n \in 1..4 /\ n <= Len(b) /\ Encode(CodePoint(b, n)) = SubSeq(b, 1, n)
  BY DEF CharLengths
<1>n. \A n \in {1, 2, 3, 4} : n \in CharLengths(b) <=>
          n <= Len(b) /\ Encode(CodePoint(b, n)) = SubSeq(b, 1, n)
  BY <1>3
<1>4. /\ CodePoint(b, 1) = b[1]
      /\ CodePoint(b, 2) = (b[1] % 32) * 64 + (b[2] % 64)
      /\ CodePoint(b, 3) = ThreeBits(b[1] % 16, b[2] % 64, b[3] % 64)
      /\ CodePoint(b, 4) = FourBits(b[1] % 8, b[2] % 64, b[3] % 64, b[4] % 64)
  BY DEF CodePoint, ThreeBits, FourBits
<1>5. 1 \in CharLengths(b) <=> b[1] <= 127
  <2>1. b[1] \in Nat /\ b[1] <= 255
    BY <1>1
  <2>2. 1 \in CharLengths(b) <=> Encode(b[1]) = <<b[1]>>
    BY <1>1, <1>2, <1>n, <1>4
  <2> QED
    BY <2>1, <2>2, OneByteOf
<1>6. 2 \in CharLengths(b) <=> Between(b[1], 194, 223) /\ IsCont(b, 2)
  <2>1. CASE Len(b) >= 2
    <3>1. \A k \in 1..2 : b[k] \in Nat /\ b[k] <= 255
      BY <2>1, <1>1
    <3>2. 2 \in CharLengths(b) <=> Encode(CodePoint(b, 2)) = SubSeq(b, 1, 2)
      BY <2>1, <1>n
    <3>3. 2 \in CharLengths(b) <=> Encode((b[1] % 32) * 64 + (b[2] % 64)) = <<b[1], b[2]>>
      BY <2>1, <3>2, <1>2, <1>4
    <3>4. b[1] \in Nat /\ b[1] <= 255 /\ b[2] \in Nat /\ b[2] <= 255
      BY <3>1
    <3>5. (IsCont(b, 2) <=> Between(b[2], 128, 191))
      BY <2>1, <1>1 DEF IsCont
    <3> QED
      BY <3>3, <3>4, <3>5, CharacterTwo, SMTT(60)
  <2>2. CASE Len(b) < 2
    BY <2>2, <1>1, <1>3 DEF IsCont
  <2> QED
    BY <2>1, <2>2, <1>1
<1>7. 3 \in CharLengths(b) <=>
          /\ Between(b[1], 224, 239) /\ IsCont(b, 2) /\ IsCont(b, 3)
          /\ b[1] = 224 => b[2] >= 160
          /\ b[1] = 237 => b[2] <= 159
  <2>1. CASE Len(b) >= 3
    <3>1. \A k \in 1..3 : b[k] \in Nat /\ b[k] <= 255
      BY <2>1, <1>1
    <3>2. 3 \in CharLengths(b) <=> Encode(CodePoint(b, 3)) = SubSeq(b, 1, 3)
      BY <2>1, <1>n
    <3>3. 3 \in CharLengths(b) <=> Encode(ThreeBits(b[1] % 16, b[2] % 64, b[3] % 64)) = <<b[1], b[2], b[3]>>
      BY <2>1, <3>2, <1>2, <1>4
    <3>4. /\ b[1] \in Nat /\ b[1] <= 255 /\ b[2] \in Nat /\ b[2] <= 255
          /\ b[3] \in Nat /\ b[3] <= 255
      BY <3>1
    <3>5. (IsCont(b, 2) <=> Between(b[2], 128, 191)) /\ (IsCont(b, 3) <=> Between(b[3], 128, 191))
      BY <2>1, <1>1 DEF IsCont
    <3>6. IsThree(b[1], b[2], b[3]) <=>
              /\ Between(b[1], 224, 239) /\ Between(b[2], 128, 191) /\ Between(b[3], 128, 191)
              /\ b[1] = 224 => b[2] >= 160
              /\ b[1] = 237 => b[2] <= 159
      BY <3>4, CharacterThree, SMTT(60)
    <3> QED
      BY <3>3, <3>5, <3>6, ZenonT(60) DEF IsThree
  <2>2. CASE Len(b) < 3
    BY <2>2, <1>1, <1>3 DEF IsCont
  <2> QED
    BY <2>1, <2>2, <1>1
<1>8. 4 \in CharLengths(b) <=>
          /\ Between(b[1], 240, 244) /\ IsCont(b, 2) /\ IsCont(b, 3) /\ IsCont(b, 4)
          /\ b[1] = 240 => b[2] >= 144
          /\ b[1] = 244 => b[2] <= 143
  <2>1. CASE Len(b) >= 4
    <3>1. \A k \in 1..4 : b[k] \in Nat /\ b[k] <= 255
      BY <2>1, <1>1
    <3>2. 4 \in CharLengths(b) <=> Encode(CodePoint(b, 4)) = SubSeq(b, 1, 4)
      BY <2>1, <1>n
    <3>3. 4 \in CharLengths(b) <=>
              Encode(FourBits(b[1] % 8, b[2] % 64, b[3] % 64, b[4] % 64)) = <<b[1], b[2], b[3], b[4]>>
      BY <2>1, <3>2, <1>2, <1>4
    <3>4. /\ b[1] \in Nat /\ b[1] <= 255 /\ b[2] \in Nat /\ b[2] <= 255
          /\ b[3] \in Nat /\ b[3] <= 255 /\ b[4] \in Nat /\ b[4] <= 255
      BY <3>1
    <3>5. /\ (IsCont(b, 2) <=> Between(b[2], 128, 191))
          /\ (IsCont(b, 3) <=> Between(b[3], 128, 191))
          /\ (IsCont(b, 4) <=> Between(b[4], 128, 191))
      BY <2>1, <1>1 DEF IsCont
    <3>6. IsFour(b[1], b[2], b[3], b[4]) <=>
              /\ Between(b[1], 240, 244) /\ Between(b[2], 128, 191) /\ Between(b[3], 128, 191)
              /\ Between(b[4], 128, 191)
              /\ b[1] = 240 => b[2] >= 144
              /\ b[1] = 244 => b[2] <= 143
      BY <3>4, CharacterFour, SMTT(60)
    <3> QED
      BY <3>3, <3>5, <3>6, ZenonT(60) DEF IsFour
  <2>2. CASE Len(b) < 4
    BY <2>2, <1>1, <1>3 DEF IsCont
  <2> QED
    BY <2>1, <2>2, <1>1
<1>9. \A n \in CharLengths(b) : n \in {1, 2, 3, 4} /\ n <= Len(b)
  BY <1>3
<1> QED
  BY <1>5, <1>6, <1>7, <1>8, <1>9, Zenon DEF OfTwo, OfThree, OfFour

\* The measured length, case by case.
LEMMA RawLenIs ==
    ASSUME NEW b \in Seq(Byte), b # << >>
    PROVE  /\ RawLen(b) \in {0, 1, 2, 3, 4}
           /\ RawLen(b) = 1 <=> Between(b[1], 32, 127)
           /\ RawLen(b) = 2 <=> OfTwo(b)
           /\ RawLen(b) = 3 <=> OfThree(b)
           /\ RawLen(b) = 4 <=> OfFour(b)
<1>1. b[1] \in Nat /\ b[1] <= 255
  BY BytesOf, EmptySeq
<1>2. DOMAIN b = 1..Len(b) /\ Len(b) \in Nat /\ \A k \in 1..Len(b) : b[k] \in Nat
  BY BytesOf
<1>3. IsCont(b, 2) => b[2] \in Nat
  BY <1>2 DEF IsCont
<1> DEFINE c2 == IsCont(b, 2)
           c3 == IsCont(b, 3)
           c4 == IsCont(b, 4)
<1>4. c2 \in BOOLEAN /\ c3 \in BOOLEAN /\ c4 \in BOOLEAN
  BY DEF IsCont, Between
<1> HIDE DEF c2, c3, c4
<1>5. RawLen(b) =
        CASE Between(b[1], 32, 127)  -> 1
          [] Between(b[1], 194, 223) /\ c2 -> 2
          [] Between(b[1], 225, 239) /\ b[1] # 237 /\ c2 /\ c3 -> 3
          [] b[1] = 224 /\ c2 /\ b[2] >= 160 /\ c3 -> 3
          [] b[1] = 237 /\ c2 /\ b[2] <= 159 /\ c3 -> 3
          [] Between(b[1], 241, 243) /\ c2 /\ c3 /\ c4 -> 4
          [] b[1] = 240 /\ c2 /\ b[2] >= 144 /\ c3 /\ c4 -> 4
          [] b[1] = 244 /\ c2 /\ b[2] <= 143 /\ c3 /\ c4 -> 4
          [] OTHER -> 0
  BY Zenon DEF RawLen, c2, c3, c4
<1>6. CASE Between(b[1], 32, 127)
  <2>1. RawLen(b) = 1
    BY <1>1, <1>5, <1>6 DEF Between
  <2> QED
    BY <2>1, <1>1, <1>6 DEF Between, OfTwo, OfThree, OfFour
<1>7. CASE Between(b[1], 194, 223)
  <2>1. RawLen(b) = IF c2 THEN 2 ELSE 0
    BY <1>1, <1>4, <1>5, <1>7 DEF Between
  <2> QED
    BY <2>1, <1>1, <1>7 DEF Between, c2, OfTwo, OfThree, OfFour
<1>8. CASE Between(b[1], 224, 239)
  <2>1. RawLen(b) = IF c2 /\ c3 /\ (b[1] = 224 => b[2] >= 160) /\ (b[1] = 237 => b[2] <= 159)
                    THEN 3 ELSE 0
    BY <1>1, <1>3, <1>4, <1>5, <1>8 DEF Between, c2
  <2> QED
    BY <2>1, <1>1, <1>8 DEF Between, c2, c3, OfTwo, OfThree, OfFour
<1>9. CASE Between(b[1], 240, 244)
  <2>1. RawLen(b) = IF c2 /\ c3 /\ c4 /\ (b[1] = 240 => b[2] >= 144) /\ (b[1] = 244 => b[2] <= 143)
                    THEN 4 ELSE 0
    BY <1>1, <1>3, <1>4, <1>5, <1>9 DEF Between, c2
  <2> QED
    BY <2>1, <1>1, <1>9 DEF Between, c2, c3, c4, OfTwo, OfThree, OfFour
<1>10. CASE /\ ~Between(b[1], 32, 127) /\ ~Between(b[1], 194, 223) /\ ~Between(b[1], 224, 239)
            /\ ~Between(b[1], 240, 244)
  <2>1. RawLen(b) = 0
    BY <1>1, <1>4, <1>5, <1>10 DEF Between
  <2> QED
    BY <2>1, <1>1, <1>10 DEF Between, OfTwo, OfThree, OfFour
<1> QED
  BY <1>6, <1>7, <1>8, <1>9, <1>10, Zenon

\* raw_utf8_len finds the one character that the bytes start with, if it is no control.
LEMMA RawLenMeasures ==
    ASSUME NEW b \in Seq(Byte), b # << >>
    PROVE  /\ \A n : n \in CharLengths(b) => n \in {1, 2, 3, 4} /\ n <= Len(b)
           /\ b[1] >= 32 => \A n : n \in CharLengths(b) <=> n = RawLen(b) /\ n # 0
           /\ b[1] < 32 => \A n : n \in CharLengths(b) <=> n = 1
           /\ RawLen(b) \in {0, 1, 2, 3, 4}
<1>1. b[1] \in Nat /\ b[1] <= 255
  BY BytesOf, EmptySeq
<1>2. b[1] >= 32 =>
        /\ 1 \in CharLengths(b) <=> RawLen(b) = 1
        /\ 2 \in CharLengths(b) <=> RawLen(b) = 2
        /\ 3 \in CharLengths(b) <=> RawLen(b) = 3
        /\ 4 \in CharLengths(b) <=> RawLen(b) = 4
  <2>1. b[1] >= 32 => (b[1] <= 127 <=> Between(b[1], 32, 127))
    BY <1>1 DEF Between
  <2> QED
    BY <2>1, CharLengthsAre, RawLenIs, Zenon
<1>3. b[1] < 32 =>
        /\ 1 \in CharLengths(b)
        /\ 2 \notin CharLengths(b) /\ 3 \notin CharLengths(b) /\ 4 \notin CharLengths(b)
  <2>1. b[1] < 32 => b[1] <= 127 /\ ~OfTwo(b) /\ ~OfThree(b) /\ ~OfFour(b)
    BY <1>1 DEF Between, OfTwo, OfThree, OfFour
  <2> QED
    BY <2>1, CharLengthsAre, Zenon
<1>4. \A n \in CharLengths(b) : n \in {1, 2, 3, 4} /\ n <= Len(b)
  BY CharLengthsAre, Zenon
<1>5. RawLen(b) \in {0, 1, 2, 3, 4}
  BY RawLenIs, Zenon
<1>6. ASSUME b[1] >= 32, NEW n PROVE n \in CharLengths(b) <=> n = RawLen(b) /\ n # 0
  BY <1>2, <1>4, <1>5, <1>6
<1>7. ASSUME b[1] < 32, NEW n PROVE n \in CharLengths(b) <=> n = 1
  BY <1>3, <1>4, <1>7
<1> QED
  BY <1>4, <1>5, <1>6, <1>7

-----------------------------------------------------------------------------
(* The calls.                                                               *)

\* What a call has taken and answered.
CallInv ==
    /\ op \in {"none", "measure", "read", "write", "scan", "lookup"}
    /\ op = "measure" => input \in Seq(Byte) /\ input # << >> /\ answer = RawLen(input)
    /\ op = "read" => input \in Seq(Unit) /\ answer = Decode(input)
    /\ op = "write" => input \in Seq(Byte \ {0}) /\ answer = WriteString(input)

LEMMA SeqsUpToAre ==
    ASSUME NEW S, NEW T, S \subseteq T, NEW n \in Nat, NEW s \in SeqsUpTo(S, n)
    PROVE  s \in Seq(T)
<1>1. PICK k \in 0..n : s \in [1..k -> S]
  BY DEF SeqsUpTo
<1>2. s \in [1..k -> T] /\ k \in Nat
  BY <1>1
<1> QED
  BY <1>2, SeqDef

LEMMA CallsAreTyped == Spec => []CallInv
<1>1. Init => CallInv
  BY DEF Init, CallInv
<1>2. CallInv /\ [Next]_vars => CallInv'
  <2> SUFFICES ASSUME CallInv, [Next]_vars
               PROVE  CallInv'
    OBVIOUS
  <2> USE StringAssumption
  <2>1. CASE Measure
    <3>1. PICK lead \in Leads, trail \in [1..3 -> Trails] :
              Call("measure", <<lead>> \o trail, RawLen(<<lead>> \o trail))
      BY <2>1 DEF Measure
    <3>2. lead \in Byte /\ trail \in [1..3 -> Byte]
      BY DEF StringAssumption
    <3>3. trail \in Seq(Byte)
      <4> HIDE DEF Byte
      <4> QED
        BY <3>2, SeqDef
    <3>4. <<lead>> \o trail \in Seq(Byte) /\ <<lead>> \o trail # << >>
      <4> HIDE DEF Byte
      <4>1. <<lead>> \in Seq(Byte) /\ Len(<<lead>>) = 1
        BY <3>2
      <4> QED
        BY <3>3, <4>1, ConcatProperties, EmptySeq
    <3> QED
      BY <3>1, <3>4 DEF Call, CallInv
  <2>2. CASE Read
    <3>1. PICK units \in SeqsUpTo(Units, MaxUnits) : Call("read", units, Decode(units))
      BY <2>2 DEF Read
    <3>2. units \in Seq(Unit)
      BY SeqsUpToAre DEF StringAssumption
    <3> QED
      BY <3>1, <3>2 DEF Call, CallInv
  <2>3. CASE Write
    <3>1. PICK bytes \in SeqsUpTo(Contents, MaxContents) : Call("write", bytes, WriteString(bytes))
      BY <2>3 DEF Write
    <3>2. bytes \in Seq(Byte \ {0})
      BY SeqsUpToAre DEF StringAssumption
    <3> QED
      BY <3>1, <3>2 DEF Call, CallInv
  <2>4. CASE ScanText \/ LookUp
    BY <2>4 DEF ScanText, LookUp, Call, CallInv
  <2>5. CASE UNCHANGED vars
    BY <2>5 DEF vars, CallInv
  <2> QED
    BY <2>1, <2>2, <2>3, <2>4, <2>5 DEF Next
<1> QED
  BY <1>1, <1>2, PTL DEF Spec

\* The length raw_utf8_len finds is that of the one UTF-8 character at the start of the
\* bytes, whatever the bytes: overlong forms, surrogates, stray continuations and code
\* points past U+10FFFF have none.
THEOREM CharactersAreMeasured == Spec => []CharactersAreUtf8
<1>1. CallInv => CharactersAreUtf8
  <2> SUFFICES ASSUME CallInv, op = "measure"
               PROVE  LET lengths == {n \in CharLengths(input) : input[1] >= 32}
                      IN  IF lengths = {} THEN answer = 0 ELSE lengths = {answer}
    BY DEF CharactersAreUtf8
  <2>1. input \in Seq(Byte) /\ input # << >> /\ answer = RawLen(input)
    BY DEF CallInv
  <2>2. input[1] \in Nat
    BY <2>1, BytesOf, EmptySeq
  <2>3. RawLen(input) \in {0, 1, 2, 3, 4}
    BY <2>1, RawLenMeasures
  <2>4. CASE input[1] >= 32
    <3>1. \A n : n \in CharLengths(input) <=> n = RawLen(input) /\ n # 0
      BY <2>1, <2>4, RawLenMeasures
    <3> DEFINE lengths == {n \in CharLengths(input) : input[1] >= 32}
    <3>2. \A n : n \in lengths <=> n = answer /\ n # 0
      BY <2>1, <2>4, <3>1
    <3>3. answer = 0 => lengths = {}
      BY <3>2
    <3>4. answer # 0 => lengths = {answer}
      BY <3>2
    <3> HIDE DEF lengths
    <3>5. IF lengths = {} THEN answer = 0 ELSE lengths = {answer}
      BY <3>2, <3>3, <3>4
    <3> QED
      BY <3>5 DEF lengths
  <2>5. CASE ~(input[1] >= 32)
    <3>1. ~Between(input[1], 32, 127) /\ ~OfTwo(input) /\ ~OfThree(input) /\ ~OfFour(input)
      BY <2>2, <2>5 DEF Between, OfTwo, OfThree, OfFour
    <3>2. RawLen(input) = 0
      BY <2>1, <3>1, RawLenIs
    <3> QED
      BY <2>1, <2>5, <3>2
  <2> QED
    BY <2>4, <2>5
<1> QED
  BY <1>1, CallsAreTyped, PTL

-----------------------------------------------------------------------------
(* Recursion from the end.                                                  *)

\* S holds what is past the n-th, and every k all of whose followers it holds.
Descends(S, n) ==
    /\ n + 1 \in S
    /\ \A k \in 1..n : (\A j \in (k + 1)..(n + 1) : j \in S) => k \in S

\* Such a set holds every place.
LEMMA BackInduction ==
    ASSUME NEW n \in Nat, NEW S, Descends(S, n)
    PROVE  \A k \in 1..(n + 1) : k \in S
<1> DEFINE T == {m \in Nat : m <= n /\ (n + 1) - m \notin S}
<1>1. ASSUME T # {} PROVE FALSE
  <2>1. T \in SUBSET Nat
    OBVIOUS
  <2>2. PICK m \in T : \A l \in T : ~(<<l, m>> \in OpToRel(<, Nat))
    <3> HIDE DEF T
    <3> QED
      BY <1>1, <2>1, NatLessThanWellFounded, WFMin
  <2>3. \A l \in T : ~(l < m)
    BY <2>2 DEF OpToRel
  <2> DEFINE k == (n + 1) - m
  <2>4. m # 0
    BY DEF Descends
  <2>5. k \in 1..n /\ k \notin S
    BY <2>4
  <2>6. ASSUME NEW j \in (k + 1)..(n + 1) PROVE j \in S
    <3> DEFINE l == (n + 1) - j
    <3>1. l \in Nat /\ l <= n /\ l < m /\ (n + 1) - l = j
      OBVIOUS
    <3> HIDE DEF l, k
    <3> QED
      BY <2>3, <3>1
  <2> QED
    BY <2>5, <2>6 DEF Descends
<1>2. ASSUME NEW k \in 1..(n + 1) PROVE k \in S
  <2> DEFINE m == (n + 1) - k
  <2>1. m \in Nat /\ m <= n /\ (n + 1) - m = k
    OBVIOUS
  <2>2. m \notin T
    BY <1>1
  <2> HIDE DEF m
  <2> QED
    BY <2>1, <2>2
<1> QED
  BY <1>2

\* f goes from each place to a later one and makes its value of the value there.
IsBackward(f, n, end, go, step) ==
    f = [i \in 1..(n + 1) |-> IF i = n + 1 THEN end ELSE step[i][f[go[i]]]]
GoesOn(n, R, end, go, step) ==
    /\ n \in Nat /\ end \in R
    /\ go \in [1..n -> 1..(n + 1)] /\ \A i \in 1..n : i < go[i]
    /\ step \in [1..n -> [R -> R]]

LEMMA BackwardSteps ==
    ASSUME NEW n \in Nat, NEW f, NEW end, NEW go, NEW step
    PROVE  IsBackward(f, n, end, go, step) <=>
              /\ f = [i \in 1..(n + 1) |-> f[i]]
              /\ f[n + 1] = end
              /\ \A i \in 1..n : f[i] = step[i][f[go[i]]]
<1>1. 1..(n + 1) = 1..n \union {n + 1} /\ \A i \in 1..n : i # n + 1
  OBVIOUS
<1> QED
  BY <1>1 DEF IsBackward

\* There is such a function, and its values are values of the steps.
LEMMA BackwardExists ==
    ASSUME NEW n, NEW R, NEW end, NEW go, NEW step, GoesOn(n, R, end, go, step)
    PROVE  \E f \in [1..(n + 1) -> R] : IsBackward(f, n, end, go, step)
<1> DEFINE From1(f, k) == /\ f \in [k..(n + 1) -> R]
                          /\ f[n + 1] = end
                          /\ \A i \in k..n : f[i] = step[i][f[go[i]]]
           S == {k \in 1..(n + 1) : \E f : From1(f, k)}
<1>1. /\ n \in Nat /\ end \in R
      /\ \A i \in 1..n : go[i] \in 1..(n + 1) /\ i < go[i]
      /\ \A i \in 1..n, r \in R : step[i][r] \in R
  BY DEF GoesOn
<1>2. n + 1 \in S
  <2>1. From1([i \in (n + 1)..(n + 1) |-> end], n + 1)
    BY <1>1
  <2> QED
    BY <1>1, <2>1
<1>3. ASSUME NEW k \in 1..n, k + 1 \in S PROVE k \in S
  <2>1. PICK f : From1(f, k + 1)
    BY <1>3
  <2> DEFINE g == [i \in k..(n + 1) |-> IF i = k THEN step[k][f[go[k]]] ELSE f[i]]
  <2>2. go[k] \in (k + 1)..(n + 1) /\ f[go[k]] \in R
    BY <1>1, <2>1
  <2>3. g \in [k..(n + 1) -> R]
    <3>1. step[k][f[go[k]]] \in R
      BY <1>1, <2>2
    <3>2. \A i \in k..(n + 1) : i = k \/ f[i] \in R
      BY <1>1, <2>1
    <3> QED
      BY <3>1, <3>2
  <2>4. g[n + 1] = end
    BY <1>1, <2>1
  <2>5. ASSUME NEW i \in k..n PROVE g[i] = step[i][g[go[i]]]
    <3>1. go[i] \in (k + 1)..(n + 1) /\ i \in k..(n + 1)
      BY <1>1
    <3>2. g[go[i]] = f[go[i]]
      BY <1>1, <3>1
    <3>3. CASE i = k
      BY <3>1, <3>2, <3>3
    <3>4. CASE i # k
      <4>1. i \in (k + 1)..n
        BY <1>1, <3>4
      <4> QED
        BY <2>1, <3>1, <3>2, <3>4, <4>1
    <3> QED
      BY <3>3, <3>4
  <2>6. k \in 1..(n + 1)
    BY <1>1
  <2> HIDE DEF g
  <2>7. From1(g, k)
    BY <2>3, <2>4, <2>5
  <2> QED
    BY <2>6, <2>7
<1>4. Descends(S, n)
  <2> HIDE DEF S
  <2>1. \A k \in 1..n : k + 1 \in (k + 1)..(n + 1)
    BY <1>1
  <2> QED
    BY <1>2, <1>3, <2>1 DEF Descends
<1>5. 1 \in S
  <2> HIDE DEF S
  <2> QED
    BY <1>1, <1>4, BackInduction
<1>6. PICK f : From1(f, 1)
  BY <1>5
<1>7. IsBackward(f, n, end, go, step)
  BY <1>1, <1>6, BackwardSteps
<1> QED
  BY <1>6, <1>7

-----------------------------------------------------------------------------
(* What is UTF-8.                                                           *)

\* The rest of a sequence.
LEMMA RestOf ==
    ASSUME NEW S, NEW b \in Seq(S), NEW k \in 1..Len(b)
    PROVE  /\ From(b, k) \in Seq(S) /\ Len(From(b, k)) = (Len(b) + 1) - k /\ From(b, k) # << >>
           /\ \A i \in 1..((Len(b) + 1) - k) : From(b, k)[i] = b[(k + i) - 1]
<1>1. Len(b) \in Nat /\ \A i \in 1..Len(b) : b[i] \in S
  BY LenProperties
<1>2. /\ From(b, k) \in Seq(S)
      /\ Len(From(b, k)) = IF k <= Len(b) THEN Len(b) - k + 1 ELSE 0
      /\ \A i \in 1..(Len(b) - k + 1) : From(b, k)[i] = b[k + i - 1]
  BY <1>1, SubSeqProperties DEF From
<1> QED
  BY <1>1, <1>2, EmptySeq

\* from says of each place whether the bytes from there on are UTF-8.
Checks(from, b) ==
    from = [k \in 1..(Len(b) + 1) |-> k > Len(b) \/ \E n \in CharLengths(From(b, k)) : from[k + n]]

LEMMA IsUtf8Checks ==
    ASSUME NEW b
    PROVE  IsUtf8(b) = (CHOOSE from : Checks(from, b))[1]
BY DEF IsUtf8, Checks

\* At most one character starts at a place, and ends before the end.
LEMMA NextPlace ==
    ASSUME NEW b \in Seq(Byte), NEW k \in 1..Len(b)
    PROVE  \E m \in 1..4 : /\ k + m <= Len(b) + 1
                           /\ CharLengths(From(b, k)) = {} \/ CharLengths(From(b, k)) = {m}
<1> DEFINE a == From(b, k)
<1>1. a \in Seq(Byte) /\ a # << >> /\ Len(a) = (Len(b) + 1) - k /\ Len(b) \in Nat
  <2> HIDE DEF Byte
  <2> QED
    BY RestOf, LenProperties
<1> HIDE DEF a
<1>2. a[1] \in Nat
  BY <1>1, BytesOf, EmptySeq
<1>3. /\ \A n : n \in CharLengths(a) => n \in {1, 2, 3, 4} /\ n <= Len(a)
      /\ a[1] >= 32 => \A n : n \in CharLengths(a) <=> n = RawLen(a) /\ n # 0
      /\ a[1] < 32 => \A n : n \in CharLengths(a) <=> n = 1
  BY <1>1, RawLenMeasures
<1>4. \A m, n \in CharLengths(a) : m = n
  BY <1>2, <1>3
<1>5. CASE CharLengths(a) = {}
  BY <1>1, <1>5 DEF a
<1>6. CASE CharLengths(a) # {}
  <2>1. PICK m : m \in CharLengths(a)
    BY <1>6
  <2>2. CharLengths(a) = {m}
    BY <1>4, <2>1
  <2>3. m \in 1..4 /\ k + m <= Len(b) + 1
    BY <1>1, <1>3, <2>1
  <2> QED
    BY <2>2, <2>3 DEF a
<1> QED
  BY <1>5, <1>6

LEMMA ChecksExists ==
    ASSUME NEW b \in Seq(Byte)
    PROVE  \E from : Checks(from, b)
<1> DEFINE n == Len(b)
           end == TRUE
           none(k) == CharLengths(From(b, k)) = {}
           len(k) == CHOOSE m \in 1..4 : /\ k + m <= n + 1
                                         /\ none(k) \/ CharLengths(From(b, k)) = {m}
           go == [k \in 1..n |-> k + len(k)]
           step == [k \in 1..n |-> [r \in BOOLEAN |-> ~none(k) /\ r]]
<1>1. n \in Nat
  BY BytesOf
<1>2. \A k \in 1..n : /\ len(k) \in 1..4 /\ k + len(k) <= n + 1
                      /\ none(k) \/ CharLengths(From(b, k)) = {len(k)}
  BY NextPlace
<1> HIDE DEF n, none, len
<1>3. GoesOn(n, BOOLEAN, end, go, step)
  <2>1. \A k \in 1..n : k + len(k) \in 1..(n + 1) /\ k < k + len(k)
    BY <1>1, <1>2
  <2>2. \A k \in 1..n, r \in BOOLEAN : (~none(k) /\ r) \in BOOLEAN
    OBVIOUS
  <2> QED
    BY <1>1, <2>1, <2>2 DEF GoesOn
<1> HIDE DEF end, go, step
<1>4. PICK f \in [1..(n + 1) -> BOOLEAN] : IsBackward(f, n, end, go, step)
  BY <1>3, BackwardExists
<1>5. /\ f = [k \in 1..(n + 1) |-> f[k]]
      /\ f[n + 1] = end
      /\ \A k \in 1..n : f[k] = step[k][f[go[k]]]
  BY <1>1, <1>4, BackwardSteps
<1>6. ASSUME NEW k \in 1..n
      PROVE  f[k] <=> \E m \in CharLengths(From(b, k)) : f[k + m]
  <2>1. k + len(k) \in 1..(n + 1)
    BY <1>1, <1>2
  <2>2. f[k + len(k)] \in BOOLEAN /\ go[k] = k + len(k)
    BY <1>4, <2>1 DEF go
  <2>3. f[k] = step[k][f[k + len(k)]]
    BY <1>5, <2>2
  <2>4. f[k] = (~none(k) /\ f[k + len(k)])
    BY <2>2, <2>3 DEF step
  <2> QED
    BY <1>2, <2>4 DEF none
<1>7. \A k \in 1..(n + 1) : f[k] = (k > n \/ \E m \in CharLengths(From(b, k)) : f[k + m])
  <2>1. \A k \in 1..(n + 1) : f[k] \in BOOLEAN
    BY <1>4
  <2>2. \A k \in 1..(n + 1) : (k \in 1..n /\ ~(k > n)) \/ (k = n + 1 /\ k > n)
    BY <1>1
  <2> QED
    BY <1>5, <1>6, <2>1, <2>2 DEF end
<1>8. Checks(f, b)
  BY <1>5, <1>7 DEF Checks, n
<1> QED
  BY <1>8

\* One character at most starts at the start of bytes.
LEMMA OneLength ==
    ASSUME NEW b \in Seq(Byte), b # << >>, NEW m \in CharLengths(b)
    PROVE  CharLengths(b) = {m} /\ m \in {1, 2, 3, 4} /\ m <= Len(b)
<1>1. b[1] \in Nat
  BY BytesOf, EmptySeq
<1>2. /\ \A n : n \in CharLengths(b) => n \in {1, 2, 3, 4} /\ n <= Len(b)
      /\ b[1] >= 32 => \A n : n \in CharLengths(b) <=> n = RawLen(b) /\ n # 0
      /\ b[1] < 32 => \A n : n \in CharLengths(b) <=> n = 1
  BY RawLenMeasures
<1>3. \A n \in CharLengths(b) : n = m
  BY <1>1, <1>2
<1> QED
  BY <1>2, <1>3

\* A character is one in front of whatever follows.
SameUpTo(a, b, n) == n <= Len(a) /\ n <= Len(b) /\ \A k \in 1..n : a[k] = b[k]

LEMMA SameCharacter ==
    ASSUME NEW a \in Seq(Byte), a # << >>, NEW b \in Seq(Byte), b # << >>,
           NEW n \in CharLengths(a), SameUpTo(a, b, n)
    PROVE  n \in CharLengths(b)
<1>1. /\ DOMAIN a = 1..Len(a) /\ Len(a) \in Nat
      /\ DOMAIN b = 1..Len(b) /\ Len(b) \in Nat
  BY BytesOf
<1>2. n \in {1, 2, 3, 4} /\ n <= Len(a) /\ n <= Len(b) /\ \A k \in 1..n : a[k] = b[k]
  BY CharLengthsAre DEF SameUpTo
<1>3. /\ 1 \in CharLengths(a) <=> a[1] <= 127
      /\ 2 \in CharLengths(a) <=> OfTwo(a)
      /\ 3 \in CharLengths(a) <=> OfThree(a)
      /\ 4 \in CharLengths(a) <=> OfFour(a)
  BY CharLengthsAre
<1>4. /\ 1 \in CharLengths(b) <=> b[1] <= 127
      /\ 2 \in CharLengths(b) <=> OfTwo(b)
      /\ 3 \in CharLengths(b) <=> OfThree(b)
      /\ 4 \in CharLengths(b) <=> OfFour(b)
  BY CharLengthsAre
<1>5. CASE n = 1
  BY <1>2, <1>3, <1>4, <1>5
<1>6. CASE n = 2
  <2>1. a[1] = b[1] /\ a[2] = b[2] /\ 2 \in DOMAIN b
    BY <1>1, <1>2, <1>6
  <2> QED
    BY <1>3, <1>4, <1>6, <2>1 DEF OfTwo, IsCont
<1>7. CASE n = 3
  <2>1. a[1] = b[1] /\ a[2] = b[2] /\ a[3] = b[3] /\ 2 \in DOMAIN b /\ 3 \in DOMAIN b
    BY <1>1, <1>2, <1>7
  <2> QED
    BY <1>3, <1>4, <1>7, <2>1 DEF OfThree, IsCont
<1>8. CASE n = 4
  <2>1. /\ a[1] = b[1] /\ a[2] = b[2] /\ a[3] = b[3] /\ a[4] = b[4]
        /\ 2 \in DOMAIN b /\ 3 \in DOMAIN b /\ 4 \in DOMAIN b
    BY <1>1, <1>2, <1>8
  <2> QED
    BY <1>3, <1>4, <1>8, <2>1 DEF OfFour, IsCont
<1> QED
  BY <1>2, <1>5, <1>6, <1>7, <1>8

\* The bytes of one character, and one in front of more bytes.
IsChar(c) == c \in Seq(Byte) /\ c # << >> /\ Len(c) \in CharLengths(c)

LEMMA CharThenRest ==
    ASSUME NEW c, IsChar(c), NEW rest \in Seq(Byte)
    PROVE  /\ c \o rest \in Seq(Byte) /\ c \o rest # << >>
           /\ CharLengths(c \o rest) = {Len(c)}
<1>1. c \in Seq(Byte) /\ c # << >> /\ Len(c) \in CharLengths(c) /\ Len(c) \in Nat
  BY BytesOf DEF IsChar
<1>2. /\ c \o rest \in Seq(Byte)
      /\ Len(c \o rest) = Len(c) + Len(rest)
      /\ \A k \in 1..Len(c) : (c \o rest)[k] = c[k]
  <2> HIDE DEF Byte
  <2>1. /\ c \o rest \in Seq(Byte)
        /\ Len(c \o rest) = Len(c) + Len(rest)
        /\ \A k \in 1..(Len(c) + Len(rest)) :
              (c \o rest)[k] = IF k <= Len(c) THEN c[k] ELSE rest[k - Len(c)]
    BY <1>1, ConcatProperties
  <2>2. Len(rest) \in Nat
    BY LenProperties
  <2> QED
    BY <1>1, <2>1, <2>2
<1>3. Len(rest) \in Nat
  BY BytesOf
<1> DEFINE b == c \o rest
<1> HIDE DEF b
<1>4. b \in Seq(Byte) /\ b # << >> /\ SameUpTo(c, b, Len(c))
  BY <1>1, <1>2, <1>3, EmptySeq DEF b, SameUpTo
<1>5. Len(c) \in CharLengths(b)
  BY <1>1, <1>4, SameCharacter
<1>6. CharLengths(b) = {Len(c)}
  BY <1>4, <1>5, OneLength
<1> QED
  BY <1>4, <1>6 DEF b

LEMMA RestOfConcat ==
    ASSUME NEW S, NEW c \in Seq(S), NEW rest \in Seq(S), NEW k \in 1..Len(rest)
    PROVE  From(c \o rest, k + Len(c)) = From(rest, k)
<1>1. /\ Len(c) \in Nat /\ Len(rest) \in Nat
      /\ c \o rest \in Seq(S) /\ Len(c \o rest) = Len(c) + Len(rest)
      /\ \A i \in 1..(Len(c) + Len(rest)) :
            (c \o rest)[i] = IF i <= Len(c) THEN c[i] ELSE rest[i - Len(c)]
  BY ConcatProperties, LenProperties
<1> DEFINE b == c \o rest
           j == k + Len(c)
<1>2. j \in 1..Len(b) /\ b \in Seq(S) /\ (Len(b) + 1) - j = (Len(rest) + 1) - k
  BY <1>1
<1> HIDE DEF b, j
<1>3. /\ From(b, j) \in Seq(S) /\ Len(From(b, j)) = (Len(b) + 1) - j
      /\ \A i \in 1..((Len(b) + 1) - j) : From(b, j)[i] = b[(j + i) - 1]
  BY <1>2, RestOf
<1>4. /\ From(rest, k) \in Seq(S) /\ Len(From(rest, k)) = (Len(rest) + 1) - k
      /\ \A i \in 1..((Len(rest) + 1) - k) : From(rest, k)[i] = rest[(k + i) - 1]
  BY RestOf
<1>5. \A i \in 1..((Len(rest) + 1) - k) : b[(j + i) - 1] = rest[(k + i) - 1]
  BY <1>1 DEF b, j
<1>6. From(b, j) = From(rest, k)
  BY <1>2, <1>3, <1>4, <1>5, SeqEqual
<1> QED
  BY <1>6 DEF b, j

\* What follows a character decides whether bytes are UTF-8.
LEMMA Utf8OfMore ==
    ASSUME NEW c, IsChar(c), NEW rest \in Seq(Byte)
    PROVE  IsUtf8(c \o rest) <=> IsUtf8(rest)
<1> DEFINE b == c \o rest
           m == Len(c)
           n == Len(rest)
<1>1. c \in Seq(Byte) /\ m \in Nat /\ n \in Nat /\ m >= 1
  BY BytesOf, EmptySeq DEF IsChar
<1>2. b \in Seq(Byte) /\ b # << >> /\ CharLengths(b) = {m}
  BY CharThenRest
<1>3. Len(b) = m + n /\ \A k \in 1..n : From(b, k + m) = From(rest, k)
  <2> HIDE DEF Byte
  <2> QED
    BY <1>1, ConcatProperties, RestOfConcat
<1>4. PICK v : Checks(v, b) /\ IsUtf8(b) = v[1]
  BY <1>2, ChecksExists, IsUtf8Checks
<1>5. PICK w : Checks(w, rest) /\ IsUtf8(rest) = w[1]
  BY ChecksExists, IsUtf8Checks
<1>6. From(b, 1) = b
  <2> HIDE DEF Byte, b
  <2> QED
    BY <1>2, SubSeqFull DEF From
<1> HIDE DEF b, m, n
<1>7. \A k \in 1..((m + n) + 1) : v[k] = (k > m + n \/ \E l \in CharLengths(From(b, k)) : v[k + l])
  <2>1. \A k \in 1..(Len(b) + 1) : v[k] = (k > Len(b) \/ \E l \in CharLengths(From(b, k)) : v[k + l])
    BY <1>4 DEF Checks
  <2> QED
    BY <1>3, <2>1
<1>8. \A k \in 1..(n + 1) : w[k] = (k > n \/ \E l \in CharLengths(From(rest, k)) : w[k + l])
  BY <1>5 DEF Checks, n
<1> DEFINE S == {k \in 1..(n + 1) : v[k + m] = w[k]}
<1>9. Descends(S, n)
  <2>1. n + 1 \in S
    BY <1>1, <1>7, <1>8, SMTT(60)
  <2>2. ASSUME NEW k \in 1..n, \A j \in (k + 1)..(n + 1) : j \in S PROVE k \in S
    <3>1. \A l \in CharLengths(From(rest, k)) : l \in 1..4 /\ k + l \in (k + 1)..(n + 1)
      <4>1. PICK q \in 1..4 : /\ k + q <= Len(rest) + 1
                              /\ CharLengths(From(rest, k)) = {} \/ CharLengths(From(rest, k)) = {q}
        BY NextPlace DEF n
      <4>2. k + q \in (k + 1)..(n + 1)
        BY <1>1, <4>1 DEF n
      <4> QED
        BY <4>1, <4>2
    <3>2. \A l \in CharLengths(From(rest, k)) : v[(k + m) + l] = w[k + l]
      <4> TAKE l \in CharLengths(From(rest, k))
      <4>1. v[(k + l) + m] = w[k + l]
        BY <2>2, <3>1
      <4>2. l \in 1..4
        BY <3>1
      <4>3. (k + l) + m = (k + m) + l
        BY <1>1, <4>2
      <4> QED
        BY <4>1, <4>3
    <3>3. w[k] = \E l \in CharLengths(From(rest, k)) : w[k + l]
      <4>1. k \in 1..(n + 1) /\ ~(k > n)
        BY <1>1
      <4> QED
        BY <1>8, <4>1
    <3>4. v[k + m] = \E l \in CharLengths(From(rest, k)) : v[(k + m) + l]
      <4>1. k + m \in 1..((m + n) + 1) /\ ~(k + m > m + n)
        BY <1>1
      <4> QED
        BY <1>3, <1>7, <4>1
    <3>5. k \in 1..(n + 1)
      BY <1>1
    <3> QED
      BY <3>2, <3>3, <3>4, <3>5
  <2> HIDE DEF S
  <2> QED
    BY <2>1, <2>2 DEF Descends
<1>10. 1 \in S
  <2> HIDE DEF S
  <2>1. 1 \in 1..(n + 1)
    BY <1>1
  <2> QED
    BY <1>1, <1>9, <2>1, BackInduction
<1>11. v[1] = v[1 + m]
  <2>1. 1 \in 1..((m + n) + 1) /\ ~(1 > m + n)
    BY <1>1
  <2>2. v[1] = \E l \in CharLengths(b) : v[1 + l]
    BY <1>6, <1>7, <2>1
  <2>3. 1 + m \in 1..((m + n) + 1)
    BY <1>1
  <2>4. v[1 + m] \in BOOLEAN
    BY <1>7, <2>3
  <2> QED
    BY <1>2, <2>2, <2>4
<1> QED
  BY <1>4, <1>5, <1>10, <1>11 DEF b

-----------------------------------------------------------------------------
(* What a code point is written as.                                         *)

\* A code point taken apart into its bits.
LEMMA Apart ==
    ASSUME NEW cp \in Nat
    PROVE  /\ \E p, q \in Nat : q <= 63 /\ cp = p * 64 + q
           /\ \E p, q, r \in Nat : q <= 63 /\ r <= 63 /\ cp = ThreeBits(p, q, r)
           /\ \E p, q, r, s \in Nat : q <= 63 /\ r <= 63 /\ s <= 63 /\ cp = FourBits(p, q, r, s)
<1>1. ASSUME NEW x \in Nat
      PROVE  \E p, q \in Nat : q <= 63 /\ x = p * 64 + q
  <2>1. x \div 64 \in Nat /\ x % 64 \in Nat /\ x % 64 <= 63 /\ x = (x \div 64) * 64 + (x % 64)
    BY Divided
  <2> QED
    BY <2>1
<1>2. PICK y, s \in Nat : s <= 63 /\ cp = y * 64 + s
  BY <1>1
<1>3. PICK z, r \in Nat : r <= 63 /\ y = z * 64 + r
  BY <1>1
<1>4. PICK w, q \in Nat : q <= 63 /\ z = w * 64 + q
  BY <1>1
<1>5. cp = ThreeBits(z, r, s)
  BY <1>2, <1>3 DEF ThreeBits
<1>6. cp = FourBits(w, q, r, s)
  BY <1>2, <1>3, <1>4 DEF FourBits
<1>7. \E p, t, u \in Nat : t <= 63 /\ u <= 63 /\ cp = ThreeBits(p, t, u)
  BY <1>2, <1>3, <1>5, Zenon
<1>8. \E p, t, u, v \in Nat : t <= 63 /\ u <= 63 /\ v <= 63 /\ cp = FourBits(p, t, u, v)
  BY <1>2, <1>3, <1>4, <1>6, Zenon
<1> QED
  BY <1>1, <1>7, <1>8, Zenon

\* Four bytes, three, two and one as a sequence.
LEMMA TuplesAre ==
    ASSUME NEW x \in Byte, NEW y \in Byte, NEW z \in Byte, NEW w \in Byte
    PROVE  /\ <<x>> \in Seq(Byte) /\ <<x, y>> \in Seq(Byte)
           /\ <<x, y, z>> \in Seq(Byte) /\ <<x, y, z, w>> \in Seq(Byte)
<1> HIDE DEF Byte
<1> QED
  OBVIOUS

\* What every code point that is no surrogate is encoded as is one character.
IsScalar(cp) == cp \in Nat /\ cp <= 1114111 /\ ~IsSurrogate(cp)

LEMMA EncodedIsChar ==
    ASSUME NEW cp, IsScalar(cp)
    PROVE  IsChar(Encode(cp))
<1>0. cp \in Nat
  BY DEF IsScalar
<1>1. CASE cp <= 127
  <2>1. Encode(cp) = <<cp>> /\ cp \in Byte
    BY <1>0, <1>1, EncodeIs, SMT DEF Byte
  <2> DEFINE c == <<cp>>
  <2>2. c \in Seq(Byte) /\ Len(c) = 1 /\ c[1] = cp /\ c # << >>
    BY <2>1, TuplesAre
  <2> HIDE DEF c
  <2>3. 1 \in CharLengths(c)
    BY <1>1, <2>2, CharLengthsAre
  <2> QED
    BY <2>1, <2>2, <2>3 DEF IsChar, c
<1>2. CASE 128 <= cp /\ cp <= 2047
  <2>1. PICK p, q \in Nat : q <= 63 /\ cp = p * 64 + q
    BY <1>0, Apart
  <2>2. p >= 2 /\ p <= 31
    BY <1>2, <2>1
  <2> DEFINE x == 192 + p
             y == 128 + q
             c == <<x, y>>
  <2>3. x \in Byte /\ y \in Byte /\ Between(x, 194, 223) /\ Between(y, 128, 191) /\ x \in Nat /\ y \in Nat
    BY <2>1, <2>2 DEF Byte, Between
  <2>4. Encode(cp) = c
    <3>1. Encode(cp) = TwoBytes(cp) /\ cp \div 1 = cp
      BY <1>0, <1>2, EncodeIs
    <3>2. cp \div 64 = p /\ cp % 64 = q
      BY <2>1, LowBits
    <3> QED
      BY <3>1, <3>2 DEF TwoBytes, SixBits
  <2> HIDE DEF x, y
  <2>5. c \in Seq(Byte) /\ Len(c) = 2 /\ c[1] = x /\ c[2] = y /\ c # << >>
    BY <2>3, TuplesAre
  <2> HIDE DEF c
  <2>6. OfTwo(c)
    <3>1. 2 \in DOMAIN c
      BY <2>5, BytesOf
    <3> QED
      BY <2>3, <2>5, <3>1 DEF OfTwo, IsCont
  <2>7. 2 \in CharLengths(c)
    BY <2>5, <2>6, CharLengthsAre
  <2> QED
    BY <2>4, <2>5, <2>7 DEF IsChar
<1>3. CASE 2048 <= cp /\ cp <= 65535
  <2>1. PICK p, q, r \in Nat : q <= 63 /\ r <= 63 /\ cp = ThreeBits(p, q, r)
    BY <1>0, Apart
  <2>2. p <= 15 /\ (p = 0 => q >= 32) /\ (p = 13 => q <= 31)
    BY <1>3, <2>1, SMT DEF IsScalar, ThreeBits, IsSurrogate, Between
  <2> DEFINE x == 224 + p
             y == 128 + q
             z == 128 + r
             c == <<x, y, z>>
  <2>3. /\ x \in Byte /\ y \in Byte /\ z \in Byte
        /\ Between(x, 224, 239) /\ Between(y, 128, 191) /\ Between(z, 128, 191)
        /\ x = 224 => y >= 160
        /\ x = 237 => y <= 159
    BY <2>1, <2>2 DEF Byte, Between
  <2>4. Encode(cp) = c
    BY <2>1, <2>2, ThreeBytesOf
  <2> HIDE DEF x, y, z
  <2>5. /\ c \in Seq(Byte) /\ Len(c) = 3 /\ c # << >>
        /\ c[1] = x /\ c[2] = y /\ c[3] = z
    BY <2>3, TuplesAre
  <2> HIDE DEF c
  <2>6. OfThree(c)
    <3>1. 2 \in DOMAIN c /\ 3 \in DOMAIN c
      BY <2>5, BytesOf
    <3> QED
      BY <2>3, <2>5, <3>1 DEF OfThree, IsCont
  <2>7. 3 \in CharLengths(c)
    BY <2>5, <2>6, CharLengthsAre
  <2> QED
    BY <2>4, <2>5, <2>7 DEF IsChar
<1>4. CASE 65536 <= cp
  <2>1. PICK p, q, r, s \in Nat : q <= 63 /\ r <= 63 /\ s <= 63 /\ cp = FourBits(p, q, r, s)
    BY <1>0, Apart
  <2>2. p <= 4 /\ (p = 0 => q >= 16) /\ (p = 4 => q <= 15)
    BY <1>4, <2>1, SMT DEF IsScalar, FourBits
  <2> DEFINE x == 240 + p
             y == 128 + q
             z == 128 + r
             w == 128 + s
             c == <<x, y, z, w>>
  <2>3. /\ x \in Byte /\ y \in Byte /\ z \in Byte /\ w \in Byte
        /\ Between(x, 240, 244) /\ Between(y, 128, 191) /\ Between(z, 128, 191)
        /\ Between(w, 128, 191)
        /\ x = 240 => y >= 144
        /\ x = 244 => y <= 143
    BY <2>1, <2>2 DEF Byte, Between
  <2>4. Encode(cp) = c
    BY <2>1, <2>2, FourBytesOf
  <2> HIDE DEF x, y, z, w
  <2>5. /\ c \in Seq(Byte) /\ Len(c) = 4 /\ c # << >>
        /\ c[1] = x /\ c[2] = y /\ c[3] = z /\ c[4] = w
    BY <2>3, TuplesAre
  <2> HIDE DEF c
  <2>6. OfFour(c)
    <3>1. 2 \in DOMAIN c /\ 3 \in DOMAIN c /\ 4 \in DOMAIN c
      BY <2>5, BytesOf
    <3> QED
      BY <2>3, <2>5, <3>1 DEF OfFour, IsCont
  <2>7. 4 \in CharLengths(c)
    BY <2>5, <2>6, CharLengthsAre
  <2> QED
    BY <2>4, <2>5, <2>7 DEF IsChar
<1>5. cp <= 127 \/ (128 <= cp /\ cp <= 2047) \/ (2048 <= cp /\ cp <= 65535) \/ 65536 <= cp
  BY <1>0, SMT
<1> QED
  BY <1>1, <1>2, <1>3, <1>4, <1>5, SMT

-----------------------------------------------------------------------------
(* Reading.                                                                 *)

\* The two halves of a surrogate pair are the two kinds of surrogates.
LEMMA Halves ==
    ASSUME NEW n \in Nat
    PROVE  /\ IsSurrogate(n) <=> Between(n, 55296, 56319) \/ Between(n, 56320, 57343)
           /\ ~(Between(n, 55296, 56319) /\ Between(n, 56320, 57343))
BY SMT DEF IsSurrogate, Between

\* What one turn of the reader takes, by the kind of unit, and that it is one character.
LEMMA TakenByKind ==
    ASSUME NEW units \in Seq(Unit), NEW i \in 1..Len(units)
    PROVE  /\ Taken(units, i).n \in {0, 1, 2}
           /\ Taken(units, i).n # 0 => IsChar(Taken(units, i).bytes)
           /\ Taken(units, i).n = 2 <=> /\ High(units[i]) /\ i < Len(units) /\ Low(units[i + 1])
           /\ Taken(units, i).n = 1 <=>
                  /\ units[i] # Junk /\ ~High(units[i]) /\ ~Low(units[i])
                  /\ units[i].u = "raw" => IsWholeChar(units[i].bytes)
           /\ Taken(units, i).n = 2 => Taken(units, i).bytes = Encode(PairOf(units[i], units[i + 1]))
           /\ Taken(units, i).n = 1 =>
                  /\ units[i].u = "raw" => Taken(units, i).bytes = units[i].bytes
                  /\ units[i].u = "short" => Taken(units, i).bytes = <<units[i].code>>
                  /\ units[i].u = "hex" => Taken(units, i).bytes = Encode(units[i].code)
                  /\ units[i].u \in {"raw", "short", "hex"}
<1> DEFINE unit == units[i]
           paired == i < Len(units) /\ Low(units[i + 1])
           t == Taken(units, i)
           whole == unit.u = "raw" /\ IsWholeChar(unit.bytes)
           short == unit.u = "short"
           pair == High(unit) /\ paired
           single == unit.u = "hex" /\ ~IsSurrogate(unit.code)
           wholeIs == [n |-> 1, bytes |-> unit.bytes]
           shortIs == [n |-> 1, bytes |-> <<unit.code>>]
           pairIs == [n |-> 2, bytes |-> Encode(PairOf(unit, units[i + 1]))]
           singleIs == [n |-> 1, bytes |-> Encode(unit.code)]
           noneIs == [n |-> 0, bytes |-> << >>]
<1>1. Len(units) \in Nat /\ \A k \in 1..Len(units) : units[k] \in Unit
  <2> HIDE DEF Unit
  <2> QED
    BY LenProperties
<1>2. unit \in Unit
  BY <1>1
<1>3. paired => units[i + 1] \in Unit
  BY <1>1
<1>4. /\ whole /\ ~short /\ ~pair /\ ~single => t = wholeIs
      /\ ~whole /\ short /\ ~pair /\ ~single => t = shortIs
      /\ ~whole /\ ~short /\ pair /\ ~single => t = pairIs
      /\ ~whole /\ ~short /\ ~pair /\ single => t = singleIs
      /\ ~whole /\ ~short /\ ~pair /\ ~single => t = noneIs
  <2>1. t = CASE whole -> wholeIs [] short -> shortIs [] pair -> pairIs [] single -> singleIs
              [] OTHER -> noneIs
    BY Zenon DEF Taken
  <2> HIDE DEF t, whole, short, pair, single, wholeIs, shortIs, pairIs, singleIs, noneIs
  <2> QED
    BY <2>1
<1> HIDE DEF t
<1>5. \/ unit.u = "raw" /\ unit.bytes \in Seq(Byte) /\ unit.bytes # << >>
      \/ unit.u = "short" /\ unit.code \in Nat /\ unit.code <= 127
      \/ unit.u = "hex" /\ unit.code \in Nat /\ unit.code <= 65535
      \/ unit = Junk
  BY <1>2, SMT DEF Unit, ShortEscapes, Quote, Backslash
<1>6. /\ High(unit) \/ Low(unit) => unit.u = "hex"
      /\ unit.u = "hex" => (IsSurrogate(unit.code) <=> High(unit) \/ Low(unit))
      /\ ~(High(unit) /\ Low(unit))
  <2>1. /\ High(unit) <=> unit.u = "hex" /\ Between(unit.code, 55296, 56319)
        /\ Low(unit) <=> unit.u = "hex" /\ Between(unit.code, 56320, 57343)
    BY SMT DEF High, Low
  <2>2. unit.u = "hex" => unit.code \in Nat
    BY <1>5, SMT DEF Junk
  <2> QED
    BY <2>1, <2>2, Halves, SMT
<1>7. Junk.u = "junk"
  BY DEF Junk
<1>t. /\ wholeIs.n = 1 /\ shortIs.n = 1 /\ pairIs.n = 2 /\ singleIs.n = 1 /\ noneIs.n = 0
      /\ wholeIs.bytes = unit.bytes /\ shortIs.bytes = <<unit.code>>
      /\ pairIs.bytes = Encode(PairOf(unit, units[i + 1])) /\ singleIs.bytes = Encode(unit.code)
  OBVIOUS
<1> HIDE DEF unit, paired, wholeIs, shortIs, pairIs, singleIs, noneIs
<1>8. CASE unit.u = "raw"
  <2>1. unit # Junk /\ ~High(unit) /\ ~Low(unit) /\ unit.bytes \in Seq(Byte) /\ unit.bytes # << >>
    BY <1>5, <1>6, <1>7, <1>8
  <2>2. CASE IsWholeChar(unit.bytes)
    <3>1. t.n = 1 /\ t.bytes = unit.bytes
      BY <1>4, <1>t, <1>8, <2>1, <2>2
    <3>2. IsChar(unit.bytes)
      <4> DEFINE b == unit.bytes
      <4>1. RawLen(b) = Len(b) /\ b \in Seq(Byte) /\ b # << >>
        BY <2>1, <2>2 DEF IsWholeChar
      <4> HIDE DEF b
      <4>2. Len(b) # 0 /\ b[1] \in Nat
        BY <4>1, BytesOf, EmptySeq
      <4>3. b[1] >= 32
        <5>1. RawLen(b) # 0
          BY <4>1, <4>2
        <5> QED
          BY <4>1, <4>2, <5>1, RawLenIs DEF OfTwo, OfThree, OfFour, Between
      <4>4. Len(b) \in CharLengths(b)
        BY <4>1, <4>2, <4>3, RawLenMeasures
      <4> QED
        BY <4>1, <4>4 DEF IsChar, b
    <3> QED
      BY <1>8, <2>1, <2>2, <3>1, <3>2 DEF t, unit
  <2>3. CASE ~IsWholeChar(unit.bytes)
    <3>1. t.n = 0
      BY <1>4, <1>t, <1>8, <2>1, <2>3
    <3> QED
      BY <1>8, <2>1, <2>3, <3>1 DEF t, unit
  <2> QED
    BY <2>2, <2>3
<1>9. CASE unit.u = "short"
  <2>1. unit # Junk /\ ~High(unit) /\ ~Low(unit) /\ unit.code \in Nat /\ unit.code <= 127
    BY <1>5, <1>6, <1>7, <1>9
  <2>2. t.n = 1 /\ t.bytes = <<unit.code>>
    BY <1>4, <1>t, <1>9, <2>1
  <2>3. IsChar(<<unit.code>>)
    <3>1. IsScalar(unit.code) /\ Encode(unit.code) = <<unit.code>>
      BY <2>1, EncodeIs, SMT DEF IsScalar, IsSurrogate, Between
    <3> QED
      BY <3>1, EncodedIsChar
  <2> QED
    BY <1>9, <2>1, <2>2, <2>3 DEF t, unit
<1>10. CASE unit.u = "hex"
  <2>1. unit # Junk /\ unit.code \in Nat /\ unit.code <= 65535
    BY <1>5, <1>7, <1>10, SMT
  <2>2. CASE High(unit) /\ paired
    <3>1. t.n = 2 /\ t.bytes = Encode(PairOf(unit, units[i + 1]))
      BY <1>4, <1>t, <1>6, <1>10, <2>2
    <3>2. units[i + 1].code \in Nat
      <4>1. units[i + 1] \in Unit /\ units[i + 1].u = "hex"
        BY <1>3, <2>2 DEF Low, paired
      <4> DEFINE next == units[i + 1]
      <4> HIDE DEF next
      <4>2. next \in Unit /\ next.u = "hex" => next.code \in Nat
        BY SMT DEF Unit, Junk
      <4> QED
        BY <4>1, <4>2 DEF next
    <3>3. IsScalar(PairOf(unit, units[i + 1]))
      <4>1. Between(unit.code, 55296, 56319) /\ Between(units[i + 1].code, 56320, 57343)
        BY <2>2, SMT DEF paired, High, Low
      <4> DEFINE h == unit.code
                 l == units[i + 1].code
      <4> HIDE DEF h, l
      <4>2. h \in Nat /\ l \in Nat /\ Between(h, 55296, 56319) /\ Between(l, 56320, 57343) =>
                IsScalar(65536 + (h - 55296) * 1024 + (l - 56320))
        BY SMT DEF IsScalar, IsSurrogate, Between
      <4> QED
        BY <2>1, <3>2, <4>1, <4>2, SMT DEF PairOf, h, l
    <3>5. IsChar(Encode(PairOf(unit, units[i + 1])))
      BY <3>3, EncodedIsChar
    <3> QED
      BY <1>10, <2>1, <2>2, <3>1, <3>5 DEF t, unit, paired
  <2>3. CASE ~(High(unit) /\ paired) /\ IsSurrogate(unit.code)
    <3>1. t.n = 0
      BY <1>4, <1>t, <1>10, <2>3
    <3> QED
      BY <1>6, <1>10, <2>1, <2>3, <3>1 DEF t, unit, paired
  <2>4. CASE ~(High(unit) /\ paired) /\ ~IsSurrogate(unit.code)
    <3>1. t.n = 1 /\ t.bytes = Encode(unit.code)
      BY <1>4, <1>t, <1>10, <2>4
    <3>2. IsScalar(unit.code)
      BY <2>1, <2>4, SMT DEF IsScalar
    <3>3. IsChar(Encode(unit.code))
      BY <3>2, EncodedIsChar
    <3> QED
      BY <1>6, <1>10, <2>1, <2>4, <3>1, <3>3 DEF t, unit, paired
  <2> QED
    BY <2>2, <2>3, <2>4
<1>11. CASE unit = Junk
  <2>1. unit.u = "junk" /\ ~High(unit) /\ ~Low(unit)
    BY <1>7, <1>11 DEF High, Low
  <2>2. t.n = 0
    BY <1>4, <1>t, <2>1
  <2> QED
    BY <1>11, <2>1, <2>2 DEF t, unit
<1> QED
  BY <1>5, <1>8, <1>9, <1>10, <1>11, SMT

\* A pair of escapes stands for a character, a surrogate alone does not.
LEMMA TakenIs ==
    ASSUME NEW units \in Seq(Unit), NEW i \in 1..Len(units)
    PROVE  /\ Taken(units, i).n \in {0, 1, 2}
           /\ Taken(units, i).n # 0 => IsChar(Taken(units, i).bytes)
           /\ Taken(units, i).n = 2 <=> /\ High(units[i]) /\ i < Len(units) /\ Low(units[i + 1])
           /\ Taken(units, i).n = 1 <=>
                  /\ units[i] # Junk /\ ~High(units[i]) /\ ~Low(units[i])
                  /\ units[i].u = "raw" => IsWholeChar(units[i].bytes)
BY TakenByKind, Zenon

LEMMA TakenBytes ==
    ASSUME NEW units \in Seq(Unit), NEW i \in 1..Len(units)
    PROVE  /\ Taken(units, i).n = 2 => Taken(units, i).bytes = Encode(PairOf(units[i], units[i + 1]))
           /\ Taken(units, i).n = 1 =>
                  /\ units[i].u = "raw" => Taken(units, i).bytes = units[i].bytes
                  /\ units[i].u = "short" => Taken(units, i).bytes = <<units[i].code>>
                  /\ units[i].u = "hex" => Taken(units, i).bytes = Encode(units[i].code)
                  /\ units[i].u \in {"raw", "short", "hex"}
BY TakenByKind, Zenon

\* from says of each place what is read from there on.
Reads(from, units) ==
    from = [i \in 1..(Len(units) + 1) |->
                IF i > Len(units) THEN [ok |-> TRUE, bytes |-> << >>]
                ELSE IF Taken(units, i).n = 0 THEN NoString
                ELSE Behind(Taken(units, i).bytes, from[i + Taken(units, i).n])]
Result == [ok : BOOLEAN, bytes : Seq(Byte)]
AllRead == [ok |-> TRUE, bytes |-> << >>]

LEMMA DecodeReads ==
    ASSUME NEW units
    PROVE  Decode(units) = (CHOOSE from : Reads(from, units))[1]
BY DEF Decode, Reads, ReadOn

LEMMA BehindIs ==
    ASSUME NEW c \in Seq(Byte), NEW r \in Result
    PROVE  /\ Behind(c, r) \in Result
           /\ Behind(c, r).ok = r.ok
           /\ r.ok => Behind(c, r).bytes = c \o r.bytes
<1>1. r.ok \in BOOLEAN /\ r.bytes \in Seq(Byte)
  <2> HIDE DEF Byte
  <2> QED
    BY DEF Result
<1>2. c \o r.bytes \in Seq(Byte) /\ << >> \in Seq(Byte)
  <2> HIDE DEF Byte
  <2> QED
    BY <1>1, ConcatProperties
<1> HIDE DEF Byte
<1> QED
  BY <1>1, <1>2 DEF Behind, NoString, Result

LEMMA ConstantResults ==
    /\ NoString \in Result /\ ~NoString.ok
    /\ AllRead \in Result /\ AllRead.ok /\ AllRead.bytes = << >>
<1> HIDE DEF Byte
<1>1. << >> \in Seq(Byte)
  OBVIOUS
<1> QED
  BY <1>1 DEF NoString, AllRead, Result

\* Where the loop goes on.
LEMMA TakenGoesOn ==
    ASSUME NEW units \in Seq(Unit), NEW i \in 1..Len(units)
    PROVE  /\ Taken(units, i).n \in {0, 1, 2}
           /\ i + Taken(units, i).n <= Len(units) + 1
           /\ Taken(units, i).n # 0 => Taken(units, i).bytes \in Seq(Byte)
<1>1. Len(units) \in Nat
  <2> HIDE DEF Unit
  <2> QED
    BY LenProperties
<1>2. /\ Taken(units, i).n \in {0, 1, 2}
      /\ Taken(units, i).n # 0 => IsChar(Taken(units, i).bytes)
      /\ Taken(units, i).n = 2 => i < Len(units)
  BY TakenIs
<1> QED
  BY <1>1, <1>2 DEF IsChar

LEMMA ReadsExists ==
    ASSUME NEW units \in Seq(Unit)
    PROVE  \E from : Reads(from, units)
<1> DEFINE n == Len(units)
           len(i) == Taken(units, i).n
           go == [i \in 1..n |-> IF len(i) = 0 THEN i + 1 ELSE i + len(i)]
           step == [i \in 1..n |-> [r \in Result |->
                        IF len(i) = 0 THEN NoString ELSE Behind(Taken(units, i).bytes, r)]]
<1>1. n \in Nat
  <2> HIDE DEF Unit
  <2> QED
    BY LenProperties
<1>2. \A i \in 1..n : /\ len(i) \in {0, 1, 2} /\ i + len(i) <= n + 1
                      /\ len(i) # 0 => Taken(units, i).bytes \in Seq(Byte)
  BY TakenGoesOn
<1> HIDE DEF n, len
<1>3. GoesOn(n, Result, AllRead, go, step)
  <2>1. \A i \in 1..n : (IF len(i) = 0 THEN i + 1 ELSE i + len(i)) \in (i + 1)..(n + 1)
    BY <1>1, <1>2
  <2>2. \A i \in 1..n, r \in Result :
            (IF len(i) = 0 THEN NoString ELSE Behind(Taken(units, i).bytes, r)) \in Result
    BY <1>2, BehindIs, ConstantResults
  <2>3. step \in [1..n -> [Result -> Result]]
    BY <2>2
  <2>4. go \in [1..n -> 1..(n + 1)] /\ \A i \in 1..n : i < go[i]
    BY <1>1, <2>1
  <2> HIDE DEF go, step
  <2> QED
    BY <1>1, <2>3, <2>4, ConstantResults DEF GoesOn
<1> HIDE DEF go, step
<1>4. PICK f \in [1..(n + 1) -> Result] : IsBackward(f, n, AllRead, go, step)
  BY <1>3, BackwardExists
<1>5. /\ f = [i \in 1..(n + 1) |-> f[i]]
      /\ f[n + 1] = AllRead
      /\ \A i \in 1..n : f[i] = step[i][f[go[i]]]
  BY <1>1, <1>4, BackwardSteps
<1>6. ASSUME NEW i \in 1..n
      PROVE  f[i] = IF len(i) = 0 THEN NoString ELSE Behind(Taken(units, i).bytes, f[i + len(i)])
  <2>1. go[i] = IF len(i) = 0 THEN i + 1 ELSE i + len(i)
    BY DEF go
  <2>2. go[i] \in 1..(n + 1)
    BY <1>1, <1>2, <2>1
  <2>3. f[go[i]] \in Result
    BY <1>4, <2>2
  <2>4. f[i] = IF len(i) = 0 THEN NoString ELSE Behind(Taken(units, i).bytes, f[go[i]])
    BY <1>5, <2>3 DEF step
  <2> QED
    BY <2>1, <2>4
<1>7. ASSUME NEW i \in 1..(n + 1)
      PROVE  f[i] = IF i > n THEN AllRead
                    ELSE IF len(i) = 0 THEN NoString
                    ELSE Behind(Taken(units, i).bytes, f[i + len(i)])
  <2>1. (i \in 1..n /\ ~(i > n)) \/ (i = n + 1 /\ i > n)
    BY <1>1
  <2> QED
    BY <1>5, <1>6, <2>1
<1>8. Reads(f, units)
  BY <1>5, <1>7, Zenon DEF Reads, n, len, AllRead
<1> QED
  BY <1>8

\* What the reader answers, place by place.
ReadsOn(d, units) ==
    /\ d[Len(units) + 1] = AllRead
    /\ \A i \in 1..Len(units) :
          /\ Taken(units, i).n = 0 => d[i] = NoString
          /\ Taken(units, i).n # 0 => d[i] = Behind(Taken(units, i).bytes, d[i + Taken(units, i).n])
    /\ \A i \in 1..(Len(units) + 1) : d[i] \in Result

LEMMA DecodeSteps ==
    ASSUME NEW units \in Seq(Unit)
    PROVE  \E d : Decode(units) = d[1] /\ ReadsOn(d, units)
<1> DEFINE n == Len(units)
<1>1. n \in Nat
  <2> HIDE DEF Unit
  <2> QED
    BY LenProperties
<1>2. PICK d : Reads(d, units) /\ Decode(units) = d[1]
  BY ReadsExists, DecodeReads
<1>3. \A i \in 1..(n + 1) : d[i] = IF i > n THEN AllRead
                                   ELSE IF Taken(units, i).n = 0 THEN NoString
                                   ELSE Behind(Taken(units, i).bytes, d[i + Taken(units, i).n])
  BY <1>2, Zenon DEF Reads, AllRead
<1>4. \A i \in 1..n : /\ Taken(units, i).n \in {0, 1, 2} /\ i + Taken(units, i).n <= n + 1
                      /\ Taken(units, i).n # 0 => Taken(units, i).bytes \in Seq(Byte)
  BY TakenGoesOn
<1> HIDE DEF n
<1>5. d[n + 1] = AllRead
  BY <1>1, <1>3
<1>6. \A i \in 1..n : /\ Taken(units, i).n = 0 => d[i] = NoString
                      /\ Taken(units, i).n # 0 =>
                            d[i] = Behind(Taken(units, i).bytes, d[i + Taken(units, i).n])
  <2> TAKE i \in 1..n
  <2>1. i \in 1..(n + 1) /\ ~(i > n)
    BY <1>1
  <2> QED
    BY <1>3, <2>1
<1> DEFINE S == {i \in 1..(n + 1) : d[i] \in Result}
<1>7. Descends(S, n)
  <2>1. n + 1 \in S
    BY <1>1, <1>5, ConstantResults
  <2>2. ASSUME NEW k \in 1..n, \A j \in (k + 1)..(n + 1) : j \in S PROVE k \in S
    <3>1. k \in 1..(n + 1)
      BY <1>1
    <3>2. CASE Taken(units, k).n = 0
      BY <1>6, <3>1, <3>2, ConstantResults
    <3>3. CASE Taken(units, k).n # 0
      <4>1. k + Taken(units, k).n \in (k + 1)..(n + 1) /\ Taken(units, k).bytes \in Seq(Byte)
        BY <1>1, <1>4, <3>3
      <4>2. d[k + Taken(units, k).n] \in Result
        BY <2>2, <4>1
      <4>3. d[k] \in Result
        BY <1>6, <3>3, <4>1, <4>2, BehindIs
      <4> QED
        BY <3>1, <4>3
    <3> QED
      BY <3>2, <3>3
  <2> HIDE DEF S
  <2> QED
    BY <2>1, <2>2 DEF Descends
<1>8. \A i \in 1..(n + 1) : i \in S
  <2> HIDE DEF S
  <2> QED
    BY <1>1, <1>7, BackInduction
<1>9. ReadsOn(d, units)
  BY <1>5, <1>6, <1>8 DEF ReadsOn, n
<1> QED
  BY <1>2, <1>9

LEMMA EmptyIsUtf8 == IsUtf8(<< >>)
<1> DEFINE b == << >>
<1>1. b \in Seq(Byte) /\ Len(b) = 0
  <2> HIDE DEF Byte
  <2> QED
    OBVIOUS
<1> HIDE DEF b
<1>2. PICK v : Checks(v, b) /\ IsUtf8(b) = v[1]
  BY <1>1, ChecksExists, IsUtf8Checks
<1>3. v[1] = (1 > Len(b) \/ \E n \in CharLengths(From(b, 1)) : v[1 + n])
  <2>1. 1 \in 1..(Len(b) + 1)
    BY <1>1
  <2> QED
    BY <1>2, <2>1 DEF Checks
<1>4. 1 > Len(b)
  BY <1>1
<1>5. v[1]
  BY <1>3, <1>4
<1> QED
  BY <1>2, <1>5 DEF b

\* A unit that a string may hold where it stands: a whole character, or an escape whose
\* halves of pairs stand together.
Paired(units, k) ==
    /\ High(units[k]) => k < Len(units) /\ Low(units[k + 1])
    /\ Low(units[k]) => k > 1 /\ High(units[k - 1])
Readable(units, k) ==
    /\ units[k] # Junk /\ Paired(units, k)
    /\ units[k].u = "raw" => IsWholeChar(units[k].bytes)

\* A string is read from a place on if it does not start with the second half of a pair
\* there, and every unit from there on is readable; then it is UTF-8.
ReadsWell(d, units, i) ==
    /\ d[i].ok <=> /\ ~(i <= Len(units) /\ Low(units[i]))
                   /\ \A k \in i..Len(units) : Readable(units, k)
    /\ d[i].ok => IsUtf8(d[i].bytes)

LEMMA ReaderReadsWell ==
    ASSUME NEW units \in Seq(Unit), NEW d, ReadsOn(d, units)
    PROVE  \A i \in 1..(Len(units) + 1) : ReadsWell(d, units, i)
<1> DEFINE n == Len(units)
           unit(i) == units[i]
<1>1. n \in Nat
  <2> HIDE DEF Unit
  <2> QED
    BY LenProperties
<1>2. /\ d[n + 1] = AllRead
      /\ \A i \in 1..n : /\ Taken(units, i).n = 0 => d[i] = NoString
                         /\ Taken(units, i).n # 0 =>
                               d[i] = Behind(Taken(units, i).bytes, d[i + Taken(units, i).n])
      /\ \A i \in 1..(n + 1) : d[i] \in Result
  BY DEF ReadsOn
<1>3. \A i \in 1..n :
          /\ Taken(units, i).n \in {0, 1, 2}
          /\ Taken(units, i).n # 0 => IsChar(Taken(units, i).bytes)
          /\ Taken(units, i).n = 2 <=> High(units[i]) /\ i < n /\ Low(units[i + 1])
          /\ Taken(units, i).n = 1 <=>
                 /\ units[i] # Junk /\ ~High(units[i]) /\ ~Low(units[i])
                 /\ units[i].u = "raw" => IsWholeChar(units[i].bytes)
  BY TakenIs
<1>4. \A i \in 1..n : ~(High(units[i]) /\ Low(units[i]))
  <2> TAKE i \in 1..n
  <2>1. High(units[i]) /\ Low(units[i]) => FALSE
    <3>1. units[i] \in Unit
      <4> HIDE DEF Unit
      <4> QED
        BY LenProperties
    <3> DEFINE u == units[i]
    <3>2. u.u = "hex" => u.code \in Nat
      <4> HIDE DEF u
      <4>1. u \in Unit => (u.u = "hex" => u.code \in Nat)
        BY SMT DEF Unit, Junk
      <4> QED
        BY <3>1, <4>1 DEF u
    <3> HIDE DEF u
    <3>3. ~(High(u) /\ Low(u))
      BY <3>2, Halves, SMT DEF High, Low
    <3> QED
      BY <3>3 DEF u
  <2> QED
    BY <2>1
<1>5. \A i \in 1..n : High(units[i]) \/ Low(units[i]) => units[i].u = "hex" /\ units[i] # Junk
  BY SMT DEF High, Low, Junk
<1> HIDE DEF n
<1> DEFINE S == {i \in 1..(n + 1) : ReadsWell(d, units, i)}
<1>6. n + 1 \in S
  <2>1. ReadsWell(d, units, n + 1)
    BY <1>1, <1>2, ConstantResults, EmptyIsUtf8 DEF ReadsWell, n
  <2> QED
    BY <1>1, <2>1
<1>7. ASSUME NEW i \in 1..n, \A j \in (i + 1)..(n + 1) : j \in S
      PROVE  i \in S
  <2> DEFINE m == Taken(units, i).n
             c == Taken(units, i).bytes
             All(k) == \A l \in k..n : Readable(units, l)
  <2>1. i \in 1..(n + 1) /\ i <= n /\ \A k \in i..n : k \in 1..n
    BY <1>1
  <2>2. m \in {0, 1, 2} /\ (m = 2 => i < n)
    BY <1>3
  <2>3. All(i) <=> Readable(units, i) /\ All(i + 1)
    <3>1. \A l \in i..n : l = i \/ l \in (i + 1)..n
      BY <1>1
    <3>2. i \in i..n /\ \A l \in (i + 1)..n : l \in i..n
      BY <1>1
    <3> QED
      BY <3>1, <3>2
  <2>4. CASE m = 0
    <3>1. ~d[i].ok
      BY <1>2, <2>4, ConstantResults
    <3>2. Low(units[i]) \/ ~Readable(units, i)
      <4>1. Readable(units, i) /\ ~Low(units[i]) => ~High(units[i])
        BY <1>3, <2>4 DEF Readable, Paired, n
      <4> QED
        BY <1>3, <2>4, <4>1 DEF Readable
    <3>3. ReadsWell(d, units, i)
      BY <2>1, <2>3, <3>1, <3>2 DEF ReadsWell, n
    <3> QED
      BY <2>1, <3>3
  <2>5. CASE m # 0
    <3>1. i + m \in (i + 1)..(n + 1) /\ IsChar(c) /\ d[i] = Behind(c, d[i + m])
      BY <1>1, <1>2, <1>3, <2>2, <2>5
    <3>2. ReadsWell(d, units, i + m) /\ d[i + m] \in Result
      BY <1>1, <1>2, <1>7, <3>1
    <3>3. c \in Seq(Byte) /\ d[i + m].bytes \in Seq(Byte)
      <4> HIDE DEF Byte, c, m
      <4> QED
        BY <3>1, <3>2 DEF IsChar, Result
    <3>4. d[i].ok = d[i + m].ok /\ (d[i].ok => d[i].bytes = c \o d[i + m].bytes)
      <4> DEFINE r == d[i + m]
      <4>1. c \in Seq(Byte) /\ r \in Result /\ d[i] = Behind(c, r)
        BY <3>1, <3>2, <3>3
      <4> HIDE DEF c, m, r, Byte
      <4>2. Behind(c, r).ok = r.ok /\ (r.ok => Behind(c, r).bytes = c \o r.bytes)
        BY <4>1, BehindIs
      <4>3. d[i].ok = r.ok /\ (r.ok => d[i].bytes = c \o r.bytes)
        BY <4>1, <4>2
      <4> QED
        BY <4>3 DEF r
    <3>5. d[i].ok => IsUtf8(d[i].bytes)
      <4> HIDE DEF c, m
      <4> QED
        BY <3>1, <3>2, <3>3, <3>4, Utf8OfMore, ZenonT(60) DEF ReadsWell
    <3>6. d[i + m].ok <=> ~(i + m <= n /\ Low(units[i + m])) /\ All(i + m)
      BY <3>2 DEF ReadsWell, n
    <3>7. CASE m = 1
      <4>1. /\ units[i] # Junk /\ ~High(units[i]) /\ ~Low(units[i])
            /\ units[i].u = "raw" => IsWholeChar(units[i].bytes)
        BY <1>3, <3>7
      <4>2. Readable(units, i)
        BY <4>1 DEF Readable, Paired
      <4>3. i + 1 <= n /\ Low(units[i + 1]) => ~All(i + 1)
        <5>1. i + 1 <= n /\ Low(units[i + 1]) => ~Readable(units, i + 1)
          BY <1>1, <4>1 DEF Readable, Paired
        <5>2. i + 1 <= n => i + 1 \in (i + 1)..n
          BY <1>1
        <5> QED
          BY <5>1, <5>2
      <4>4. d[i].ok <=> All(i + 1)
        BY <3>4, <3>6, <3>7, <4>3
      <4>5. ReadsWell(d, units, i)
        BY <2>3, <3>5, <4>1, <4>2, <4>4 DEF ReadsWell, n
      <4> QED
        BY <2>1, <4>5
    <3>8. CASE m = 2
      <4>1. High(units[i]) /\ i < n /\ Low(units[i + 1])
        BY <1>3, <3>8
      <4>2. i + 1 \in 1..n /\ i + 1 \in (i + 1)..n /\ i + 2 \in 1..(n + 1)
        BY <1>1, <4>1
      <4>3. ~Low(units[i]) /\ ~High(units[i + 1]) /\ units[i] # Junk /\ units[i + 1] # Junk
            /\ units[i].u # "raw" /\ units[i + 1].u # "raw"
        BY <1>4, <1>5, <4>1, <4>2
      <4>4. Readable(units, i)
        BY <4>1, <4>3 DEF Readable, Paired, n
      <4>5. Readable(units, i + 1)
        <5>1. i + 1 > 1 /\ (i + 1) - 1 = i
          BY <1>1
        <5> QED
          BY <4>1, <4>3, <5>1 DEF Readable, Paired
      <4>6. All(i + 1) <=> All(i + 2)
        <5>1. \A l \in (i + 1)..n : l = i + 1 \/ l \in (i + 2)..n
          BY <1>1
        <5>2. \A l \in (i + 2)..n : l \in (i + 1)..n
          BY <1>1
        <5> QED
          BY <4>5, <5>1, <5>2
      <4>7. i + 2 <= n /\ Low(units[i + 2]) => ~All(i + 2)
        <5>1. i + 2 <= n /\ Low(units[i + 2]) => ~Readable(units, i + 2)
          <6>1. (i + 2) - 1 = i + 1
            BY <1>1
          <6> QED
            BY <4>3, <6>1 DEF Readable, Paired
        <5>2. i + 2 <= n => i + 2 \in (i + 2)..n
          BY <1>1
        <5> QED
          BY <5>1, <5>2
      <4>8. d[i].ok <=> All(i + 2)
        BY <3>4, <3>6, <3>8, <4>7
      <4>9. ReadsWell(d, units, i)
        BY <2>3, <3>5, <4>3, <4>4, <4>6, <4>8 DEF ReadsWell, n
      <4> QED
        BY <2>1, <4>9
    <3> QED
      BY <2>2, <2>5, <3>7, <3>8
  <2> QED
    BY <2>4, <2>5
<1>8. Descends(S, n)
  <2> HIDE DEF S
  <2> QED
    BY <1>6, <1>7 DEF Descends
<1>9. \A i \in 1..(n + 1) : i \in S
  <2> HIDE DEF S
  <2> QED
    BY <1>1, <1>8, BackInduction
<1> QED
  BY <1>9 DEF n

\* Whatever units stand between the quotes, the reader takes them for a string just if
\* every raw character is whole and every half of a surrogate pair has its other half,
\* and what it then returns is UTF-8.
THEOREM StringsReadAreUtf8 == Spec => []ReadsUtf8
<1>1. CallInv => ReadsUtf8
  <2> SUFFICES ASSUME CallInv, op = "read"
               PROVE  /\ answer.ok <=> \A k \in DOMAIN input : Readable(input, k)
                      /\ answer.ok => IsUtf8(answer.bytes)
    BY DEF ReadsUtf8, Readable, Paired
  <2>1. input \in Seq(Unit) /\ answer = Decode(input)
    BY DEF CallInv
  <2>2. Len(input) \in Nat /\ DOMAIN input = 1..Len(input)
    <3> HIDE DEF Unit
    <3> QED
      BY <2>1, LenProperties
  <2>3. PICK d : answer = d[1] /\ ReadsOn(d, input)
    BY <2>1, DecodeSteps
  <2>4. ReadsWell(d, input, 1)
    <3>1. 1 \in 1..(Len(input) + 1)
      BY <2>2
    <3> QED
      BY <2>1, <2>3, <3>1, ReaderReadsWell
  <2>5. 1 <= Len(input) /\ Low(input[1]) => ~Readable(input, 1)
    BY DEF Readable, Paired
  <2>6. 1 <= Len(input) => 1 \in DOMAIN input
    BY <2>2
  <2> QED
    BY <2>2, <2>3, <2>4, <2>5, <2>6 DEF ReadsWell
<1> QED
  BY <1>1, CallsAreTyped, PTL

-----------------------------------------------------------------------------
(* Writing.                                                                 *)

\* A unit in front of others is taken for itself, if it starts no pair; the others are
\* taken as before.
LEMMA TakenOfMore ==
    ASSUME NEW u \in Unit, NEW rest \in Seq(Unit)
    PROVE  /\ <<u>> \o rest \in Seq(Unit) /\ Len(<<u>> \o rest) = Len(rest) + 1
           /\ (<<u>> \o rest)[1] = u
           /\ \A i \in 1..Len(rest) :
                 /\ (<<u>> \o rest)[i + 1] = rest[i]
                 /\ Taken(<<u>> \o rest, i + 1).n = Taken(rest, i).n
                 /\ Taken(rest, i).n # 0 =>
                        Taken(<<u>> \o rest, i + 1).bytes = Taken(rest, i).bytes
<1> DEFINE n == Len(rest)
           all == <<u>> \o rest
<1>1. /\ n \in Nat /\ all \in Seq(Unit) /\ Len(all) = n + 1 /\ all[1] = u
      /\ \A i \in 1..n : all[i + 1] = rest[i]
  <2> HIDE DEF Unit
  <2>1. <<u>> \in Seq(Unit) /\ Len(<<u>>) = 1 /\ <<u>>[1] = u
    OBVIOUS
  <2>2. n \in Nat
    BY LenProperties
  <2>3. /\ all \in Seq(Unit) /\ Len(all) = 1 + n
        /\ \A i \in 1..(1 + n) : all[i] = IF i <= 1 THEN <<u>>[i] ELSE rest[i - 1]
    BY <2>1, ConcatProperties
  <2> HIDE DEF n, all
  <2>4. all[1] = u
    BY <2>1, <2>2, <2>3
  <2>5. ASSUME NEW i \in 1..n PROVE all[i + 1] = rest[i]
    <3>1. i + 1 \in 1..(1 + n) /\ ~(i + 1 <= 1) /\ (i + 1) - 1 = i
      BY <2>2
    <3> QED
      BY <2>3, <3>1
  <2> QED
    BY <2>2, <2>3, <2>4, <2>5
<1> HIDE DEF all
<1>2. ASSUME NEW i \in 1..n
      PROVE  /\ Taken(all, i + 1).n = Taken(rest, i).n
             /\ Taken(rest, i).n # 0 => Taken(all, i + 1).bytes = Taken(rest, i).bytes
  <2> DEFINE t == Taken(rest, i)
             s == Taken(all, i + 1)
  <2>1. i \in 1..Len(rest) /\ i + 1 \in 1..Len(all)
    BY <1>1
  <2>2. /\ t.n \in {0, 1, 2}
        /\ t.n = 2 <=> /\ High(rest[i]) /\ i < n /\ Low(rest[i + 1])
        /\ t.n = 1 <=> /\ rest[i] # Junk /\ ~High(rest[i]) /\ ~Low(rest[i])
                       /\ rest[i].u = "raw" => IsWholeChar(rest[i].bytes)
    BY <2>1, TakenIs
  <2>3. /\ s.n \in {0, 1, 2}
        /\ s.n = 2 <=> /\ High(all[i + 1]) /\ i + 1 < Len(all) /\ Low(all[(i + 1) + 1])
        /\ s.n = 1 <=> /\ all[i + 1] # Junk /\ ~High(all[i + 1]) /\ ~Low(all[i + 1])
                       /\ all[i + 1].u = "raw" => IsWholeChar(all[i + 1].bytes)
    BY <1>1, <2>1, TakenIs
  <2>4. /\ t.n = 2 => t.bytes = Encode(PairOf(rest[i], rest[i + 1]))
        /\ t.n = 1 => /\ rest[i].u = "raw" => t.bytes = rest[i].bytes
                      /\ rest[i].u = "short" => t.bytes = <<rest[i].code>>
                      /\ rest[i].u = "hex" => t.bytes = Encode(rest[i].code)
                      /\ rest[i].u \in {"raw", "short", "hex"}
    BY <2>1, TakenBytes
  <2>5. /\ s.n = 2 => s.bytes = Encode(PairOf(all[i + 1], all[(i + 1) + 1]))
        /\ s.n = 1 => /\ all[i + 1].u = "raw" => s.bytes = all[i + 1].bytes
                      /\ all[i + 1].u = "short" => s.bytes = <<all[i + 1].code>>
                      /\ all[i + 1].u = "hex" => s.bytes = Encode(all[i + 1].code)
                      /\ all[i + 1].u \in {"raw", "short", "hex"}
    BY <1>1, <2>1, TakenBytes
  <2> HIDE DEF t, s
  <2>6. all[i + 1] = rest[i]
    BY <1>1
  <2>7. (i + 1 < Len(all) <=> i < n) /\ (i < n => all[(i + 1) + 1] = rest[i + 1])
    <3>1. i < n => i + 1 \in 1..n
      BY <1>1
    <3> QED
      BY <1>1, <3>1
  <2>8. s.n = t.n
    BY <2>2, <2>3, <2>6, <2>7
  <2>9. t.n # 0 => s.bytes = t.bytes
    BY <2>2, <2>4, <2>5, <2>6, <2>7, <2>8
  <2> QED
    BY <2>8, <2>9 DEF s, t
<1> QED
  BY <1>1, <1>2 DEF all

\* What a unit that stands for c is read as in front of others.
IsUnitFor(u, c) ==
    /\ u \in Unit /\ u # Junk /\ ~High(u) /\ ~Low(u) /\ c \in Seq(Byte)
    /\ u.u = "raw" => IsWholeChar(u.bytes) /\ u.bytes = c
    /\ u.u = "short" => <<u.code>> = c
    /\ u.u = "hex" => Encode(u.code) = c

LEMMA DecodeOfMore ==
    ASSUME NEW u, NEW c, IsUnitFor(u, c), NEW rest \in Seq(Unit)
    PROVE  Decode(<<u>> \o rest) = Behind(c, Decode(rest))
<1> DEFINE n == Len(rest)
           all == <<u>> \o rest
<1>1. u \in Unit /\ n \in Nat
  <2> HIDE DEF Unit
  <2> QED
    BY LenProperties DEF IsUnitFor
<1>2. /\ all \in Seq(Unit) /\ Len(all) = n + 1 /\ all[1] = u
      /\ \A i \in 1..n : /\ Taken(all, i + 1).n = Taken(rest, i).n
                         /\ Taken(rest, i).n # 0 => Taken(all, i + 1).bytes = Taken(rest, i).bytes
  BY <1>1, TakenOfMore
<1> HIDE DEF n, all
<1>3. Taken(all, 1).n = 1 /\ Taken(all, 1).bytes = c
  <2>1. 1 \in 1..Len(all)
    BY <1>1, <1>2
  <2>2. Taken(all, 1).n = 1
    BY <1>2, <2>1, TakenIs DEF IsUnitFor
  <2>3. /\ all[1].u = "raw" => Taken(all, 1).bytes = all[1].bytes
        /\ all[1].u = "short" => Taken(all, 1).bytes = <<all[1].code>>
        /\ all[1].u = "hex" => Taken(all, 1).bytes = Encode(all[1].code)
        /\ all[1].u \in {"raw", "short", "hex"}
    BY <1>2, <2>1, <2>2, TakenBytes
  <2> QED
    BY <1>2, <2>2, <2>3 DEF IsUnitFor
<1>4. PICK d : Decode(all) = d[1] /\ ReadsOn(d, all)
  BY <1>2, DecodeSteps
<1>5. PICK e : Decode(rest) = e[1] /\ ReadsOn(e, rest)
  BY DecodeSteps
<1>6. /\ d[(n + 1) + 1] = AllRead
      /\ \A i \in 1..(n + 1) :
            /\ Taken(all, i).n = 0 => d[i] = NoString
            /\ Taken(all, i).n # 0 => d[i] = Behind(Taken(all, i).bytes, d[i + Taken(all, i).n])
  BY <1>2, <1>4 DEF ReadsOn
<1>7. /\ e[n + 1] = AllRead
      /\ \A i \in 1..n :
            /\ Taken(rest, i).n = 0 => e[i] = NoString
            /\ Taken(rest, i).n # 0 => e[i] = Behind(Taken(rest, i).bytes, e[i + Taken(rest, i).n])
  BY <1>5 DEF ReadsOn, n
<1>8. \A i \in 1..n : Taken(rest, i).n \in {0, 1, 2} /\ i + Taken(rest, i).n <= n + 1
  BY TakenGoesOn DEF n
<1> DEFINE S == {i \in 1..(n + 1) : d[i + 1] = e[i]}
<1>9. Descends(S, n)
  <2>1. n + 1 \in S
    BY <1>1, <1>6, <1>7
  <2>2. ASSUME NEW k \in 1..n, \A j \in (k + 1)..(n + 1) : j \in S PROVE k \in S
    <3> DEFINE m == Taken(rest, k).n
    <3>1. k \in 1..(n + 1) /\ k + 1 \in 1..(n + 1)
      BY <1>1
    <3>2. CASE m = 0
      <4>1. d[k + 1] = NoString /\ e[k] = NoString
        BY <1>2, <1>6, <1>7, <3>1, <3>2
      <4> QED
        BY <3>1, <4>1
    <3>3. CASE m # 0
      <4>1. k + m \in (k + 1)..(n + 1) /\ (k + 1) + m = (k + m) + 1
        BY <1>1, <1>8, <3>3
      <4>2. d[(k + m) + 1] = e[k + m]
        BY <2>2, <4>1
      <4>3. e[k] = Behind(Taken(rest, k).bytes, e[k + m])
        BY <1>7, <3>3
      <4>4. /\ Taken(all, k + 1).n = m
            /\ Taken(all, k + 1).bytes = Taken(rest, k).bytes
        BY <1>2, <3>3
      <4>5. d[k + 1] = Behind(Taken(rest, k).bytes, d[(k + 1) + m])
        BY <1>6, <3>1, <3>3, <4>4
      <4>6. d[k + 1] = e[k]
        BY <4>1, <4>2, <4>3, <4>5
      <4> QED
        BY <3>1, <4>6
    <3> QED
      BY <3>2, <3>3
  <2> HIDE DEF S
  <2> QED
    BY <2>1, <2>2 DEF Descends
<1>10. d[1 + 1] = e[1]
  <2>1. 1 \in S
    <3> HIDE DEF S
    <3>1. 1 \in 1..(n + 1)
      BY <1>1
    <3> QED
      BY <1>1, <1>9, <3>1, BackInduction
  <2> QED
    BY <2>1
<1>11. d[1] = Behind(c, d[1 + 1])
  <2>1. 1 \in 1..(n + 1)
    BY <1>1
  <2> QED
    BY <1>3, <1>6, <2>1
<1> QED
  BY <1>4, <1>5, <1>10, <1>11 DEF all

\* What one turn of the writer makes of the start of the bytes: the unit for the one
\* character there, or nothing if there is none.
LEMMA WrittenIs ==
    ASSUME NEW a \in Seq(Byte), a # << >>
    PROVE  /\ Written(a).n \in {0, 1, 2, 3, 4}
           /\ Written(a).n = 0 => CharLengths(a) = {}
           /\ Written(a).n # 0 =>
                  /\ CharLengths(a) = {Written(a).n}
                  /\ IsUnitFor(Written(a).unit, SubSeq(a, 1, Written(a).n))
<1> DEFINE x == a[1]
           m == RawLen(a)
           shortIs == [n |-> 1, unit |-> Short(x)]
           hexIs == [n |-> 1, unit |-> Hex(x)]
           rawIs == [n |-> m, unit |-> Raw(SubSeq(a, 1, m))]
           w == Written(a)
           escaped == x \in ShortEscapes
           control == x < 32
<1>1. x \in Nat /\ x <= 255 /\ Len(a) \in Nat /\ Len(a) >= 1
  BY BytesOf, EmptySeq
<1>2. /\ escaped => w = shortIs
      /\ ~escaped /\ control => w = hexIs
      /\ ~escaped /\ ~control => w = rawIs
  <2>1. w = CASE escaped -> shortIs [] ~escaped /\ control -> hexIs [] ~escaped /\ x >= 32 -> rawIs
    BY Zenon DEF Written
  <2>2. x >= 32 <=> ~control
    BY <1>1
  <2> HIDE DEF w, escaped, control, shortIs, hexIs, rawIs
  <2> QED
    BY <2>1, <2>2
<1>3. /\ shortIs.n = 1 /\ shortIs.unit = Short(x) /\ hexIs.n = 1 /\ hexIs.unit = Hex(x)
      /\ rawIs.n = m /\ rawIs.unit = Raw(SubSeq(a, 1, m))
  OBVIOUS
<1>4. SubSeq(a, 1, 1) = <<x>> /\ <<x>> \in Seq(Byte)
  <2> HIDE DEF Byte
  <2>1. x \in Byte
    BY <1>1, ElementsOf
  <2> QED
    BY <1>1, <2>1, Beginnings
<1>5. x <= 127 => CharLengths(a) = {1}
  <2>1. x <= 127 => 1 \in CharLengths(a)
    BY CharLengthsAre
  <2> QED
    BY <2>1, OneLength
<1> HIDE DEF w, shortIs, hexIs, rawIs
<1>6. CASE escaped
  <2>1. w.n = 1 /\ w.unit = Short(x)
    BY <1>2, <1>3, <1>6
  <2>2. x <= 127
    BY <1>6 DEF ShortEscapes, Quote, Backslash
  <2>3. IsUnitFor(Short(x), <<x>>)
    <3>1. Short(x) \in Unit
      BY <1>6, SMT DEF Unit, Short
    <3>2. Short(x).u = "short" /\ Short(x).code = x /\ Junk.u = "junk"
      BY DEF Short, Junk
    <3> QED
      BY <1>4, <3>1, <3>2 DEF IsUnitFor, High, Low
  <2>4. SubSeq(a, 1, w.n) = <<x>> /\ CharLengths(a) = {w.n} /\ w.n # 0 /\ w.n \in {0, 1, 2, 3, 4}
    BY <1>4, <1>5, <2>1, <2>2
  <2> HIDE DEF x
  <2> QED
    BY <2>1, <2>3, <2>4, Zenon DEF w
<1>7. CASE ~escaped /\ control
  <2>1. w.n = 1 /\ w.unit = Hex(x)
    BY <1>2, <1>3, <1>7
  <2>2. x <= 127
    BY <1>1, <1>7
  <2>3. IsUnitFor(Hex(x), <<x>>)
    <3>1. Hex(x) \in Unit
      BY <1>1, SMT DEF Unit, Hex
    <3>2. Hex(x).u = "hex" /\ Hex(x).code = x /\ Junk.u = "junk"
      BY DEF Hex, Junk
    <3>3. Encode(x) = <<x>>
      BY <1>1, <2>2, OneByteOf
    <3>4. ~High(Hex(x)) /\ ~Low(Hex(x))
      BY <1>1, <3>2, SMT DEF High, Low, Between
    <3> QED
      BY <1>4, <3>1, <3>2, <3>3, <3>4 DEF IsUnitFor
  <2>4. SubSeq(a, 1, w.n) = <<x>> /\ CharLengths(a) = {w.n} /\ w.n # 0 /\ w.n \in {0, 1, 2, 3, 4}
    BY <1>4, <1>5, <2>1, <2>2
  <2> HIDE DEF x
  <2> QED
    BY <2>1, <2>3, <2>4, Zenon DEF w
<1>8. CASE ~escaped /\ ~control
  <2>1. w.n = m /\ w.unit = Raw(SubSeq(a, 1, m))
    BY <1>2, <1>3, <1>8
  <2>2. /\ \A n : n \in CharLengths(a) => n \in {1, 2, 3, 4} /\ n <= Len(a)
        /\ \A n : n \in CharLengths(a) <=> n = m /\ n # 0
        /\ m \in {0, 1, 2, 3, 4}
    BY <1>1, <1>8, RawLenMeasures
  <2>3. CASE m = 0
    BY <2>1, <2>2, <2>3 DEF w
  <2>4. CASE m # 0
    <3> DEFINE c == SubSeq(a, 1, m)
    <3>1. m \in CharLengths(a) /\ m \in 1..4 /\ m <= Len(a) /\ CharLengths(a) = {m}
      BY <2>2, <2>4
    <3>2. c \in Seq(Byte) /\ Len(c) = m /\ \A k \in 1..m : c[k] = a[k]
      <4> HIDE DEF Byte, m
      <4> QED
        BY <3>1, BeginningOf
    <3> HIDE DEF c, m
    <3>3. c # << >> /\ c[1] = x /\ SameUpTo(a, c, m)
      BY <3>1, <3>2, EmptySeq DEF SameUpTo
    <3>4. m \in CharLengths(c)
      BY <3>1, <3>2, <3>3, SameCharacter
    <3>5. RawLen(c) = m
      <4>1. c[1] >= 32
        BY <1>1, <1>8, <3>3
      <4> QED
        BY <3>2, <3>3, <3>4, <4>1, RawLenMeasures
    <3>6. IsWholeChar(c)
      BY <1>8, <3>2, <3>3, <3>5 DEF IsWholeChar, ShortEscapes
    <3>7. Raw(c) \in Unit
      BY <3>2, <3>3, SMT DEF Unit, Raw
    <3>8. Raw(c).u = "raw" /\ Raw(c).bytes = c /\ Junk.u = "junk"
      BY DEF Raw, Junk
    <3>9. IsUnitFor(Raw(c), c)
      BY <3>2, <3>6, <3>7, <3>8 DEF IsUnitFor, High, Low
    <3> QED
      BY <2>1, <2>2, <2>4, <3>1, <3>9 DEF w, c
  <2> QED
    BY <2>3, <2>4
<1> QED
  BY <1>6, <1>7, <1>8

\* from says of each place what is written from there on.
Writes(from, b) ==
    from = [i \in 1..(Len(b) + 1) |->
                IF i > Len(b) THEN << >>
                ELSE IF Written(From(b, i)).n = 0 THEN <<Junk>>
                ELSE <<Written(From(b, i)).unit>> \o from[i + Written(From(b, i)).n]]

LEMMA WriteStringWrites ==
    ASSUME NEW b
    PROVE  WriteString(b) = (CHOOSE from : Writes(from, b))[1]
BY DEF WriteString, Writes

\* Where the writer goes on.
LEMMA WrittenGoesOn ==
    ASSUME NEW b \in Seq(Byte), NEW i \in 1..Len(b)
    PROVE  /\ Written(From(b, i)).n \in {0, 1, 2, 3, 4}
           /\ i + Written(From(b, i)).n <= Len(b) + 1
           /\ Written(From(b, i)).n = 0 => CharLengths(From(b, i)) = {}
           /\ Written(From(b, i)).n # 0 =>
                  /\ CharLengths(From(b, i)) = {Written(From(b, i)).n}
                  /\ IsUnitFor(Written(From(b, i)).unit, SubSeq(From(b, i), 1, Written(From(b, i)).n))
<1> DEFINE a == From(b, i)
<1>1. a \in Seq(Byte) /\ a # << >> /\ Len(a) = (Len(b) + 1) - i /\ Len(b) \in Nat
  <2> HIDE DEF Byte
  <2> QED
    BY RestOf, LenProperties
<1> HIDE DEF a
<1>2. /\ Written(a).n \in {0, 1, 2, 3, 4}
      /\ Written(a).n = 0 => CharLengths(a) = {}
      /\ Written(a).n # 0 => /\ CharLengths(a) = {Written(a).n}
                             /\ IsUnitFor(Written(a).unit, SubSeq(a, 1, Written(a).n))
  BY <1>1, WrittenIs
<1>3. \A n \in CharLengths(a) : n <= Len(a)
  BY <1>1, CharLengthsAre
<1>4. i + Written(a).n <= Len(b) + 1
  <2>1. CASE Written(a).n = 0
    BY <1>1, <2>1
  <2>2. CASE Written(a).n # 0
    <3>1. Written(a).n <= Len(a)
      BY <1>2, <1>3, <2>2
    <3> QED
      BY <1>1, <1>2, <3>1
  <2> QED
    BY <2>1, <2>2
<1> QED
  BY <1>2, <1>4 DEF a

LEMMA UnitInFront ==
    ASSUME NEW S, NEW u \in S, NEW rest \in Seq(S)
    PROVE  <<u>> \o rest \in Seq(S)
<1>1. <<u>> \in Seq(S)
  OBVIOUS
<1> QED
  BY <1>1, ConcatProperties

LEMMA WritesExists ==
    ASSUME NEW b \in Seq(Byte)
    PROVE  \E from \in [1..(Len(b) + 1) -> Seq(Unit)] : Writes(from, b)
<1> DEFINE n == Len(b)
           len(i) == Written(From(b, i)).n
           unit(i) == Written(From(b, i)).unit
           go == [i \in 1..n |-> IF len(i) = 0 THEN i + 1 ELSE i + len(i)]
           step == [i \in 1..n |-> [r \in Seq(Unit) |->
                        IF len(i) = 0 THEN <<Junk>> ELSE <<unit(i)>> \o r]]
           end == << >>
<1>1. n \in Nat
  BY BytesOf
<1>2. \A i \in 1..n : /\ len(i) \in {0, 1, 2, 3, 4} /\ i + len(i) <= n + 1
                      /\ len(i) # 0 => unit(i) \in Unit
  BY WrittenGoesOn DEF IsUnitFor
<1>3. <<Junk>> \in Seq(Unit) /\ end \in Seq(Unit)
  <2>1. Junk \in Unit
    BY SMT DEF Unit
  <2> HIDE DEF Unit
  <2> QED
    BY <2>1
<1> HIDE DEF n, len, unit, end
<1>4. GoesOn(n, Seq(Unit), end, go, step)
  <2>1. \A i \in 1..n : (IF len(i) = 0 THEN i + 1 ELSE i + len(i)) \in (i + 1)..(n + 1)
    BY <1>1, <1>2
  <2>2. \A i \in 1..n, r \in Seq(Unit) :
            (IF len(i) = 0 THEN <<Junk>> ELSE <<unit(i)>> \o r) \in Seq(Unit)
    <3> HIDE DEF Unit
    <3> QED
      BY <1>2, <1>3, UnitInFront
  <2>3. step \in [1..n -> [Seq(Unit) -> Seq(Unit)]]
    <3> HIDE DEF Unit
    <3> QED
      BY <2>2
  <2>4. go \in [1..n -> 1..(n + 1)] /\ \A i \in 1..n : i < go[i]
    BY <1>1, <2>1
  <2> HIDE DEF go, step
  <2> QED
    BY <1>1, <1>3, <2>3, <2>4 DEF GoesOn
<1> HIDE DEF go, step
<1>5. PICK f \in [1..(n + 1) -> Seq(Unit)] : IsBackward(f, n, end, go, step)
  BY <1>4, BackwardExists
<1>6. /\ f = [i \in 1..(n + 1) |-> f[i]]
      /\ f[n + 1] = end
      /\ \A i \in 1..n : f[i] = step[i][f[go[i]]]
  BY <1>1, <1>5, BackwardSteps
<1>7. ASSUME NEW i \in 1..n
      PROVE  f[i] = IF len(i) = 0 THEN <<Junk>> ELSE <<unit(i)>> \o f[i + len(i)]
  <2>1. go[i] = IF len(i) = 0 THEN i + 1 ELSE i + len(i)
    BY DEF go
  <2>2. go[i] \in 1..(n + 1)
    BY <1>4 DEF GoesOn
  <2>3. f[go[i]] \in Seq(Unit)
    <3> HIDE DEF Unit
    <3> QED
      BY <1>5, <2>2
  <2>4. f[i] = IF len(i) = 0 THEN <<Junk>> ELSE <<unit(i)>> \o f[go[i]]
    <3> HIDE DEF Unit
    <3> QED
      BY <1>6, <2>3 DEF step
  <2> QED
    BY <2>1, <2>4
<1>8. ASSUME NEW i \in 1..(n + 1)
      PROVE  f[i] = IF i > n THEN end ELSE IF len(i) = 0 THEN <<Junk>> ELSE <<unit(i)>> \o f[i + len(i)]
  <2>1. (i \in 1..n /\ ~(i > n)) \/ (i = n + 1 /\ i > n)
    BY <1>1
  <2> QED
    BY <1>6, <1>7, <2>1
<1>9. Writes(f, b)
  BY <1>6, <1>8, Zenon DEF Writes, n, len, unit, end
<1> QED
  BY <1>5, <1>9 DEF n

\* A sequence from a place on, cut in two.
LEMMA RestIs ==
    ASSUME NEW S, NEW b \in Seq(S), NEW k \in 1..(Len(b) + 1)
    PROVE  /\ From(b, k) \in Seq(S) /\ Len(From(b, k)) = (Len(b) + 1) - k
           /\ \A i \in 1..((Len(b) + 1) - k) : From(b, k)[i] = b[(k + i) - 1]
<1>1. Len(b) \in Nat /\ \A i \in 1..Len(b) : b[i] \in S
  BY LenProperties
<1>2. \A i \in k..Len(b) : b[i] \in S
  BY <1>1
<1>3. /\ From(b, k) \in Seq(S)
      /\ Len(From(b, k)) = IF k <= Len(b) THEN Len(b) - k + 1 ELSE 0
      /\ \A i \in 1..(Len(b) - k + 1) : From(b, k)[i] = b[k + i - 1]
  BY <1>1, <1>2, SubSeqProperties DEF From
<1> QED
  BY <1>1, <1>3

LEMMA CutInTwo ==
    ASSUME NEW S, NEW b \in Seq(S), NEW k \in 1..Len(b), NEW m \in Nat, k + m <= Len(b) + 1
    PROVE  From(b, k) = SubSeq(From(b, k), 1, m) \o From(b, k + m)
<1> DEFINE n == Len(b)
           a == From(b, k)
           c == SubSeq(a, 1, m)
           r == From(b, k + m)
<1>1. n \in Nat
  BY LenProperties
<1>2. /\ a \in Seq(S) /\ Len(a) = (n + 1) - k
      /\ \A i \in 1..((n + 1) - k) : a[i] = b[(k + i) - 1]
  BY <1>1, RestIs
<1>3. /\ r \in Seq(S) /\ Len(r) = (n + 1) - (k + m)
      /\ \A i \in 1..((n + 1) - (k + m)) : r[i] = b[((k + m) + i) - 1]
  <2>1. k + m \in 1..(n + 1)
    BY <1>1
  <2> QED
    BY <2>1, RestIs
<1>4. c \in Seq(S) /\ Len(c) = m /\ \A i \in 1..m : c[i] = a[i]
  <2>1. m <= Len(a)
    BY <1>1, <1>2
  <2> HIDE DEF a
  <2> QED
    BY <1>2, <2>1, BeginningOf
<1> HIDE DEF n, a, c, r
<1>5. /\ c \o r \in Seq(S) /\ Len(c \o r) = Len(c) + Len(r)
      /\ \A i \in 1..(Len(c) + Len(r)) : (c \o r)[i] = IF i <= Len(c) THEN c[i] ELSE r[i - Len(c)]
  BY <1>3, <1>4, ConcatProperties, SMTT(60)
<1>6. Len(c \o r) = Len(a) /\ Len(c) + Len(r) = (n + 1) - k
  BY <1>1, <1>2, <1>3, <1>4, <1>5
<1>7. ASSUME NEW i \in 1..((n + 1) - k) PROVE (c \o r)[i] = a[i]
  <2>1. CASE i <= m
    BY <1>1, <1>4, <1>5, <1>6, <2>1
  <2>2. CASE ~(i <= m)
    <3>1. i - m \in 1..((n + 1) - (k + m)) /\ ((k + m) + (i - m)) - 1 = (k + i) - 1
      BY <1>1, <2>2
    <3>2. (c \o r)[i] = r[i - m]
      BY <1>4, <1>5, <1>6, <2>2
    <3>3. r[i - m] = b[(k + i) - 1]
      BY <1>3, <3>1
    <3> QED
      BY <1>2, <3>2, <3>3
  <2> QED
    BY <2>1, <2>2
<1>8. a = c \o r
  BY <1>2, <1>5, <1>6, <1>7, SeqEqual
<1> QED
  BY <1>8 DEF a, c, r

LEMMA DecodeOfNothing == Decode(<< >>) = AllRead
<1> DEFINE none == << >>
<1>1. none \in Seq(Unit) /\ Len(none) = 0
  <2> HIDE DEF Unit
  <2> QED
    OBVIOUS
<1> HIDE DEF none
<1>2. PICK d : Decode(none) = d[1] /\ ReadsOn(d, none)
  BY <1>1, DecodeSteps
<1>3. d[1] = AllRead
  BY <1>1, <1>2 DEF ReadsOn
<1> QED
  BY <1>2, <1>3 DEF none

HasJunk(units) == \E k \in DOMAIN units : units[k] = Junk

LEMMA JunkStays ==
    ASSUME NEW u \in Unit, NEW rest \in Seq(Unit), HasJunk(rest)
    PROVE  HasJunk(<<u>> \o rest)
<1> DEFINE all == <<u>> \o rest
<1>1. Len(rest) \in Nat /\ DOMAIN rest = 1..Len(rest)
  <2> HIDE DEF Unit
  <2> QED
    BY LenProperties
<1>2. all \in Seq(Unit) /\ Len(all) = Len(rest) + 1 /\ \A i \in 1..Len(rest) : all[i + 1] = rest[i]
  BY TakenOfMore
<1> HIDE DEF all
<1>3. DOMAIN all = 1..Len(all)
  <2> HIDE DEF Unit
  <2> QED
    BY <1>2, LenProperties
<1>4. PICK i \in 1..Len(rest) : rest[i] = Junk
  BY <1>1 DEF HasJunk
<1>5. i + 1 \in DOMAIN all /\ all[i + 1] = Junk
  BY <1>1, <1>2, <1>3, <1>4
<1>6. HasJunk(all)
  BY <1>5 DEF HasJunk
<1> QED
  BY <1>6 DEF all

\* What is written from a place on reads back, or is refused.
WritesWell(w, v, b, k) ==
    /\ w[k] \in Seq(Unit)
    /\ v[k] => Decode(w[k]) = [ok |-> TRUE, bytes |-> From(b, k)]
    /\ ~v[k] => HasJunk(w[k])

LEMMA WriterWritesWell ==
    ASSUME NEW b \in Seq(Byte), NEW w, Writes(w, b), NEW v, Checks(v, b)
    PROVE  \A k \in 1..(Len(b) + 1) : WritesWell(w, v, b, k)
<1> DEFINE n == Len(b)
           len(k) == Written(From(b, k)).n
           unit(k) == Written(From(b, k)).unit
           char(k) == SubSeq(From(b, k), 1, len(k))
<1>1. n \in Nat
  BY BytesOf
<1>2. \A k \in 1..(n + 1) : w[k] = IF k > n THEN << >>
                                   ELSE IF len(k) = 0 THEN <<Junk>>
                                   ELSE <<unit(k)>> \o w[k + len(k)]
  BY Zenon DEF Writes
<1>3. \A k \in 1..(n + 1) : v[k] = (k > n \/ \E m \in CharLengths(From(b, k)) : v[k + m])
  BY DEF Checks
<1>4. \A k \in 1..n : /\ len(k) \in {0, 1, 2, 3, 4} /\ k + len(k) <= n + 1
                      /\ len(k) = 0 => CharLengths(From(b, k)) = {}
                      /\ len(k) # 0 => /\ CharLengths(From(b, k)) = {len(k)}
                                       /\ IsUnitFor(unit(k), char(k))
  BY WrittenGoesOn
<1>5. \A k \in 1..n : From(b, k) = char(k) \o From(b, k + len(k))
  <2> TAKE k \in 1..n
  <2>1. len(k) \in Nat /\ k + len(k) <= Len(b) + 1 /\ k \in 1..Len(b)
    BY <1>4
  <2> HIDE DEF Byte, len
  <2> QED
    BY <2>1, CutInTwo
<1>6. \A k \in 1..(n + 1) : From(b, k) \in Seq(Byte)
  <2> HIDE DEF Byte
  <2> QED
    BY RestIs
<1>7. From(b, n + 1) = << >>
  <2> HIDE DEF Byte
  <2>1. n + 1 \in 1..(Len(b) + 1) /\ (Len(b) + 1) - (n + 1) = 0
    BY <1>1
  <2>2. From(b, n + 1) \in Seq(Byte) /\ Len(From(b, n + 1)) = 0
    BY <2>1, RestIs
  <2> QED
    BY <2>2, EmptySeq
<1> HIDE DEF n, len, unit, char
<1> DEFINE S == {k \in 1..(n + 1) : WritesWell(w, v, b, k)}
<1>8. n + 1 \in S
  <2>1. n + 1 \in 1..(n + 1) /\ n + 1 > n
    BY <1>1
  <2>2. w[n + 1] = << >> /\ v[n + 1]
    BY <1>2, <1>3, <2>1
  <2>3. << >> \in Seq(Unit)
    <3> HIDE DEF Unit
    <3> QED
      OBVIOUS
  <2>4. WritesWell(w, v, b, n + 1)
    BY <1>7, <2>2, <2>3, DecodeOfNothing DEF WritesWell, AllRead
  <2> QED
    BY <2>1, <2>4
<1>9. ASSUME NEW k \in 1..n, \A j \in (k + 1)..(n + 1) : j \in S
      PROVE  k \in S
  <2>1. k \in 1..(n + 1) /\ ~(k > n)
    BY <1>1
  <2>2. v[k] = \E m \in CharLengths(From(b, k)) : v[k + m]
    BY <1>3, <2>1
  <2>3. CASE len(k) = 0
    <3>1. w[k] = <<Junk>> /\ ~v[k]
      BY <1>2, <1>4, <2>1, <2>2, <2>3
    <3>2. <<Junk>> \in Seq(Unit)
      <4>1. Junk \in Unit
        BY SMT DEF Unit
      <4> HIDE DEF Unit
      <4> QED
        BY <4>1
    <3>3. HasJunk(<<Junk>>)
      BY DEF HasJunk
    <3>4. WritesWell(w, v, b, k)
      BY <3>1, <3>2, <3>3 DEF WritesWell
    <3> QED
      BY <2>1, <3>4
  <2>4. CASE len(k) # 0
    <3> DEFINE j == k + len(k)
    <3>1. j \in (k + 1)..(n + 1) /\ j \in 1..(n + 1)
      BY <1>1, <1>4, <2>4
    <3>2. WritesWell(w, v, b, j)
      BY <1>9, <3>1
    <3>3. w[k] = <<unit(k)>> \o w[j] /\ IsUnitFor(unit(k), char(k))
      BY <1>2, <1>4, <2>1, <2>4
    <3>4. v[k] <=> v[j]
      <4>1. v[j] \in BOOLEAN
        BY <1>3, <3>1
      <4>2. CharLengths(From(b, k)) = {len(k)}
        BY <1>4, <2>4
      <4> QED
        BY <2>2, <4>1, <4>2
    <3>5. From(b, k) = char(k) \o From(b, j) /\ From(b, j) \in Seq(Byte)
      BY <1>5, <1>6, <3>1
    <3> HIDE DEF j
    <3>6. unit(k) \in Unit /\ w[j] \in Seq(Unit)
      BY <3>2, <3>3 DEF IsUnitFor, WritesWell
    <3>7. w[k] \in Seq(Unit)
      <4> HIDE DEF Unit
      <4> QED
        BY <3>3, <3>6, UnitInFront
    <3>8. ~v[k] => HasJunk(w[k])
      BY <3>2, <3>3, <3>4, <3>6, JunkStays DEF WritesWell
    <3>9. ASSUME v[k] PROVE Decode(w[k]) = [ok |-> TRUE, bytes |-> From(b, k)]
      <4>1. Decode(w[j]) = [ok |-> TRUE, bytes |-> From(b, j)]
        BY <3>2, <3>4, <3>9 DEF WritesWell
      <4>2. Decode(w[k]) = Behind(char(k), Decode(w[j]))
        BY <3>3, <3>6, DecodeOfMore
      <4>3. Decode(w[k]) = [ok |-> TRUE, bytes |-> char(k) \o From(b, j)]
        BY <4>1, <4>2 DEF Behind
      <4> QED
        BY <3>5, <4>3
    <3>10. WritesWell(w, v, b, k)
      BY <3>7, <3>8, <3>9 DEF WritesWell
    <3> QED
      BY <2>1, <3>10
  <2> QED
    BY <2>3, <2>4
<1>10. Descends(S, n)
  <2> HIDE DEF S
  <2> QED
    BY <1>8, <1>9 DEF Descends
<1>11. \A k \in 1..(n + 1) : k \in S
  <2> HIDE DEF S
  <2> QED
    BY <1>1, <1>10, BackInduction
<1> QED
  BY <1>11 DEF n

\* Whatever C string is written, if it is UTF-8 the reader returns it byte for byte, and
\* if it is not the writer fails.
THEOREM StringsReadBack == Spec => []WrittenReadsBack
<1>1. CallInv => WrittenReadsBack
  <2> SUFFICES ASSUME CallInv, op = "write"
               PROVE  IF IsUtf8(input) THEN Decode(answer) = [ok |-> TRUE, bytes |-> input]
                                       ELSE HasJunk(answer)
    BY DEF WrittenReadsBack, HasJunk
  <2>1. input \in Seq(Byte) /\ answer = WriteString(input)
    <3>1. input \in Seq(Byte \ {0}) /\ answer = WriteString(input)
      BY DEF CallInv
    <3> DEFINE B == Byte \ {0}
    <3>2. B \subseteq Byte /\ input \in Seq(B)
      BY <3>1
    <3> HIDE DEF Byte, B
    <3>3. Len(input) \in Nat /\ input \in [1..Len(input) -> B]
      BY <3>2, LenProperties
    <3>4. input \in [1..Len(input) -> Byte]
      BY <3>2, <3>3
    <3> QED
      BY <3>1, <3>3, <3>4, SeqDef
  <2>2. PICK w : Writes(w, input) /\ answer = w[1]
    BY <2>1, WritesExists, WriteStringWrites
  <2>3. PICK v : Checks(v, input) /\ IsUtf8(input) = v[1]
    BY <2>1, ChecksExists, IsUtf8Checks
  <2>4. 1 \in 1..(Len(input) + 1)
    BY <2>1, BytesOf
  <2>5. WritesWell(w, v, input, 1)
    BY <2>1, <2>2, <2>3, <2>4, WriterWritesWell
  <2>6. From(input, 1) = input
    <3> HIDE DEF Byte
    <3> QED
      BY <2>1, SubSeqFull DEF From
  <2> QED
    BY <2>2, <2>3, <2>5, <2>6 DEF WritesWell
<1> QED
  BY <1>1, CallsAreTyped, PTL

-----------------------------------------------------------------------------
(* Recursion downwards: the value at a place may be made of all later ones.  *)

\* S holds every k all of whose followers it holds.
Falls(lo, hi, S) == \A k \in lo..hi : (\A j \in (k + 1)..hi : j \in S) => k \in S

LEMMA FallInduction ==
    ASSUME NEW lo \in Nat, NEW hi \in Nat, NEW S, Falls(lo, hi, S)
    PROVE  \A k \in lo..hi : k \in S
<1> DEFINE T == {m \in Nat : m <= hi /\ lo <= hi - m /\ hi - m \notin S}
<1>1. ASSUME T # {} PROVE FALSE
  <2>1. T \in SUBSET Nat
    OBVIOUS
  <2>2. PICK m \in T : \A l \in T : ~(<<l, m>> \in OpToRel(<, Nat))
    <3> HIDE DEF T
    <3> QED
      BY <1>1, <2>1, NatLessThanWellFounded, WFMin
  <2>3. \A l \in T : ~(l < m)
    BY <2>2 DEF OpToRel
  <2> DEFINE k == hi - m
  <2>4. k \in lo..hi /\ k \notin S
    OBVIOUS
  <2>5. ASSUME NEW j \in (k + 1)..hi PROVE j \in S
    <3> DEFINE l == hi - j
    <3>1. l \in Nat /\ l <= hi /\ lo <= hi - l /\ l < m /\ hi - l = j
      OBVIOUS
    <3> HIDE DEF l, k
    <3> QED
      BY <2>3, <3>1
  <2> QED
    BY <2>4, <2>5 DEF Falls
<1>2. ASSUME NEW k \in lo..hi PROVE k \in S
  <2> DEFINE m == hi - k
  <2>1. m \in Nat /\ m <= hi /\ hi - m = k /\ lo <= hi - m
    OBVIOUS
  <2>2. m \notin T
    BY <1>1
  <2> HIDE DEF m
  <2> QED
    BY <2>1, <2>2
<1> QED
  BY <1>2

\* step[i][f], the value at i made of those of f, minds no place but the later ones.
LooksAhead(lo, hi, R, step) ==
    /\ lo \in Nat /\ hi \in Nat /\ R # {}
    /\ \A i \in lo..hi : \A f \in [lo..hi -> R] : step[i][f] \in R
    /\ \A i \in lo..hi : \A f, g \in [lo..hi -> R] :
          (\A j \in (i + 1)..hi : f[j] = g[j]) => step[i][f] = step[i][g]

LEMMA AheadExists ==
    ASSUME NEW lo, NEW hi, NEW R, NEW step, LooksAhead(lo, hi, R, step)
    PROVE  \E f \in [lo..hi -> R] : \A i \in lo..hi : f[i] = step[i][f]
<1> DEFINE Good(k) == \E f \in [lo..hi -> R] : \A i \in lo..hi : k <= i => f[i] = step[i][f]
           S == {k \in lo..hi : Good(k)}
<1>1. lo \in Nat /\ hi \in Nat /\ R # {}
  BY DEF LooksAhead
<1>2. Good(hi + 1)
  <2>1. PICK r : r \in R
    BY <1>1
  <2>2. [i \in lo..hi |-> r] \in [lo..hi -> R]
    BY <2>1
  <2>3. \A i \in lo..hi : ~(hi + 1 <= i)
    BY <1>1
  <2> QED
    BY <2>2, <2>3
<1>3. ASSUME NEW k \in lo..hi, Good(k + 1) PROVE Good(k)
  <2>1. PICK f \in [lo..hi -> R] : \A i \in lo..hi : k + 1 <= i => f[i] = step[i][f]
    BY <1>3
  <2> DEFINE g == [i \in lo..hi |-> IF i = k THEN step[k][f] ELSE f[i]]
  <2>2. g \in [lo..hi -> R]
    BY <2>1 DEF LooksAhead
  <2>3. \A i \in lo..hi : g[i] = IF i = k THEN step[k][f] ELSE f[i]
    OBVIOUS
  <2> HIDE DEF g
  <2>4. ASSUME NEW i \in lo..hi, k <= i PROVE g[i] = step[i][g]
    <3>1. \A j \in (i + 1)..hi : f[j] = g[j]
      BY <1>1, <2>3, <2>4
    <3>2. step[i][f] = step[i][g]
      BY <2>2, <3>1 DEF LooksAhead
    <3>3. i = k \/ k + 1 <= i
      BY <1>1, <2>4
    <3> QED
      BY <2>1, <2>3, <3>2, <3>3
  <2> QED
    BY <2>2, <2>4
<1>4. Falls(lo, hi, S)
  <2>1. ASSUME NEW k \in lo..hi, \A j \in (k + 1)..hi : j \in S PROVE k \in S
    <3>1. k + 1 \in (k + 1)..hi \/ k + 1 = hi + 1
      BY <1>1
    <3>2. Good(k + 1)
      <4> HIDE DEF Good
      <4> QED
        BY <1>2, <2>1, <3>1
    <3> HIDE DEF Good
    <3> QED
      BY <1>3, <3>2
  <2> HIDE DEF S
  <2> QED
    BY <2>1 DEF Falls
<1>5. \A k \in lo..hi : k \in S
  <2> HIDE DEF S
  <2> QED
    BY <1>1, <1>4, FallInduction
<1>6. Good(lo)
  <2>1. lo \in lo..hi \/ lo > hi
    BY <1>1
  <2>2. CASE lo > hi
    <3>1. \A i \in lo..hi : FALSE
      BY <1>1, <2>2
    <3> QED
      BY <1>2, <3>1
  <2>3. CASE lo \in lo..hi
    <3> HIDE DEF Good
    <3> QED
      BY <1>5, <2>3
  <2> QED
    BY <2>1, <2>2, <2>3
<1>7. PICK f \in [lo..hi -> R] : \A i \in lo..hi : lo <= i => f[i] = step[i][f]
  BY <1>6
<1>8. \A i \in lo..hi : lo <= i
  BY <1>1
<1> QED
  BY <1>7, <1>8

-----------------------------------------------------------------------------
(* The scanner.                                                             *)

USE DEF Places

LEMMA TextIs ==
    ASSUME NEW text \in Seq(Lexeme)
    PROVE  /\ Len(text) \in Nat /\ DOMAIN text = 1..Len(text)
           /\ Places(text) = 1..(Len(text) + 1) /\ Places(text) \subseteq Nat
           /\ \A i \in 1..Len(text) : i \in Places(text) /\ i + 1 \in Places(text)
<1>1. Len(text) \in Nat /\ DOMAIN text = 1..Len(text)
  <2> HIDE DEF Lexeme
  <2> QED
    BY LenProperties
<1> QED
  BY <1>1

\* What stands somewhere stands in the text.
LEMMA KindStands ==
    ASSUME NEW text \in Seq(Lexeme), NEW i, Kind(text, i) # "end"
    PROVE  i \in 1..Len(text) /\ i \in Places(text) /\ i + 1 \in Places(text)
BY TextIs DEF Kind

LEMMA KindsDiffer ==
    ASSUME NEW text, NEW i
    PROVE  /\ IsString(text, i) => Kind(text, i) = "string"
           /\ IsAtomic(text, i) => Kind(text, i) \in {"string", "number", "true", "false", "null"}
BY DEF IsString, IsAtomic

\* Where a value or a list may end, from each place on: behind it, or nowhere.
Skips(text) == {skip \in [Places(text) -> 0..(Len(text) + 1)] :
                    \A i \in Places(text) : skip[i] = 0 \/ i < skip[i]}

\* Where the value of an entry ends.
NextFrom(text, open, skip, i) ==
    IF EntryValue(text, i, open) = 0 THEN 0 ELSE skip[EntryValue(text, i, open)]

LEMMA NextIs ==
    ASSUME NEW text \in Seq(Lexeme), NEW open \in {"lbrace", "lbracket"}, NEW skip \in Skips(text),
           NEW i \in Places(text)
    PROVE  /\ NextFrom(text, open, skip, i) \in 0..(Len(text) + 1)
           /\ NextFrom(text, open, skip, i) = 0 \/ i < NextFrom(text, open, skip, i)
           /\ EntryValue(text, i, open) \in {0, i, i + 2}
           /\ EntryValue(text, i, open) # 0 => EntryValue(text, i, open) \in Places(text)
<1>1. /\ Len(text) \in Nat /\ Places(text) = 1..(Len(text) + 1)
      /\ skip \in [Places(text) -> 0..(Len(text) + 1)]
      /\ \A j \in Places(text) : skip[j] = 0 \/ j < skip[j]
  BY TextIs DEF Skips
<1>2. CASE open = "lbracket"
  <2>1. EntryValue(text, i, open) = i
    BY <1>2 DEF EntryValue
  <2> QED
    BY <1>1, <2>1 DEF NextFrom
<1>3. CASE open = "lbrace"
  <2>1. CASE IsString(text, i) /\ Kind(text, i + 1) = "colon"
    <3>1. EntryValue(text, i, open) = i + 2
      BY <1>3, <2>1 DEF EntryValue
    <3>2. i + 2 \in Places(text)
      <4>1. (i + 1) + 1 \in Places(text)
        BY <2>1, KindStands
      <4> QED
        BY <1>1, <4>1
    <3>3. i + 2 # 0 /\ i < i + 2
      BY <1>1
    <3>4. skip[i + 2] \in 0..(Len(text) + 1) /\ (skip[i + 2] = 0 \/ i + 2 < skip[i + 2])
      BY <1>1, <3>2
    <3> QED
      BY <1>1, <3>1, <3>2, <3>3, <3>4 DEF NextFrom
  <2>2. CASE ~(IsString(text, i) /\ Kind(text, i + 1) = "colon")
    <3>1. EntryValue(text, i, open) = 0
      BY <1>3, <2>2 DEF EntryValue
    <3> QED
      BY <1>1, <3>1 DEF NextFrom
  <2> QED
    BY <2>1, <2>2
<1> QED
  BY <1>2, <1>3

\* One turn of the loop, where end says how those after it end.
Turn(text, open, skip, i, end) ==
    IF Kind(text, NextFrom(text, open, skip, i)) = "comma" THEN end[NextFrom(text, open, skip, i) + 1]
    ELSE IF Kind(text, NextFrom(text, open, skip, i)) = Closing(open)
         THEN NextFrom(text, open, skip, i) + 1 ELSE 0
SkipsList(end, text, open, skip) ==
    end = [i \in Places(text) |-> Turn(text, open, skip, i, end)]

LEMMA SkipListSkips ==
    ASSUME NEW text, NEW open, NEW skip
    PROVE  SkipList(text, open, skip) = CHOOSE end : SkipsList(end, text, open, skip)
BY DEF SkipList, SkipsList, SkipOn, EntryEnd, Turn, NextFrom

LEMMA TurnAhead ==
    ASSUME NEW text \in Seq(Lexeme), NEW open \in {"lbrace", "lbracket"}, NEW skip \in Skips(text),
           NEW i \in Places(text), Kind(text, NextFrom(text, open, skip, i)) # "end"
    PROVE  /\ NextFrom(text, open, skip, i) \in 1..Len(text) /\ i < NextFrom(text, open, skip, i)
           /\ NextFrom(text, open, skip, i) + 1 \in Places(text)
           /\ NextFrom(text, open, skip, i) + 1 \in (i + 1)..(Len(text) + 1)
<1>1. /\ NextFrom(text, open, skip, i) \in 1..Len(text)
      /\ NextFrom(text, open, skip, i) + 1 \in Places(text)
  BY KindStands
<1>2. NextFrom(text, open, skip, i) = 0 \/ i < NextFrom(text, open, skip, i)
  BY NextIs
<1>3. Len(text) \in Nat /\ Places(text) = 1..(Len(text) + 1)
  BY TextIs
<1> HIDE DEF NextFrom
<1> QED
  BY <1>1, <1>2, <1>3

LEMMA SkipListIs ==
    ASSUME NEW text \in Seq(Lexeme), NEW open \in {"lbrace", "lbracket"}, NEW skip \in Skips(text)
    PROVE  /\ SkipList(text, open, skip) \in Skips(text)
           /\ \A i \in Places(text) : SkipList(text, open, skip)[i]
                                        = Turn(text, open, skip, i, SkipList(text, open, skip))
<1> DEFINE n == Len(text) + 1
           R == 0..n
           step == [i \in Places(text) |-> [f \in [Places(text) -> R] |->
                        Turn(text, open, skip, i, f)]]
           next(i) == NextFrom(text, open, skip, i)
<1>1. Len(text) \in Nat /\ n \in Nat /\ Places(text) = 1..n /\ R # {}
  BY TextIs
<1>2. \A i \in Places(text) : Kind(text, next(i)) # "end" =>
         next(i) \in 1..Len(text) /\ next(i) + 1 \in Places(text) /\ next(i) + 1 \in (i + 1)..n
  BY TurnAhead
<1>3. \A i \in Places(text) : \A f : Turn(text, open, skip, i, f) =
          IF Kind(text, next(i)) = "comma" THEN f[next(i) + 1]
          ELSE IF Kind(text, next(i)) = Closing(open) THEN next(i) + 1 ELSE 0
  BY DEF Turn
<1>4. Closing(open) # "end"
  BY DEF Closing
<1> HIDE DEF n, next
<1>5. LooksAhead(1, n, R, step)
  <2>1. \A i \in Places(text) : \A f \in [Places(text) -> R] : Turn(text, open, skip, i, f) \in R
    BY <1>1, <1>2, <1>3, <1>4
  <2>2. \A i \in Places(text) : \A f, g \in [Places(text) -> R] :
           (\A j \in (i + 1)..n : f[j] = g[j]) =>
               Turn(text, open, skip, i, f) = Turn(text, open, skip, i, g)
    BY <1>2, <1>3
  <2>3. \A i \in Places(text) : \A f \in [Places(text) -> R] :
            step[i][f] = Turn(text, open, skip, i, f)
    OBVIOUS
  <2> HIDE DEF R, step
  <2> QED
    BY <1>1, <2>1, <2>2, <2>3 DEF LooksAhead
<1>6. PICK f \in [Places(text) -> R] : \A i \in Places(text) : f[i] = step[i][f]
  <2> HIDE DEF R, step
  <2> QED
    BY <1>1, <1>5, AheadExists
<1>7. SkipsList(f, text, open, skip)
  <2> HIDE DEF R
  <2> QED
    BY <1>6 DEF SkipsList
<1> DEFINE end == SkipList(text, open, skip)
<1>8. SkipsList(end, text, open, skip)
  BY <1>7, SkipListSkips
<1> HIDE DEF end
<1>9. \A i \in Places(text) : end[i] = Turn(text, open, skip, i, end)
  BY <1>8 DEF SkipsList
<1> DEFINE S == {i \in Places(text) : end[i] \in R /\ (end[i] = 0 \/ i < end[i])}
<1>10. Falls(1, n, S)
  <2>1. ASSUME NEW i \in 1..n, \A j \in (i + 1)..n : j \in S PROVE i \in S
    <3>1. i \in Places(text) /\ end[i] = Turn(text, open, skip, i, end)
      BY <1>1, <1>9
    <3>2. CASE Kind(text, next(i)) = "comma"
      <4>1. end[i] = end[next(i) + 1] /\ next(i) + 1 \in (i + 1)..n
        BY <1>2, <1>3, <3>1, <3>2
      <4>2. end[i] \in R /\ (end[i] = 0 \/ next(i) + 1 < end[i])
        BY <2>1, <4>1
      <4> QED
        BY <1>1, <3>1, <4>1, <4>2
    <3>3. CASE Kind(text, next(i)) # "comma" /\ Kind(text, next(i)) = Closing(open)
      <4>1. end[i] = next(i) + 1 /\ next(i) + 1 \in (i + 1)..n
        BY <1>2, <1>3, <1>4, <3>1, <3>3
      <4> QED
        BY <1>1, <3>1, <4>1
    <3>4. CASE Kind(text, next(i)) # "comma" /\ Kind(text, next(i)) # Closing(open)
      <4>1. end[i] = 0
        BY <1>3, <3>1, <3>4
      <4> QED
        BY <1>1, <3>1, <4>1
    <3> QED
      BY <3>2, <3>3, <3>4
  <2> HIDE DEF S
  <2> QED
    BY <2>1 DEF Falls
<1>11. \A i \in 1..n : i \in S
  <2> HIDE DEF S
  <2> QED
    BY <1>1, <1>10, FallInduction
<1>12. end = [i \in Places(text) |-> end[i]]
  BY <1>8 DEF SkipsList
<1>13. end \in Skips(text)
  BY <1>1, <1>11, <1>12 DEF Skips, n
<1> QED
  BY <1>9, <1>13 DEF end

-----------------------------------------------------------------------------
(* The grammar.                                                             *)

\* Where values or lists may end, from each place on.
Ends(text) == {ends \in [Places(text) -> SUBSET (1..Len(text))] :
                  \A i \in Places(text) : \A j \in ends[i] : i <= j}

LEMMA EntryEndsAre ==
    ASSUME NEW text \in Seq(Lexeme), NEW open \in {"lbrace", "lbracket"}, NEW values \in Ends(text),
           NEW i \in Places(text)
    PROVE  /\ EntryEnds(text, i, open, values) \in SUBSET (1..Len(text))
           /\ \A j \in EntryEnds(text, i, open, values) : i <= j
<1>1. /\ Len(text) \in Nat
      /\ values \in [Places(text) -> SUBSET (1..Len(text))]
      /\ \A k \in Places(text) : \A j \in values[k] : k <= j
  BY TextIs DEF Ends
<1>2. CASE open = "lbracket"
  <2>1. EntryEnds(text, i, open, values) = values[i]
    BY <1>2 DEF EntryEnds
  <2> QED
    BY <1>1, <2>1
<1>3. CASE open = "lbrace" /\ IsString(text, i) /\ Kind(text, i + 1) = "colon"
  <2>1. EntryEnds(text, i, open, values) = values[i + 2]
    BY <1>3 DEF EntryEnds
  <2>2. i + 2 \in Places(text)
    <3>1. (i + 1) + 1 \in Places(text)
      BY <1>3, KindStands
    <3> QED
      BY <1>1, <3>1
  <2>3. values[i + 2] \in SUBSET (1..Len(text)) /\ \A j \in values[i + 2] : i + 2 <= j
    BY <1>1, <2>2
  <2>4. \A j \in values[i + 2] : i <= j
    BY <1>1, <2>3
  <2> QED
    BY <2>1, <2>3, <2>4
<1>4. CASE open = "lbrace" /\ ~(IsString(text, i) /\ Kind(text, i + 1) = "colon")
  <2>1. EntryEnds(text, i, open, values) = {}
    BY <1>4 DEF EntryEnds
  <2> QED
    BY <2>1
<1> QED
  BY <1>2, <1>3, <1>4

\* The ends of a list, where rest says those of the lists further on.
Listed(text, open, values, i, rest) ==
    LET entries == EntryEnds(text, i, open, values)
    IN  entries \union UNION {rest[j + 2] : j \in {j \in entries : Kind(text, j + 1) = "comma"}}
EndsLists(ends, text, open, values) ==
    ends = [i \in Places(text) |-> Listed(text, open, values, i, ends)]

LEMMA ListEndsEndLists ==
    ASSUME NEW text, NEW open, NEW values
    PROVE  ListEnds(text, open, values) = CHOOSE ends : EndsLists(ends, text, open, values)
BY DEF ListEnds, EndsLists, Listed

\* One entry, or one and a comma and a list.
LEMMA ListedIs ==
    ASSUME NEW text, NEW open, NEW values, NEW i, NEW rest, NEW e
    PROVE  e \in Listed(text, open, values, i, rest) <=>
              \/ e \in EntryEnds(text, i, open, values)
              \/ \E j \in EntryEnds(text, i, open, values) :
                    Kind(text, j + 1) = "comma" /\ e \in rest[j + 2]
BY DEF Listed

LEMMA CommaAhead ==
    ASSUME NEW text \in Seq(Lexeme), NEW open \in {"lbrace", "lbracket"}, NEW values \in Ends(text),
           NEW i \in Places(text), NEW j \in EntryEnds(text, i, open, values),
           Kind(text, j + 1) = "comma"
    PROVE  j + 2 \in Places(text) /\ j + 2 \in (i + 1)..(Len(text) + 1)
<1>1. j \in 1..Len(text) /\ i <= j /\ Len(text) \in Nat
  BY EntryEndsAre, TextIs
<1>2. j + 1 \in 1..Len(text)
  BY <1>1, KindStands
<1> QED
  BY <1>1, <1>2

LEMMA ListEndsAre ==
    ASSUME NEW text \in Seq(Lexeme), NEW open \in {"lbrace", "lbracket"}, NEW values \in Ends(text)
    PROVE  /\ ListEnds(text, open, values) \in Ends(text)
           /\ \A i \in Places(text) : ListEnds(text, open, values)[i]
                                        = Listed(text, open, values, i, ListEnds(text, open, values))
<1> DEFINE n == Len(text) + 1
           R == SUBSET (1..Len(text))
           entries(i) == EntryEnds(text, i, open, values)
           list(i, f) == Listed(text, open, values, i, f)
           step == [i \in Places(text) |-> [f \in [Places(text) -> R] |-> list(i, f)]]
<1>1. Len(text) \in Nat /\ n \in Nat /\ Places(text) = 1..n /\ R # {}
  <2>1. {} \in R
    OBVIOUS
  <2>2. R # {}
    BY <2>1
  <2>3. Len(text) \in Nat /\ n \in Nat /\ Places(text) = 1..n
    BY TextIs
  <2> QED
    BY <2>2, <2>3
<1>2. \A i \in Places(text) : entries(i) \in R /\ \A j \in entries(i) : i <= j
  BY EntryEndsAre
<1>3. \A i \in Places(text) : \A j \in entries(i) : Kind(text, j + 1) = "comma" =>
         j + 2 \in Places(text) /\ j + 2 \in (i + 1)..n
  BY CommaAhead
<1>4. \A i, f, e : e \in list(i, f) <=>
              \/ e \in entries(i)
              \/ \E j \in entries(i) : Kind(text, j + 1) = "comma" /\ e \in f[j + 2]
  BY ListedIs, Zenon
<1>5. LooksAhead(1, n, R, step)
  <2>1. ASSUME NEW i \in Places(text), NEW f \in [Places(text) -> R] PROVE list(i, f) \in R
    <3>1. \A j \in Places(text) : f[j] \in R
      OBVIOUS
    <3> HIDE DEF list, entries
    <3>2. \A e \in list(i, f) : e \in 1..Len(text)
      BY <1>2, <1>3, <1>4, <3>1
    <3> QED
      BY <3>2
  <2>2. ASSUME NEW i \in Places(text), NEW f, NEW g, \A j \in (i + 1)..n : f[j] = g[j]
        PROVE  list(i, f) = list(i, g)
    <3> HIDE DEF list, entries, n
    <3>1. \A e : e \in list(i, f) <=> e \in list(i, g)
      BY <1>3, <1>4, <2>2
    <3>2. list(i, f) = {e \in list(i, f) : TRUE} /\ list(i, g) = {e \in list(i, g) : TRUE}
      OBVIOUS
    <3> QED
      BY <3>1, <3>2
  <2>3. \A i \in Places(text) : \A f \in [Places(text) -> R] : step[i][f] = list(i, f)
    OBVIOUS
  <2> HIDE DEF R, step, list
  <2> QED
    BY <1>1, <2>1, <2>2, <2>3 DEF LooksAhead
<1>6. PICK f \in [Places(text) -> R] : \A i \in Places(text) : f[i] = step[i][f]
  <2> HIDE DEF R, step
  <2> QED
    BY <1>1, <1>5, AheadExists
<1>7. EndsLists(f, text, open, values)
  <2> HIDE DEF R
  <2> QED
    BY <1>6 DEF EndsLists
<1> DEFINE ends == ListEnds(text, open, values)
<1>8. EndsLists(ends, text, open, values)
  BY <1>7, ListEndsEndLists
<1> HIDE DEF ends
<1>9. \A i \in Places(text) : ends[i] = list(i, ends)
  BY <1>8 DEF EndsLists
<1> DEFINE S == {i \in Places(text) : ends[i] \in R /\ \A e \in ends[i] : i <= e}
<1>10. Falls(1, n, S)
  <2>1. ASSUME NEW i \in 1..n, \A j \in (i + 1)..n : j \in S PROVE i \in S
    <3>1. i \in Places(text) /\ \A e : e \in ends[i] <=> e \in list(i, ends)
      BY <1>1, <1>9
    <3> HIDE DEF list, entries
    <3>2. ASSUME NEW e \in ends[i] PROVE e \in 1..Len(text) /\ i <= e
      <4>1. CASE e \in entries(i)
        BY <1>2, <3>1, <4>1
      <4>2. CASE e \notin entries(i)
        <5>1. PICK j \in entries(i) : Kind(text, j + 1) = "comma" /\ e \in ends[j + 2]
          BY <1>4, <3>1, <4>2
        <5>2. j + 2 \in S /\ i <= j + 2
          <6> HIDE DEF S
          <6> QED
            BY <1>1, <1>3, <2>1, <3>1, <5>1
        <5>3. e \in 1..Len(text) /\ j + 2 <= e /\ j \in 1..Len(text)
          BY <1>2, <3>1, <5>1, <5>2
        <5> QED
          BY <1>1, <5>2, <5>3
      <4> QED
        BY <4>1, <4>2
    <3> QED
      BY <3>1, <3>2
  <2> HIDE DEF S
  <2> QED
    BY <2>1 DEF Falls
<1>11. \A i \in 1..n : i \in S
  <2> HIDE DEF S
  <2> QED
    BY <1>1, <1>10, FallInduction
<1>12. ends = [i \in Places(text) |-> ends[i]]
  BY <1>8 DEF EndsLists
<1>13. ends \in Ends(text)
  BY <1>1, <1>11, <1>12 DEF Ends
<1> QED
  BY <1>9, <1>13 DEF ends

-----------------------------------------------------------------------------
(* The scanner against the grammar.                                         *)

\* From each place there is one end at most, right before where the scanner goes on.
Agree(text, ends, skip) ==
    \A i \in Places(text) : \A j : j \in ends[i] <=> j \in 1..Len(text) /\ skip[i] = j + 1

\* Values start like values.
Starts(text, skip) ==
    \A i \in Places(text) :
        skip[i] # 0 => IsAtomic(text, i) \/ Kind(text, i) \in {"lbrace", "lbracket"}

LEMMA EntriesAgree ==
    ASSUME NEW text \in Seq(Lexeme), NEW open \in {"lbrace", "lbracket"},
           NEW skip \in Skips(text), NEW values \in Ends(text), Agree(text, values, skip),
           NEW i \in Places(text)
    PROVE  \A j : j \in EntryEnds(text, i, open, values) <=>
                     j \in 1..Len(text) /\ NextFrom(text, open, skip, i) = j + 1
<1>1. /\ Len(text) \in Nat
      /\ EntryValue(text, i, open) # 0 => EntryValue(text, i, open) \in Places(text)
  BY NextIs, TextIs
<1>2. \A j \in 1..Len(text) : 0 # j + 1
  BY <1>1
<1>3. CASE open = "lbracket"
  <2>1. /\ EntryEnds(text, i, open, values) = values[i] /\ EntryValue(text, i, open) = i
        /\ i # 0
    BY <1>1, <1>3 DEF EntryEnds, EntryValue
  <2>2. NextFrom(text, open, skip, i) = skip[i]
    BY <2>1 DEF NextFrom
  <2> QED
    BY <2>1, <2>2 DEF Agree
<1>4. CASE open = "lbrace" /\ IsString(text, i) /\ Kind(text, i + 1) = "colon"
  <2>1. EntryEnds(text, i, open, values) = values[i + 2] /\ EntryValue(text, i, open) = i + 2
    BY <1>4 DEF EntryEnds, EntryValue
  <2>2. i + 2 # 0
    BY <1>1
  <2>3. NextFrom(text, open, skip, i) = skip[i + 2] /\ i + 2 \in Places(text)
    <3> HIDE DEF Places
    <3> QED
      BY <1>1, <2>1, <2>2 DEF NextFrom
  <2> QED
    BY <2>1, <2>3 DEF Agree
<1>5. CASE open = "lbrace" /\ ~(IsString(text, i) /\ Kind(text, i + 1) = "colon")
  <2>1. EntryEnds(text, i, open, values) = {} /\ NextFrom(text, open, skip, i) = 0
    BY <1>5 DEF EntryEnds, EntryValue, NextFrom
  <2> QED
    BY <1>2, <2>1
<1> QED
  BY <1>3, <1>4, <1>5

\* A list that is closed at j + 1 is one the loop finds.
LEMMA ListsAgree ==
    ASSUME NEW text \in Seq(Lexeme), NEW open \in {"lbrace", "lbracket"},
           NEW skip \in Skips(text), NEW values \in Ends(text), Agree(text, values, skip)
    PROVE  \A i \in Places(text), j \in 1..Len(text) :
              /\ j \in ListEnds(text, open, values)[i] /\ Kind(text, j + 1) = Closing(open)
                 <=> SkipList(text, open, skip)[i] = j + 2
<1> DEFINE n == Len(text) + 1
           ends == ListEnds(text, open, values)
           end == SkipList(text, open, skip)
           entries(i) == EntryEnds(text, i, open, values)
           next(i) == NextFrom(text, open, skip, i)
           Meets(i) == \A j \in 1..Len(text) :
                          /\ j \in ends[i] /\ Kind(text, j + 1) = Closing(open)
                             <=> end[i] = j + 2
           S == {i \in Places(text) : Meets(i)}
<1>1. Len(text) \in Nat /\ n \in Nat /\ Places(text) = 1..n
  BY TextIs
<1>2. \A i \in Places(text) : \A j : j \in entries(i) <=> j \in 1..Len(text) /\ next(i) = j + 1
  BY EntriesAgree
<1>3. \A i \in Places(text) : \A e : e \in ends[i] <=>
              \/ e \in entries(i)
              \/ \E j \in entries(i) : Kind(text, j + 1) = "comma" /\ e \in ends[j + 2]
  <2>1. \A i \in Places(text) : ends[i] = Listed(text, open, values, i, ends)
    BY ListEndsAre
  <2>2. \A i, e : e \in Listed(text, open, values, i, ends) <=>
              \/ e \in entries(i)
              \/ \E j \in entries(i) : Kind(text, j + 1) = "comma" /\ e \in ends[j + 2]
    BY ListedIs, Zenon
  <2> HIDE DEF ends, entries
  <2> QED
    BY <2>1, <2>2
<1>4. \A i \in Places(text) :
          end[i] = IF Kind(text, next(i)) = "comma" THEN end[next(i) + 1]
                   ELSE IF Kind(text, next(i)) = Closing(open) THEN next(i) + 1 ELSE 0
  BY SkipListIs DEF Turn
<1>5. \A i \in Places(text) : Kind(text, next(i)) # "end" =>
         next(i) \in 1..Len(text) /\ i < next(i)
         /\ next(i) + 1 \in Places(text) /\ next(i) + 1 \in (i + 1)..n
  BY TurnAhead
<1>6. Closing(open) # "end" /\ Closing(open) # "comma"
  BY DEF Closing
<1> HIDE DEF n, ends, end, entries, next
<1>7. ASSUME NEW i \in Places(text), \A k \in (i + 1)..n : Meets(k) PROVE Meets(i)
  <2> SUFFICES ASSUME NEW j \in 1..Len(text)
               PROVE  /\ j \in ends[i] /\ Kind(text, j + 1) = Closing(open)
                         <=> end[i] = j + 2
    OBVIOUS
  <2>1. CASE Kind(text, next(i)) = "comma"
    <3>1. next(i) \in 1..Len(text) /\ i < next(i) /\ next(i) + 1 \in (i + 1)..n
      BY <1>5, <2>1
    <3>2. (j \in ends[next(i) + 1] /\ Kind(text, j + 1) = Closing(open))
             <=> end[next(i) + 1] = j + 2
      BY <1>7, <3>1
    <3>3. next(i) - 1 \in entries(i) /\ \A k \in entries(i) : k = next(i) - 1
      BY <1>1, <1>2, <3>1
    <3>4. (next(i) - 1) + 1 = next(i) /\ (next(i) - 1) + 2 = next(i) + 1
      BY <3>1
    <3>5. j \in ends[i] <=> j = next(i) - 1 \/ j \in ends[next(i) + 1]
      BY <1>3, <2>1, <3>3, <3>4
    <3>6. j = next(i) - 1 => Kind(text, j + 1) # Closing(open)
      BY <1>6, <2>1, <3>4
    <3> QED
      BY <1>4, <2>1, <3>2, <3>5, <3>6
  <2>2. CASE Kind(text, next(i)) # "comma"
    <3>1. j \in ends[i] <=> next(i) = j + 1
      <4>1. \A k \in entries(i) : Kind(text, k + 1) # "comma"
        BY <1>2, <2>2
      <4> QED
        BY <1>2, <1>3, <4>1
    <3>2. CASE Kind(text, next(i)) = Closing(open)
      <4>1. end[i] = next(i) + 1 /\ next(i) \in 1..Len(text)
        BY <1>4, <1>5, <1>6, <2>2, <3>2
      <4>2. next(i) = j + 1 <=> end[i] = j + 2
        BY <1>1, <4>1
      <4> QED
        BY <3>1, <3>2, <4>2
    <3>3. CASE Kind(text, next(i)) # Closing(open)
      <4>1. end[i] = 0 /\ 0 # j + 2
        BY <1>1, <1>4, <2>2, <3>3
      <4> QED
        BY <3>1, <3>3, <4>1
    <3> QED
      BY <3>2, <3>3
  <2> QED
    BY <2>1, <2>2
<1>8. Falls(1, n, S)
  <2>1. ASSUME NEW i \in 1..n, \A j \in (i + 1)..n : j \in S PROVE i \in S
    <3>1. \A k \in (i + 1)..n : Meets(k)
      BY <2>1
    <3>2. i \in Places(text)
      BY <1>1
    <3> HIDE DEF Meets, Places
    <3> QED
      BY <1>7, <3>1, <3>2
  <2> HIDE DEF S
  <2> QED
    BY <2>1 DEF Falls
<1>9. \A i \in 1..n : i \in S
  <2> HIDE DEF S
  <2> QED
    BY <1>1, <1>8, FallInduction
<1>10. \A i \in Places(text) : Meets(i)
  BY <1>1, <1>9
<1> QED
  BY <1>10 DEF ends, end

\* One level deeper.
LEMMA LevelAgrees ==
    ASSUME NEW text \in Seq(Lexeme), NEW skip \in Skips(text), NEW values \in Ends(text),
           Agree(text, values, skip), Starts(text, skip)
    PROVE  /\ SkipLevel(text, skip) \in Skips(text) /\ LevelEnds(text, values) \in Ends(text)
           /\ Agree(text, LevelEnds(text, values), SkipLevel(text, skip))
           /\ Starts(text, SkipLevel(text, skip))
<1> DEFINE n == Len(text) + 1
           level == SkipLevel(text, skip)
           ends == LevelEnds(text, values)
           end(open) == SkipList(text, open, skip)
           lists(open) == ListEnds(text, open, values)
<1>1. Len(text) \in Nat /\ n \in Nat /\ Places(text) = 1..n
  BY TextIs
<1>2. /\ level = [i \in Places(text) |-> level[i]]
      /\ \A i \in Places(text) : level[i] =
            IF IsAtomic(text, i) THEN i + 1
            ELSE IF Kind(text, i) \notin {"lbrace", "lbracket"} THEN 0
            ELSE IF Kind(text, i + 1) = Closing(Kind(text, i)) THEN i + 2
            ELSE end(Kind(text, i))[i + 1]
  BY DEF SkipLevel
<1>3. /\ ends = [i \in Places(text) |-> ends[i]]
      /\ \A i \in Places(text) : ends[i] =
            {j \in Places(text) :
              \/ j = i /\ IsAtomic(text, i)
              \/ \E open \in {"lbrace", "lbracket"} :
                    /\ Kind(text, i) = open /\ Kind(text, j) = Closing(open)
                    /\ j = i + 1 \/ j - 1 \in lists(open)[i + 1]}
  BY DEF LevelEnds
<1>4. \A open \in {"lbrace", "lbracket"} : \A i \in Places(text), j \in 1..Len(text) :
              /\ j \in lists(open)[i] /\ Kind(text, j + 1) = Closing(open)
                 <=> end(open)[i] = j + 2
  BY ListsAgree
<1>5. \A open \in {"lbrace", "lbracket"} : end(open) \in Skips(text) /\ lists(open) \in Ends(text)
  BY SkipListIs, ListEndsAre
<1>6. \A open \in {"lbrace", "lbracket"} : \A i \in Places(text) :
         /\ end(open)[i] \in 0..n /\ (end(open)[i] = 0 \/ i < end(open)[i])
         /\ \A j \in lists(open)[i] : j \in 1..Len(text) /\ i <= j
  BY <1>5 DEF Skips, Ends
\* No list starts with its end.
<1>7. \A open \in {"lbrace", "lbracket"} : \A i \in Places(text) :
         Kind(text, i) = Closing(open) => lists(open)[i] = {}
  <2> SUFFICES ASSUME NEW open \in {"lbrace", "lbracket"}, NEW i \in Places(text),
                      Kind(text, i) = Closing(open)
               PROVE  lists(open)[i] = {}
    OBVIOUS
  <2>1. Kind(text, i) \in {"rbrace", "rbracket"}
    BY DEF Closing
  <2>2. skip[i] = 0
    BY <2>1, KindsDiffer DEF Starts
  <2>3. NextFrom(text, open, skip, i) = 0
    BY <2>1, <2>2, KindsDiffer DEF NextFrom, EntryValue
  <2>4. EntryEnds(text, i, open, values) = {}
    <3>1. \A j \in 1..Len(text) : 0 # j + 1
      BY <1>1
    <3>2. \A j : j \notin EntryEnds(text, i, open, values)
      BY <2>3, <3>1, EntriesAgree
    <3> QED
      BY <3>2
  <2>5. lists(open)[i] = Listed(text, open, values, i, lists(open))
    BY ListEndsAre
  <2>6. \A e : e \notin Listed(text, open, values, i, lists(open))
    BY <2>4, ListedIs
  <2> QED
    BY <2>5, <2>6
<1> HIDE DEF n, level, ends, end, lists
<1>8. ASSUME NEW i \in Places(text)
      PROVE  /\ level[i] \in 0..n /\ (level[i] = 0 \/ i < level[i])
             /\ level[i] # 0 => IsAtomic(text, i) \/ Kind(text, i) \in {"lbrace", "lbracket"}
             /\ \A j : j \in ends[i] <=> j \in 1..Len(text) /\ level[i] = j + 1
  <2>1. CASE IsAtomic(text, i)
    <3>1. Kind(text, i) \notin {"lbrace", "lbracket", "end"} /\ level[i] = i + 1
      BY <1>2, <2>1, KindsDiffer
    <3>2. i \in 1..Len(text) /\ i + 1 \in 1..n
      BY <1>1, <3>1, KindStands
    <3>3. \A j : j \in ends[i] <=> j = i
      BY <1>3, <2>1, <3>1
    <3>4. \A j \in 1..Len(text) : i + 1 = j + 1 <=> j = i
      BY <3>2
    <3> QED
      BY <1>1, <2>1, <3>1, <3>2, <3>3, <3>4
  <2>2. CASE ~IsAtomic(text, i) /\ Kind(text, i) \notin {"lbrace", "lbracket"}
    <3>1. level[i] = 0 /\ \A j : j \notin ends[i]
      BY <1>2, <1>3, <2>2
    <3>2. \A j \in 1..Len(text) : 0 # j + 1
      BY <1>1
    <3> QED
      BY <1>1, <3>1, <3>2
  <2>3. ASSUME NEW open \in {"lbrace", "lbracket"}, ~IsAtomic(text, i), Kind(text, i) = open
        PROVE  /\ level[i] \in 0..n /\ (level[i] = 0 \/ i < level[i])
               /\ \A j : j \in ends[i] <=> j \in 1..Len(text) /\ level[i] = j + 1
    <3>1. i \in 1..Len(text) /\ i + 1 \in Places(text) /\ i + 1 \in 1..n
      BY <1>1, <2>3, KindStands
    <3>2. Closing(open) # "end"
      BY DEF Closing
    <3>3. \A j : j \in ends[i] <=>
              /\ j \in 1..Len(text) /\ Kind(text, j) = Closing(open)
              /\ j = i + 1 \/ j - 1 \in lists(open)[i + 1]
      <4>1. \A j \in Places(text) : Kind(text, j) = Closing(open) => j \in 1..Len(text)
        BY <3>2, KindStands
      <4>2. \A j \in 1..Len(text) : j \in Places(text)
        BY <1>1
      <4> HIDE DEF Places
      <4> QED
        BY <1>3, <2>3, <4>1, <4>2
    <3>4. CASE Kind(text, i + 1) = Closing(open)
      <4>1. level[i] = i + 2 /\ lists(open)[i + 1] = {}
        BY <1>2, <1>7, <2>3, <3>1, <3>4
      <4>2. i + 1 \in 1..Len(text)
        BY <3>2, <3>4, KindStands
      <4>3. \A j : j \in ends[i] <=> j = i + 1
        BY <3>3, <3>4, <4>1, <4>2
      <4> QED
        BY <1>1, <4>1, <4>2, <4>3
    <3>5. CASE Kind(text, i + 1) # Closing(open)
      <4>1. level[i] = end(open)[i + 1]
        BY <1>2, <2>3, <3>5
      <4>2. level[i] \in 0..n /\ (level[i] = 0 \/ i + 1 < level[i])
        BY <1>6, <3>1, <4>1
      <4>3. ASSUME NEW j \in 1..Len(text) PROVE j \in ends[i] <=> level[i] = j + 1
        <5>1. CASE j = 1
          <6>1. level[i] # j + 1
            BY <1>1, <3>1, <4>2, <5>1
          <6>2. j # i + 1 /\ j - 1 \notin lists(open)[i + 1]
            BY <1>1, <1>6, <3>1, <5>1
          <6> QED
            BY <3>3, <6>1, <6>2
        <5>2. CASE j # 1
          <6>1. j - 1 \in 1..Len(text) /\ (j - 1) + 1 = j /\ (j - 1) + 2 = j + 1
            BY <1>1, <5>2
          <6>2. (j - 1 \in lists(open)[i + 1] /\ Kind(text, j) = Closing(open))
                  <=> end(open)[i + 1] = j + 1
            <7>1. \A k \in 1..Len(text) :
                     /\ k \in lists(open)[i + 1] /\ Kind(text, k + 1) = Closing(open)
                        <=> end(open)[i + 1] = k + 2
              BY <1>4, <3>1
            <7> DEFINE k == j - 1
            <7>2. k \in 1..Len(text) /\ k + 1 = j /\ k + 2 = j + 1
              BY <6>1
            <7> HIDE DEF k
            <7>3. (k \in lists(open)[i + 1] /\ Kind(text, j) = Closing(open))
                     <=> end(open)[i + 1] = j + 1
              BY <7>1, <7>2
            <7> QED
              BY <7>3 DEF k
          <6>3. j = i + 1 => Kind(text, j) # Closing(open)
            BY <3>5
          <6> QED
            BY <3>3, <4>1, <6>2, <6>3
        <5> QED
          BY <5>1, <5>2
      <4>4. \A j \in ends[i] : j \in 1..Len(text)
        BY <3>3
      <4> QED
        BY <1>1, <4>2, <4>3, <4>4
    <3> QED
      BY <3>4, <3>5
  <2> QED
    BY <2>1, <2>2, <2>3
<1>9. level \in Skips(text)
  BY <1>2, <1>8 DEF Skips, n
<1>10. ends \in Ends(text)
  <2>1. \A i \in Places(text) : \A j \in ends[i] : j \in 1..Len(text) /\ i <= j
    <3> TAKE i \in Places(text)
    <3> TAKE j \in ends[i]
    <3>1. j \in 1..Len(text) /\ level[i] = j + 1
      BY <1>8
    <3>2. i < level[i]
      BY <1>1, <1>8, <3>1
    <3> QED
      BY <1>1, <3>1, <3>2
  <2>2. \A i \in Places(text) : ends[i] \in SUBSET (1..Len(text))
    BY <2>1
  <2> QED
    BY <1>3, <2>1, <2>2 DEF Ends
<1> QED
  BY <1>8, <1>9, <1>10 DEF Agree, Starts, level, ends

-----------------------------------------------------------------------------
(* All depths.                                                              *)

NoSkip(text) == [i \in Places(text) |-> 0]
NoEnds(text) == [i \in Places(text) |-> {}]
LEMMA NothingAgrees ==
    ASSUME NEW text \in Seq(Lexeme)
    PROVE  /\ NoSkip(text) \in Skips(text) /\ NoEnds(text) \in Ends(text)
           /\ Agree(text, NoEnds(text), NoSkip(text)) /\ Starts(text, NoSkip(text))
<1>1. Len(text) \in Nat /\ \A j \in 1..Len(text) : 0 # j + 1
  BY TextIs
<1>2. NoSkip(text) \in Skips(text)
  BY <1>1 DEF NoSkip, Skips
<1>3. NoEnds(text) \in Ends(text)
  BY DEF NoEnds, Ends
<1>4. Agree(text, NoEnds(text), NoSkip(text)) /\ Starts(text, NoSkip(text))
  BY <1>1 DEF Agree, Starts, NoSkip, NoEnds
<1> QED
  BY <1>2, <1>3, <1>4

\* The levels where every value is skipped that starts like one.
SkipTables(text) == {skip \in Skips(text) : \E values \in Ends(text) :
                        Agree(text, values, skip) /\ Starts(text, skip)}
SkipsDeep(skip, text) ==
    skip = [depth \in 0..(MaxDepth + 1) |->
                IF depth > MaxDepth THEN NoSkip(text) ELSE SkipLevel(text, skip[depth + 1])]
EndsDeep(ends, text) ==
    ends = [depth \in 0..(MaxDepth + 1) |->
                IF depth > MaxDepth THEN NoEnds(text) ELSE LevelEnds(text, ends[depth + 1])]

LEMMA DeepValues ==
    ASSUME NEW text
    PROVE  /\ SkipValue(text) = CHOOSE skip : SkipsDeep(skip, text)
           /\ ValueEnds(text) = CHOOSE ends : EndsDeep(ends, text)
BY DEF SkipValue, SkipsDeep, NoSkip, ValueEnds, EndsDeep, NoEnds

\* The depths, and what a function over them says of the next.
LEMMA Depths ==
    /\ MaxDepth \in Nat /\ 0 \in 0..(MaxDepth + 1)
    /\ \A d \in 0..(MaxDepth + 1) : ~(d > MaxDepth) =>
          d + 1 \in 0..(MaxDepth + 1) /\ d + 1 \in (d + 1)..(MaxDepth + 1)
BY ScanAssumption DEF ScanAssumption

\* A function that takes from each depth what makes of the next one's is there.
IsDeep(f, R, none, level) ==
    /\ f \in [0..(MaxDepth + 1) -> R]
    /\ \A d \in 0..(MaxDepth + 1) : f[d] = IF d > MaxDepth THEN none ELSE level[f[d + 1]]
LEMMA DeepExists ==
    ASSUME NEW R, NEW none, none \in R, NEW level, \A r \in R : level[r] \in R
    PROVE  \E f : IsDeep(f, R, none, level)
<1> DEFINE n == MaxDepth + 1
           step == [d \in 0..n |-> [f \in [0..n -> R] |->
                        IF d > MaxDepth THEN none ELSE level[f[d + 1]]]]
<1>1. MaxDepth \in Nat /\ n \in Nat /\ R # {}
  BY Depths
<1>2. \A d \in 0..n : ~(d > MaxDepth) => d + 1 \in 0..n /\ d + 1 \in (d + 1)..n
  BY Depths
<1> HIDE DEF n
<1>3. \A d \in 0..n : \A f \in [0..n -> R] :
         step[d][f] = IF d > MaxDepth THEN none ELSE level[f[d + 1]]
  OBVIOUS
<1> HIDE DEF step
<1>4. \A d \in 0..n : \A f \in [0..n -> R] : step[d][f] \in R
  BY <1>2, <1>3
<1>5. \A d \in 0..n : \A f, g \in [0..n -> R] :
          (\A j \in (d + 1)..n : f[j] = g[j]) => step[d][f] = step[d][g]
  <2> SUFFICES ASSUME NEW d \in 0..n, NEW f \in [0..n -> R], NEW g \in [0..n -> R],
                      \A j \in (d + 1)..n : f[j] = g[j]
               PROVE  step[d][f] = step[d][g]
    OBVIOUS
  <2>1. /\ step[d][f] = IF d > MaxDepth THEN none ELSE level[f[d + 1]]
        /\ step[d][g] = IF d > MaxDepth THEN none ELSE level[g[d + 1]]
    BY <1>3
  <2>2. ~(d > MaxDepth) => f[d + 1] = g[d + 1]
    BY <1>2
  <2> QED
    BY <2>1, <2>2
<1>6. LooksAhead(0, n, R, step)
  BY <1>1, <1>4, <1>5 DEF LooksAhead
<1>7. PICK f \in [0..n -> R] : \A d \in 0..n : f[d] = step[d][f]
  BY <1>6, AheadExists
<1>8. \A d \in 0..n : f[d] = IF d > MaxDepth THEN none ELSE level[f[d + 1]]
  BY <1>3, <1>7
<1> QED
  BY <1>7, <1>8 DEF n, IsDeep

LEMMA SkipsDeepExists ==
    ASSUME NEW text \in Seq(Lexeme)
    PROVE  \E skip : SkipsDeep(skip, text)
<1> DEFINE R == SkipTables(text)
           level == [r \in R |-> SkipLevel(text, r)]
<1>1. NoSkip(text) \in R
  BY NothingAgrees DEF SkipTables
<1>2. \A r \in R : SkipLevel(text, r) \in R
  BY LevelAgrees DEF SkipTables
<1>3. \A r \in R : level[r] = SkipLevel(text, r)
  OBVIOUS
<1> HIDE DEF R, level
<1>4. PICK f : IsDeep(f, R, NoSkip(text), level)
  <2>1. \A r \in R : level[r] \in R
    BY <1>2, <1>3
  <2> QED
    BY <1>1, <2>1, DeepExists
<1>5. \A d \in 0..(MaxDepth + 1) :
          f[d] = IF d > MaxDepth THEN NoSkip(text) ELSE SkipLevel(text, f[d + 1])
  BY <1>3, <1>4, Depths DEF IsDeep
<1>6. SkipsDeep(f, text)
  BY <1>4, <1>5 DEF SkipsDeep, IsDeep
<1> QED
  BY <1>6

LEMMA EndsDeepExists ==
    ASSUME NEW text \in Seq(Lexeme)
    PROVE  \E ends : EndsDeep(ends, text)
<1> DEFINE R == {values \in Ends(text) : \E skip \in Skips(text) :
                    Agree(text, values, skip) /\ Starts(text, skip)}
           level == [r \in R |-> LevelEnds(text, r)]
<1>1. NoEnds(text) \in R
  BY NothingAgrees
<1>2. \A r \in R : LevelEnds(text, r) \in R
  BY LevelAgrees
<1>3. \A r \in R : level[r] = LevelEnds(text, r)
  OBVIOUS
<1> HIDE DEF R, level
<1>4. PICK f : IsDeep(f, R, NoEnds(text), level)
  <2>1. \A r \in R : level[r] \in R
    BY <1>2, <1>3
  <2> QED
    BY <1>1, <2>1, DeepExists
<1>5. \A d \in 0..(MaxDepth + 1) :
          f[d] = IF d > MaxDepth THEN NoEnds(text) ELSE LevelEnds(text, f[d + 1])
  BY <1>3, <1>4, Depths DEF IsDeep
<1>6. EndsDeep(f, text)
  BY <1>4, <1>5 DEF EndsDeep, IsDeep
<1> QED
  BY <1>6

\* At every depth the scanner agrees with the grammar.
LEMMA DepthsAgree ==
    ASSUME NEW text \in Seq(Lexeme)
    PROVE  \A d \in 0..(MaxDepth + 1) :
              /\ SkipValue(text)[d] \in Skips(text) /\ ValueEnds(text)[d] \in Ends(text)
              /\ Agree(text, ValueEnds(text)[d], SkipValue(text)[d])
              /\ Starts(text, SkipValue(text)[d])
<1> DEFINE n == MaxDepth + 1
           skip == SkipValue(text)
           ends == ValueEnds(text)
           Good(d) == /\ skip[d] \in Skips(text) /\ ends[d] \in Ends(text)
                      /\ Agree(text, ends[d], skip[d]) /\ Starts(text, skip[d])
           S == {d \in 0..n : Good(d)}
<1>1. SkipsDeep(skip, text) /\ EndsDeep(ends, text)
  BY SkipsDeepExists, EndsDeepExists, DeepValues
<1>2. MaxDepth \in Nat /\ n \in Nat
  BY Depths
<1>3. \A d \in 0..n : ~(d > MaxDepth) => d + 1 \in 0..n /\ d + 1 \in (d + 1)..n
  BY Depths
<1> HIDE DEF skip, ends
<1>4. \A d \in 0..n : /\ d > MaxDepth => skip[d] = NoSkip(text) /\ ends[d] = NoEnds(text)
                      /\ ~(d > MaxDepth) => /\ skip[d] = SkipLevel(text, skip[d + 1])
                                            /\ ends[d] = LevelEnds(text, ends[d + 1])
  BY <1>1 DEF SkipsDeep, EndsDeep
<1> HIDE DEF n
<1>5. ASSUME NEW d \in 0..n, d > MaxDepth PROVE Good(d)
  BY <1>4, <1>5, NothingAgrees
<1>6. ASSUME NEW d \in 0..n, ~(d > MaxDepth), Good(d + 1) PROVE Good(d)
  <2>1. skip[d] = SkipLevel(text, skip[d + 1]) /\ ends[d] = LevelEnds(text, ends[d + 1])
    BY <1>4, <1>6
  <2> QED
    BY <1>6, <2>1, LevelAgrees
<1>7. Falls(0, n, S)
  <2>1. ASSUME NEW d \in 0..n, \A j \in (d + 1)..n : j \in S PROVE d \in S
    <3> HIDE DEF Good
    <3> QED
      BY <1>3, <1>5, <1>6, <2>1
  <2> HIDE DEF S
  <2> QED
    BY <2>1 DEF Falls
<1>8. \A d \in 0..n : d \in S
  <2> HIDE DEF S
  <2> QED
    BY <1>2, <1>7, FallInduction
<1> QED
  BY <1>8 DEF n, skip, ends

\* Skipping a value, against the grammar.
LEMMA SkipIs ==
    ASSUME NEW text \in Seq(Lexeme), NEW i \in Places(text)
    PROVE  /\ Skip(text, i) \in 0..(Len(text) + 1) /\ (Skip(text, i) = 0 \/ i < Skip(text, i))
           /\ \A j : IsValue(text, i, j) <=> j \in 1..Len(text) /\ Skip(text, i) = j + 1
<1>1. /\ SkipValue(text)[0] \in Skips(text) /\ ValueEnds(text)[0] \in Ends(text)
      /\ Agree(text, ValueEnds(text)[0], SkipValue(text)[0])
  BY DepthsAgree, Depths
<1> QED
  BY <1>1 DEF Skip, IsValue, Agree, Skips

-----------------------------------------------------------------------------
(* A value is skipped alike wherever it stands.                             *)

\* part stands in text behind the o-th token.
StandsAt(part, text, o) ==
    /\ o \in Nat /\ part \in Seq(Lexeme) /\ text \in Seq(Lexeme)
    /\ o + Len(part) <= Len(text)
    /\ \A i \in 1..Len(part) : text[o + i] = part[i]

LEMMA KindThere ==
    ASSUME NEW text, NEW part, NEW o, StandsAt(part, text, o), NEW i, Kind(part, i) # "end"
    PROVE  /\ i \in 1..Len(part) /\ o + i \in Places(text)
           /\ Kind(text, o + i) = Kind(part, i)
           /\ IsString(text, o + i) = IsString(part, i)
           /\ IsAtomic(text, o + i) = IsAtomic(part, i)
<1>1. /\ o \in Nat /\ Len(part) \in Nat /\ Len(text) \in Nat
      /\ DOMAIN part = 1..Len(part) /\ DOMAIN text = 1..Len(text)
      /\ o + Len(part) <= Len(text)
  BY TextIs DEF StandsAt
<1>2. i \in 1..Len(part)
  BY KindStands DEF StandsAt
<1>3. o + i \in 1..Len(text) /\ text[o + i] = part[i]
  BY <1>1, <1>2 DEF StandsAt
<1>4. Kind(text, o + i) = Kind(part, i)
  BY <1>1, <1>2, <1>3 DEF Kind
<1>5. IsString(text, o + i) = IsString(part, i)
  BY <1>3, <1>4 DEF IsString
<1>6. IsAtomic(text, o + i) = IsAtomic(part, i)
  BY <1>4, <1>5 DEF IsAtomic
<1> QED
  BY <1>1, <1>2, <1>3, <1>4, <1>5, <1>6

\* What is skipped in the part is skipped in the text.
Carries(part, text, o, inner, outer) ==
    \A i \in Places(part) : inner[i] # 0 => outer[o + i] = o + inner[i]

LEMMA ListsCarry ==
    ASSUME NEW text, NEW part, NEW o, StandsAt(part, text, o), NEW open \in {"lbrace", "lbracket"},
           NEW inner \in Skips(part), NEW outer \in Skips(text),
           Carries(part, text, o, inner, outer)
    PROVE  Carries(part, text, o, SkipList(part, open, inner), SkipList(text, open, outer))
<1> DEFINE n == Len(part) + 1
           end == SkipList(part, open, inner)
           after == SkipList(text, open, outer)
           next(i) == NextFrom(part, open, inner, i)
           there(i) == NextFrom(text, open, outer, o + i)
           Good(i) == end[i] # 0 => after[o + i] = o + end[i]
           S == {i \in Places(part) : Good(i)}
<1>1. /\ o \in Nat /\ Len(part) \in Nat /\ Len(text) \in Nat /\ n \in Nat
      /\ part \in Seq(Lexeme) /\ text \in Seq(Lexeme)
      /\ Places(part) = 1..n /\ \A i \in Places(part) : o + i \in Places(text)
  BY TextIs DEF StandsAt
<1>2. \A i \in Places(part) :
          end[i] = IF Kind(part, next(i)) = "comma" THEN end[next(i) + 1]
                   ELSE IF Kind(part, next(i)) = Closing(open) THEN next(i) + 1 ELSE 0
  BY <1>1, SkipListIs DEF Turn
<1>3. \A i \in Places(text) :
          after[i] = IF Kind(text, NextFrom(text, open, outer, i)) = "comma"
                     THEN after[NextFrom(text, open, outer, i) + 1]
                     ELSE IF Kind(text, NextFrom(text, open, outer, i)) = Closing(open)
                     THEN NextFrom(text, open, outer, i) + 1 ELSE 0
  BY <1>1, SkipListIs DEF Turn
<1>4. \A i \in Places(part) : Kind(part, next(i)) # "end" =>
         /\ next(i) \in 1..Len(part) /\ next(i) + 1 \in (i + 1)..n
         /\ next(i) + 1 \in Places(part)
  BY <1>1, TurnAhead
<1>5. ASSUME NEW i \in Places(part), Kind(part, next(i)) # "end"
      PROVE  there(i) = o + next(i)
  <2>1. next(i) # 0
    BY <1>4, <1>5
  <2> DEFINE v == EntryValue(part, i, open)
             w == EntryValue(text, o + i, open)
  <2>2. v # 0 /\ next(i) = inner[v]
    BY <2>1 DEF NextFrom
  <2>3. v \in Places(part)
    BY <1>1, <2>2, NextIs
  <2>4. w = o + v
    <3>1. CASE open = "lbracket"
      BY <3>1 DEF EntryValue
    <3>2. CASE open = "lbrace"
      <4>1. IsString(part, i) /\ Kind(part, i + 1) = "colon" /\ v = i + 2
        BY <2>2, <3>2 DEF EntryValue
      <4>2. Kind(part, i) # "end"
        BY <4>1, KindsDiffer
      <4>3. IsString(text, o + i) /\ Kind(text, o + (i + 1)) = "colon"
        BY <4>1, <4>2, KindThere
      <4>4. (o + i) + 1 = o + (i + 1) /\ (o + i) + 2 = o + (i + 2)
        BY <1>1
      <4> QED
        BY <3>2, <4>1, <4>3, <4>4 DEF EntryValue
    <3> QED
      BY <3>1, <3>2
  <2>5. w # 0
    BY <1>1, <2>3, <2>4
  <2>6. there(i) = outer[w]
    BY <2>5 DEF NextFrom
  <2> HIDE DEF v, w
  <2>7. outer[o + v] = o + inner[v]
    BY <2>1, <2>2, <2>3 DEF Carries
  <2> QED
    BY <2>2, <2>4, <2>6, <2>7
<1>6. Closing(open) # "end"
  BY DEF Closing
<1>7. \A k : Kind(part, k) # "end" => Kind(text, o + k) = Kind(part, k)
  BY KindThere
<1> HIDE DEF n, end, after, next
<1>8. ASSUME NEW i \in Places(part), \A k \in (i + 1)..n : Good(k), end[i] # 0
      PROVE  after[o + i] = o + end[i]
  <2>1. Kind(part, next(i)) # "end"
    BY <1>2, <1>6, <1>8
  <2>2. there(i) = o + next(i) /\ Kind(text, o + next(i)) = Kind(part, next(i))
    BY <1>5, <1>7, <2>1
  <2>3. /\ next(i) \in 1..Len(part) /\ next(i) + 1 \in (i + 1)..n /\ o + i \in Places(text)
        /\ (o + next(i)) + 1 = o + (next(i) + 1)
    BY <1>1, <1>4, <2>1
  <2>4. after[o + i] = IF Kind(part, next(i)) = "comma" THEN after[o + (next(i) + 1)]
                       ELSE IF Kind(part, next(i)) = Closing(open) THEN o + (next(i) + 1) ELSE 0
    <3> HIDE DEF Places
    <3> QED
      BY <1>3, <2>2, <2>3
  <2>5. CASE Kind(part, next(i)) = "comma"
    <3>1. end[i] = end[next(i) + 1]
      BY <1>2, <2>5
    <3> QED
      BY <1>8, <2>3, <2>4, <2>5, <3>1
  <2>6. CASE Kind(part, next(i)) # "comma"
    <3>1. Kind(part, next(i)) = Closing(open) /\ end[i] = next(i) + 1
      BY <1>2, <1>8, <2>6
    <3> QED
      BY <2>4, <2>6, <3>1
  <2> QED
    BY <2>5, <2>6
<1>9. Falls(1, n, S)
  <2>1. ASSUME NEW i \in 1..n, \A j \in (i + 1)..n : j \in S PROVE i \in S
    <3>1. i \in Places(part) /\ \A k \in (i + 1)..n : Good(k)
      BY <1>1, <2>1
    <3> HIDE DEF Places
    <3> QED
      BY <1>8, <3>1
  <2> HIDE DEF S
  <2> QED
    BY <2>1 DEF Falls
<1>10. \A i \in 1..n : i \in S
  <2> HIDE DEF S
  <2> QED
    BY <1>1, <1>9, FallInduction
<1>11. \A i \in Places(part) : Good(i)
  BY <1>1, <1>10
<1> QED
  BY <1>11 DEF Carries, end, after

LEMMA LevelCarries ==
    ASSUME NEW text, NEW part, NEW o, StandsAt(part, text, o),
           NEW inner \in Skips(part), NEW outer \in Skips(text),
           Carries(part, text, o, inner, outer)
    PROVE  Carries(part, text, o, SkipLevel(part, inner), SkipLevel(text, outer))
<1>1. /\ o \in Nat /\ Len(part) \in Nat /\ Len(text) \in Nat
      /\ part \in Seq(Lexeme) /\ text \in Seq(Lexeme)
  BY TextIs DEF StandsAt
<1> DEFINE level(t, skip, i) ==
        IF IsAtomic(t, i) THEN i + 1
        ELSE IF Kind(t, i) \notin {"lbrace", "lbracket"} THEN 0
        ELSE IF Kind(t, i + 1) = Closing(Kind(t, i)) THEN i + 2
        ELSE SkipList(t, Kind(t, i), skip)[i + 1]
<1>2. /\ \A i \in Places(part) : SkipLevel(part, inner)[i] = level(part, inner, i)
      /\ \A i \in Places(text) : SkipLevel(text, outer)[i] = level(text, outer, i)
  BY DEF SkipLevel
<1>3. ASSUME NEW i \in Places(part), level(part, inner, i) # 0
      PROVE  o + i \in Places(text) /\ level(text, outer, o + i) = o + level(part, inner, i)
  <2>1. Kind(part, i) # "end"
    BY <1>3, KindsDiffer
  <2>2. /\ i \in 1..Len(part) /\ o + i \in Places(text) /\ Kind(text, o + i) = Kind(part, i)
        /\ IsAtomic(text, o + i) = IsAtomic(part, i)
    BY <2>1, KindThere
  <2>3. (o + i) + 1 = o + (i + 1) /\ (o + i) + 2 = o + (i + 2) /\ i + 1 \in Places(part)
    BY <1>1, <2>2
  <2>4. CASE IsAtomic(part, i)
    BY <2>2, <2>3, <2>4
  <2>5. ASSUME NEW open \in {"lbrace", "lbracket"}, ~IsAtomic(part, i), Kind(part, i) = open
        PROVE  level(text, outer, o + i) = o + level(part, inner, i)
    <3> DEFINE end == SkipList(part, open, inner)
               after == SkipList(text, open, outer)
    <3>1. /\ level(part, inner, i) = IF Kind(part, i + 1) = Closing(open) THEN i + 2 ELSE end[i + 1]
          /\ level(text, outer, o + i) = IF Kind(text, o + (i + 1)) = Closing(open)
                                         THEN o + (i + 2) ELSE after[o + (i + 1)]
      BY <2>2, <2>3, <2>5
    <3>2. CASE Kind(part, i + 1) # "end"
      <4>1. Kind(text, o + (i + 1)) = Kind(part, i + 1)
        BY <3>2, KindThere
      <4>2. Carries(part, text, o, end, after)
        BY ListsCarry
      <4> HIDE DEF end, after, level
      <4>3. end[i + 1] # 0 => after[o + (i + 1)] = o + end[i + 1]
        BY <2>3, <4>2 DEF Carries
      <4> QED
        BY <1>3, <3>1, <4>1, <4>3
    <3>3. CASE Kind(part, i + 1) = "end"
      <4>1. Closing(open) # "end" /\ ~IsString(part, i + 1) /\ ~IsAtomic(part, i + 1)
        BY <3>3, KindsDiffer DEF Closing
      <4>2. end[i + 1] # 0
        <5> HIDE DEF end, after, level
        <5> QED
          BY <1>3, <3>1, <3>3, <4>1
      <4>3. Kind(part, NextFrom(part, open, inner, i + 1)) # "end"
        <5>1. end[i + 1] = Turn(part, open, inner, i + 1, end)
          BY <1>1, <2>3, SkipListIs
        <5> QED
          BY <4>1, <4>2, <5>1 DEF Turn
      <4>4. NextFrom(part, open, inner, i + 1) \in (i + 1)..Len(part) /\ i + 1 < NextFrom(part, open, inner, i + 1)
        <5>1. /\ NextFrom(part, open, inner, i + 1) \in 1..Len(part)
              /\ i + 1 < NextFrom(part, open, inner, i + 1)
          BY <1>1, <2>3, <4>3, TurnAhead
        <5> HIDE DEF NextFrom
        <5> QED
          BY <1>1, <2>2, <5>1
      <4>5. i + 1 \in DOMAIN part /\ Kind(part, i + 1) = part[i + 1].kind
        <5>1. i + 1 \in DOMAIN part
          <6> HIDE DEF NextFrom
          <6> QED
            BY <1>1, <2>2, <4>4, TextIs
        <5> QED
          BY <5>1 DEF Kind
      <4>6. part[i + 1].kind # "end"
        <5>1. part[i + 1] \in Lexeme
          <6> HIDE DEF Lexeme
          <6> QED
            BY <1>1, <4>5, TextIs
        <5>2. part[i + 1].kind \in Kinds
          BY <5>1 DEF Lexeme
        <5> QED
          BY <5>2 DEF Kinds
      <4> QED
        BY <3>3, <4>5, <4>6
    <3> QED
      BY <3>2, <3>3
  <2>6. IsAtomic(part, i) \/ Kind(part, i) \in {"lbrace", "lbracket"}
    BY <1>3
  <2> QED
    BY <2>2, <2>4, <2>5, <2>6
<1> HIDE DEF level
<1> QED
  BY <1>2, <1>3 DEF Carries

LEMMA SkipThere ==
    ASSUME NEW text, NEW part, NEW o, StandsAt(part, text, o), NEW i \in Places(part),
           Skip(part, i) # 0
    PROVE  Skip(text, o + i) = o + Skip(part, i)
<1> DEFINE n == MaxDepth + 1
           inner == SkipValue(part)
           outer == SkipValue(text)
           S == {d \in 0..n : Carries(part, text, o, inner[d], outer[d])}
<1>1. part \in Seq(Lexeme) /\ text \in Seq(Lexeme)
  BY DEF StandsAt
<1>2. SkipsDeep(inner, part) /\ SkipsDeep(outer, text)
  BY <1>1, SkipsDeepExists, DeepValues
<1>3. MaxDepth \in Nat /\ n \in Nat /\ 0 \in 0..n
  BY Depths
<1>4. \A d \in 0..n : ~(d > MaxDepth) => d + 1 \in 0..n /\ d + 1 \in (d + 1)..n
  BY Depths
<1>5. \A d \in 0..n : inner[d] \in Skips(part) /\ outer[d] \in Skips(text)
  BY <1>1, DepthsAgree
<1> HIDE DEF inner, outer
<1>6. \A d \in 0..n : /\ d > MaxDepth => inner[d] = NoSkip(part)
                      /\ ~(d > MaxDepth) => /\ inner[d] = SkipLevel(part, inner[d + 1])
                                            /\ outer[d] = SkipLevel(text, outer[d + 1])
  BY <1>2 DEF SkipsDeep
<1> HIDE DEF n
<1>7. Falls(0, n, S)
  <2>1. ASSUME NEW d \in 0..n, \A j \in (d + 1)..n : j \in S PROVE d \in S
    <3>1. CASE d > MaxDepth
      <4>1. \A k \in Places(part) : inner[d][k] = 0
        BY <1>6, <3>1 DEF NoSkip
      <4> QED
        BY <4>1 DEF Carries
    <3>2. CASE ~(d > MaxDepth)
      <4>1. Carries(part, text, o, inner[d + 1], outer[d + 1]) /\ d + 1 \in 0..n
        BY <1>4, <2>1, <3>2
      <4>2. Carries(part, text, o, SkipLevel(part, inner[d + 1]), SkipLevel(text, outer[d + 1]))
        BY <1>5, <4>1, LevelCarries
      <4> QED
        BY <1>6, <3>2, <4>2
    <3> QED
      BY <3>1, <3>2
  <2> HIDE DEF S
  <2> QED
    BY <2>1 DEF Falls
<1>8. \A d \in 0..n : d \in S
  <2> HIDE DEF S
  <2> QED
    BY <1>3, <1>7, FallInduction
<1>9. Carries(part, text, o, inner[0], outer[0])
  BY <1>3, <1>8
<1> QED
  BY <1>9 DEF Carries, Skip, inner, outer

-----------------------------------------------------------------------------
(* Looking a member up.                                                     *)

\* What one turn of the loop at k finds, where get says what those after it find.
Looked(text, key, k, found, get) ==
    LET read == ReadKey(text[k].units, LookupCap)
        next == Skip(text, k + 2)
        last == IF read.key = key THEN k + 2 ELSE found
    IN  IF \/ Kind(text, k) # "string" \/ ~read.ok
           \/ Kind(text, k + 1) # "colon" \/ next = 0 THEN 0
        ELSE IF Kind(text, next) = "comma" THEN get[next + 1][last]
        ELSE IF Kind(text, next) = "rbrace" THEN last ELSE 0
Looks(get, text, key) ==
    get = [k \in Places(text) |-> [found \in 0..Len(text) |-> Looked(text, key, k, found, get)]]

LEMMA GetLooks ==
    ASSUME NEW text, NEW i, NEW key
    PROVE  Get(text, i, key) = IF Kind(text, i) = "lbrace"
                               THEN (CHOOSE get : Looks(get, text, key))[i + 1][0] ELSE 0
BY DEF Get, Looks, Looked, LookAt, LookOn

\* Where the loop goes on.
LEMMA LooksAt ==
    ASSUME NEW text \in Seq(Lexeme), NEW k \in Places(text),
           Kind(text, k + 1) = "colon", Skip(text, k + 2) # 0
    PROVE  /\ k + 2 \in 1..Len(text)
           /\ Kind(text, Skip(text, k + 2)) = "comma" =>
                 Skip(text, k + 2) + 1 \in Places(text) /\ Skip(text, k + 2) + 1 \in (k + 1)..(Len(text) + 1)
<1>1. Len(text) \in Nat /\ (k + 1) + 1 \in Places(text)
  BY TextIs, KindStands
<1> DEFINE next == Skip(text, k + 2)
<1>2. k + 2 \in Places(text)
  BY <1>1
<1>3. next \in 0..(Len(text) + 1) /\ k + 2 < next
  <2> HIDE DEF Places
  <2> QED
    BY <1>2, SkipIs
<1>4. Kind(text, next) = "comma" => next \in 1..Len(text) /\ next + 1 \in Places(text)
  BY KindStands
<1> HIDE DEF next
<1>5. k + 2 \in 1..Len(text)
  BY <1>1, <1>2, <1>3
<1>6. Kind(text, next) = "comma" => next + 1 \in Places(text) /\ next + 1 \in (k + 1)..(Len(text) + 1)
  BY <1>1, <1>2, <1>3, <1>4
<1> QED
  BY <1>5, <1>6 DEF next

LEMMA LooksExists ==
    ASSUME NEW text \in Seq(Lexeme), NEW key
    PROVE  \E get : Looks(get, text, key)
<1> DEFINE n == Len(text) + 1
           F == 0..Len(text)
           R == [F -> F]
           turn(k, found, get) == Looked(text, key, k, found, get)
           step == [k \in Places(text) |-> [get \in [Places(text) -> R] |->
                        [found \in F |-> turn(k, found, get)]]]
           next(k) == Skip(text, k + 2)
           ok(k) == /\ Kind(text, k) = "string" /\ ReadKey(text[k].units, LookupCap).ok
                    /\ Kind(text, k + 1) = "colon" /\ next(k) # 0
           last(k, found) == IF ReadKey(text[k].units, LookupCap).key = key THEN k + 2 ELSE found
<1>1. Len(text) \in Nat /\ n \in Nat /\ Places(text) = 1..n /\ 0 \in F
  BY TextIs
<1>2. \A k \in Places(text) : \A found, get : turn(k, found, get) =
         IF ~ok(k) THEN 0
         ELSE IF Kind(text, next(k)) = "comma" THEN get[next(k) + 1][last(k, found)]
         ELSE IF Kind(text, next(k)) = "rbrace" THEN last(k, found) ELSE 0
  BY DEF Looked
<1>3. \A k \in Places(text), found \in F : ok(k) =>
         /\ last(k, found) \in F
         /\ Kind(text, next(k)) = "comma" => next(k) + 1 \in Places(text) /\ next(k) + 1 \in (k + 1)..n
  <2> TAKE k \in Places(text), found \in F
  <2> HAVE ok(k)
  <2>1. /\ k + 2 \in 1..Len(text)
        /\ Kind(text, next(k)) = "comma" => next(k) + 1 \in Places(text) /\ next(k) + 1 \in (k + 1)..n
    BY LooksAt
  <2>2. k + 2 \in F
    BY <1>1, <2>1
  <2> HIDE DEF F, next, n
  <2> QED
    BY <2>1, <2>2
<1> HIDE DEF n, F, turn, next, ok, last
<1>4. ASSUME NEW k \in Places(text), NEW get \in [Places(text) -> R], NEW found \in F
      PROVE  turn(k, found, get) \in F
  <2>1. CASE ~ok(k)
    BY <1>1, <1>2, <2>1
  <2>2. CASE ok(k) /\ Kind(text, next(k)) = "comma"
    <3>1. next(k) + 1 \in Places(text) /\ last(k, found) \in F
      BY <1>3, <2>2
    <3>2. get[next(k) + 1] \in [F -> F]
      BY <3>1
    <3> QED
      BY <1>2, <2>2, <3>1, <3>2
  <2>3. CASE ok(k) /\ Kind(text, next(k)) # "comma"
    BY <1>1, <1>2, <1>3, <2>3
  <2> QED
    BY <2>1, <2>2, <2>3
<1>5. \A k \in Places(text) : \A get \in [Places(text) -> R] :
         step[k][get] = [found \in F |-> turn(k, found, get)]
  OBVIOUS
<1>6. \A k \in Places(text) : \A get \in [Places(text) -> R] : step[k][get] \in R
  BY <1>4, <1>5
<1>7. ASSUME NEW k \in Places(text), NEW f \in [Places(text) -> R], NEW g \in [Places(text) -> R],
             \A j \in (k + 1)..n : f[j] = g[j]
      PROVE  step[k][f] = step[k][g]
  <2>1. \A found \in F : turn(k, found, f) = turn(k, found, g)
    <3> TAKE found \in F
    <3>1. ok(k) /\ Kind(text, next(k)) = "comma" => f[next(k) + 1] = g[next(k) + 1]
      BY <1>3, <1>7
    <3>2. f[next(k) + 1] = g[next(k) + 1] =>
             f[next(k) + 1][last(k, found)] = g[next(k) + 1][last(k, found)]
      OBVIOUS
    <3> QED
      BY <1>2, <3>1, <3>2
  <2>2. [found \in F |-> turn(k, found, f)] = [found \in F |-> turn(k, found, g)]
    BY <2>1
  <2> HIDE DEF step
  <2>3. /\ step[k][f] = [found \in F |-> turn(k, found, f)]
        /\ step[k][g] = [found \in F |-> turn(k, found, g)]
    BY <1>5
  <2> QED
    BY <2>2, <2>3
<1>8. R # {}
  <2>1. [found \in F |-> found] \in R
    OBVIOUS
  <2> QED
    BY <2>1
<1> HIDE DEF R, step
<1>9. LooksAhead(1, n, R, step)
  BY <1>1, <1>6, <1>7, <1>8 DEF LooksAhead
<1>10. PICK f \in [Places(text) -> R] : \A k \in Places(text) : f[k] = step[k][f]
  BY <1>1, <1>9, AheadExists
<1>11. \A k \in Places(text) : f[k] = [found \in F |-> turn(k, found, f)]
  BY <1>5, <1>10
<1>12. Looks(f, text, key)
  BY <1>10, <1>11 DEF Looks, F, turn
<1> QED
  BY <1>12

\* The members of an object: keys that can be read, and values that are skipped whole.
IsMember(member) ==
    /\ member.key \in Seq(Unit) /\ IsKey(member.key)
    /\ member.value \in Seq(Lexeme) /\ IsValue(member.value, 1, Len(member.value))

\* What stands in a text from a member on.
TextFrom(members, k, from) ==
    IF k > Len(members) THEN <<Token("rbrace")>>
    ELSE (IF k = 1 THEN << >> ELSE <<Token("comma")>>) \o MemberText(members[k]) \o from[k + 1]
TextsOf(from, members) ==
    from = [k \in 1..(Len(members) + 1) |-> TextFrom(members, k, from)]

LEMMA ObjectTexts ==
    ASSUME NEW members
    PROVE  ObjectText(members) = <<Token("lbrace")>> \o (CHOOSE from : TextsOf(from, members))[1]
BY DEF ObjectText, TextsOf, TextFrom

LEMMA Lexemes ==
    /\ \A kind \in Kinds : Token(kind) \in Lexeme
    /\ \A kind \in Kinds : Token(kind).kind = kind
    /\ \A units \in Seq(Unit) : /\ StringToken(units) \in Lexeme
                                /\ StringToken(units).kind = "string"
                                /\ StringToken(units).units = units
<1>1. << >> \in Seq(Unit)
  <2> HIDE DEF Unit
  <2> QED
    OBVIOUS
<1>2. ASSUME NEW kind \in Kinds PROVE Token(kind) \in Lexeme /\ Token(kind).kind = kind
  <2> HIDE DEF Unit
  <2> QED
    BY <1>1 DEF Token, Lexeme
<1>3. ASSUME NEW units \in Seq(Unit)
      PROVE  /\ StringToken(units) \in Lexeme
             /\ StringToken(units).kind = "string" /\ StringToken(units).units = units
  <2>1. "string" \in Kinds
    BY DEF Kinds
  <2> HIDE DEF Unit
  <2> QED
    BY <2>1 DEF StringToken, Token, Lexeme
<1> QED
  BY <1>2, <1>3

\* A member's text: its key, a colon and its value.
LEMMA MemberTextIs ==
    ASSUME NEW member, IsMember(member)
    PROVE  /\ MemberText(member) \in Seq(Lexeme)
           /\ Len(member.value) \in Nat \ {0}
           /\ Len(MemberText(member)) = 2 + Len(member.value)
           /\ MemberText(member)[1] = StringToken(member.key)
           /\ MemberText(member)[2] = Token("colon")
           /\ \A i \in 1..Len(member.value) : MemberText(member)[2 + i] = member.value[i]
<1> DEFINE head == <<StringToken(member.key), Token("colon")>>
           value == member.value
<1>1. value \in Seq(Lexeme) /\ StringToken(member.key) \in Lexeme /\ Token("colon") \in Lexeme
  <2>1. "colon" \in Kinds
    BY DEF Kinds
  <2> QED
    BY <2>1, Lexemes DEF IsMember
<1>2. head \in Seq(Lexeme) /\ Len(head) = 2
      /\ head[1] = StringToken(member.key) /\ head[2] = Token("colon")
  <2> HIDE DEF Lexeme
  <2> QED
    BY <1>1
<1>3. Len(value) \in Nat \ {0}
  <2>1. Len(value) \in Nat
    BY <1>1, TextIs
  <2>2. Len(value) \in 1..Len(value)
    <3>1. 1 \in Places(value)
      BY <2>1
    <3>2. IsValue(value, 1, Len(value))
      BY DEF IsMember
    <3> QED
      BY <1>1, <3>1, <3>2, SkipIs
  <2> QED
    BY <2>1, <2>2
<1> HIDE DEF head, value
<1>4. /\ head \o value \in Seq(Lexeme) /\ Len(head \o value) = Len(head) + Len(value)
      /\ \A i \in 1..(Len(head) + Len(value)) :
            (head \o value)[i] = IF i <= Len(head) THEN head[i] ELSE value[i - Len(head)]
  <2> HIDE DEF Lexeme
  <2> QED
    BY <1>1, <1>2, ConcatProperties
<1>5. \A i \in 1..Len(value) : 2 + i \in 1..(2 + Len(value)) /\ (2 + i) - 2 = i /\ ~(2 + i <= 2)
  BY <1>3
<1>6. MemberText(member) = head \o value
  BY DEF MemberText, head, value
<1>7. 1 \in 1..(2 + Len(value)) /\ 2 \in 1..(2 + Len(value))
  BY <1>3
<1>8. \A i \in 1..Len(value) : (head \o value)[2 + i] = value[i]
  BY <1>2, <1>4, <1>5
<1>9. (head \o value)[1] = head[1] /\ (head \o value)[2] = head[2]
  BY <1>2, <1>4, <1>7
<1> QED
  BY <1>2, <1>3, <1>4, <1>6, <1>8, <1>9 DEF value

\* A sequence in front of another stands at its start, and the other behind it.
LEMMA Stands ==
    ASSUME NEW a \in Seq(Lexeme), NEW b \in Seq(Lexeme)
    PROVE  /\ a \o b \in Seq(Lexeme) /\ Len(a \o b) = Len(a) + Len(b)
           /\ StandsAt(a, a \o b, 0) /\ StandsAt(b, a \o b, Len(a))
<1> HIDE DEF Lexeme
<1>1. /\ Len(a) \in Nat /\ Len(b) \in Nat
      /\ a \o b \in Seq(Lexeme) /\ Len(a \o b) = Len(a) + Len(b)
      /\ \A i \in 1..(Len(a) + Len(b)) :
            (a \o b)[i] = IF i <= Len(a) THEN a[i] ELSE b[i - Len(a)]
  BY ConcatProperties, LenProperties
<1> DEFINE c == a \o b
<1> HIDE DEF c
<1>2. \A i \in 1..Len(a) : c[0 + i] = a[i]
  BY <1>1 DEF c
<1>3. ASSUME NEW i \in 1..Len(b) PROVE c[Len(a) + i] = b[i]
  <2>1. /\ Len(a) + i \in 1..(Len(a) + Len(b)) /\ ~(Len(a) + i <= Len(a))
        /\ (Len(a) + i) - Len(a) = i
    BY <1>1
  <2> QED
    BY <1>1, <2>1 DEF c
<1>4. StandsAt(a, c, 0) /\ StandsAt(b, c, Len(a))
  BY <1>1, <1>2, <1>3 DEF StandsAt, c
<1> QED
  BY <1>1, <1>4 DEF c

\* Standing in what stands somewhere.
LEMMA StandsIn ==
    ASSUME NEW a, NEW b, NEW c, NEW o, NEW p, StandsAt(a, b, o), StandsAt(b, c, p)
    PROVE  StandsAt(a, c, p + o)
<1>1. /\ o \in Nat /\ p \in Nat /\ Len(a) \in Nat /\ Len(b) \in Nat /\ Len(c) \in Nat
      /\ o + Len(a) <= Len(b) /\ p + Len(b) <= Len(c)
      /\ a \in Seq(Lexeme) /\ c \in Seq(Lexeme)
  BY TextIs DEF StandsAt
<1>2. ASSUME NEW i \in 1..Len(a) PROVE c[(p + o) + i] = a[i]
  <2>1. o + i \in 1..Len(b) /\ p + (o + i) = (p + o) + i
    BY <1>1
  <2>2. b[o + i] = a[i] /\ c[p + (o + i)] = b[o + i]
    BY <2>1 DEF StandsAt
  <2> QED
    BY <2>1, <2>2
<1>3. p + o \in Nat /\ (p + o) + Len(a) <= Len(c)
  BY <1>1
<1> QED
  BY <1>1, <1>2, <1>3 DEF StandsAt

Mark(k) == IF k = 1 THEN << >> ELSE <<Token("comma")>>
\* from holds what stands in the object's text from each member on.
FromOn(from, members) ==
    /\ \A k \in 1..(Len(members) + 1) : from[k] \in Seq(Lexeme)
    /\ from[Len(members) + 1] = <<Token("rbrace")>>
    /\ \A k \in 1..Len(members) : from[k] = Mark(k) \o MemberText(members[k]) \o from[k + 1]

LEMMA MarkIs ==
    ASSUME NEW k \in Nat
    PROVE  /\ Mark(k) \in Seq(Lexeme) /\ Len(Mark(k)) = IF k = 1 THEN 0 ELSE 1
           /\ k # 1 => Mark(k)[1] = Token("comma")
<1>1. Token("comma") \in Lexeme
  <2>1. "comma" \in Kinds
    BY DEF Kinds
  <2> QED
    BY <2>1, Lexemes
<1> HIDE DEF Lexeme
<1> QED
  BY <1>1 DEF Mark

LEMMA ObjectTextIs ==
    ASSUME NEW members, Len(members) \in Nat, \A k \in 1..Len(members) : IsMember(members[k])
    PROVE  \E from : FromOn(from, members) /\ ObjectText(members) = <<Token("lbrace")>> \o from[1]
<1> DEFINE n == Len(members) + 1
           R == Seq(Lexeme)
           last == <<Token("rbrace")>>
           piece(k) == Mark(k) \o MemberText(members[k])
           step == [k \in 1..n |-> [f \in [1..n -> R] |->
                        IF k = n THEN last ELSE piece(k) \o f[k + 1]]]
<1>1. n \in Nat /\ \A k \in 1..n : k # n => k \in 1..Len(members) /\ k + 1 \in 1..n /\ k + 1 \in (k + 1)..n
  OBVIOUS
<1>2. last \in R
  <2>1. "rbrace" \in Kinds
    BY DEF Kinds
  <2>2. Token("rbrace") \in Lexeme
    BY <2>1, Lexemes
  <2> HIDE DEF Lexeme
  <2> QED
    BY <2>2
<1>3. \A k \in 1..Len(members) : piece(k) \in R
  <2> TAKE k \in 1..Len(members)
  <2>1. Mark(k) \in Seq(Lexeme) /\ MemberText(members[k]) \in Seq(Lexeme)
    BY MarkIs, MemberTextIs
  <2> QED
    BY <2>1, Stands
<1> HIDE DEF n, last, piece
<1>4. ASSUME NEW k \in 1..n, NEW f \in [1..n -> R]
      PROVE  (IF k = n THEN last ELSE piece(k) \o f[k + 1]) \in R
  <2>1. CASE k = n
    BY <1>2, <2>1
  <2>2. CASE k # n
    <3>1. piece(k) \in R /\ f[k + 1] \in R
      BY <1>1, <1>3, <2>2
    <3>2. piece(k) \o f[k + 1] \in R
      BY <3>1, Stands
    <3> QED
      BY <2>2, <3>2
  <2> QED
    BY <2>1, <2>2
<1> HIDE DEF R
<1>5. \A k \in 1..n : \A f \in [1..n -> R] :
         step[k][f] = IF k = n THEN last ELSE piece(k) \o f[k + 1]
  OBVIOUS
<1> HIDE DEF step
<1>6. ASSUME NEW k \in 1..n, NEW f \in [1..n -> R], NEW g \in [1..n -> R],
             \A j \in (k + 1)..n : f[j] = g[j]
      PROVE  step[k][f] = step[k][g]
  <2>1. k # n => f[k + 1] = g[k + 1]
    BY <1>1, <1>6
  <2>2. k # n => piece(k) \o f[k + 1] = piece(k) \o g[k + 1]
    BY <2>1
  <2> QED
    BY <1>5, <2>2
<1>7. \A k \in 1..n : \A f \in [1..n -> R] : step[k][f] \in R
  BY <1>4, <1>5
<1>8. LooksAhead(1, n, R, step)
  BY <1>1, <1>2, <1>6, <1>7 DEF LooksAhead
<1>9. PICK f \in [1..n -> R] : \A k \in 1..n : f[k] = step[k][f]
  BY <1>8, AheadExists
<1>10. \A k \in 1..n : f[k] = IF k = n THEN last ELSE piece(k) \o f[k + 1]
  BY <1>5, <1>9
<1>11. \A k \in 1..n : k > Len(members) <=> k = n
  BY DEF n
<1>12. \A k \in 1..n : \A g : TextFrom(members, k, g) = IF k = n THEN last ELSE piece(k) \o g[k + 1]
  BY <1>11, Zenon DEF TextFrom, last, piece, Mark
<1>13. TextsOf(f, members)
  <2>1. f = [k \in 1..n |-> TextFrom(members, k, f)]
    BY <1>9, <1>10, <1>12
  <2> QED
    BY <2>1 DEF TextsOf, n
<1> DEFINE from == CHOOSE g : TextsOf(g, members)
<1>14. TextsOf(from, members)
  BY <1>13
<1>15. ObjectText(members) = <<Token("lbrace")>> \o from[1]
  BY ObjectTexts
<1> HIDE DEF from
<1>16. \A k \in 1..n : from[k] = IF k = n THEN last ELSE piece(k) \o from[k + 1]
  <2>1. \A k \in 1..n : from[k] = TextFrom(members, k, from)
    BY <1>14 DEF TextsOf, n
  <2> QED
    BY <1>12, <2>1
<1> DEFINE S == {k \in 1..n : from[k] \in R}
<1>17. Falls(1, n, S)
  <2>1. ASSUME NEW k \in 1..n, \A j \in (k + 1)..n : j \in S PROVE k \in S
    <3>1. CASE k = n
      BY <1>2, <1>16, <3>1
    <3>2. CASE k # n
      <4>1. piece(k) \in R /\ from[k + 1] \in R
        BY <1>1, <1>3, <2>1, <3>2
      <4>2. piece(k) \o from[k + 1] \in R
        BY <4>1, Stands DEF R
      <4> QED
        BY <1>16, <3>2, <4>2
    <3> QED
      BY <3>1, <3>2
  <2> HIDE DEF S
  <2> QED
    BY <2>1 DEF Falls
<1>18. \A k \in 1..n : k \in S
  <2> HIDE DEF S
  <2> QED
    BY <1>1, <1>17, FallInduction
<1>19. FromOn(from, members)
  <2>1. n \in 1..n /\ \A k \in 1..Len(members) : k \in 1..n /\ k # n
    BY DEF n
  <2>2. \A k \in 1..n : from[k] \in R
    BY <1>18
  <2>3. from[n] = last /\ \A k \in 1..Len(members) : from[k] = piece(k) \o from[k + 1]
    BY <1>16, <2>1
  <2> QED
    BY <2>2, <2>3, Zenon DEF FromOn, n, R, last, piece
<1> QED
  BY <1>15, <1>19

\* The first token of what stands from a member on.
LEMMA FromStarts ==
    ASSUME NEW members, Len(members) \in Nat, \A k \in 1..Len(members) : IsMember(members[k]),
           NEW from, FromOn(from, members), NEW k \in 2..(Len(members) + 1)
    PROVE  /\ Len(from[k]) \in Nat \ {0}
           /\ from[k][1].kind = IF k > Len(members) THEN "rbrace" ELSE "comma"
<1> DEFINE n == Len(members) + 1
<1>1. CASE k > Len(members)
  <2>1. from[k] = <<Token("rbrace")>>
    <3>1. k = Len(members) + 1
      BY <1>1
    <3> QED
      BY <3>1 DEF FromOn
  <2>2. Token("rbrace").kind = "rbrace"
    BY DEF Token
  <2>3. Len(from[k]) = 1 /\ from[k][1] = Token("rbrace")
    BY <2>1
  <2> QED
    BY <1>1, <2>2, <2>3
<1>2. CASE ~(k > Len(members))
  <2>1. k \in 1..Len(members) /\ k # 1 /\ k \in Nat /\ k + 1 \in 1..(Len(members) + 1)
    BY <1>2
  <2> DEFINE member == MemberText(members[k])
             rest == from[k + 1]
  <2>2. Mark(k) \in Seq(Lexeme) /\ Len(Mark(k)) = 1 /\ Mark(k)[1] = Token("comma")
    BY <2>1, MarkIs
  <2>3. member \in Seq(Lexeme) /\ Len(member) \in Nat
    <3>1. member \in Seq(Lexeme)
      BY <2>1, MemberTextIs
    <3> QED
      BY <3>1, TextIs
  <2>4. rest \in Seq(Lexeme) /\ Len(rest) \in Nat
    <3>1. rest \in Seq(Lexeme)
      BY <2>1 DEF FromOn
    <3> QED
      BY <3>1, TextIs
  <2>5. from[k] = (Mark(k) \o member) \o rest
    BY <2>1 DEF FromOn
  <2> HIDE DEF member, rest
  <2>6. /\ Mark(k) \o member \in Seq(Lexeme) /\ Len(Mark(k) \o member) = 1 + Len(member)
        /\ StandsAt(Mark(k), Mark(k) \o member, 0)
    BY <2>2, <2>3, Stands
  <2>7. /\ Len(from[k]) = (1 + Len(member)) + Len(rest)
        /\ StandsAt(Mark(k) \o member, from[k], 0)
    BY <2>4, <2>5, <2>6, Stands
  <2>8. StandsAt(Mark(k), from[k], 0 + 0)
    BY <2>6, <2>7, StandsIn
  <2>9. from[k][(0 + 0) + 1] = Mark(k)[1]
    <3>1. 1 \in 1..Len(Mark(k))
      BY <2>2
    <3> QED
      BY <2>8, <3>1 DEF StandsAt
  <2>10. Token("comma").kind = "comma"
    BY DEF Token
  <2> QED
    BY <1>2, <2>2, <2>3, <2>4, <2>7, <2>9, <2>10
<1> QED
  BY <1>1, <1>2

\* A member stands at a in the text.
MemberAt(text, member, a) ==
    /\ a \in 1..Len(text)
    /\ Kind(text, a) = "string" /\ text[a].units = member.key /\ Kind(text, a + 1) = "colon"
    /\ Skip(text, a + 2) = (a + 2) + Len(member.value)
    /\ SubSeq(text, a + 2, ((a + 2) + Len(member.value)) - 1) = member.value

LEMMA StandsAsMember ==
    ASSUME NEW member, IsMember(member), NEW text, NEW p, StandsAt(MemberText(member), text, p)
    PROVE  MemberAt(text, member, p + 1)
<1> DEFINE part == MemberText(member)
           value == member.value
           a == p + 1
<1>1. /\ part \in Seq(Lexeme) /\ Len(value) \in Nat \ {0} /\ Len(part) = 2 + Len(value)
      /\ part[1] = StringToken(member.key) /\ part[2] = Token("colon")
      /\ \A i \in 1..Len(value) : part[2 + i] = value[i]
  BY MemberTextIs
<1>2. value \in Seq(Lexeme) /\ member.key \in Seq(Unit) /\ IsValue(value, 1, Len(value))
  BY DEF IsMember
<1>3. /\ p \in Nat /\ text \in Seq(Lexeme) /\ Len(text) \in Nat /\ DOMAIN text = 1..Len(text)
      /\ p + Len(part) <= Len(text) /\ \A i \in 1..Len(part) : text[p + i] = part[i]
  BY TextIs DEF StandsAt
<1> HIDE DEF part, value
<1>4. /\ text[a] = StringToken(member.key) /\ text[a + 1] = Token("colon")
      /\ a \in 1..Len(text) /\ a + 1 \in 1..Len(text)
  <2>1. 1 \in 1..Len(part) /\ 2 \in 1..Len(part) /\ p + 2 = (p + 1) + 1
    BY <1>1, <1>3
  <2> QED
    BY <1>1, <1>3, <2>1
<1>5. /\ StringToken(member.key).kind = "string" /\ StringToken(member.key).units = member.key
      /\ Token("colon").kind = "colon"
  BY <1>2, Lexemes DEF Token
<1>6. Kind(text, a) = "string" /\ text[a].units = member.key /\ Kind(text, a + 1) = "colon"
  BY <1>3, <1>4, <1>5 DEF Kind
<1>7. StandsAt(value, text, a + 1)
  <2>1. ASSUME NEW i \in 1..Len(value) PROVE text[(a + 1) + i] = value[i]
    <3>1. 2 + i \in 1..Len(part) /\ p + (2 + i) = (a + 1) + i
      BY <1>1, <1>3
    <3> QED
      BY <1>1, <1>3, <3>1
  <2>2. a + 1 \in Nat /\ (a + 1) + Len(value) <= Len(text)
    BY <1>1, <1>3
  <2> HIDE DEF a
  <2> QED
    BY <1>2, <1>3, <2>1, <2>2 DEF StandsAt
<1>8. Skip(text, a + 2) = (a + 2) + Len(value)
  <2>1. 1 \in Places(value) /\ Len(value) \in 1..Len(value) /\ Len(value) + 1 # 0
    BY <1>1
  <2>2. Skip(value, 1) = Len(value) + 1
    BY <1>2, <2>1, SkipIs
  <2>3. Skip(text, (a + 1) + 1) = (a + 1) + (Len(value) + 1)
    BY <1>7, <2>1, <2>2, SkipThere
  <2>4. (a + 1) + 1 = a + 2 /\ (a + 1) + (Len(value) + 1) = (a + 2) + Len(value)
    BY <1>1, <1>3
  <2> QED
    BY <2>3, <2>4
<1>9. SubSeq(text, a + 2, ((a + 2) + Len(value)) - 1) = value
  <2> DEFINE lo == a + 2
             hi == ((a + 2) + Len(value)) - 1
             s == SubSeq(text, lo, hi)
  <2>1. /\ lo \in Int /\ hi \in Int /\ (hi - lo) + 1 = Len(value) /\ lo <= hi
        /\ lo >= 1 /\ hi <= Len(text)
    <3>1. p + (2 + Len(value)) <= Len(text)
      BY <1>1, <1>3
    <3> QED
      BY <1>1, <1>3, <3>1
  <2>2. \A i \in lo..hi : text[i] \in Lexeme
    <3>1. \A i \in lo..hi : i \in 1..Len(text)
      BY <1>3, <2>1
    <3>2. \A i \in 1..Len(text) : text[i] \in Lexeme
      <4> HIDE DEF Lexeme
      <4> QED
        BY <1>3, LenProperties
    <3> HIDE DEF lo, hi
    <3> QED
      BY <3>1, <3>2
  <2> HIDE DEF lo, hi, Lexeme
  <2>3. /\ s \in Seq(Lexeme) /\ Len(s) = IF lo <= hi THEN hi - lo + 1 ELSE 0
        /\ \A i \in 1..(hi - lo + 1) : s[i] = text[lo + i - 1]
    BY <1>3, <2>1, <2>2, SubSeqProperties
  <2>4. Len(s) = Len(value)
    BY <2>1, <2>3
  <2>5. ASSUME NEW i \in 1..Len(value) PROVE s[i] = value[i]
    <3>1. i \in 1..(hi - lo + 1) /\ lo + i - 1 = (a + 1) + i
      BY <1>3, <2>1 DEF lo
    <3>2. text[(a + 1) + i] = value[i]
      BY <1>7 DEF StandsAt
    <3> QED
      BY <2>3, <3>1, <3>2
  <2>6. value \in Seq(Lexeme) /\ s \in Seq(Lexeme)
    BY <1>2, <2>3
  <2> HIDE DEF s
  <2>7. s = value
    BY <2>4, <2>5, <2>6, SeqEqual
  <2> QED
    BY <2>7 DEF s, lo, hi
<1> QED
  BY <1>4, <1>6, <1>8, <1>9 DEF MemberAt, a, value

\* The place where the k-th member stands, in what stands behind p.
Place(k, p) == p + (IF k = 1 THEN 1 ELSE 2)

LEMMA MembersStand ==
    ASSUME NEW members, Len(members) \in Nat, \A k \in 1..Len(members) : IsMember(members[k]),
           NEW from, FromOn(from, members), NEW k \in 1..Len(members),
           NEW text, NEW p, StandsAt(from[k], text, p)
    PROVE  LET a == Place(k, p)
               next == (a + 2) + Len(members[k].value)
           IN  /\ MemberAt(text, members[k], a)
               /\ StandsAt(from[k + 1], text, next - 1)
               /\ Place(k + 1, next - 1) = next + 1
               /\ Kind(text, next) = IF k + 1 > Len(members) THEN "rbrace" ELSE "comma"
<1> DEFINE member == MemberText(members[k])
           rest == from[k + 1]
           mark == Mark(k)
           m == Len(mark)
           v == Len(members[k].value)
           a == Place(k, p)
           next == (a + 2) + v
<1>1. mark \in Seq(Lexeme) /\ m = (IF k = 1 THEN 0 ELSE 1) /\ m \in Nat
  BY MarkIs
<1>2. member \in Seq(Lexeme) /\ v \in Nat /\ Len(member) = 2 + v
  BY MemberTextIs
<1>3. rest \in Seq(Lexeme) /\ Len(rest) \in Nat \ {0}
  <2>1. k + 1 \in 1..(Len(members) + 1) /\ k + 1 \in 2..(Len(members) + 1)
    OBVIOUS
  <2> QED
    BY <2>1, FromStarts DEF FromOn
<1>4. from[k] = (mark \o member) \o rest /\ p \in Nat
  BY DEF FromOn, StandsAt
<1> HIDE DEF mark, member, rest, v
<1>5. /\ StandsAt(member, mark \o member, m) /\ mark \o member \in Seq(Lexeme)
      /\ Len(mark \o member) = m + (2 + v)
  BY <1>1, <1>2, Stands
<1>6. StandsAt(mark \o member, from[k], 0) /\ StandsAt(rest, from[k], m + (2 + v))
  BY <1>3, <1>4, <1>5, Stands
<1>7. StandsAt(mark \o member, text, p + 0) /\ StandsAt(rest, text, p + (m + (2 + v)))
  BY <1>6, StandsIn
<1>8. StandsAt(member, text, (p + 0) + m)
  BY <1>5, <1>7, StandsIn
<1>9. /\ a = ((p + 0) + m) + 1 /\ p + (m + (2 + v)) = next - 1
      /\ next \in Nat /\ Place(k + 1, next - 1) = next + 1
      /\ (p + (m + (2 + v))) + 1 = next
  BY <1>1, <1>2, <1>4 DEF Place
<1>10. MemberAt(text, members[k], a)
  <2>1. MemberAt(text, members[k], ((p + 0) + m) + 1)
    BY <1>8, StandsAsMember DEF member
  <2> QED
    BY <1>9, <2>1
<1>11. Kind(text, next) = IF k + 1 > Len(members) THEN "rbrace" ELSE "comma"
  <2>1. rest[1].kind = IF k + 1 > Len(members) THEN "rbrace" ELSE "comma"
    <3>1. k + 1 \in 2..(Len(members) + 1)
      OBVIOUS
    <3> QED
      BY <3>1, FromStarts DEF rest
  <2>2. text[(p + (m + (2 + v))) + 1] = rest[1]
    <3>1. 1 \in 1..Len(rest)
      BY <1>3
    <3> QED
      BY <1>7, <3>1 DEF StandsAt
  <2>3. next \in 1..Len(text)
    <3>1. p + (m + (2 + v)) + Len(rest) <= Len(text) /\ Len(text) \in Nat
      BY <1>7, TextIs DEF StandsAt
    <3>2. p + (m + (2 + v)) \in Nat
      BY <1>1, <1>2, <1>4
    <3> HIDE DEF next, m
    <3> QED
      BY <1>3, <1>9, <3>1, <3>2
  <2>4. DOMAIN text = 1..Len(text)
    BY <1>7, TextIs DEF StandsAt
  <2> HIDE DEF next
  <2> QED
    BY <1>9, <2>1, <2>2, <2>3, <2>4 DEF Kind
<1> QED
  BY <1>7, <1>9, <1>10, <1>11 DEF rest, v

NameOf(member) == Decode(member.key).bytes
Fitting(member) == Len(NameOf(member)) <= LookupCap

\* What the loop finds from the k-th member on, when it has found what is at found.
Finds(members, key, text, k, found, at) ==
    LET rest == k..Len(members)
        named == {l \in rest : NameOf(members[l]) = key}
    IN  /\ (\E l \in rest : ~Fitting(members[l])) => at = 0
        /\ (\A l \in rest : Fitting(members[l])) /\ named = {} => at = found
        /\ (\A l \in rest : Fitting(members[l])) /\ named # {} =>
              \E l \in named : /\ \A j \in named : j <= l
                               /\ SubSeq(text, at, Skip(text, at) - 1) = members[l].value

\* A turn of the loop at a member.
LEMMA TurnAtMember ==
    ASSUME NEW text, NEW key, NEW member, IsMember(member), NEW a, MemberAt(text, member, a),
           Len(text) \in Nat, NEW found, NEW get,
           NEW last, last = IF NameOf(member) = key THEN a + 2 ELSE found,
           NEW next, next = (a + 2) + Len(member.value)
    PROVE  Looked(text, key, a, found, get) =
               IF ~Fitting(member) THEN 0
               ELSE IF Kind(text, next) = "comma" THEN get[next + 1][last]
               ELSE IF Kind(text, next) = "rbrace" THEN last ELSE 0
<1> DEFINE read == ReadKey(text[a].units, LookupCap)
<1>1. /\ Kind(text, a) = "string" /\ text[a].units = member.key /\ Kind(text, a + 1) = "colon"
      /\ Skip(text, a + 2) = next /\ a \in 1..Len(text)
  BY DEF MemberAt
<1>2. next # 0
  <2>1. Len(member.value) \in Nat
    BY MemberTextIs
  <2>2. a \in 1..Len(text)
    BY <1>1
  <2> DEFINE v == Len(member.value)
  <2> HIDE DEF v
  <2>3. v \in Nat /\ next = (a + 2) + v
    BY <2>1 DEF v
  <2>4. (a + 2) + v # 0
    BY <2>2, <2>3
  <2> QED
    BY <2>3, <2>4
<1>3. /\ Decode(member.key).ok /\ CString(NameOf(member)) = NameOf(member)
  BY DEF IsMember, IsKey, NameOf
<1>4. read.ok <=> Fitting(member)
  BY <1>1, <1>3 DEF ReadKey, Fitting, NameOf
<1>5. read.key = NameOf(member)
  BY <1>1, <1>3 DEF ReadKey, NameOf
<1> HIDE DEF read
<1>6. Looked(text, key, a, found, get) =
          IF \/ Kind(text, a) # "string" \/ ~read.ok
             \/ Kind(text, a + 1) # "colon" \/ Skip(text, a + 2) = 0 THEN 0
          ELSE IF Kind(text, Skip(text, a + 2)) = "comma"
               THEN get[Skip(text, a + 2) + 1][IF read.key = key THEN a + 2 ELSE found]
          ELSE IF Kind(text, Skip(text, a + 2)) = "rbrace"
               THEN (IF read.key = key THEN a + 2 ELSE found) ELSE 0
  BY Zenon DEF Looked, read
<1> QED
  BY <1>1, <1>2, <1>4, <1>5, <1>6

\* A list with one element more in front.
LEMMA OneMore ==
    ASSUME NEW k \in Nat, NEW n \in Nat, k <= n
    PROVE  /\ k \in k..n /\ \A l : l \in k..n <=> l = k \/ l \in (k + 1)..n
           /\ \A l \in (k + 1)..n : k <= l
OBVIOUS

\* From the rest's answer to that with this member.
LEMMA FindsOn ==
    ASSUME NEW members, Len(members) \in Nat, NEW key, NEW text, NEW k \in 1..Len(members),
           NEW a, SubSeq(text, a + 2, Skip(text, a + 2) - 1) = members[k].value,
           NEW found, NEW at, Fitting(members[k]),
           Finds(members, key, text, k + 1,
                 IF NameOf(members[k]) = key THEN a + 2 ELSE found, at)
    PROVE  Finds(members, key, text, k, found, at)
<1> DEFINE n == Len(members)
           name(l) == NameOf(members[l])
           fit(l) == Fitting(members[l])
           more == (k + 1)..n
           rest == k..n
           laterNamed == {l \in more : name(l) = key}
           named == {l \in rest : name(l) = key}
           last == IF name(k) = key THEN a + 2 ELSE found
           Holds(l) == SubSeq(text, at, Skip(text, at) - 1) = members[l].value
<1>1. /\ k \in rest /\ \A l : l \in rest <=> l = k \/ l \in more
      /\ \A l \in more : k <= l
      /\ k <= k
  BY OneMore
<1>2. /\ (\E l \in more : ~fit(l)) => at = 0
      /\ (\A l \in more : fit(l)) /\ laterNamed = {} => at = last
      /\ (\A l \in more : fit(l)) /\ laterNamed # {} =>
            \E l \in laterNamed : (\A j \in laterNamed : j <= l) /\ Holds(l)
  BY DEF Finds
<1>3. fit(k) /\ (at = a + 2 => Holds(k))
  OBVIOUS
<1> HIDE DEF name, fit, Holds, more, rest, n
<1>4. (\E l \in rest : ~fit(l)) => at = 0
  BY <1>1, <1>2, <1>3
<1>5. ASSUME \A l \in rest : fit(l), named = {} PROVE at = found
  <2>1. laterNamed = {} /\ name(k) # key /\ \A l \in more : fit(l)
    BY <1>1, <1>5
  <2> QED
    BY <1>2, <2>1
<1>6. ASSUME \A l \in rest : fit(l), named # {}
      PROVE  \E l \in named : (\A j \in named : j <= l) /\ Holds(l)
  <2>1. \A l \in more : fit(l)
    BY <1>1, <1>6
  <2>2. CASE laterNamed = {}
    <3>1. at = last
      BY <1>2, <2>1, <2>2
    <3>2. \A j \in named : j = k
      BY <1>1, <2>2
    <3>3. k \in named /\ name(k) = key
      BY <1>6, <3>2
    <3>4. Holds(k)
      BY <1>3, <3>1, <3>3
    <3> QED
      BY <1>1, <3>2, <3>3, <3>4
  <2>3. CASE laterNamed # {}
    <3>1. PICK l \in laterNamed : (\A j \in laterNamed : j <= l) /\ Holds(l)
      BY <1>2, <2>1, <2>3
    <3>2. l \in named /\ k <= l
      BY <1>1, <3>1
    <3>3. \A j \in named : j = k \/ j \in laterNamed
      BY <1>1
    <3>4. \A j \in named : j <= l
      BY <3>1, <3>2, <3>3
    <3> QED
      BY <3>1, <3>2, <3>4
  <2> QED
    BY <2>2, <2>3
<1> QED
  BY <1>4, <1>5, <1>6 DEF Finds, named, name, fit, Holds, rest, n

\* A lookup in the text of an object.
LEMMA GetFinds ==
    ASSUME NEW members, Len(members) \in Nat, \A k \in 1..Len(members) : IsMember(members[k]),
           NEW key
    PROVE  Finds(members, key, ObjectText(members), 1, 0, Get(ObjectText(members), 1, key))
<1> DEFINE text == ObjectText(members)
           n == Len(members)
<1>1. PICK from : FromOn(from, members) /\ text = <<Token("lbrace")>> \o from[1]
  BY ObjectTextIs
<1> HIDE DEF text
<1>2. from[1] \in Seq(Lexeme) /\ <<Token("lbrace")>> \in Seq(Lexeme)
      /\ Len(<<Token("lbrace")>>) = 1 /\ <<Token("lbrace")>>[1] = Token("lbrace")
  <2>1. 1 \in 1..(Len(members) + 1)
    OBVIOUS
  <2>2. "lbrace" \in Kinds
    BY DEF Kinds
  <2>3. Token("lbrace") \in Lexeme
    BY <2>2, Lexemes
  <2> HIDE DEF Lexeme
  <2> QED
    BY <1>1, <2>1, <2>3 DEF FromOn
<1>3. /\ text \in Seq(Lexeme) /\ StandsAt(from[1], text, 1)
      /\ StandsAt(<<Token("lbrace")>>, text, 0)
  <2> DEFINE head == <<Token("lbrace")>>
  <2> HIDE DEF head
  <2>1. text = head \o from[1]
    BY <1>1 DEF head
  <2>2. head \in Seq(Lexeme) /\ Len(head) = 1
    BY <1>2 DEF head
  <2>3. /\ text \in Seq(Lexeme) /\ StandsAt(from[1], text, Len(head)) /\ StandsAt(head, text, 0)
    BY <1>2, <2>1, <2>2, Stands
  <2> QED
    BY <2>2, <2>3 DEF head
<1>4. /\ Len(text) \in Nat /\ DOMAIN text = 1..Len(text) /\ 1 \in 1..Len(text)
      /\ Kind(text, 1) = "lbrace"
  <2>1. Len(text) \in Nat /\ DOMAIN text = 1..Len(text)
    BY <1>3, TextIs
  <2>2. 0 + Len(<<Token("lbrace")>>) <= Len(text)
        /\ \A i \in 1..Len(<<Token("lbrace")>>) : text[0 + i] = <<Token("lbrace")>>[i]
    BY <1>3 DEF StandsAt
  <2>3. 1 \in 1..Len(text) /\ text[1] = Token("lbrace")
    BY <1>2, <2>1, <2>2
  <2>4. Token("lbrace").kind = "lbrace"
    BY DEF Token
  <2> QED
    BY <2>1, <2>3, <2>4 DEF Kind
<1> DEFINE get == CHOOSE g : Looks(g, text, key)
<1>5. Looks(get, text, key)
  BY <1>3, LooksExists
<1>6. Get(text, 1, key) = get[1 + 1][0]
  BY <1>4, GetLooks
<1> HIDE DEF get
<1>7. \A a \in Places(text), found \in 0..Len(text) :
         get[a][found] = Looked(text, key, a, found, get)
  <2>1. \A a \in Places(text) :
           get[a] = [found \in 0..Len(text) |-> Looked(text, key, a, found, get)]
    BY <1>5 DEF Looks
  <2> TAKE a \in Places(text), found \in 0..Len(text)
  <2> DEFINE look(f) == Looked(text, key, a, f, get)
  <2>2. get[a] = [f \in 0..Len(text) |-> look(f)]
    BY <2>1
  <2> HIDE DEF look
  <2>3. get[a][found] = look(found)
    BY <2>2
  <2> QED
    BY <2>3 DEF look
<1> DEFINE Good(k) == \A p : StandsAt(from[k], text, p) =>
                         \A found \in 0..Len(text) :
                            Finds(members, key, text, k, found, get[Place(k, p)][found])
           S == {k \in 1..n : Good(k)}
<1>8. ASSUME NEW k \in 1..n, k + 1 \in 1..n => Good(k + 1) PROVE Good(k)
  <2> SUFFICES ASSUME NEW p, StandsAt(from[k], text, p), NEW found \in 0..Len(text)
               PROVE  Finds(members, key, text, k, found, get[Place(k, p)][found])
    OBVIOUS
  <2> DEFINE a == Place(k, p)
             next == (a + 2) + Len(members[k].value)
             last == IF NameOf(members[k]) = key THEN a + 2 ELSE found
             at == get[a][found]
  <2>1. /\ MemberAt(text, members[k], a)
        /\ StandsAt(from[k + 1], text, next - 1)
        /\ Place(k + 1, next - 1) = next + 1
        /\ Kind(text, next) = IF k + 1 > n THEN "rbrace" ELSE "comma"
    BY <1>1, MembersStand
  <2>2. a \in 1..Len(text) /\ Skip(text, a + 2) = next
        /\ SubSeq(text, a + 2, Skip(text, a + 2) - 1) = members[k].value
        /\ Kind(text, a + 1) = "colon"
    BY <2>1 DEF MemberAt
  <2> HIDE DEF a, Places
  <2>3. a \in Places(text)
    BY <1>3, <2>2, TextIs
  <2>4. last \in 0..Len(text)
    <3>1. next # 0
      <4>1. Len(members[k].value) \in Nat
        BY MemberTextIs
      <4>2. a \in 1..Len(text)
        BY <2>2
      <4> DEFINE v == Len(members[k].value)
      <4>3. next = (a + 2) + v
        OBVIOUS
      <4> HIDE DEF v, next
      <4>4. v \in Nat
        BY <4>1 DEF v
      <4>5. (a + 2) + v # 0
        BY <1>4, <4>2, <4>4
      <4> QED
        BY <4>3, <4>5
    <3>2. a + 2 \in 1..Len(text)
      BY <1>3, <2>2, <2>3, <3>1, LooksAt
    <3> QED
      BY <1>4, <3>2
  <2>5. at = Looked(text, key, a, found, get)
    BY <1>7, <2>3
  <2>6. at = IF ~Fitting(members[k]) THEN 0
             ELSE IF Kind(text, next) = "comma" THEN get[next + 1][last]
             ELSE IF Kind(text, next) = "rbrace" THEN last ELSE 0
    <3> HIDE DEF at, next, last
    <3>1. /\ last = IF NameOf(members[k]) = key THEN a + 2 ELSE found
          /\ next = (a + 2) + Len(members[k].value)
      BY DEF last, next
    <3> QED
      BY <1>4, <2>1, <2>5, <3>1, TurnAtMember
  <2> HIDE DEF at, next
  <2>7. CASE ~Fitting(members[k])
    <3>1. at = 0 /\ k \in k..n
      BY <2>6, <2>7
    <3> QED
      BY <2>7, <3>1 DEF Finds, at, a
  <2>8. CASE Fitting(members[k])
    <3>1. Finds(members, key, text, k + 1, last, at)
      <4>1. CASE k + 1 \in 1..n
        <5>1. at = get[next + 1][last]
          BY <2>1, <2>6, <2>8, <4>1
        <5>2. Finds(members, key, text, k + 1, last, get[Place(k + 1, next - 1)][last])
          BY <1>8, <2>1, <2>4, <4>1
        <5> QED
          BY <2>1, <5>1, <5>2
      <4>2. CASE k + 1 \notin 1..n
        <5>1. k + 1 > n /\ \A l : l \notin (k + 1)..n
          BY <4>2
        <5>2. at = last
          BY <2>1, <2>6, <2>8, <5>1
        <5> HIDE DEF last
        <5> QED
          BY <5>1, <5>2 DEF Finds
      <4> QED
        BY <4>1, <4>2
    <3>2. Finds(members, key, text, k, found, at)
      <4> HIDE DEF at
      <4> QED
        BY <2>2, <2>8, <3>1, FindsOn
    <3> QED
      BY <3>2 DEF at, a
  <2> QED
    BY <2>7, <2>8
<1>9. CASE n = 0
  <2>1. from[1] = <<Token("rbrace")>>
    BY <1>1, <1>9 DEF FromOn
  <2>2. text[2].kind = "rbrace" /\ 2 \in 1..Len(text)
    <3>1. Len(from[1]) = 1 /\ from[1][1] = Token("rbrace")
      BY <2>1
    <3>2. text[1 + 1] = from[1][1] /\ 1 + 1 <= Len(text)
      BY <1>3, <3>1 DEF StandsAt
    <3> QED
      BY <1>4, <3>1, <3>2 DEF Token
  <2>3. Kind(text, 2) = "rbrace"
    BY <1>4, <2>2 DEF Kind
  <2>4. get[2][0] = Looked(text, key, 2, 0, get)
    <3>1. 2 \in Places(text) /\ 0 \in 0..Len(text)
      BY <1>4, <2>2
    <3> QED
      BY <1>7, <3>1
  <2>5. Looked(text, key, 2, 0, get) = 0
    BY <2>3 DEF Looked
  <2>6. Get(text, 1, key) = 0
    BY <1>6, <2>4, <2>5
  <2>7. \A l : l \notin 1..Len(members)
    BY <1>9
  <2>8. Finds(members, key, text, 1, 0, 0)
    BY <2>7 DEF Finds
  <2> QED
    BY <2>6, <2>8 DEF text
<1>10. CASE n # 0
  <2>1. Falls(1, n, S)
    <3>1. ASSUME NEW k \in 1..n, \A j \in (k + 1)..n : j \in S PROVE k \in S
      <4>1. k + 1 \in 1..n => k + 1 \in (k + 1)..n
        OBVIOUS
      <4> HIDE DEF Good, n
      <4> QED
        BY <1>8, <3>1, <4>1
    <3> HIDE DEF S
    <3> QED
      BY <3>1 DEF Falls
  <2>2. \A k \in 1..n : k \in S
    <3> HIDE DEF S
    <3> QED
      BY <2>1, FallInduction
  <2>3. Good(1)
    <3>1. 1 \in 1..n
      BY <1>10
    <3> HIDE DEF Good, n
    <3> QED
      BY <2>2, <3>1
  <2>4. Place(1, 1) = 1 + 1 /\ 0 \in 0..Len(text)
    BY <1>4 DEF Place
  <2>5. Finds(members, key, text, 1, 0, get[1 + 1][0])
    <3> HIDE DEF n
    <3> QED
      BY <1>3, <2>3, <2>4
  <2> QED
    BY <1>6, <2>5 DEF text
<1> QED
  BY <1>9, <1>10

-----------------------------------------------------------------------------
\* What a scan or a lookup has taken and answered.
ScanInv ==
    /\ op = "scan" => input \in Seq(Lexeme) /\ answer = Skip(input, 1)
    /\ op = "lookup" => /\ Len(input.members) \in Nat
                        /\ DOMAIN input.members = 1..Len(input.members)
                        /\ \A k \in 1..Len(input.members) : IsMember(input.members[k])
                        /\ answer = Get(ObjectText(input.members), 1, Decode(input.key).bytes)

LEMMA ScansAreTyped == Spec => []ScanInv
<1>1. Init => ScanInv
  BY DEF Init, ScanInv
<1>2. ScanInv /\ [Next]_vars => ScanInv'
  <2> SUFFICES ASSUME ScanInv, [Next]_vars
               PROVE  ScanInv'
    OBVIOUS
  <2>1. CASE ScanText
    <3>1. PICK text \in Texts : Call("scan", text, Skip(text, 1))
      BY <2>1 DEF ScanText
    <3>2. text \in Seq(Lexeme)
      BY TextAssumption DEF TextAssumption
    <3> QED
      BY <3>1, <3>2 DEF Call, ScanInv
  <2>2. CASE LookUp
    <3>1. PICK key \in ObjectKeys,
               members \in SeqsUpTo([key : ObjectKeys, value : Values], MaxMembers) :
              Call("lookup", [key |-> key, members |-> members],
                   Get(ObjectText(members), 1, Decode(key).bytes))
      BY <2>2 DEF LookUp
    <3> DEFINE M == [key : ObjectKeys, value : Values]
    <3>2. \A member \in M : IsMember(member)
      BY TextAssumption DEF TextAssumption, IsMember
    <3> HIDE DEF M
    <3>3. members \in Seq(M)
      BY <3>1, TextAssumption, SeqsUpToAre DEF TextAssumption, M
    <3>4. /\ Len(members) \in Nat /\ DOMAIN members = 1..Len(members)
          /\ \A k \in 1..Len(members) : IsMember(members[k])
      BY <3>2, <3>3, LenProperties
    <3> DEFINE in == [key |-> key, members |-> members]
    <3>5. in.members = members /\ in.key = key
      OBVIOUS
    <3> HIDE DEF in
    <3>6. op' = "lookup" /\ input' = in
          /\ answer' = Get(ObjectText(members), 1, Decode(key).bytes)
      BY <3>1 DEF Call, in
    <3> QED
      BY <3>4, <3>5, <3>6 DEF ScanInv
  <2>3. CASE Measure \/ Read \/ Write
    BY <2>3 DEF Measure, Read, Write, Call, ScanInv
  <2>4. CASE UNCHANGED vars
    BY <2>4 DEF vars, ScanInv
  <2> QED
    BY <2>1, <2>2, <2>3, <2>4 DEF Next
<1> QED
  BY <1>1, <1>2, PTL DEF Spec

\* Whatever the tokens, up to whatever depth: the scanner skips a text's first value to
\* its end exactly when one stands there by the grammar, and otherwise refuses it
\* (json.c tf_json_skip_value, skip_object_depth, skip_array_depth).
THEOREM ScannerIsExact == Spec => []ScannerAcceptsExactlyJson
<1>1. ScanInv => ScannerAcceptsExactlyJson
  <2> SUFFICES ASSUME ScanInv, op = "scan"
               PROVE  IF answer = 0 THEN ~\E j \in DOMAIN input : IsValue(input, 1, j)
                                    ELSE IsValue(input, 1, answer - 1)
    BY DEF ScannerAcceptsExactlyJson
  <2>1. input \in Seq(Lexeme) /\ answer = Skip(input, 1)
    BY DEF ScanInv
  <2>2. Len(input) \in Nat /\ DOMAIN input = 1..Len(input) /\ 1 \in Places(input)
    BY <2>1, TextIs
  <2>3. /\ answer \in 0..(Len(input) + 1) /\ (answer = 0 \/ 1 < answer)
        /\ \A j : IsValue(input, 1, j) <=> j \in 1..Len(input) /\ answer = j + 1
    BY <2>1, <2>2, SkipIs
  <2>4. CASE answer = 0
    <3>1. \A j \in 1..Len(input) : 0 # j + 1
      OBVIOUS
    <3> QED
      BY <2>2, <2>3, <2>4, <3>1
  <2>5. CASE answer # 0
    <3>1. answer - 1 \in 1..Len(input) /\ answer = (answer - 1) + 1
      BY <2>2, <2>3, <2>5
    <3> QED
      BY <2>3, <2>5, <3>1
  <2> QED
    BY <2>4, <2>5
<1> QED
  BY <1>1, ScansAreTyped, PTL

\* Whatever the keys and the values: looking a key up in an object answers its last
\* member of that name, and nothing once a name is longer than the buffer it is
\* decoded into (json.c tf_json_object_get_value).
THEOREM LookupsTakeTheLast == Spec => []LookupTakesTheLastMember
<1>1. ScanInv => LookupTakesTheLastMember
  <2> SUFFICES ASSUME ScanInv, op = "lookup" PROVE LookupTakesTheLastMember
    BY DEF LookupTakesTheLastMember
  <2> DEFINE members == input.members
             key == Decode(input.key).bytes
             text == ObjectText(members)
  <2>1. /\ Len(members) \in Nat /\ DOMAIN members = 1..Len(members)
        /\ \A k \in 1..Len(members) : IsMember(members[k]) /\ answer = Get(text, 1, key)
    BY DEF ScanInv
  <2>2. answer = Get(text, 1, key)
    BY DEF ScanInv
  <2>3. Finds(members, key, text, 1, 0, answer)
    BY <2>1, <2>2, GetFinds
  <2> DEFINE Name(k) == Decode(members[k].key).bytes
             named == {k \in 1..Len(members) : Name(k) = key}
             fits == \A k \in 1..Len(members) : Len(Name(k)) <= LookupCap
  <2>4. /\ (\E l \in 1..Len(members) : ~(Len(Name(l)) <= LookupCap)) => answer = 0
        /\ fits /\ named = {} => answer = 0
        /\ fits /\ named # {} =>
              \E l \in named : /\ \A j \in named : j <= l
                               /\ SubSeq(text, answer, Skip(text, answer) - 1) = members[l].value
    BY <2>3 DEF Finds, Fitting, NameOf
  <2>5. IF named = {} \/ ~fits THEN answer = 0
        ELSE \E k \in named : /\ \A l \in named : l <= k
                              /\ SubSeq(text, answer, Skip(text, answer) - 1) = members[k].value
    <3> HIDE DEF members, text, key
    <3> QED
      BY <2>4
  <2> QED
    BY <2>1, <2>5 DEF LookupTakesTheLastMember
<1> QED
  BY <1>1, ScansAreTyped, PTL

\* From the other end: the value at a place may be made of all earlier ones.
LooksBack(hi, R, step) ==
    /\ hi \in Nat /\ R # {}
    /\ \A i \in 0..hi : \A f \in [0..hi -> R] : step[i][f] \in R
    /\ \A i \in 0..hi : \A f, g \in [0..hi -> R] :
          (\A j \in 0..(i - 1) : f[j] = g[j]) => step[i][f] = step[i][g]

LEMMA BackExists ==
    ASSUME NEW hi, NEW R, NEW step, LooksBack(hi, R, step)
    PROVE  \E f \in [0..hi -> R] : \A i \in 0..hi : f[i] = step[i][f]
<1> DEFINE F == [0..hi -> R]
           Turned(f) == [i \in 0..hi |-> f[hi - i]]
           turned == [i \in 0..hi |-> [f \in F |-> step[hi - i][Turned(f)]]]
<1>1. hi \in Nat /\ R # {}
  BY DEF LooksBack
<1>2. ASSUME NEW f \in F PROVE Turned(f) \in F /\ \A i \in 0..hi : Turned(f)[i] = f[hi - i]
  <2>1. \A i \in 0..hi : hi - i \in 0..hi
    BY <1>1
  <2> QED
    BY <2>1
<1>3. \A i \in 0..hi : \A f \in F : turned[i][f] = step[hi - i][Turned(f)]
  OBVIOUS
<1>4. ASSUME NEW i \in 0..hi, NEW f \in F PROVE turned[i][f] \in R
  <2>1. hi - i \in 0..hi
    BY <1>1
  <2>2. step[hi - i][Turned(f)] \in R
    <3> HIDE DEF Turned
    <3> QED
      BY <1>2, <2>1 DEF LooksBack
  <2> HIDE DEF Turned, turned
  <2> QED
    BY <1>3, <2>2
<1>5. ASSUME NEW i \in 0..hi, NEW f \in F, NEW g \in F, \A j \in (i + 1)..hi : f[j] = g[j]
      PROVE  turned[i][f] = turned[i][g]
  <2>1. hi - i \in 0..hi
    BY <1>1
  <2>2. \A j \in 0..((hi - i) - 1) : j \in 0..hi /\ hi - j \in (i + 1)..hi
    BY <1>1
  <2> HIDE DEF Turned, turned
  <2>3. \A j \in 0..((hi - i) - 1) : Turned(f)[j] = Turned(g)[j]
    BY <1>2, <1>5, <2>2
  <2>4. Turned(f) \in F /\ Turned(g) \in F
    BY <1>2
  <2>5. step[hi - i][Turned(f)] = step[hi - i][Turned(g)]
    BY <2>1, <2>3, <2>4 DEF LooksBack
  <2> QED
    BY <1>3, <2>5
<1> HIDE DEF turned, Turned
<1>6. LooksAhead(0, hi, R, turned)
  BY <1>1, <1>4, <1>5 DEF LooksAhead
<1>7. PICK g \in F : \A i \in 0..hi : g[i] = turned[i][g]
  BY <1>6, AheadExists
<1>8. Turned(g) \in F
  BY <1>2, <1>7
<1>9. ASSUME NEW i \in 0..hi PROVE Turned(g)[i] = step[i][Turned(g)]
  <2> DEFINE j == hi - i
  <2>1. j \in 0..hi /\ hi - j = i
    BY <1>1
  <2>2. Turned(g)[i] = g[j]
    BY <1>2, <1>7
  <2> HIDE DEF j
  <2> QED
    BY <1>3, <1>7, <2>1, <2>2
<1> QED
  BY <1>8, <1>9

-----------------------------------------------------------------------------
(* The loops of the compiler and the matcher.                               *)

LEMMA LoopEndIs ==
    ASSUME NEW from \in Nat, NEW to \in Nat, from <= to, NEW on, to \notin on
    PROVE  /\ LoopEnd(from, to, on) \in from..to
           /\ LoopEnd(from, to, on) \notin on
           /\ \A j \in from..(LoopEnd(from, to, on) - 1) : j \in on
<1> DEFINE EndsOf(k, m) == m \in k..to /\ m \notin on /\ \A j \in k..(m - 1) : j \in on
           S == {k \in from..to : \E m : EndsOf(k, m)}
<1>1. Falls(from, to, S)
  <2>1. ASSUME NEW k \in from..to, \A j \in (k + 1)..to : j \in S PROVE k \in S
    <3>1. CASE k \notin on
      <4>1. EndsOf(k, k)
        BY <3>1
      <4> QED
        BY <4>1
    <3>2. CASE k \in on
      <4>1. k # to
        BY <3>2
      <4>2. k + 1 \in (k + 1)..to
        BY <4>1
      <4>3. PICK m : EndsOf(k + 1, m)
        BY <2>1, <4>2
      <4>4. \A j \in k..(m - 1) : j = k \/ j \in (k + 1)..(m - 1)
        BY <4>3
      <4>5. EndsOf(k, m)
        BY <3>2, <4>2, <4>3, <4>4
      <4> HIDE DEF EndsOf
      <4> QED
        BY <4>5
    <3> QED
      BY <3>1, <3>2
  <2> HIDE DEF S
  <2> QED
    BY <2>1 DEF Falls
<1>2. \A k \in from..to : k \in S
  <2> HIDE DEF S
  <2> QED
    BY <1>1, FallInduction
<1>3. \E m : EndsOf(from, m)
  BY <1>2
<1>4. EndsOf(from, LoopEnd(from, to, on))
  BY <1>3 DEF LoopEnd
<1> QED
  BY <1>4

-----------------------------------------------------------------------------
(* Matching.                                                                *)

IsAtom(atom) ==
    /\ atom.kind \in {"start", "end", "one"}
    /\ atom.min \in Nat /\ atom.max \in Nat \union {Unbounded}

\* Taking all it can and giving back, an atom takes any number it may.
LEMMA TakesAre ==
    ASSUME NEW atom, IsAtom(atom), NEW text, Len(text) \in Nat, NEW pos \in 0..Len(text)
    PROVE  Takes(atom, text, pos) = MayTake(atom, text, pos)
<1> DEFINE left == Len(text) - pos
           May(k) == (atom.max = Unbounded \/ k < atom.max) /\ text[pos + k + 1] \in atom.set
           on == {k \in 0..(left - 1) : May(k)}
           last == LoopEnd(0, left, on)
<1>1. left \in Nat /\ left = Len(text) - pos
  OBVIOUS
<1>2. left \notin on
  <2>1. left \notin 0..(left - 1)
    BY <1>1
  <2> QED
    BY <2>1
<1>3. Greedy(atom, text, pos) = last
  BY DEF Greedy
<1>4. /\ last \in 0..left /\ last \notin on /\ \A j \in 0..(last - 1) : j \in on
  <2> HIDE DEF left, on
  <2>1. 0 <= left /\ 0 \in Nat
    BY <1>1
  <2> QED
    BY <1>1, <1>2, <2>1, LoopEndIs
<1> HIDE DEF last
<1>5. ASSUME NEW n \in atom.min..last PROVE n \in MayTake(atom, text, pos)
  <2>1. n \in atom.min..left /\ n \in Nat
    BY <1>1, <1>4 DEF IsAtom
  <2>2. \A k \in 1..n : k - 1 \in 0..(last - 1) /\ pos + (k - 1) + 1 = pos + k
    BY <1>4, <2>1
  <2>3. \A k \in 1..n : May(k - 1)
    BY <1>4, <2>2
  <2>4. \A k \in 1..n : text[pos + k] \in atom.set
    BY <2>2, <2>3
  <2>5. atom.max = Unbounded \/ n <= atom.max
    <3>1. CASE n = 0
      BY <3>1 DEF IsAtom
    <3>2. CASE n # 0
      <4>1. n \in 1..n
        BY <2>1, <3>2
      <4>2. atom.max = Unbounded \/ n - 1 < atom.max
        BY <2>3, <4>1
      <4> QED
        BY <2>1, <4>2 DEF IsAtom
    <3> QED
      BY <3>1, <3>2
  <2> QED
    BY <2>1, <2>4, <2>5 DEF MayTake
<1>6. ASSUME NEW n \in MayTake(atom, text, pos) PROVE n \in atom.min..last
  <2>1. /\ n \in atom.min..left
        /\ atom.max = Unbounded \/ n <= atom.max
        /\ \A k \in 1..n : text[pos + k] \in atom.set
    BY DEF MayTake
  <2>2. ASSUME last < n PROVE FALSE
    <3>1. last + 1 \in 1..n /\ last \in 0..(left - 1) /\ pos + last + 1 = pos + (last + 1)
      BY <1>1, <1>4, <2>1, <2>2 DEF IsAtom
    <3>2. text[pos + last + 1] \in atom.set
      BY <2>1, <3>1
    <3>3. atom.max = Unbounded \/ last < atom.max
      BY <1>4, <2>1, <2>2 DEF IsAtom
    <3> QED
      BY <1>4, <3>1, <3>2, <3>3
  <2> QED
    BY <1>4, <2>1, <2>2 DEF IsAtom
<1> QED
  BY <1>3, <1>5, <1>6 DEF Takes

\* Atoms from i on match from pos on, at being the places from which the later ones do.
MatchTurn(at, atoms, text, i, pos) ==
    IF i > Len(atoms) THEN TRUE
    ELSE CASE atoms[i].kind = "start" -> pos = 0 /\ at[i + 1][pos]
           [] atoms[i].kind = "end" -> pos = Len(text) /\ at[i + 1][pos]
           [] OTHER -> \E n \in Takes(atoms[i], text, pos) : at[i + 1][pos + n]
IsMatching(at, atoms, text) ==
    at = [i \in 1..(Len(atoms) + 1) |-> [pos \in 0..Len(text) |-> MatchTurn(at, atoms, text, i, pos)]]

LEMMA MatchesMatch ==
    ASSUME NEW atoms, NEW text, \E at : IsMatching(at, atoms, text)
    PROVE  IsMatching(Matches(atoms, text), atoms, text)
BY DEF IsMatching, MatchTurn, Matches

LEMMA RiseInduction ==
    ASSUME NEW hi \in Nat, NEW S, \A k \in 0..hi : (\A j \in 0..(k - 1) : j \in S) => k \in S
    PROVE  \A k \in 0..hi : k \in S
<1> DEFINE T == {k \in 0..hi : hi - k \in S}
<1>1. Falls(0, hi, T)
  <2>1. ASSUME NEW k \in 0..hi, \A j \in (k + 1)..hi : j \in T PROVE k \in T
    <3>1. \A j \in 0..(hi - k - 1) : hi - j \in (k + 1)..hi /\ hi - (hi - j) = j
      OBVIOUS
    <3>2. \A j \in 0..((hi - k) - 1) : j \in S
      BY <2>1, <3>1
    <3> QED
      BY <3>2
  <2> QED
    BY <2>1 DEF Falls
<1>2. \A k \in 0..hi : k \in T
  <2> HIDE DEF T
  <2> QED
    BY <1>1, FallInduction
<1>3. \A k \in 0..hi : hi - k \in 0..hi /\ hi - (hi - k) = k
  OBVIOUS
<1> QED
  BY <1>2, <1>3

\* Where a match may go from pos on through an atom.
LEMMA EndsAfterIs ==
    ASSUME NEW atom, IsAtom(atom), NEW text, Len(text) \in Nat, NEW pos \in 0..Len(text)
    PROVE  /\ EndsAfter(atom, text, pos) \subseteq 0..Len(text)
           /\ atom.kind = "start" => \A q : q \in EndsAfter(atom, text, pos) <=> q = pos /\ pos = 0
           /\ atom.kind = "end" => \A q : q \in EndsAfter(atom, text, pos) <=> q = pos /\ pos = Len(text)
           /\ atom.kind = "one" =>
                \A q : q \in EndsAfter(atom, text, pos)
                          <=> \E n \in Takes(atom, text, pos) : q = pos + n
<1>1. CASE atom.kind = "start"
  <2>1. EndsAfter(atom, text, pos) = {pos} \cap {0}
    BY <1>1 DEF EndsAfter
  <2> QED
    BY <1>1, <2>1
<1>2. CASE atom.kind = "end"
  <2>1. EndsAfter(atom, text, pos) = {pos} \cap {Len(text)}
    BY <1>2 DEF EndsAfter
  <2> QED
    BY <1>2, <2>1
<1>3. CASE atom.kind = "one"
  <2>1. EndsAfter(atom, text, pos) = {pos + n : n \in Takes(atom, text, pos)}
    BY <1>3, TakesAre DEF EndsAfter
  <2>2. Takes(atom, text, pos) \subseteq 0..(Len(text) - pos)
    BY TakesAre DEF MayTake, IsAtom
  <2> QED
    BY <1>3, <2>1, <2>2
<1> QED
  BY <1>1, <1>2, <1>3 DEF IsAtom

LEMMA MatchesExist ==
    ASSUME NEW atoms, Len(atoms) \in Nat, NEW text, Len(text) \in Nat,
           \A i \in 1..Len(atoms) : IsAtom(atoms[i])
    PROVE  \E at : IsMatching(at, atoms, text)
<1> DEFINE n == Len(atoms) + 1
           P == 0..Len(text)
           R == [P -> BOOLEAN]
           F == [1..n -> R]
           Value(f, i, pos) == IF MatchTurn(f, atoms, text, i, pos) THEN TRUE ELSE FALSE
           step == [i \in 1..n |-> [f \in F |-> [pos \in P |-> Value(f, i, pos)]]]
<1>1. n \in Nat /\ 1 \in Nat /\ R # {}
  <2>1. [pos \in P |-> TRUE] \in R
    OBVIOUS
  <2> HIDE DEF R
  <2> QED
    BY <2>1
<1>2. \A i \in 1..n : \A f \in F : step[i][f] = [pos \in P |-> Value(f, i, pos)]
  OBVIOUS
<1>3. \A i \in 1..n : \A f \in F : step[i][f] \in R
  <2> HIDE DEF F
  <2> QED
    OBVIOUS
<1>4. ASSUME NEW i \in 1..n, NEW f \in F, NEW g \in F, \A j \in (i + 1)..n : f[j] = g[j]
      PROVE  step[i][f] = step[i][g]
  <2>1. i > Len(atoms) \/ (i \in 1..Len(atoms) /\ f[i + 1] = g[i + 1])
    BY <1>4
  <2>2. \A pos \in P : MatchTurn(f, atoms, text, i, pos) <=> MatchTurn(g, atoms, text, i, pos)
    BY <2>1 DEF MatchTurn
  <2>3. \A pos \in P : Value(f, i, pos) = Value(g, i, pos)
    BY <2>2
  <2>4. step[i][f] = [pos \in P |-> Value(f, i, pos)] /\ step[i][g] = [pos \in P |-> Value(g, i, pos)]
    BY <1>2
  <2> HIDE DEF F, Value, step, n, P
  <2> QED
    BY <2>3, <2>4
<1> HIDE DEF step, F, R
<1>5. LooksAhead(1, n, R, step)
  BY <1>1, <1>3, <1>4 DEF LooksAhead, F
<1>6. PICK at \in F : \A i \in 1..n : at[i] = step[i][at]
  BY <1>5, AheadExists DEF F
<1>7. \A i \in 1..n : \A pos \in P : MatchTurn(at, atoms, text, i, pos) \in BOOLEAN
  <2> SUFFICES ASSUME NEW i \in 1..n, NEW pos \in P PROVE MatchTurn(at, atoms, text, i, pos) \in BOOLEAN
    OBVIOUS
  <2>1. CASE i > Len(atoms)
    BY <2>1 DEF MatchTurn
  <2>2. CASE i \in 1..Len(atoms)
    <3>1. i + 1 \in 1..n /\ ~(i > Len(atoms))
      BY <2>2
    <3>2. at[i + 1][pos] \in BOOLEAN
      BY <3>1 DEF F, R
    <3>3. IsAtom(atoms[i])
      BY <2>2
    <3> HIDE DEF n
    <3> QED
      BY <3>1, <3>2, <3>3 DEF MatchTurn, IsAtom
  <2> QED
    BY <2>1, <2>2
<1>8. \A i \in 1..n : at[i] = [pos \in P |-> MatchTurn(at, atoms, text, i, pos)]
  <2>1. \A i \in 1..n : \A pos \in P : Value(at, i, pos) = MatchTurn(at, atoms, text, i, pos)
    BY <1>7
  <2> HIDE DEF Value, n
  <2> QED
    BY <1>2, <1>6, <2>1
<1>9. at = [i \in 1..n |-> at[i]]
  BY DEF F
<1> QED
  BY <1>8, <1>9 DEF IsMatching

\* The places a match of the first k atoms may end at.
IsEnding(ends, atoms, text) ==
    ends = [k \in 0..Len(atoms) |->
              IF k = 0 THEN 0..Len(text)
              ELSE UNION {EndsAfter(atoms[k], text, pos) : pos \in ends[k - 1]}]

LEMMA EndingsExist ==
    ASSUME NEW atoms, Len(atoms) \in Nat, NEW text, Len(text) \in Nat,
           \A i \in 1..Len(atoms) : IsAtom(atoms[i])
    PROVE  \E ends \in [0..Len(atoms) -> SUBSET (0..Len(text))] : IsEnding(ends, atoms, text)
<1> DEFINE n == Len(atoms)
           R == SUBSET (0..Len(text))
           F == [0..n -> R]
           Value(f, k) == IF k = 0 THEN 0..Len(text)
                         ELSE UNION {EndsAfter(atoms[k], text, pos) : pos \in f[k - 1]}
           step == [k \in 0..n |-> [f \in F |-> Value(f, k)]]
<1>1. n \in Nat /\ R # {}
  OBVIOUS
<1>2. \A k \in 0..n : \A f \in F : step[k][f] = Value(f, k)
  OBVIOUS
<1>3. ASSUME NEW k \in 0..n, NEW f \in F PROVE Value(f, k) \in R
  <2>1. CASE k = 0
    BY <2>1
  <2>2. CASE k # 0
    <3>1. k \in 1..n /\ k - 1 \in 0..n
      BY <2>2
    <3>2. \A pos \in f[k - 1] : EndsAfter(atoms[k], text, pos) \subseteq 0..Len(text)
      BY <3>1, EndsAfterIs
    <3> QED
      BY <2>2, <3>2
  <2> QED
    BY <2>1, <2>2
<1>4. ASSUME NEW k \in 0..n, NEW f \in F, NEW g \in F, \A j \in 0..(k - 1) : f[j] = g[j]
      PROVE  Value(f, k) = Value(g, k)
  <2>1. k = 0 \/ f[k - 1] = g[k - 1]
    BY <1>4
  <2> QED
    BY <2>1
<1> HIDE DEF step, Value, R, n
<1>5. LooksBack(n, R, step)
  BY <1>1, <1>2, <1>3, <1>4 DEF LooksBack
<1>6. PICK ends \in F : \A k \in 0..n : ends[k] = step[k][ends]
  BY <1>5, BackExists
<1>7. ends = [k \in 0..n |-> Value(ends, k)]
  BY <1>2, <1>6
<1> QED
  BY <1>7 DEF IsEnding, Value, n, R

LEMMA DenotesEnds ==
    ASSUME NEW atoms, NEW text, \E ends : IsEnding(ends, atoms, text)
    PROVE  \E ends : IsEnding(ends, atoms, text) /\ (Denotes(atoms, text) <=> ends[Len(atoms)] # {})
BY DEF IsEnding, Denotes

\* Backtracking finds a match exactly if there is one.
LEMMA SearchIsComplete ==
    ASSUME NEW atoms, Len(atoms) \in Nat, NEW text, Len(text) \in Nat,
           \A i \in 1..Len(atoms) : IsAtom(atoms[i])
    PROVE  (\E start \in 0..Len(text) : Matches(atoms, text)[1][start]) <=> Denotes(atoms, text)
<1> DEFINE n == Len(atoms)
           P == 0..Len(text)
           at == Matches(atoms, text)
<1>1. IsMatching(at, atoms, text)
  BY MatchesExist, MatchesMatch
<1>2. PICK ends : IsEnding(ends, atoms, text) /\ (Denotes(atoms, text) <=> ends[n] # {})
  BY EndingsExist, DenotesEnds
<1> HIDE DEF at
<1>3. \A i \in 1..(n + 1) : at[i] = [pos \in P |-> MatchTurn(at, atoms, text, i, pos)]
  BY <1>1 DEF IsMatching
<1>4. ends[0] = P
  BY <1>2 DEF IsEnding
<1>5. \A k \in 1..n : ends[k] = UNION {EndsAfter(atoms[k], text, pos) : pos \in ends[k - 1]}
  <2>1. \A k \in 0..n : ends[k] = IF k = 0 THEN P
                                ELSE UNION {EndsAfter(atoms[k], text, pos) : pos \in ends[k - 1]}
    BY <1>2, Zenon DEF IsEnding
  <2>2. \A k \in 1..n : k \in 0..n /\ k # 0
    OBVIOUS
  <2> QED
    BY <2>1, <2>2
<1>6. \A k \in 0..n : ends[k] \subseteq P
  <2> DEFINE S == {k \in 0..n : ends[k] \subseteq P}
  <2>1. ASSUME NEW k \in 0..n, \A j \in 0..(k - 1) : j \in S PROVE k \in S
    <3>1. CASE k = 0
      BY <1>4, <3>1
    <3>2. CASE k # 0
      <4>1. k \in 1..n /\ k - 1 \in 0..(k - 1) /\ k - 1 \in S
        BY <2>1, <3>2
      <4>2. \A pos \in ends[k - 1] : EndsAfter(atoms[k], text, pos) \subseteq P
        BY <4>1, EndsAfterIs
      <4> QED
        BY <1>5, <4>1, <4>2
    <3> QED
      BY <3>1, <3>2
  <2> HIDE DEF S
  <2>2. \A k \in 0..n : k \in S
    BY <2>1, RiseInduction
  <2> QED
    BY <2>2 DEF S
<1> DEFINE Good(k) == (\E pos \in ends[k] : at[k + 1][pos]) <=> Denotes(atoms, text)
<1>7. Good(n)
  <2>1. n + 1 \in 1..(n + 1) /\ n + 1 > Len(atoms) /\ n \in 0..n
    OBVIOUS
  <2>2. \A pos \in P : at[n + 1][pos] = MatchTurn(at, atoms, text, n + 1, pos)
    BY <1>3, <2>1
  <2>3. \A pos \in P : MatchTurn(at, atoms, text, n + 1, pos)
    BY <2>1 DEF MatchTurn
  <2>4. \A pos \in ends[n] : at[n + 1][pos]
    BY <1>6, <2>1, <2>2, <2>3
  <2> QED
    BY <1>2, <2>4
<1>8. ASSUME NEW k \in 1..n, Good(k) PROVE Good(k - 1)
  <2>1. k \in 1..(n + 1) /\ k - 1 \in 0..n /\ ~(k > Len(atoms)) /\ (k - 1) + 1 = k
    OBVIOUS
  <2>2. \A pos \in P : at[k][pos] = MatchTurn(at, atoms, text, k, pos)
    BY <1>3, <2>1
  <2>3. ASSUME NEW pos \in P
        PROVE  MatchTurn(at, atoms, text, k, pos)
                  <=> \E q \in EndsAfter(atoms[k], text, pos) : at[k + 1][q]
    <3>1. IsAtom(atoms[k])
      OBVIOUS
    <3>2. CASE atoms[k].kind = "start"
      <4>1. MatchTurn(at, atoms, text, k, pos) <=> pos = 0 /\ at[k + 1][pos]
        BY <2>1, <3>2 DEF MatchTurn
      <4> QED
        BY <3>1, <3>2, <4>1, EndsAfterIs
    <3>3. CASE atoms[k].kind = "end"
      <4>1. MatchTurn(at, atoms, text, k, pos) <=> pos = Len(text) /\ at[k + 1][pos]
        BY <2>1, <3>3 DEF MatchTurn
      <4> QED
        BY <3>1, <3>3, <4>1, EndsAfterIs
    <3>4. CASE atoms[k].kind = "one"
      <4>1. MatchTurn(at, atoms, text, k, pos)
               <=> \E m \in Takes(atoms[k], text, pos) : at[k + 1][pos + m]
        BY <2>1, <3>4 DEF MatchTurn
      <4>2. \A q : q \in EndsAfter(atoms[k], text, pos)
                      <=> \E m \in Takes(atoms[k], text, pos) : q = pos + m
        BY <3>1, <3>4, EndsAfterIs
      <4> QED
        BY <4>1, <4>2
    <3> QED
      BY <3>1, <3>2, <3>3, <3>4 DEF IsAtom
  <2>4. ends[k - 1] \subseteq P
    BY <1>6, <2>1
  <2>5. (\E pos \in ends[k - 1] : at[k][pos]) <=> \E q \in ends[k] : at[k + 1][q]
    <3>1. \A pos \in ends[k - 1] : at[k][pos] <=> \E q \in EndsAfter(atoms[k], text, pos) : at[k + 1][q]
      BY <2>2, <2>3, <2>4
    <3>2. ends[k] = UNION {EndsAfter(atoms[k], text, pos) : pos \in ends[k - 1]}
      BY <1>5
    <3> QED
      BY <3>1, <3>2
  <2> QED
    BY <1>8, <2>1, <2>5
<1>9. Good(0)
  <2> DEFINE S == {k \in 0..n : Good(k)}
  <2> HIDE DEF Good
  <2>1. ASSUME NEW k \in 0..n, \A j \in (k + 1)..n : j \in S PROVE k \in S
    <3>1. CASE k = n
      BY <1>7, <3>1
    <3>2. CASE k # n
      <4>1. k + 1 \in (k + 1)..n /\ k + 1 \in 1..n /\ (k + 1) - 1 = k
        BY <3>2
      <4>2. Good(k + 1)
        BY <2>1, <4>1
      <4>3. Good((k + 1) - 1)
        BY <1>8, <4>1, <4>2
      <4> QED
        BY <4>1, <4>3
    <3> QED
      BY <3>1, <3>2
  <2> HIDE DEF S
  <2>2. \A k \in 0..n : k \in S
    BY <2>1, FallInduction DEF Falls
  <2> QED
    BY <2>2 DEF S
<1>10. 0 + 1 = 1
  OBVIOUS
<1> QED
  BY <1>4, <1>9, <1>10 DEF at

-----------------------------------------------------------------------------
(* Reading a pattern.                                                       *)

LEMMA PatternIs ==
    ASSUME NEW pattern \in Seq(Bytes)
    PROVE  /\ Len(pattern) \in Nat /\ DOMAIN pattern = 1..Len(pattern)
           /\ \A i \in 1..Len(pattern) : pattern[i] \in Bytes /\ At(pattern, i) = pattern[i]
           /\ \A i \in Nat : At(pattern, i) # End => i <= Len(pattern)
           /\ \A i \in 1..Len(pattern) : At(pattern, i) # End
           /\ At(pattern, Len(pattern) + 1) = End
<1>1. /\ Len(pattern) \in Nat /\ DOMAIN pattern = 1..Len(pattern)
      /\ \A i \in 1..Len(pattern) : pattern[i] \in Bytes
  <2> HIDE DEF Bytes
  <2> QED
    BY LenProperties
<1>2. End \notin Bytes
  BY RegexAssumption DEF RegexAssumption
<1> HIDE DEF Bytes
<1> QED
  BY <1>1, <1>2 DEF At

LEMMA ElementIs ==
    ASSUME NEW pattern \in Seq(Bytes), NEW i \in 1..Len(pattern), NEW isHigh \in BOOLEAN,
           Element(pattern, i, isHigh).ok
    PROVE  LET e == Element(pattern, i, isHigh)
           IN  /\ e.next \in (i + 1)..(Len(pattern) + 1)
               /\ e = [ok |-> TRUE, short |-> e.short, byte |-> e.byte, next |-> e.next]
               /\ e.short => ~isHigh /\ e.byte \in ShorthandNames
               /\ e.short \in BOOLEAN
<1> DEFINE escaped == At(pattern, i + 1)
<1> HIDE DEF Bytes
<1>1. i \in Nat /\ i + 1 \in Nat /\ Len(pattern) \in Nat /\ (escaped # End => i + 1 <= Len(pattern))
  BY PatternIs
<1>2. CASE At(pattern, i) # "\\"
  BY <1>1, <1>2 DEF Element
<1>3. CASE At(pattern, i) = "\\"
  <2>1. escaped # End
    BY <1>3 DEF Element, Refused
  <2>2. CASE escaped \in ShorthandNames
    <3>1. Element(pattern, i, isHigh)
            = IF isHigh THEN Refused
              ELSE [ok |-> TRUE, short |-> TRUE, byte |-> escaped, next |-> i + 2]
      BY <1>3, <2>1, <2>2 DEF Element
    <3>2. ~isHigh
      BY <3>1 DEF Refused
    <3> HIDE DEF escaped, ShorthandNames
    <3> QED
      BY <1>1, <2>1, <2>2, <3>1, <3>2
  <2>3. CASE escaped \notin ShorthandNames
    <3>1. Element(pattern, i, isHigh)
            = IF escaped \in {"p", "P"} /\ ~isHigh THEN Refused
              ELSE [ok |-> TRUE, short |-> FALSE, byte |-> EscapeLiteral(escaped), next |-> i + 2]
      BY <1>3, <2>1, <2>3 DEF Element
    <3>2. ~(escaped \in {"p", "P"} /\ ~isHigh)
      BY <3>1 DEF Refused
    <3>3. Element(pattern, i, isHigh)
            = [ok |-> TRUE, short |-> FALSE, byte |-> EscapeLiteral(escaped), next |-> i + 2]
      BY <3>1, <3>2
    <3> HIDE DEF escaped
    <3> QED
      BY <1>1, <2>1, <3>3
  <2> QED
    BY <2>2, <2>3
<1> QED
  BY <1>2, <1>3

\* A part of a pattern, behind its first d bytes.
Lies(part, pattern, d) ==
    /\ part \in Seq(Bytes) /\ pattern \in Seq(Bytes)
    /\ d \in Nat /\ d + Len(part) <= Len(pattern)
    /\ \A k \in 1..Len(part) : pattern[d + k] = part[k]

LEMMA AtThere ==
    ASSUME NEW part, NEW pattern, NEW d, Lies(part, pattern, d), NEW i \in 1..Len(part)
    PROVE  /\ At(pattern, d + i) = At(part, i) /\ At(part, i) # End
           /\ d + i \in 1..Len(pattern)
<1> HIDE DEF Bytes
<1>1. d + i \in 1..Len(pattern) /\ i \in 1..Len(part)
  BY PatternIs DEF Lies
<1>2. At(pattern, d + i) = pattern[d + i] /\ At(part, i) = part[i] /\ At(part, i) # End
  BY <1>1, PatternIs DEF Lies
<1> QED
  BY <1>1, <1>2 DEF Lies


SameElement(e, f, d) == f.ok /\ f.short = e.short /\ f.byte = e.byte /\ f.next = d + e.next

LEMMA ElementThere ==
    ASSUME NEW part, NEW pattern, NEW d, Lies(part, pattern, d), NEW i \in 1..Len(part),
           NEW isHigh \in BOOLEAN, Element(part, i, isHigh).ok
    PROVE  SameElement(Element(part, i, isHigh), Element(pattern, d + i, isHigh), d)
<1> HIDE DEF Bytes
<1>1. /\ At(pattern, d + i) = At(part, i)
      /\ d \in Nat /\ i \in Nat /\ i + 1 \in Nat /\ Len(part) \in Nat /\ (d + i) + 1 = d + (i + 1)
      /\ part \in Seq(Bytes)
  BY AtThere, PatternIs DEF Lies
<1>2. CASE At(part, i) # "\\"
  BY <1>1, <1>2 DEF Element, SameElement
<1>3. CASE At(part, i) = "\\"
  <2> DEFINE escaped == At(part, i + 1)
  <2>1. escaped # End
    BY <1>3 DEF Element, Refused
  <2>2. i + 1 \in 1..Len(part)
    BY <1>1, <2>1, PatternIs
  <2>3. At(pattern, d + i + 1) = escaped
    BY <1>1, <2>2, AtThere
  <2>4. CASE escaped \in ShorthandNames
    <3>1. Element(part, i, isHigh)
            = IF isHigh THEN Refused
              ELSE [ok |-> TRUE, short |-> TRUE, byte |-> escaped, next |-> i + 2]
      BY <1>3, <2>1, <2>4 DEF Element
    <3>2. Element(pattern, d + i, isHigh)
            = IF isHigh THEN Refused
              ELSE [ok |-> TRUE, short |-> TRUE, byte |-> escaped, next |-> d + i + 2]
      BY <1>1, <1>3, <2>1, <2>3, <2>4 DEF Element
    <3>3. ~isHigh
      BY <3>1 DEF Refused
    <3>4. /\ Element(part, i, isHigh) = [ok |-> TRUE, short |-> TRUE, byte |-> escaped, next |-> i + 2]
          /\ Element(pattern, d + i, isHigh)
                = [ok |-> TRUE, short |-> TRUE, byte |-> escaped, next |-> d + i + 2]
      BY <3>1, <3>2, <3>3
    <3> DEFINE e == Element(part, i, isHigh)
               f == Element(pattern, d + i, isHigh)
    <3>5. e.ok /\ e.short = TRUE /\ e.byte = escaped /\ e.next = i + 2
      BY <3>4
    <3>6. f.ok /\ f.short = TRUE /\ f.byte = escaped /\ f.next = d + i + 2
      BY <3>4
    <3>7. d + i + 2 = d + (i + 2)
      BY <1>1
    <3> HIDE DEF e, f, escaped
    <3>8. f.ok /\ f.short = e.short /\ f.byte = e.byte /\ f.next = d + e.next
      BY <3>5, <3>6, <3>7
    <3> QED
      BY <3>8 DEF e, f, SameElement
  <2>5. CASE escaped \notin ShorthandNames
    <3>1. Element(part, i, isHigh)
            = IF escaped \in {"p", "P"} /\ ~isHigh THEN Refused
              ELSE [ok |-> TRUE, short |-> FALSE, byte |-> EscapeLiteral(escaped), next |-> i + 2]
      BY <1>3, <2>1, <2>5 DEF Element
    <3>2. Element(pattern, d + i, isHigh)
            = IF escaped \in {"p", "P"} /\ ~isHigh THEN Refused
              ELSE [ok |-> TRUE, short |-> FALSE, byte |-> EscapeLiteral(escaped), next |-> d + i + 2]
      BY <1>1, <1>3, <2>1, <2>3, <2>5 DEF Element
    <3>3. ~(escaped \in {"p", "P"} /\ ~isHigh)
      BY <3>1 DEF Refused
    <3>4. /\ Element(part, i, isHigh) = [ok |-> TRUE, short |-> FALSE, byte |-> EscapeLiteral(escaped), next |-> i + 2]
          /\ Element(pattern, d + i, isHigh)
                = [ok |-> TRUE, short |-> FALSE, byte |-> EscapeLiteral(escaped), next |-> d + i + 2]
      BY <3>1, <3>2, <3>3
    <3> DEFINE e == Element(part, i, isHigh)
               f == Element(pattern, d + i, isHigh)
    <3>5. e.ok /\ e.short = FALSE /\ e.byte = EscapeLiteral(escaped) /\ e.next = i + 2
      BY <3>4
    <3>6. f.ok /\ f.short = FALSE /\ f.byte = EscapeLiteral(escaped) /\ f.next = d + i + 2
      BY <3>4
    <3>7. d + i + 2 = d + (i + 2)
      BY <1>1
    <3> HIDE DEF e, f, escaped
    <3>8. f.ok /\ f.short = e.short /\ f.byte = e.byte /\ f.next = d + e.next
      BY <3>5, <3>6, <3>7
    <3> QED
      BY <3>8 DEF e, f, SameElement
  <2> QED
    BY <2>4, <2>5
<1> QED
  BY <1>2, <1>3

-----------------------------------------------------------------------------
(* Classes.                                                                 *)

LEMMA MemberIs ==
    ASSUME NEW pattern, NEW i, NEW rest
    PROVE  LET low == Element(pattern, i, FALSE)
               high == Element(pattern, low.next + 1, TRUE)
               dashed == /\ At(pattern, low.next) = "-"
                         /\ At(pattern, low.next + 1) \notin {"]", End}
               it == ClassMember(pattern, i, rest)
           IN  /\ ~low.ok => it = Refused
               /\ low.ok /\ low.short => it = Added(Shorthand(low.byte), rest[low.next])
               /\ low.ok /\ ~low.short /\ ~dashed => it = Added({low.byte}, rest[low.next])
               /\ low.ok /\ ~low.short /\ dashed /\ (~high.ok \/ Code(high.byte) < Code(low.byte))
                     => it = Refused
               /\ low.ok /\ ~low.short /\ dashed /\ high.ok /\ ~(Code(high.byte) < Code(low.byte))
                     => it = Added(RangeOf(low.byte, high.byte), rest[high.next])
BY Zenon DEF ClassMember, MemberFrom, ClassRange, IsDashed, Added

\* Whatever a class of the pattern may hold.
ClassBytes(pattern) ==
    UNION {Bytes, Digits, Letters, {"underscore"}, Spaces,
           {Element(pattern, i, FALSE).byte : i \in 1..Len(pattern)}}

Refuses(pattern, i) == \A rest : ClassMember(pattern, i, rest) = Refused
AddsAt(pattern, i, set, next) ==
    \A rest : ClassMember(pattern, i, rest) = Added(set, rest[next])

LEMMA ShorthandIs ==
    ASSUME NEW name \in ShorthandNames
    PROVE  Shorthand(name) \subseteq UNION {Bytes, Digits, Letters, {"underscore"}, Spaces}
<1> HIDE DEF Bytes
<1>1. CASE name = "d"
  BY <1>1 DEF Shorthand
<1>2. CASE name = "D"
  BY <1>2 DEF Shorthand
<1>3. CASE name = "w"
  BY <1>3 DEF Shorthand
<1>4. CASE name = "W"
  BY <1>4 DEF Shorthand
<1>5. CASE name = "s"
  BY <1>5 DEF Shorthand
<1>6. CASE name = "S"
  BY <1>6 DEF Shorthand
<1> QED
  BY <1>1, <1>2, <1>3, <1>4, <1>5, <1>6 DEF ShorthandNames

\* A member is refused, or it adds a set to what the class holds from a later place on.
LEMMA MemberAdds ==
    ASSUME NEW pattern \in Seq(Bytes), NEW i \in 1..Len(pattern)
    PROVE  \/ Refuses(pattern, i)
           \/ \E set \in SUBSET ClassBytes(pattern), next \in (i + 1)..(Len(pattern) + 1) :
                 AddsAt(pattern, i, set, next)
<1> DEFINE low == Element(pattern, i, FALSE)
           high == Element(pattern, low.next + 1, TRUE)
           dashed == /\ At(pattern, low.next) = "-"
                     /\ At(pattern, low.next + 1) \notin {"]", End}
           it(rest) == ClassMember(pattern, i, rest)
<1> HIDE DEF Bytes
<1>1. CASE ~low.ok
  <2>1. \A rest : it(rest) = Refused
    BY <1>1, MemberIs
  <2> QED
    BY <2>1 DEF Refuses
<1>2. CASE low.ok
  <2>1. low.next \in (i + 1)..(Len(pattern) + 1) /\ low.short \in BOOLEAN
        /\ (low.short => low.byte \in ShorthandNames)
    BY <1>2, ElementIs
  <2>2. Len(pattern) \in Nat /\ low.next + 1 \in Nat
    <3>1. Len(pattern) \in Nat
      BY PatternIs
    <3> HIDE DEF low
    <3> QED
      BY <2>1, <3>1
  <2>3. CASE low.short
    <3>1. \A rest : it(rest) = Added(Shorthand(low.byte), rest[low.next])
      BY <1>2, <2>3, MemberIs
    <3>2. Shorthand(low.byte) \subseteq ClassBytes(pattern)
      BY <2>1, <2>3, ShorthandIs DEF ClassBytes
    <3>3. AddsAt(pattern, i, Shorthand(low.byte), low.next)
      BY <3>1 DEF AddsAt
    <3> HIDE DEF low
    <3> QED
      BY <2>1, <3>2, <3>3
  <2>4. CASE ~low.short /\ ~dashed
    <3>1. \A rest : it(rest) = Added({low.byte}, rest[low.next])
      BY <1>2, <2>4, MemberIs
    <3>2. {low.byte} \subseteq ClassBytes(pattern)
      BY DEF ClassBytes
    <3>3. AddsAt(pattern, i, {low.byte}, low.next)
      BY <3>1 DEF AddsAt
    <3> HIDE DEF low
    <3> QED
      BY <2>1, <3>2, <3>3
  <2>5. CASE ~low.short /\ dashed /\ (~high.ok \/ Code(high.byte) < Code(low.byte))
    <3>1. \A rest : it(rest) = Refused
      BY <1>2, <2>5, MemberIs
    <3> QED
      BY <3>1 DEF Refuses
  <2>6. CASE ~low.short /\ dashed /\ high.ok /\ ~(Code(high.byte) < Code(low.byte))
    <3>1. \A rest : it(rest) = Added(RangeOf(low.byte, high.byte), rest[high.next])
      BY <1>2, <2>6, MemberIs
    <3>2. RangeOf(low.byte, high.byte) \subseteq ClassBytes(pattern)
      BY DEF ClassBytes, RangeOf
    <3>3. AddsAt(pattern, i, RangeOf(low.byte, high.byte), high.next)
      BY <3>1 DEF AddsAt
    <3>4. low.next + 1 \in 1..Len(pattern)
      <4>1. At(pattern, low.next + 1) # End
        BY <2>6
      <4> DEFINE n == low.next + 1
      <4>2. n \in Nat /\ 1 <= n
        <5> HIDE DEF low
        <5> QED
          BY <2>1, <2>2
      <4>3. n <= Len(pattern)
        <5>1. At(pattern, n) # End
          BY <4>1
        <5> HIDE DEF n
        <5> QED
          BY <4>2, <5>1, PatternIs
      <4> HIDE DEF n
      <4>4. n \in 1..Len(pattern)
        BY <2>2, <4>2, <4>3
      <4> QED
        BY <4>4 DEF n
    <3>5. high.next \in (low.next + 2)..(Len(pattern) + 1)
      <4> DEFINE n == low.next + 1
      <4>1. high = Element(pattern, n, TRUE) /\ n \in 1..Len(pattern) /\ high.ok
        BY <2>6, <3>4
      <4>2. n + 1 = low.next + 2
        <5> HIDE DEF low
        <5> QED
          BY <2>1, <2>2
      <4> HIDE DEF n, low, high
      <4>3. high.next \in (n + 1)..(Len(pattern) + 1)
        BY <4>1, ElementIs
      <4> QED
        BY <4>2, <4>3
    <3>6. high.next \in (i + 1)..(Len(pattern) + 1)
      <4> HIDE DEF low, high
      <4> QED
        BY <2>1, <2>2, <3>5
    <3> HIDE DEF low, high
    <3> QED
      BY <3>2, <3>3, <3>6
  <2> QED
    BY <2>1, <2>3, <2>4, <2>5, <2>6
<1> QED
  BY <1>1, <1>2

\* What stands there is read there, and the next place is as much further.
Moved(a, b, d) == a.ok => b = Compiled(a.kind, a.set, d + a.next)
IsResult(a) == a = Refused \/ a = Compiled("one", a.set, a.next)

LEMMA AddedMoved ==
    ASSUME NEW a, IsResult(a), NEW b, NEW d, Moved(a, b, d), NEW set, Added(set, a).ok
    PROVE  a.ok /\ Added(set, a) = Compiled("one", set \union a.set, a.next)
           /\ Added(set, b) = Compiled("one", set \union a.set, d + a.next)
           /\ Moved(Added(set, a), Added(set, b), d)
<1>1. a.ok
  BY DEF Added, Refused
<1>2. a = Compiled("one", a.set, a.next)
  BY <1>1 DEF IsResult, Refused
<1>3. a.kind = "one"
  BY <1>2 DEF Compiled
<1>4. b = Compiled("one", a.set, d + a.next)
  BY <1>1, <1>3 DEF Moved
<1> DEFINE s == a.set
           n == a.next
           m == d + a.next
<1> HIDE DEF s, n, m
<1>5. Added(set, Compiled("one", s, n)) = Compiled("one", set \union s, n)
  BY DEF Added, Compiled
<1>6. Added(set, Compiled("one", s, m)) = Compiled("one", set \union s, m)
  BY DEF Added, Compiled
<1>7. Added(set, a) = Compiled("one", set \union s, n) /\ Added(set, b) = Compiled("one", set \union s, m)
  BY <1>2, <1>4, <1>5, <1>6 DEF s, n, m
<1>8. Added(set, a).kind = "one" /\ Added(set, a).set = set \union s /\ Added(set, a).next = n
  BY <1>7 DEF Compiled
<1> QED
  BY <1>1, <1>7, <1>8 DEF s, n, m, Moved

\* The rest of a class after each place of a part, closed inside the part.
Closes(rest, part) ==
    /\ ~rest[Len(part) + 1].ok
    /\ rest[Len(part)].ok => At(part, Len(part)) = "]"
    /\ \A i \in 1..(Len(part) + 1) : IsResult(rest[i])

LEMMA MemberThere ==
    ASSUME NEW part, NEW pattern, NEW d, Lies(part, pattern, d), NEW i \in 1..Len(part),
           NEW rest, NEW there, Closes(rest, part),
           \A j \in (i + 1)..Len(part) : Moved(rest[j], there[d + j], d),
           ClassMember(part, i, rest).ok
    PROVE  /\ Moved(ClassMember(part, i, rest), ClassMember(pattern, d + i, there), d)
           /\ \E j \in (i + 1)..Len(part) : rest[j].ok /\ ClassMember(part, i, rest).next = rest[j].next
           /\ ClassMember(part, i, rest).kind = "one"
<1> DEFINE low == Element(part, i, FALSE)
           high == Element(part, low.next + 1, TRUE)
           dashed == /\ At(part, low.next) = "-"
                     /\ At(part, low.next + 1) \notin {"]", End}
           it == ClassMember(part, i, rest)
           lowThere == Element(pattern, d + i, FALSE)
           highThere == Element(pattern, lowThere.next + 1, TRUE)
           dashedThere == /\ At(pattern, lowThere.next) = "-"
                          /\ At(pattern, lowThere.next + 1) \notin {"]", End}
           itThere == ClassMember(pattern, d + i, there)
<1> HIDE DEF Bytes
<1>1. /\ part \in Seq(Bytes) /\ pattern \in Seq(Bytes) /\ d \in Nat
      /\ Len(part) \in Nat /\ i \in Nat /\ i <= Len(part) /\ 1 <= i
  BY PatternIs DEF Lies
<1>2. low.ok
  <2>1. ASSUME ~low.ok PROVE FALSE
    <3>1. it = Refused
      BY <2>1, MemberIs
    <3>2. ~Refused.ok /\ it.ok
      BY DEF Refused
    <3> HIDE DEF it
    <3> QED
      BY <3>1, <3>2
  <2> QED
    BY <2>1
<1>3. low.next \in (i + 1)..(Len(part) + 1) /\ low.short \in BOOLEAN
  BY <1>1, <1>2, ElementIs
<1>4. lowThere.ok /\ lowThere.short = low.short /\ lowThere.byte = low.byte /\ lowThere.next = d + low.next
  <2>1. SameElement(low, lowThere, d)
    BY <1>2, ElementThere
  <2> QED
    BY <2>1 DEF SameElement
<1> DEFINE Outcome == /\ Moved(it, itThere, d)
                      /\ \E j \in (i + 1)..Len(part) : rest[j].ok /\ it.next = rest[j].next
                      /\ it.kind = "one"
       Both(set, next) == /\ next \in (i + 1)..(Len(part) + 1)
                          /\ it = Added(set, rest[next]) /\ itThere = Added(set, there[d + next])
<1>5. ASSUME NEW set, NEW next, Both(set, next)
      PROVE  Outcome
  <2>1. rest[next].ok
    BY <1>5 DEF Added, Refused
  <2>2. next # Len(part) + 1
    BY <2>1 DEF Closes
  <2>3. next \in (i + 1)..Len(part) /\ next \in 1..(Len(part) + 1)
    BY <1>1, <1>5, <2>2
  <2>4. Moved(rest[next], there[d + next], d) /\ IsResult(rest[next])
    BY <2>3 DEF Closes
  <2>5. /\ it = Compiled("one", set \union rest[next].set, rest[next].next)
        /\ Moved(it, itThere, d)
    <3>1. Added(set, rest[next]).ok
      BY <1>5
    <3>2. /\ Added(set, rest[next]) = Compiled("one", set \union rest[next].set, rest[next].next)
          /\ Moved(Added(set, rest[next]), Added(set, there[d + next]), d)
      BY <2>4, <3>1, AddedMoved
    <3> HIDE DEF it, itThere
    <3> QED
      BY <1>5, <3>2
  <2>6. it.kind = "one" /\ it.next = rest[next].next
    BY <2>5 DEF Compiled
  <2> HIDE DEF it, itThere
  <2> QED
    BY <2>1, <2>3, <2>5, <2>6
<1>6. CASE low.short
  <2>1. it = Added(Shorthand(low.byte), rest[low.next])
    BY <1>2, <1>6, MemberIs
  <2>2. itThere = Added(Shorthand(lowThere.byte), there[lowThere.next])
    BY <1>4, <1>6, MemberIs
  <2>3. itThere = Added(Shorthand(low.byte), there[d + low.next])
    BY <1>4, <2>2
  <2>4. Both(Shorthand(low.byte), low.next)
    BY <1>3, <2>1, <2>3
  <2>5. Outcome
    <3> HIDE DEF Both, Outcome
    <3> QED
      BY <1>5, <2>4
  <2> QED
    BY <2>5
<1>7. CASE ~low.short
  <2>1. ~dashed => it = Added({low.byte}, rest[low.next])
    BY <1>2, <1>7, MemberIs
  <2>2. low.next <= Len(part)
    <3>1. ASSUME low.next = Len(part) + 1 PROVE FALSE
      <4>1. At(part, low.next) = End
        BY <1>1, <3>1, PatternIs
      <4>2. ~dashed
        BY <4>1 DEF End
      <4>3. it = Added({low.byte}, rest[Len(part) + 1])
        BY <2>1, <3>1, <4>2
      <4> QED
        BY <4>3 DEF Added, Refused, Closes
    <3> HIDE DEF low
    <3> QED
      BY <1>1, <1>3, <3>1
  <2>3. At(pattern, lowThere.next) = At(part, low.next)
    <3> DEFINE n == low.next
    <3>1. n \in 1..Len(part) /\ lowThere.next = d + n
      <4> HIDE DEF low, lowThere
      <4> QED
        BY <1>1, <1>3, <1>4, <2>2
    <3> HIDE DEF n
    <3>2. At(pattern, d + n) = At(part, n)
      BY <3>1, AtThere
    <3> QED
      BY <3>1, <3>2 DEF n
  <2>4. ASSUME At(part, low.next) = "-" PROVE low.next + 1 <= Len(part)
    <3>1. ASSUME low.next = Len(part) PROVE FALSE
      <4>1. At(part, low.next + 1) = End
        BY <1>1, <3>1, PatternIs
      <4>2. ~dashed
        BY <4>1
      <4>3. it = Added({low.byte}, rest[Len(part)])
        BY <2>1, <3>1, <4>2
      <4>4. rest[Len(part)].ok
        BY <4>3 DEF Added, Refused
      <4>5. At(part, Len(part)) = "]"
        BY <4>4 DEF Closes
      <4> QED
        BY <2>4, <3>1, <4>5
    <3> HIDE DEF low
    <3> QED
      BY <1>1, <1>3, <2>2, <3>1
  <2>5. ASSUME At(part, low.next) = "-"
        PROVE  /\ low.next + 1 \in 1..Len(part)
               /\ lowThere.next + 1 = d + (low.next + 1)
               /\ At(pattern, lowThere.next + 1) = At(part, low.next + 1)
    <3> DEFINE n == low.next + 1
    <3>1. n \in 1..Len(part) /\ lowThere.next + 1 = d + n
      <4>1. low.next + 1 <= Len(part)
        BY <2>4, <2>5
      <4> HIDE DEF low, lowThere
      <4> QED
        BY <1>1, <1>3, <1>4, <4>1
    <3> HIDE DEF n
    <3>2. At(pattern, d + n) = At(part, n)
      BY <3>1, AtThere
    <3> QED
      BY <3>1, <3>2 DEF n
  <2>6. dashedThere <=> dashed
    BY <2>3, <2>5
  <2>7. CASE ~dashed
    <3>1. itThere = Added({lowThere.byte}, there[lowThere.next])
      BY <1>4, <1>7, <2>6, <2>7, MemberIs
    <3>2. itThere = Added({low.byte}, there[d + low.next])
      BY <1>4, <3>1
    <3>3. it = Added({low.byte}, rest[low.next])
      BY <2>1, <2>7
    <3>4. Both({low.byte}, low.next)
      BY <1>3, <3>2, <3>3
    <3>10. Outcome
      <4> HIDE DEF Both, Outcome
      <4> QED
        BY <1>5, <3>4
    <3> QED
      BY <3>10
  <2>8. CASE dashed
    <3>1. high.ok /\ ~(Code(high.byte) < Code(low.byte))
      <4>1. it # Refused
        BY DEF Refused
      <4> QED
        BY <1>2, <1>7, <2>8, <4>1, MemberIs
    <3>2. it = Added(RangeOf(low.byte, high.byte), rest[high.next])
      BY <1>2, <1>7, <2>8, <3>1, MemberIs
    <3> DEFINE n == low.next + 1
    <3>3. n \in 1..Len(part) /\ lowThere.next + 1 = d + n /\ high = Element(part, n, TRUE)
          /\ highThere = Element(pattern, d + n, TRUE)
      BY <2>5, <2>8
    <3> HIDE DEF n
    <3>4. highThere.ok /\ highThere.byte = high.byte /\ highThere.next = d + high.next
      <4>1. Element(part, n, TRUE).ok
        BY <3>1, <3>3
      <4>2. SameElement(Element(part, n, TRUE), Element(pattern, d + n, TRUE), d)
        BY <3>3, <4>1, ElementThere
      <4>3. SameElement(high, highThere, d)
        BY <3>3, <4>2
      <4> QED
        BY <4>3 DEF SameElement
    <3>5. high.next \in (n + 1)..(Len(part) + 1)
      <4>1. Element(part, n, TRUE).ok
        BY <3>1, <3>3
      <4>2. Element(part, n, TRUE).next \in (n + 1)..(Len(part) + 1)
        BY <1>1, <3>3, <4>1, ElementIs
      <4> QED
        BY <3>3, <4>2
    <3>6. high.next \in (i + 1)..(Len(part) + 1)
      <4>1. n = low.next + 1
        BY DEF n
      <4>2. high.next \in (n + 1)..(Len(part) + 1) /\ low.next \in (i + 1)..(Len(part) + 1)
        BY <1>3, <3>5
      <4> HIDE DEF low, high
      <4> QED
        BY <1>1, <4>1, <4>2
    <3>7. itThere = Added(RangeOf(lowThere.byte, highThere.byte), there[highThere.next])
      <4>1. ~(Code(highThere.byte) < Code(lowThere.byte)) /\ ~lowThere.short /\ dashedThere
        BY <1>4, <1>7, <2>6, <2>8, <3>1, <3>4
      <4> QED
        BY <1>4, <3>4, <4>1, MemberIs
    <3>8. itThere = Added(RangeOf(low.byte, high.byte), there[d + high.next])
      BY <1>4, <3>4, <3>7
    <3>9. Both(RangeOf(low.byte, high.byte), high.next)
      BY <3>2, <3>6, <3>8
    <3>10. Outcome
      <4> HIDE DEF Both, Outcome
      <4> QED
        BY <1>5, <3>9
    <3> QED
      BY <3>10
  <2> QED
    BY <2>7, <2>8
<1> QED
  BY <1>3, <1>6, <1>7

ClassTurn(rest, pattern, i) ==
    IF At(pattern, i) = End THEN Refused
    ELSE IF At(pattern, i) = "]" THEN Compiled("one", {}, i + 1)
    ELSE ClassMember(pattern, i, rest)
IsClassBody(rest, pattern) == rest = [i \in 1..(Len(pattern) + 1) |-> ClassTurn(rest, pattern, i)]

ClassResults(pattern) ==
    {Refused} \union {Compiled("one", set, next) : set \in SUBSET ClassBytes(pattern),
                                                   next \in 1..(Len(pattern) + 1)}

LEMMA AddedIs ==
    ASSUME NEW pattern, NEW a \in ClassResults(pattern), NEW set \in SUBSET ClassBytes(pattern)
    PROVE  /\ Added(set, a) \in ClassResults(pattern) /\ Added(set, a).ok = a.ok
           /\ a.ok => Added(set, a).next = a.next
<1> DEFINE B == ClassBytes(pattern)
           N == 1..(Len(pattern) + 1)
<1>1. CASE a = Refused
  BY <1>1 DEF Added, Refused, ClassResults
<1>2. CASE a # Refused
  <2>1. PICK s \in SUBSET B, n \in N : a = Compiled("one", s, n)
    BY <1>2 DEF ClassResults
  <2>2. set \union s \in SUBSET B
    OBVIOUS
  <2> HIDE DEF B, N
  <2>3. Added(set, a) = Compiled("one", set \union s, n)
    BY <2>1 DEF Added, Compiled
  <2>4. Added(set, a) \in ClassResults(pattern)
    BY <2>2, <2>3 DEF ClassResults, B, N
  <2>5. Added(set, a).ok = TRUE /\ a.ok = TRUE /\ a.next = n /\ Added(set, a).next = n
    BY <2>1, <2>3 DEF Compiled
  <2> QED
    BY <2>4, <2>5
<1> QED
  BY <1>1, <1>2

LEMMA ResultsAre ==
    ASSUME NEW pattern, NEW a \in ClassResults(pattern)
    PROVE  IsResult(a) /\ (a.ok => a # Refused /\ a.kind = "one" /\ a.next \in 1..(Len(pattern) + 1))
<1>1. CASE a = Refused
  BY <1>1 DEF Refused, IsResult
<1>2. CASE a # Refused
  <2>1. PICK s \in SUBSET ClassBytes(pattern), n \in 1..(Len(pattern) + 1) : a = Compiled("one", s, n)
    BY <1>2 DEF ClassResults
  <2>2. a.set = s /\ a.next = n /\ a.kind = "one"
    BY <2>1 DEF Compiled
  <2> QED
    BY <1>2, <2>1, <2>2 DEF IsResult
<1> QED
  BY <1>1, <1>2

LEMMA ClassBodyExists ==
    ASSUME NEW pattern \in Seq(Bytes)
    PROVE  \E rest \in [1..(Len(pattern) + 1) -> ClassResults(pattern)] : IsClassBody(rest, pattern)
<1> DEFINE n == Len(pattern) + 1
           R == ClassResults(pattern)
           F == [1..n -> R]
           step == [i \in 1..n |-> [f \in F |-> ClassTurn(f, pattern, i)]]
<1> HIDE DEF Bytes
<1>1. Len(pattern) \in Nat /\ n \in Nat /\ 1 \in Nat /\ n = Len(pattern) + 1
  BY PatternIs
<1>2. Refused \in R
  BY DEF ClassResults
<1>3. \A i \in 1..n : \A f \in F : step[i][f] = ClassTurn(f, pattern, i)
  OBVIOUS
<1> HIDE DEF step, n
<1>4. ASSUME NEW i \in 1..n
      PROVE  /\ \A f \in F : ClassTurn(f, pattern, i) \in R
             /\ \A f, g \in F : (\A j \in (i + 1)..n : f[j] = g[j])
                                   => ClassTurn(f, pattern, i) = ClassTurn(g, pattern, i)
  <2>1. CASE At(pattern, i) = End
    BY <1>2, <2>1 DEF ClassTurn
  <2>2. CASE At(pattern, i) # End /\ At(pattern, i) = "]"
    <3>1. i + 1 \in 1..n
      BY <1>1, <2>2, PatternIs
    <3>2. Compiled("one", {}, i + 1) \in R
      BY <1>1, <3>1 DEF ClassResults
    <3>3. \A f : ClassTurn(f, pattern, i) = Compiled("one", {}, i + 1)
      BY <2>2 DEF ClassTurn
    <3> HIDE DEF R
    <3> QED
      BY <3>2, <3>3
  <2>3. CASE At(pattern, i) # End /\ At(pattern, i) # "]"
    <3>1. i \in 1..Len(pattern)
      BY <1>1, <2>3, PatternIs
    <3>2. \A f : ClassTurn(f, pattern, i) = ClassMember(pattern, i, f)
      BY <2>3 DEF ClassTurn
    <3>3. CASE Refuses(pattern, i)
      <4>1. \A f : ClassTurn(f, pattern, i) = Refused
        BY <3>2, <3>3 DEF Refuses
      <4> HIDE DEF R
      <4> QED
        BY <1>2, <4>1
    <3>4. ASSUME NEW set \in SUBSET ClassBytes(pattern), NEW next \in (i + 1)..(Len(pattern) + 1),
                 AddsAt(pattern, i, set, next)
          PROVE  /\ \A f \in F : ClassTurn(f, pattern, i) \in R
                 /\ \A f, g \in F : (\A j \in (i + 1)..n : f[j] = g[j])
                                       => ClassTurn(f, pattern, i) = ClassTurn(g, pattern, i)
      <4>1. \A f : ClassTurn(f, pattern, i) = Added(set, f[next])
        BY <3>2, <3>4 DEF AddsAt
      <4>2. next \in (i + 1)..n /\ next \in 1..n
        BY <1>1
      <4>3. \A f \in F : Added(set, f[next]) \in R
        BY <4>2, AddedIs
      <4> HIDE DEF R
      <4> QED
        BY <4>1, <4>2, <4>3
    <3> QED
      BY <3>1, <3>3, <3>4, MemberAdds
  <2> QED
    BY <2>1, <2>2, <2>3
<1> HIDE DEF R, F
<1>5. LooksAhead(1, n, R, step)
  BY <1>1, <1>2, <1>3, <1>4 DEF LooksAhead, F
<1>6. PICK rest \in F : \A i \in 1..n : rest[i] = step[i][rest]
  BY <1>5, AheadExists DEF F
<1>7. rest = [i \in 1..n |-> ClassTurn(rest, pattern, i)]
  BY <1>3, <1>6 DEF F
<1> QED
  BY <1>7 DEF IsClassBody, n, F, R

LEMMA ClassBodyIsOne ==
    ASSUME NEW pattern, \E rest : IsClassBody(rest, pattern)
    PROVE  IsClassBody(ClassBody(pattern), pattern)
BY DEF IsClassBody, ClassTurn, ClassBody, Turns

\* A class ends with its bracket, inside the pattern.
LEMMA ClassBodyIs ==
    ASSUME NEW pattern \in Seq(Bytes)
    PROVE  /\ \A i \in 1..(Len(pattern) + 1) :
                /\ ClassBody(pattern)[i] = ClassTurn(ClassBody(pattern), pattern, i)
                /\ ClassBody(pattern)[i] \in ClassResults(pattern)
                /\ ClassBody(pattern)[i].ok =>
                      ClassBody(pattern)[i].next \in (i + 1)..(Len(pattern) + 1)
           /\ 1 <= Len(pattern) => Closes(ClassBody(pattern), pattern)
<1> DEFINE n == Len(pattern) + 1
           R == ClassResults(pattern)
           rest == ClassBody(pattern)
           Good(i) == rest[i] \in R /\ (rest[i].ok => rest[i].next \in (i + 1)..n)
           S == {i \in 1..n : Good(i)}
<1> HIDE DEF Bytes
<1>1. Len(pattern) \in Nat /\ n \in Nat /\ 1 \in Nat /\ n = Len(pattern) + 1
  BY PatternIs
<1>2. IsClassBody(rest, pattern)
  BY ClassBodyExists, ClassBodyIsOne
<1> HIDE DEF rest
<1>3. \A i \in 1..n : rest[i] = ClassTurn(rest, pattern, i)
  BY <1>2 DEF IsClassBody
<1> HIDE DEF n
<1>4. ASSUME NEW i \in 1..n, \A j \in (i + 1)..n : Good(j) PROVE Good(i)
  <2>1. CASE At(pattern, i) = End
    <3>1. rest[i] = Refused
      BY <1>3, <2>1 DEF ClassTurn
    <3> QED
      BY <3>1 DEF Refused, ClassResults
  <2>2. CASE At(pattern, i) # End /\ At(pattern, i) = "]"
    <3>1. i + 1 \in 1..n /\ i + 1 \in (i + 1)..n
      BY <1>1, <2>2, PatternIs
    <3>2. rest[i] = Compiled("one", {}, i + 1)
      BY <1>3, <2>2 DEF ClassTurn
    <3>3. rest[i] \in R
      BY <1>1, <3>1, <3>2 DEF ClassResults
    <3>4. rest[i].next = i + 1
      BY <3>2 DEF Compiled
    <3> HIDE DEF R
    <3> QED
      BY <3>1, <3>3, <3>4
  <2>3. CASE At(pattern, i) # End /\ At(pattern, i) # "]"
    <3>1. i \in 1..Len(pattern)
      BY <1>1, <2>3, PatternIs
    <3>2. rest[i] = ClassMember(pattern, i, rest)
      BY <1>3, <2>3 DEF ClassTurn
    <3>3. CASE Refuses(pattern, i)
      <4>1. rest[i] = Refused
        BY <3>2, <3>3 DEF Refuses
      <4> QED
        BY <4>1 DEF Refused, ClassResults
    <3>4. ASSUME NEW set \in SUBSET ClassBytes(pattern), NEW next \in (i + 1)..(Len(pattern) + 1),
                 AddsAt(pattern, i, set, next)
          PROVE  Good(i)
      <4>1. rest[i] = Added(set, rest[next])
        BY <3>2, <3>4 DEF AddsAt
      <4>2. next \in (i + 1)..n /\ i \in Nat
        BY <1>1
      <4>3. rest[next] \in R /\ (rest[next].ok => rest[next].next \in (next + 1)..n)
        BY <1>4, <4>2
      <4>4. rest[i] \in R /\ rest[i].ok = rest[next].ok /\ (rest[next].ok => rest[i].next = rest[next].next)
        BY <4>1, <4>3, AddedIs
      <4>5. \A m \in (next + 1)..n : m \in (i + 1)..n
        BY <1>1, <4>2
      <4> HIDE DEF R
      <4> QED
        BY <4>3, <4>4, <4>5
    <3> QED
      BY <3>1, <3>3, <3>4, MemberAdds
  <2> QED
    BY <2>1, <2>2, <2>3
<1>5. \A i \in 1..n : Good(i)
  <2> HIDE DEF Good
  <2>1. Falls(1, n, S)
    <3>1. ASSUME NEW i \in 1..n, \A j \in (i + 1)..n : j \in S PROVE i \in S
      BY <1>4, <3>1
    <3> HIDE DEF S
    <3> QED
      BY <3>1 DEF Falls
  <2>2. \A i \in 1..n : i \in S
    <3> HIDE DEF S
    <3> QED
      BY <1>1, <2>1, FallInduction
  <2> QED
    BY <2>2
<1>6. \A i \in 1..n : IsResult(rest[i])
  BY <1>5, ResultsAre
<1>7. ASSUME 1 <= Len(pattern) PROVE Closes(rest, pattern)
  <2> DEFINE last == Len(pattern)
  <2>1. n \in 1..n /\ last \in 1..n /\ last \in 1..Len(pattern) /\ last + 1 = n
    BY <1>1, <1>7
  <2>2. rest[n] = Refused
    <3>1. At(pattern, n) = End
      BY <1>1, PatternIs
    <3> QED
      BY <1>3, <2>1, <3>1 DEF ClassTurn
  <2>3. ~rest[n].ok
    BY <2>2 DEF Refused
  <2>4. rest[last].ok => At(pattern, last) = "]"
    <3>1. ASSUME rest[last].ok PROVE rest[last].next \in (last + 1)..n
      <4> HIDE DEF R, last
      <4> QED
        BY <1>5, <2>1, <3>1
    <3>2. ASSUME At(pattern, last) # "]", rest[last].ok PROVE FALSE
      <4>1. At(pattern, last) # End
        BY <2>1, PatternIs
      <4>2. rest[last] = ClassMember(pattern, last, rest)
        BY <1>3, <2>1, <3>2, <4>1 DEF ClassTurn
      <4>3. ~Refuses(pattern, last)
        BY <3>2, <4>2 DEF Refuses, Refused
      <4>4. PICK set \in SUBSET ClassBytes(pattern), next \in (last + 1)..(Len(pattern) + 1) :
                AddsAt(pattern, last, set, next)
        BY <2>1, <4>3, MemberAdds
      <4>5. next = n
        BY <1>1, <2>1
      <4>6. rest[last] = Added(set, rest[n])
        BY <4>2, <4>4, <4>5 DEF AddsAt
      <4>7. rest[last] = Refused
        BY <2>3, <4>6 DEF Added
      <4> QED
        BY <3>2, <4>7 DEF Refused
    <3> QED
      BY <3>2
  <2> QED
    BY <1>1, <1>6, <2>3, <2>4 DEF Closes
<1>8. \A i \in 1..(Len(pattern) + 1) :
        /\ rest[i] = ClassTurn(rest, pattern, i)
        /\ rest[i] \in R
        /\ rest[i].ok => rest[i].next \in (i + 1)..(Len(pattern) + 1)
  <2> HIDE DEF R
  <2> QED
    BY <1>1, <1>3, <1>5
<1> QED
  BY <1>7, <1>8 DEF rest

\* A class of a part is the class that stands there.
LEMMA ClassBodyThere ==
    ASSUME NEW part, NEW pattern, NEW d, Lies(part, pattern, d), 1 <= Len(part)
    PROVE  \A i \in 1..Len(part) : Moved(ClassBody(part)[i], ClassBody(pattern)[d + i], d)
<1> DEFINE n == Len(part)
           rest == ClassBody(part)
           there == ClassBody(pattern)
           S == {i \in 1..n : Moved(rest[i], there[d + i], d)}
<1> HIDE DEF Bytes
<1>1. part \in Seq(Bytes) /\ pattern \in Seq(Bytes) /\ n \in Nat /\ d \in Nat /\ 1 \in Nat /\ n = Len(part)
      /\ Len(pattern) \in Nat
  BY PatternIs DEF Lies
<1>2. Closes(rest, part) /\ \A i \in 1..n : rest[i] = ClassTurn(rest, part, i)
  BY <1>1, ClassBodyIs
<1>3. \A i \in 1..Len(pattern) : there[i] = ClassTurn(there, pattern, i)
  BY <1>1, ClassBodyIs
<1> HIDE DEF rest, there, n
<1>4. ASSUME NEW i \in 1..n, \A j \in (i + 1)..n : j \in S PROVE i \in S
  <2>1. d + i \in 1..Len(pattern) /\ At(pattern, d + i) = At(part, i) /\ At(part, i) # End
        /\ i \in 1..Len(part) /\ (d + i) + 1 = d + (i + 1)
    BY <1>1, AtThere
  <2>2. rest[i] = ClassTurn(rest, part, i) /\ there[d + i] = ClassTurn(there, pattern, d + i)
    BY <1>2, <1>3, <2>1
  <2>3. CASE At(part, i) = "]"
    <3>1. rest[i] = Compiled("one", {}, i + 1) /\ there[d + i] = Compiled("one", {}, d + (i + 1))
      BY <2>1, <2>2, <2>3 DEF ClassTurn
    <3>2. rest[i].kind = "one" /\ rest[i].set = {} /\ rest[i].next = i + 1
      BY <3>1 DEF Compiled
    <3> QED
      BY <3>1, <3>2 DEF Moved
  <2>4. CASE At(part, i) # "]"
    <3>1. rest[i] = ClassMember(part, i, rest) /\ there[d + i] = ClassMember(pattern, d + i, there)
      BY <2>1, <2>2, <2>4 DEF ClassTurn
    <3>2. \A j \in (i + 1)..Len(part) : Moved(rest[j], there[d + j], d)
      BY <1>1, <1>4
    <3>3. ASSUME rest[i].ok PROVE Moved(rest[i], there[d + i], d)
      <4>1. ClassMember(part, i, rest).ok
        BY <3>1, <3>3
      <4>2. Moved(ClassMember(part, i, rest), ClassMember(pattern, d + i, there), d)
        BY <1>2, <2>1, <3>2, <4>1, MemberThere
      <4> QED
        BY <3>1, <4>2
    <3>4. ~rest[i].ok => Moved(rest[i], there[d + i], d)
      BY DEF Moved
    <3> QED
      BY <3>3, <3>4
  <2> QED
    BY <2>3, <2>4
<1>5. \A i \in 1..n : i \in S
  <2> HIDE DEF S
  <2> QED
    BY <1>1, <1>4, FallInduction DEF Falls
<1> QED
  BY <1>5 DEF n, rest, there

LEMMA NegatedIs ==
    ASSUME NEW body, IsResult(body), NEW negated \in BOOLEAN
    PROVE  /\ Negated(body, negated).ok = body.ok
           /\ body.ok => /\ body = Compiled("one", body.set, body.next)
                         /\ Negated(body, negated)
                              = Compiled("one", IF negated THEN Bytes \ body.set ELSE body.set, body.next)
<1> HIDE DEF Bytes
<1>1. CASE body = Refused
  BY <1>1 DEF Negated, Refused
<1>2. CASE body # Refused
  <2> DEFINE s == body.set
             m == body.next
  <2>1. body = Compiled("one", s, m)
    BY <1>2 DEF IsResult
  <2> HIDE DEF s, m
  <2>2. body.ok = TRUE
    BY <2>1 DEF Compiled
  <2>3. Negated(Compiled("one", s, m), TRUE) = Compiled("one", Bytes \ s, m)
    BY DEF Negated, Compiled
  <2>4. Negated(Compiled("one", s, m), FALSE) = Compiled("one", s, m)
    BY DEF Negated
  <2>5. CASE negated
    <3>1. Negated(body, negated) = Compiled("one", Bytes \ s, m)
      BY <2>1, <2>3, <2>5, Zenon
    <3>2. Negated(body, negated).ok = TRUE
      BY <3>1 DEF Compiled
    <3> QED
      BY <2>1, <2>2, <2>5, <3>1, <3>2 DEF s, m
  <2>6. CASE ~negated
    <3>1. Negated(body, negated) = body
      BY <2>6 DEF Negated
    <3> QED
      BY <2>1, <2>2, <2>6, <3>1 DEF s, m
  <2> QED
    BY <2>5, <2>6
<1> QED
  BY <1>1, <1>2

\* Where a class starts behind its bracket at i, if it has a member.
LEMMA ClassIs ==
    ASSUME NEW pattern \in Seq(Bytes), NEW i \in 1..(Len(pattern) + 1), Class(pattern, i).ok
    PROVE  LET first == FirstMember(pattern, i)
               body == ClassMember(pattern, first, ClassBody(pattern))
           IN  /\ first \in 1..Len(pattern) /\ i <= first /\ body.ok /\ IsResult(body)
               /\ Class(pattern, i) = Negated(body, At(pattern, i) = "^")
               /\ body.next \in (i + 1)..(Len(pattern) + 1)
<1> DEFINE first == FirstMember(pattern, i)
           rest == ClassBody(pattern)
           body == ClassMember(pattern, first, rest)
           negated == At(pattern, i) = "^"
<1> HIDE DEF Bytes
<1>1. Len(pattern) \in Nat /\ i \in Nat /\ first \in Nat /\ i <= first /\ 1 <= first
  BY PatternIs DEF FirstMember
<1>2. Class(pattern, i) = Negated(IF At(pattern, first) = End THEN Refused ELSE body, negated)
  BY DEF Class, ClassMembers, Negated, FirstMember
<1> HIDE DEF first
<1>3. At(pattern, first) # End
  <2>1. ASSUME At(pattern, first) = End PROVE FALSE
    <3>1. Class(pattern, i) = Negated(Refused, negated)
      BY <1>2, <2>1
    <3> QED
      BY <3>1 DEF Negated, Refused
  <2> QED
    BY <2>1
<1>4. first \in 1..Len(pattern)
  BY <1>1, <1>3, PatternIs
<1>5. Class(pattern, i) = Negated(body, negated)
  BY <1>2, <1>3
<1>6. ~Refuses(pattern, first)
  <2>1. ASSUME body = Refused PROVE FALSE
    <3>1. Class(pattern, i) = Negated(Refused, negated)
      BY <1>5, <2>1
    <3> QED
      BY <3>1 DEF Negated, Refused
  <2> QED
    BY <2>1 DEF Refuses
<1>7. PICK set \in SUBSET ClassBytes(pattern), next \in (first + 1)..(Len(pattern) + 1) :
         AddsAt(pattern, first, set, next)
  BY <1>4, <1>6, MemberAdds
<1>8. body = Added(set, rest[next])
  BY <1>7 DEF AddsAt
<1> DEFINE a == rest[next]
<1>9. a \in ClassResults(pattern) /\ (a.ok => a.next \in (next + 1)..(Len(pattern) + 1))
  <2>1. next \in 1..(Len(pattern) + 1)
    BY <1>1
  <2> QED
    BY <2>1, ClassBodyIs
<1> HIDE DEF a, body
<1>10. body \in ClassResults(pattern) /\ body.ok = a.ok /\ (a.ok => body.next = a.next)
  BY <1>8, <1>9, AddedIs DEF a
<1>11. IsResult(body)
  BY <1>10, ResultsAre
<1>12. body.ok
  BY <1>5, <1>11, NegatedIs
<1>13. body.next \in (i + 1)..(Len(pattern) + 1)
  BY <1>1, <1>9, <1>10, <1>12
<1> QED
  BY <1>1, <1>4, <1>5, <1>11, <1>12, <1>13 DEF body, first

LEMMA ClassThere ==
    ASSUME NEW part, NEW pattern, NEW d, Lies(part, pattern, d), NEW i \in 1..(Len(part) + 1),
           Class(part, i).ok
    PROVE  /\ Moved(Class(part, i), Class(pattern, d + i), d)
           /\ Class(part, i).kind = "one"
<1> DEFINE first == FirstMember(part, i)
           rest == ClassBody(part)
           body == ClassMember(part, first, rest)
           negated == At(part, i) = "^"
           firstThere == FirstMember(pattern, d + i)
           there == ClassBody(pattern)
           bodyThere == ClassMember(pattern, firstThere, there)
           negatedThere == At(pattern, d + i) = "^"
<1> HIDE DEF Bytes
<1>1. part \in Seq(Bytes) /\ pattern \in Seq(Bytes) /\ Len(part) \in Nat /\ d \in Nat /\ i \in Nat
  BY PatternIs DEF Lies
<1>2. /\ first \in 1..Len(part) /\ i <= first /\ body.ok /\ IsResult(body)
      /\ Class(part, i) = Negated(body, negated)
  BY <1>1, ClassIs
<1>3. i \in 1..Len(part) /\ 1 <= Len(part)
  <2> HIDE DEF first
  <2> QED
    BY <1>1, <1>2
<1>4. At(pattern, d + i) = At(part, i)
  BY <1>3, AtThere
<1>5. firstThere = d + first /\ (negatedThere <=> negated)
  <2>1. d + i + 1 = d + (i + 1)
    BY <1>1
  <2> QED
    BY <1>4, <2>1 DEF FirstMember
<1>6. At(part, first) # End /\ At(pattern, d + first) # End
  <2> HIDE DEF first
  <2> QED
    BY <1>2, AtThere
<1>7. Class(pattern, d + i) = Negated(bodyThere, negatedThere)
  <2>1. Class(pattern, d + i) = Negated(IF At(pattern, firstThere) = End THEN Refused ELSE bodyThere, negatedThere)
    BY DEF Class, ClassMembers, Negated, FirstMember
  <2> QED
    BY <1>5, <1>6, <2>1
<1>8. Moved(body, bodyThere, d)
  <2>1. Closes(rest, part) /\ \A j \in 1..Len(part) : Moved(rest[j], there[d + j], d)
    BY <1>1, <1>3, ClassBodyIs, ClassBodyThere
  <2>2. \A j \in (first + 1)..Len(part) : j \in 1..Len(part)
    <3> HIDE DEF first
    <3> QED
      BY <1>1, <1>2
  <2>3. \A j \in (first + 1)..Len(part) : Moved(rest[j], there[d + j], d)
    <3> HIDE DEF rest, there, first
    <3> QED
      BY <2>1, <2>2
  <2> HIDE DEF first, rest, there
  <2>4. Moved(ClassMember(part, first, rest), ClassMember(pattern, d + first, there), d)
    BY <1>2, <2>1, <2>3, MemberThere
  <2> QED
    BY <1>5, <2>4
<1> DEFINE s == body.set
           m == body.next
           kept == IF negated THEN Bytes \ s ELSE s
<1>9. /\ body = Compiled("one", s, m)
      /\ Negated(body, negated) = Compiled("one", kept, m)
  BY <1>2, NegatedIs
<1>10. bodyThere = Compiled("one", s, d + m)
  <2>1. body.kind = "one"
    BY <1>9 DEF Compiled
  <2> QED
    BY <1>2, <1>8, <2>1 DEF Moved
<1> HIDE DEF s, m, body, bodyThere, negated, negatedThere
<1>11. bodyThere.set = s /\ bodyThere.next = d + m /\ bodyThere.ok
  BY <1>10 DEF Compiled
<1>12. IsResult(bodyThere)
  BY <1>10, <1>11 DEF IsResult
<1>13. Negated(bodyThere, negatedThere) = Compiled("one", kept, d + m)
  <2>1. negatedThere \in BOOLEAN
    BY DEF negatedThere
  <2>2. Negated(bodyThere, negatedThere)
          = Compiled("one", IF negatedThere THEN Bytes \ s ELSE s, d + m)
    BY <1>11, <1>12, <2>1, NegatedIs
  <2> QED
    BY <1>5, <2>2
<1>14. Class(part, i) = Compiled("one", kept, m) /\ Class(pattern, d + i) = Compiled("one", kept, d + m)
  BY <1>2, <1>7, <1>9, <1>13
<1> HIDE DEF kept
<1>15. Class(part, i).kind = "one" /\ Class(part, i).set = kept /\ Class(part, i).next = m
  BY <1>14 DEF Compiled
<1> QED
  BY <1>14, <1>15 DEF Moved

\* What the atom at i is, by its first byte; j and k are the next two places.
UnquantifiedAs(pattern, i, j, k) ==
    LET byte == At(pattern, i)
        escaped == At(pattern, j)
        it == Unquantified(pattern, i)
    IN  /\ byte \in NotAnAtom => it = Refused
        /\ byte = "^" => it = Compiled("start", {}, j)
        /\ byte = "$" => it = Compiled("end", {}, j)
        /\ byte = "." => it = Compiled("one", Bytes \ {"\n"}, j)
        /\ byte = "[" => it = Class(pattern, j)
        /\ byte = "\\" /\ escaped \in ShorthandNames
              => it = Compiled("one", Shorthand(escaped), k)
        /\ byte = "\\" /\ escaped \notin ShorthandNames
              => it = IF escaped \in {End, "p", "P", "b", "B"} \union (Digits \ {"0"})
                      THEN Refused ELSE Compiled("one", {EscapeLiteral(escaped)}, k)
        /\ byte \notin NotAnAtom \union {"^", "$", ".", "[", "\\"}
              => it = Compiled("one", {byte}, j)

LEMMA UnquantifiedBy ==
    ASSUME NEW pattern, NEW i
    PROVE  UnquantifiedAs(pattern, i, i + 1, i + 2)
<1> DEFINE byte == At(pattern, i)
           escaped == At(pattern, i + 1)
           it == Unquantified(pattern, i)
<1> HIDE DEF Bytes
<1>1. byte \in NotAnAtom => it = Refused
  BY DEF Unquantified, NotAnAtom
<1>2. byte = "^" => it = Compiled("start", {}, i + 1)
  BY DEF Unquantified, NotAnAtom
<1>3. byte = "$" => it = Compiled("end", {}, i + 1)
  BY DEF Unquantified, NotAnAtom
<1>4. byte = "." => it = Compiled("one", Bytes \ {"\n"}, i + 1)
  BY DEF Unquantified, NotAnAtom
<1>5. byte = "[" => it = Class(pattern, i + 1)
  BY DEF Unquantified, NotAnAtom
<1>6. byte = "\\" => it = IF escaped \in ShorthandNames THEN Compiled("one", Shorthand(escaped), i + 2)
                ELSE IF escaped \in {End, "p", "P", "b", "B"} \union (Digits \ {"0"})
                     THEN Refused
                ELSE Compiled("one", {EscapeLiteral(escaped)}, i + 2)
  BY DEF Unquantified, NotAnAtom
<1>7. byte \notin NotAnAtom \union {"^", "$", ".", "[", "\\"} => it = Compiled("one", {byte}, i + 1)
  BY DEF Unquantified
<1> QED
  BY <1>1, <1>2, <1>3, <1>4, <1>5, <1>6, <1>7 DEF UnquantifiedAs

LEMMA UnquantifiedIs ==
    ASSUME NEW pattern \in Seq(Bytes), NEW i \in 1..Len(pattern), Unquantified(pattern, i).ok
    PROVE  /\ At(pattern, i) \notin NotAnAtom
           /\ Unquantified(pattern, i).next \in (i + 1)..(Len(pattern) + 1)
           /\ Unquantified(pattern, i).kind \in {"start", "end", "one"}
<1> DEFINE byte == At(pattern, i)
           escaped == At(pattern, i + 1)
           it == Unquantified(pattern, i)
<1> HIDE DEF Bytes
<1>1. Len(pattern) \in Nat /\ i \in Nat /\ i + 1 \in 1..(Len(pattern) + 1)
  BY PatternIs
<1>0. UnquantifiedAs(pattern, i, i + 1, i + 2)
  BY UnquantifiedBy
<1>2. byte \notin NotAnAtom
  <2>1. byte \in NotAnAtom => it = Refused
    BY <1>0 DEF UnquantifiedAs
  <2> QED
    BY <2>1 DEF Refused
<1> DEFINE Fine == it.next \in (i + 1)..(Len(pattern) + 1) /\ it.kind \in {"start", "end", "one"}
<1>3. ASSUME NEW kind \in {"start", "end", "one"}, NEW set, it = Compiled(kind, set, i + 1) PROVE Fine
  <2>1. it.next = i + 1 /\ it.kind = kind
    BY <1>3 DEF Compiled
  <2> HIDE DEF it
  <2> QED
    BY <1>1, <2>1
<1>4. ASSUME NEW set, it = Compiled("one", set, i + 2), escaped # End PROVE Fine
  <2>1. it.next = i + 2 /\ it.kind = "one"
    BY <1>4 DEF Compiled
  <2>2. i + 1 <= Len(pattern)
    BY <1>1, <1>4, PatternIs
  <2> HIDE DEF it
  <2> QED
    BY <1>1, <2>1, <2>2
<1>5. ASSUME byte = "^" PROVE Fine
  <2>1. it = Compiled("start", {}, i + 1)
    BY <1>0, <1>5 DEF UnquantifiedAs
  <2> HIDE DEF it, Fine
  <2> QED
    BY <1>3, <2>1
<1>6. ASSUME byte = "$" PROVE Fine
  <2>1. it = Compiled("end", {}, i + 1)
    BY <1>0, <1>6 DEF UnquantifiedAs
  <2> HIDE DEF it, Fine
  <2> QED
    BY <1>3, <2>1
<1>7. ASSUME byte = "." PROVE Fine
  <2>1. it = Compiled("one", Bytes \ {"\n"}, i + 1)
    BY <1>0, <1>7 DEF UnquantifiedAs
  <2> HIDE DEF it, Fine
  <2> QED
    BY <1>3, <2>1
<1>8. ASSUME byte = "[" PROVE Fine
  <2>1. it = Class(pattern, i + 1)
    BY <1>0, <1>8 DEF UnquantifiedAs
  <2>2. Class(pattern, i + 1).ok
    BY <2>1
  <2> DEFINE body == ClassMember(pattern, FirstMember(pattern, i + 1), ClassBody(pattern))
  <2>3. /\ body.ok /\ IsResult(body) /\ it = Negated(body, At(pattern, i + 1) = "^")
        /\ body.next \in ((i + 1) + 1)..(Len(pattern) + 1)
    BY <1>1, <2>1, <2>2, ClassIs
  <2> DEFINE kept == IF At(pattern, i + 1) = "^" THEN Bytes \ body.set ELSE body.set
             next == body.next
  <2>4. it = Compiled("one", kept, next)
    BY <2>3, NegatedIs
  <2>5. it.next = next /\ it.kind = "one"
    BY <2>4 DEF Compiled
  <2>6. next \in (i + 1)..(Len(pattern) + 1)
    <3> HIDE DEF body
    <3> QED
      BY <1>1, <2>3
  <2> HIDE DEF next
  <2> QED
    BY <2>5, <2>6
<1>9. ASSUME byte = "\\" /\ escaped \in ShorthandNames PROVE Fine
  <2>1. it = Compiled("one", Shorthand(escaped), i + 2)
    BY <1>0, <1>9 DEF UnquantifiedAs
  <2>2. escaped # End
    BY <1>9 DEF ShorthandNames, End
  <2> HIDE DEF it, Fine
  <2> QED
    BY <1>4, <2>1, <2>2
<1>10. ASSUME byte = "\\" /\ escaped \notin ShorthandNames PROVE Fine
  <2>1. it = IF escaped \in {End, "p", "P", "b", "B"} \union (Digits \ {"0"})
                             THEN Refused ELSE Compiled("one", {EscapeLiteral(escaped)}, i + 2)
    BY <1>0, <1>10 DEF UnquantifiedAs
  <2>2. escaped \notin {End, "p", "P", "b", "B"} \union (Digits \ {"0"})
    BY <2>1 DEF Refused
  <2>3. it = Compiled("one", {EscapeLiteral(escaped)}, i + 2) /\ escaped # End
    BY <2>1, <2>2
  <2> HIDE DEF it, Fine, escaped
  <2> QED
    BY <1>4, <2>3
<1>11. ASSUME byte \notin NotAnAtom \union {"^", "$", ".", "[", "\\"} PROVE Fine
  <2>1. it = Compiled("one", {byte}, i + 1)
    BY <1>0, <1>11 DEF UnquantifiedAs
  <2> HIDE DEF it, Fine
  <2> QED
    BY <1>3, <2>1
<1> QED
  BY <1>2, <1>5, <1>6, <1>7, <1>8, <1>9, <1>10, <1>11

\* A piece is read alike alone and inside a pattern.
LEMMA UnquantifiedThere ==
    ASSUME NEW part, NEW pattern, NEW d, Lies(part, pattern, d), NEW set,
           Unquantified(part, 1) = Compiled("one", set, Len(part) + 1)
    PROVE  /\ 1 <= Len(part) /\ At(part, 1) \notin NotAnAtom
           /\ Unquantified(pattern, d + 1) = Compiled("one", set, d + Len(part) + 1)
<1> DEFINE n == Len(part)
           byte == At(part, 1)
           escaped == At(part, 2)
           it == Unquantified(part, 1)
           itThere == Unquantified(pattern, d + 1)
<1> HIDE DEF Bytes
<1>1. part \in Seq(Bytes) /\ pattern \in Seq(Bytes) /\ n \in Nat /\ d \in Nat
      /\ 1 + 1 = 2 /\ d + 1 + 1 = d + 2 /\ 1 + 2 = 3 /\ d + 1 + 2 = d + 3
  BY PatternIs DEF Lies
<1>0. UnquantifiedAs(part, 1, 2, 3) /\ UnquantifiedAs(pattern, d + 1, d + 2, d + 3)
  BY <1>1, UnquantifiedBy
<1>2. it.ok /\ it.kind = "one" /\ it.set = set /\ it.next = n + 1
  BY DEF Compiled
<1>3. 1 <= n
  <2>1. ASSUME n = 0 PROVE FALSE
    <3>1. byte = End
      <4>1. At(part, n + 1) = End
        BY <1>1, PatternIs
      <4> QED
        BY <2>1, <4>1
    <3>2. it = Compiled("one", {byte}, 2)
      BY <1>0, <3>1 DEF UnquantifiedAs, End, NotAnAtom
    <3>3. it.next = 2
      BY <3>2 DEF Compiled
    <3> QED
      BY <1>2, <2>1, <3>3
  <2> QED
    BY <1>1, <2>1
<1>4. 1 \in 1..n /\ At(pattern, d + 1) = byte /\ byte # End
  BY <1>1, <1>3, AtThere
<1>5. byte \notin NotAnAtom
  BY <1>1, <1>2, <1>4, UnquantifiedIs
<1> DEFINE Same == itThere = Compiled("one", set, d + n + 1)
<1>6. ASSUME NEW s, it = Compiled("one", s, 2), itThere = Compiled("one", s, d + 2) PROVE Same
  <2>1. it.set = s /\ it.next = 2
    BY <1>6 DEF Compiled
  <2>2. s = set /\ d + n + 1 = d + 2
    <3> HIDE DEF it, n
    <3> QED
      BY <1>1, <1>2, <2>1
  <2> QED
    BY <1>6, <2>2
<1>7. ASSUME byte = "^" PROVE FALSE
  <2>1. it = Compiled("start", {}, 2)
    BY <1>0, <1>7 DEF UnquantifiedAs
  <2>2. it.kind = "start"
    BY <2>1 DEF Compiled
  <2> QED
    BY <1>2, <2>2
<1>8. ASSUME byte = "$" PROVE FALSE
  <2>1. it = Compiled("end", {}, 2)
    BY <1>0, <1>8 DEF UnquantifiedAs
  <2>2. it.kind = "end"
    BY <2>1 DEF Compiled
  <2> QED
    BY <1>2, <2>2
<1>9. ASSUME byte = "." PROVE Same
  <2>1. it = Compiled("one", Bytes \ {"\n"}, 2)
    BY <1>0, <1>9 DEF UnquantifiedAs
  <2>2. itThere = Compiled("one", Bytes \ {"\n"}, d + 2)
    BY <1>0, <1>4, <1>9 DEF UnquantifiedAs
  <2> HIDE DEF it, itThere, Same
  <2> QED
    BY <1>6, <2>1, <2>2
<1>10. ASSUME byte = "[" PROVE Same
  <2>1. it = Class(part, 2)
    BY <1>0, <1>10 DEF UnquantifiedAs
  <2>2. itThere = Class(pattern, d + 2)
    BY <1>0, <1>4, <1>10 DEF UnquantifiedAs
  <2>3. Class(part, 2).ok /\ 2 \in 1..(n + 1)
    BY <1>1, <1>2, <1>3, <2>1
  <2>4. Moved(Class(part, 2), Class(pattern, d + 2), d)
    BY <2>3, ClassThere
  <2>5. itThere = Compiled("one", set, d + (n + 1))
    BY <1>2, <2>1, <2>2, <2>3, <2>4 DEF Moved
  <2>6. d + (n + 1) = d + n + 1
    BY <1>1
  <2> HIDE DEF itThere, n
  <2> QED
    BY <2>5, <2>6
<1>11. ASSUME byte = "\\" PROVE Same
  <2>1. ASSUME escaped = End PROVE FALSE
    <3>1. it = Refused
      BY <1>0, <1>11, <2>1 DEF UnquantifiedAs, End, ShorthandNames
    <3> QED
      BY <1>2, <3>1 DEF Refused
  <2>2. 2 \in 1..n
    BY <1>1, <2>1, PatternIs
  <2>3. At(pattern, d + 2) = escaped
    BY <2>2, AtThere
  <2>4. ASSUME NEW s, it = Compiled("one", s, 3), itThere = Compiled("one", s, d + 3) PROVE Same
    <3>1. it.set = s /\ it.next = 3
      BY <2>4 DEF Compiled
    <3>2. s = set /\ d + n + 1 = d + 3
      <4> HIDE DEF it, n
      <4> QED
        BY <1>1, <1>2, <3>1
    <3> QED
      BY <2>4, <3>2
  <2>5. ASSUME escaped \in ShorthandNames PROVE Same
    <3>1. it = Compiled("one", Shorthand(escaped), 3)
      BY <1>0, <1>11, <2>5 DEF UnquantifiedAs
    <3>2. itThere = Compiled("one", Shorthand(escaped), d + 3)
      BY <1>0, <1>4, <1>11, <2>3, <2>5 DEF UnquantifiedAs
    <3> HIDE DEF it, itThere, Same, escaped
    <3> QED
      BY <2>4, <3>1, <3>2
  <2>6. ASSUME escaped \notin ShorthandNames PROVE Same
    <3> DEFINE Kept(next) == IF escaped \in {End, "p", "P", "b", "B"} \union (Digits \ {"0"})
                             THEN Refused ELSE Compiled("one", {EscapeLiteral(escaped)}, next)
    <3>1. it = Kept(3)
      BY <1>0, <1>11, <2>6 DEF UnquantifiedAs
    <3>2. itThere = Kept(d + 3)
      BY <1>0, <1>4, <1>11, <2>3, <2>6 DEF UnquantifiedAs
    <3>3. it # Refused
      BY <1>2 DEF Refused
    <3>4. it = Compiled("one", {EscapeLiteral(escaped)}, 3)
          /\ itThere = Compiled("one", {EscapeLiteral(escaped)}, d + 3)
      BY <3>1, <3>2, <3>3
    <3> HIDE DEF it, itThere, Same, escaped
    <3> QED
      BY <2>4, <3>4
  <2> QED
    BY <2>5, <2>6
<1>12. ASSUME byte \notin NotAnAtom \union {"^", "$", ".", "[", "\\"} PROVE Same
  <2>1. it = Compiled("one", {byte}, 2)
    BY <1>0, <1>12 DEF UnquantifiedAs
  <2>2. itThere = Compiled("one", {byte}, d + 2)
    BY <1>0, <1>4, <1>12 DEF UnquantifiedAs
  <2> HIDE DEF it, itThere, Same
  <2> QED
    BY <1>6, <2>1, <2>2
<1> QED
  BY <1>3, <1>5, <1>7, <1>8, <1>9, <1>10, <1>11, <1>12

-----------------------------------------------------------------------------
(* Quantifiers.                                                             *)

DigitsOf(pattern) == {k \in DOMAIN pattern : pattern[k] \in Digits}

LEMMA NumberIs ==
    ASSUME NEW pattern \in Seq(Bytes), NEW i \in 1..(Len(pattern) + 1)
    PROVE  LET next == Number(pattern, i).next
           IN  /\ next \in i..(Len(pattern) + 1)
               /\ \A k \in i..(next - 1) : k \in 1..Len(pattern) /\ pattern[k] \in Digits
               /\ next \in 1..Len(pattern) => pattern[next] \notin Digits
               /\ Number(pattern, i).value = Decimal(SubSeq(pattern, i, next - 1))
<1> DEFINE n == Len(pattern)
           on == DigitsOf(pattern)
           next == Number(pattern, i).next
<1> HIDE DEF Bytes
<1>1. n \in Nat /\ i \in Nat /\ i <= n + 1 /\ n + 1 \in Nat /\ DOMAIN pattern = 1..n
  BY PatternIs
<1>2. on = {k \in 1..n : pattern[k] \in Digits}
  BY <1>1 DEF DigitsOf
<1>3. next = LoopEnd(i, n + 1, on)
  BY DEF Number, DigitsOf
<1>4. n + 1 \notin on
  BY <1>1, <1>2
<1>5. /\ next \in i..(n + 1) /\ next \notin on
      /\ \A j \in i..(next - 1) : j \in on
  <2> HIDE DEF on, next
  <2> QED
    BY <1>1, <1>3, <1>4, LoopEndIs
<1>6. Number(pattern, i).value = Decimal(SubSeq(pattern, i, next - 1))
  BY DEF Number
<1> HIDE DEF next, n
<1>7. \A k \in i..(next - 1) : k \in 1..n /\ pattern[k] \in Digits
  BY <1>2, <1>5
<1>8. next \in 1..n => pattern[next] \notin Digits
  BY <1>2, <1>5
<1> QED
  BY <1>5, <1>6, <1>7, <1>8 DEF n, next

\* A number that ends inside a part is the number that stands there.
LEMMA NumberThere ==
    ASSUME NEW part, NEW pattern, NEW d, Lies(part, pattern, d), NEW i \in 1..Len(part),
           Number(part, i).next <= Len(part)
    PROVE  /\ Number(pattern, d + i).next = d + Number(part, i).next
           /\ Number(pattern, d + i).value = Number(part, i).value
<1> DEFINE n == Len(part)
           next == Number(part, i).next
           there == Number(pattern, d + i).next
<1> HIDE DEF Bytes
<1>1. /\ part \in Seq(Bytes) /\ pattern \in Seq(Bytes) /\ n \in Nat /\ d \in Nat
      /\ Len(pattern) \in Nat /\ d + n <= Len(pattern) /\ i \in 1..n
      /\ \A k \in 1..n : pattern[d + k] = part[k]
  BY PatternIs DEF Lies
<1>2. i \in 1..(n + 1) /\ d + i \in 1..(Len(pattern) + 1)
  BY <1>1
<1>3. /\ next \in i..(n + 1) /\ next <= n
      /\ \A k \in i..(next - 1) : k \in 1..n /\ part[k] \in Digits
      /\ next \in 1..n => part[next] \notin Digits
      /\ Number(part, i).value = Decimal(SubSeq(part, i, next - 1))
  BY <1>1, <1>2, NumberIs
<1>4. /\ there \in (d + i)..(Len(pattern) + 1)
      /\ \A k \in (d + i)..(there - 1) : k \in 1..Len(pattern) /\ pattern[k] \in Digits
      /\ there \in 1..Len(pattern) => pattern[there] \notin Digits
      /\ Number(pattern, d + i).value = Decimal(SubSeq(pattern, d + i, there - 1))
  BY <1>1, <1>2, NumberIs
<1> HIDE DEF next, there, n
<1>5. there = d + next
  <2>1. ~(there < d + next)
    <3>1. SUFFICES ASSUME there < d + next PROVE FALSE
      OBVIOUS
    <3>2. there - d \in i..(next - 1) /\ d + (there - d) = there
      BY <1>1, <1>3, <1>4, <3>1
    <3>3. pattern[there] \in Digits /\ there - d \in 1..n
      BY <1>1, <1>3, <3>2
    <3>4. there \in 1..Len(pattern)
      BY <1>1, <1>4, <3>3
    <3> QED
      BY <1>4, <3>3, <3>4
  <2>2. ~(d + next < there)
    <3>1. SUFFICES ASSUME d + next < there PROVE FALSE
      OBVIOUS
    <3>2. d + next \in (d + i)..(there - 1) /\ next \in 1..n
      BY <1>1, <1>3, <1>4, <3>1
    <3>3. pattern[d + next] \in Digits /\ pattern[d + next] = part[next]
      BY <1>1, <1>4, <3>2
    <3> QED
      BY <1>3, <3>2, <3>3
  <2> QED
    BY <1>1, <1>3, <1>4, <2>1, <2>2
<1>6. SubSeq(pattern, d + i, there - 1) = SubSeq(part, i, next - 1)
  <2> DEFINE m == next - i
             lo == d + i
             hi == there - 1
             last == next - 1
             a == SubSeq(part, i, last)
             b == SubSeq(pattern, lo, hi)
  <2>1. /\ m \in Nat /\ last - i + 1 = m /\ hi - lo + 1 = m
        /\ lo \in Int /\ hi \in Int /\ last \in Int /\ i \in Int
        /\ \A k \in i..last : k \in 1..n
        /\ \A k \in lo..hi : k \in 1..Len(pattern)
    BY <1>1, <1>3, <1>4, <1>5
  <2>2. /\ \A k \in 1..n : part[k] \in Bytes
        /\ \A k \in 1..Len(pattern) : pattern[k] \in Bytes
    BY <1>1, PatternIs DEF n
  <2>3. ASSUME NEW k \in 1..m PROVE pattern[lo + k - 1] = part[i + k - 1]
    <3>1. i + k - 1 \in 1..n /\ d + (i + k - 1) = lo + k - 1
      BY <1>1, <1>3
    <3> QED
      BY <1>1, <3>1
  <2> HIDE DEF lo, hi, last
  <2>4. /\ a \in Seq(Bytes) /\ Len(a) = IF i <= last THEN last - i + 1 ELSE 0
        /\ \A k \in 1..(last - i + 1) : a[k] = part[i + k - 1]
    BY <2>1, <2>2, SubSeqProperties
  <2>5. /\ b \in Seq(Bytes) /\ Len(b) = IF lo <= hi THEN hi - lo + 1 ELSE 0
        /\ \A k \in 1..(hi - lo + 1) : b[k] = pattern[lo + k - 1]
    BY <2>1, <2>2, SubSeqProperties
  <2> HIDE DEF a, b, m
  <2>6. Len(a) = m /\ Len(b) = m
    BY <2>1, <2>4, <2>5
  <2>7. \A k \in 1..m : a[k] = b[k]
    BY <2>1, <2>3, <2>4, <2>5
  <2>8. a = b
    BY <2>4, <2>5, <2>6, <2>7, SeqEqual
  <2> QED
    BY <2>8 DEF a, b, lo, hi, last
<1> QED
  BY <1>3, <1>4, <1>5, <1>6 DEF next, there

\* What braces at i are, if their numbers end at low and high.
BracesAs(it, pattern, i, low, high) ==
    \/ /\ At(pattern, low.next) = "rbrace" /\ i + 1 < low.next
       /\ it = [bounds |-> <<low.value, low.value>>, next |-> low.next + 1]
    \/ /\ At(pattern, low.next) = "comma" /\ i + 1 < low.next /\ At(pattern, high.next) = "rbrace"
       /\ it = [bounds |-> <<low.value, IF high.next = low.next + 1 THEN Unbounded ELSE high.value>>,
                next |-> high.next + 1]
    \/ /\ ~(i + 1 < low.next /\ At(pattern, low.next) = "rbrace")
       /\ ~(i + 1 < low.next /\ At(pattern, low.next) = "comma" /\ At(pattern, high.next) = "rbrace")
       /\ it = [bounds |-> Once, next |-> i]

LEMMA BracesBy ==
    ASSUME NEW pattern, NEW i
    PROVE  BracesAs(Braces(pattern, i), pattern, i, Number(pattern, i + 1),
                    Number(pattern, Number(pattern, i + 1).next + 1))
<1> DEFINE low == Number(pattern, i + 1)
           high == Number(pattern, low.next + 1)
           it == Braces(pattern, i)
           Bounded(max, close) ==
               IF low.next > i + 1 /\ At(pattern, close) = "rbrace"
               THEN [bounds |-> <<low.value, max>>, next |-> close + 1]
               ELSE [bounds |-> Once, next |-> i]
<1>1. it = IF At(pattern, low.next) # "comma" THEN Bounded(low.value, low.next)
           ELSE Bounded(IF high.next = low.next + 1 THEN Unbounded ELSE high.value, high.next)
  BY DEF Braces, BracesFrom, BracesTo, Braced
<1>2. low.next > i + 1 <=> i + 1 < low.next
  OBVIOUS
<1> HIDE DEF low, high, it
<1> QED
  BY <1>1, <1>2 DEF BracesAs, low, high, it

\* The bytes a quantifier is made of.
Suffixes == {"*", "+", "?", "lbrace", "rbrace", "comma"} \union Digits

LEMMA BracesAre ==
    ASSUME NEW pattern \in Seq(Bytes), NEW i \in 1..Len(pattern), At(pattern, i) = "lbrace"
    PROVE  LET next == Braces(pattern, i).next
           IN  /\ next \in i..(Len(pattern) + 1)
               /\ \A k \in i..(next - 1) : At(pattern, k) \in Suffixes
<1> DEFINE n == Len(pattern)
           low == Number(pattern, i + 1)
           high == Number(pattern, low.next + 1)
           it == Braces(pattern, i)
           Fine == it.next \in i..(n + 1) /\ \A k \in i..(it.next - 1) : At(pattern, k) \in Suffixes
<1> HIDE DEF Bytes
<1>1. n \in Nat /\ i \in 1..n /\ i + 1 \in 1..(n + 1)
  BY PatternIs
<1>2. \A k \in 1..n : pattern[k] = At(pattern, k)
  BY PatternIs
<1>3. BracesAs(it, pattern, i, low, high)
  BY BracesBy
<1>4. /\ low.next \in (i + 1)..(n + 1)
      /\ \A k \in (i + 1)..(low.next - 1) : At(pattern, k) \in Suffixes
  <2>1. /\ low.next \in (i + 1)..(n + 1)
        /\ \A k \in (i + 1)..(low.next - 1) : k \in 1..n /\ pattern[k] \in Digits
    BY <1>1, NumberIs
  <2> HIDE DEF low, n
  <2> QED
    BY <1>2, <2>1 DEF Suffixes
<1>5. ASSUME low.next <= n
      PROVE  /\ high.next \in (low.next + 1)..(n + 1)
             /\ \A k \in (low.next + 1)..(high.next - 1) : At(pattern, k) \in Suffixes
  <2> DEFINE m == low.next + 1
  <2>1. m \in 1..(n + 1)
    <3> HIDE DEF low, n
    <3> QED
      BY <1>1, <1>4, <1>5
  <2> HIDE DEF m
  <2>2. /\ Number(pattern, m).next \in m..(n + 1)
        /\ \A k \in m..(Number(pattern, m).next - 1) : k \in 1..n /\ pattern[k] \in Digits
    BY <2>1, NumberIs
  <2>3. \A k \in m..(Number(pattern, m).next - 1) : At(pattern, k) \in Suffixes
    BY <1>2, <2>2 DEF Suffixes
  <2> QED
    BY <2>2, <2>3 DEF m
<1>6. \A k \in Nat : At(pattern, k) # End => k <= n
  BY PatternIs
<1>7. "lbrace" \in Suffixes /\ "rbrace" \in Suffixes /\ "comma" \in Suffixes
      /\ "rbrace" # End /\ "comma" # End
  BY DEF Suffixes, End
<1> HIDE DEF n, low, high, it
<1>8. ASSUME At(pattern, low.next) = "rbrace",
             it = [bounds |-> <<low.value, low.value>>, next |-> low.next + 1]
      PROVE  Fine
  <2>1. it.next = low.next + 1
    BY <1>8
  <2>2. low.next <= n
    BY <1>1, <1>4, <1>6, <1>7, <1>8
  <2>3. \A k \in i..low.next : k = i \/ k \in (i + 1)..(low.next - 1) \/ k = low.next
    BY <1>1, <1>4
  <2>4. \A k \in i..(it.next - 1) : k \in i..low.next
    BY <1>1, <1>4, <2>1
  <2> QED
    BY <1>1, <1>4, <1>7, <1>8, <2>1, <2>2, <2>3, <2>4
<1>9. ASSUME At(pattern, low.next) = "comma", At(pattern, high.next) = "rbrace",
             it.next = high.next + 1
      PROVE  Fine
  <2>2. low.next <= n
    BY <1>1, <1>4, <1>6, <1>7, <1>9
  <2>3. /\ high.next \in (low.next + 1)..(n + 1)
        /\ \A k \in (low.next + 1)..(high.next - 1) : At(pattern, k) \in Suffixes
    BY <1>5, <2>2
  <2>4. high.next <= n
    BY <1>1, <1>4, <1>6, <1>7, <1>9, <2>3
  <2>5. \A k \in i..(it.next - 1) : \/ k = i \/ k \in (i + 1)..(low.next - 1) \/ k = low.next
                                     \/ k \in (low.next + 1)..(high.next - 1) \/ k = high.next
    BY <1>1, <1>4, <1>9, <2>3
  <2>6. it.next \in i..(n + 1)
    BY <1>1, <1>4, <1>9, <2>3, <2>4
  <2> QED
    BY <1>1, <1>4, <1>7, <1>9, <2>3, <2>5, <2>6
<1>10. ASSUME it = [bounds |-> Once, next |-> i] PROVE Fine
  <2>1. it.next = i
    BY <1>10
  <2> QED
    BY <1>1, <2>1
<1>11. Fine
  <2>1. CASE At(pattern, low.next) = "comma" /\ At(pattern, high.next) = "rbrace"
             /\ it = [bounds |-> <<low.value, IF high.next = low.next + 1 THEN Unbounded ELSE high.value>>,
                next |-> high.next + 1]
    <3>1. it.next = high.next + 1
      BY <2>1
    <3> QED
      BY <1>9, <2>1, <3>1
  <2> HIDE DEF Fine
  <2> QED
    BY <1>3, <1>8, <1>10, <2>1 DEF BracesAs
<1> QED
  BY <1>11 DEF n, it

LEMMA BracesThere ==
    ASSUME NEW part, NEW pattern, NEW d, Lies(part, pattern, d), NEW i \in 1..Len(part),
           Braces(part, i).next # i
    PROVE  Braces(pattern, d + i)
              = [bounds |-> Braces(part, i).bounds, next |-> d + Braces(part, i).next]
<1> DEFINE n == Len(part)
           a == Number(part, i + 1)
           b == Number(part, a.next + 1)
           a2 == Number(pattern, d + i + 1)
           b2 == Number(pattern, a2.next + 1)
           it == Braces(part, i)
           there == Braces(pattern, d + i)
           Same == there = [bounds |-> it.bounds, next |-> d + it.next]
<1> HIDE DEF Bytes
<1>1. part \in Seq(Bytes) /\ pattern \in Seq(Bytes) /\ n \in Nat /\ d \in Nat /\ i \in 1..n
      /\ i + 1 \in 1..(n + 1) /\ d + (i + 1) = d + i + 1
  BY PatternIs DEF Lies
<1>2. BracesAs(it, part, i, a, b) /\ BracesAs(there, pattern, d + i, a2, b2)
  BY BracesBy
<1>3. a.next \in (i + 1)..(n + 1)
  BY <1>1, NumberIs
<1>4. \A k \in Nat : At(part, k) # End => k <= n
  BY <1>1, PatternIs
<1>5. ASSUME a.next <= n
      PROVE  /\ a2.next = d + a.next /\ a2.value = a.value
             /\ At(pattern, a2.next) = At(part, a.next)
             /\ (d + i) + 1 < a2.next <=> i + 1 < a.next
  <2>1. i + 1 \in 1..n
    <3> HIDE DEF a, n
    <3> QED
      BY <1>1, <1>3, <1>5
  <2>2. Number(pattern, d + (i + 1)).next = d + a.next /\ Number(pattern, d + (i + 1)).value = a.value
    BY <1>5, <2>1, NumberThere
  <2>3. a2.next = d + a.next /\ a2.value = a.value
    BY <1>1, <2>2
  <2> DEFINE k == a.next
  <2>4. k \in 1..n
    <3> HIDE DEF a, n
    <3> QED
      BY <1>1, <1>3, <1>5
  <2>5. At(pattern, d + k) = At(part, k)
    <3> HIDE DEF k
    <3> QED
      BY <2>4, AtThere
  <2>6. (d + i) + 1 < d + k <=> i + 1 < k
    <3> HIDE DEF k, n
    <3> QED
      BY <1>1, <2>4
  <2> QED
    BY <2>3, <2>5, <2>6
<1>6. ASSUME a.next <= n, b.next <= n
      PROVE  /\ b2.next = d + b.next /\ b2.value = b.value
             /\ At(pattern, b2.next) = At(part, b.next)
             /\ b2.next = a2.next + 1 <=> b.next = a.next + 1
  <2> DEFINE m == a.next + 1
             k == b.next
  <2>0. a2.next = d + a.next
    BY <1>5, <1>6
  <2>1. m \in 1..(n + 1) /\ d + m = a2.next + 1
    <3> HIDE DEF a, n, a2
    <3> QED
      BY <1>1, <1>3, <1>6, <2>0
  <2>2. k \in m..(n + 1)
    <3> HIDE DEF m
    <3>1. Number(part, m).next \in m..(n + 1)
      BY <1>1, <2>1, NumberIs
    <3> QED
      BY <3>1 DEF m
  <2>3. m \in 1..n /\ k \in 1..n
    <3> HIDE DEF m, b, n
    <3> QED
      BY <1>1, <1>6, <2>1, <2>2
  <2>4. Number(pattern, d + m).next = d + k /\ Number(pattern, d + m).value = b.value
    <3> HIDE DEF m
    <3>1. Number(part, m).next <= Len(part)
      BY <1>6 DEF m
    <3>2. /\ Number(pattern, d + m).next = d + Number(part, m).next
          /\ Number(pattern, d + m).value = Number(part, m).value
      BY <2>3, <3>1, NumberThere
    <3> QED
      BY <3>2 DEF m
  <2>5. b2.next = d + k /\ b2.value = b.value
    BY <2>1, <2>4
  <2>6. At(pattern, d + k) = At(part, k)
    <3> HIDE DEF k
    <3> QED
      BY <2>3, AtThere
  <2>7. d + k = a2.next + 1 <=> k = a.next + 1
    <3> HIDE DEF k, n, a2
    <3> QED
      BY <1>1, <2>1, <2>3
  <2> QED
    BY <2>5, <2>6, <2>7
<1>7. "rbrace" # End /\ "comma" # End /\ "comma" # "rbrace"
  BY DEF End
<1> HIDE DEF n, a, b, a2, b2, it, there
<1>8. ASSUME At(part, a.next) = "rbrace", i + 1 < a.next,
             it = [bounds |-> <<a.value, a.value>>, next |-> a.next + 1]
      PROVE  Same
  <2>1. a.next <= n
    BY <1>1, <1>3, <1>4, <1>7, <1>8
  <2>2. there = [bounds |-> <<a.value, a.value>>, next |-> d + a.next + 1]
    BY <1>2, <1>5, <1>7, <1>8, <2>1 DEF BracesAs
  <2>3. it.bounds = <<a.value, a.value>> /\ it.next = a.next + 1
    BY <1>8
  <2>4. d + it.next = d + a.next + 1
    BY <1>1, <1>3, <2>3
  <2> QED
    BY <2>2, <2>3, <2>4
<1>9. ASSUME At(part, a.next) = "comma", i + 1 < a.next, At(part, b.next) = "rbrace",
             it = [bounds |-> <<a.value, IF b.next = a.next + 1 THEN Unbounded ELSE b.value>>,
                   next |-> b.next + 1]
      PROVE  Same
  <2>1. a.next <= n
    BY <1>1, <1>3, <1>4, <1>7, <1>9
  <2>2. b.next \in (a.next + 1)..(n + 1)
    <3> DEFINE m == a.next + 1
    <3>1. m \in 1..(n + 1)
      BY <1>1, <1>3, <2>1
    <3> HIDE DEF m
    <3>2. Number(part, m).next \in m..(Len(part) + 1)
      BY <1>1, <3>1, NumberIs DEF n
    <3> QED
      BY <3>2 DEF m, b, n
  <2>3. b.next <= n
    BY <1>1, <1>3, <1>4, <1>7, <1>9, <2>2
  <2> DEFINE high == IF b.next = a.next + 1 THEN Unbounded ELSE b.value
  <2>4. high = IF b2.next = a2.next + 1 THEN Unbounded ELSE b2.value
    BY <1>6, <2>1, <2>3
  <2> HIDE DEF high
  <2>5. there = [bounds |-> <<a.value, high>>, next |-> d + b.next + 1]
    BY <1>2, <1>5, <1>6, <1>7, <1>9, <2>1, <2>3, <2>4 DEF BracesAs
  <2>6. it = [bounds |-> <<a.value, high>>, next |-> b.next + 1]
    BY <1>9 DEF high
  <2>7. it.bounds = <<a.value, high>> /\ it.next = b.next + 1
    BY <2>6
  <2>8. d + it.next = d + b.next + 1
    BY <1>1, <1>3, <2>2, <2>7
  <2> QED
    BY <2>5, <2>7, <2>8
<1>10. ASSUME it = [bounds |-> Once, next |-> i] PROVE FALSE
  <2>1. it.next = i
    BY <1>10
  <2> QED
    BY <2>1 DEF it
<1>11. Same
  <2> HIDE DEF Same
  <2> QED
    BY <1>2, <1>8, <1>9, <1>10 DEF BracesAs
<1> QED
  BY <1>11 DEF it, there

QuantifierBytes == {"*", "+", "?", "lbrace"}

LEMMA QuantifierBy ==
    ASSUME NEW pattern, NEW i
    PROVE  LET byte == At(pattern, i)
               it == Quantifier(pattern, i)
           IN  /\ byte = "*" => it = [bounds |-> <<0, Unbounded>>, next |-> i + 1]
               /\ byte = "+" => it = [bounds |-> <<1, Unbounded>>, next |-> i + 1]
               /\ byte = "?" => it = [bounds |-> <<0, 1>>, next |-> i + 1]
               /\ byte = "lbrace" => it = Braces(pattern, i)
               /\ byte \notin QuantifierBytes => it = [bounds |-> Once, next |-> i]
<1> DEFINE byte == At(pattern, i)
           it == Quantifier(pattern, i)
<1>1. byte = "*" => it = [bounds |-> <<0, Unbounded>>, next |-> i + 1]
  BY DEF Quantifier
<1>2. byte = "+" => it = [bounds |-> <<1, Unbounded>>, next |-> i + 1]
  BY DEF Quantifier
<1>3. byte = "?" => it = [bounds |-> <<0, 1>>, next |-> i + 1]
  BY DEF Quantifier
<1>4. byte = "lbrace" => it = Braces(pattern, i)
  BY DEF Quantifier
<1>5. byte \notin QuantifierBytes => it = [bounds |-> Once, next |-> i]
  BY DEF Quantifier, QuantifierBytes
<1> QED
  BY <1>1, <1>2, <1>3, <1>4, <1>5

LEMMA QuantifierShape ==
    ASSUME NEW pattern, NEW i
    PROVE  Quantifier(pattern, i)
              = [bounds |-> Quantifier(pattern, i).bounds, next |-> Quantifier(pattern, i).next]
<1> DEFINE q == Quantifier(pattern, i)
<1>1. \/ q = [bounds |-> <<0, Unbounded>>, next |-> i + 1]
      \/ q = [bounds |-> <<1, Unbounded>>, next |-> i + 1]
      \/ q = [bounds |-> <<0, 1>>, next |-> i + 1]
      \/ q = Braces(pattern, i)
      \/ q = [bounds |-> Once, next |-> i]
  BY QuantifierBy DEF QuantifierBytes
<1>2. q = Braces(pattern, i) => \E bounds, next : q = [bounds |-> bounds, next |-> next]
  <2>1. BracesAs(Braces(pattern, i), pattern, i, Number(pattern, i + 1),
                 Number(pattern, Number(pattern, i + 1).next + 1))
    BY BracesBy
  <2> QED
    BY <2>1 DEF BracesAs
<1>3. \E bounds, next : q = [bounds |-> bounds, next |-> next]
  BY <1>1, <1>2
<1> HIDE DEF q
<1>4. q = [bounds |-> q.bounds, next |-> q.next]
  BY <1>3
<1> QED
  BY <1>4 DEF q

LEMMA QuantifierIs ==
    ASSUME NEW pattern \in Seq(Bytes), NEW i \in 1..(Len(pattern) + 1)
    PROVE  LET next == Quantifier(pattern, i).next
           IN  /\ next \in i..(Len(pattern) + 1)
               /\ \A k \in i..(next - 1) : At(pattern, k) \in Suffixes
<1> DEFINE n == Len(pattern)
           byte == At(pattern, i)
           it == Quantifier(pattern, i)
           Fine == it.next \in i..(n + 1) /\ \A k \in i..(it.next - 1) : At(pattern, k) \in Suffixes
<1> HIDE DEF Bytes
<1>1. n \in Nat /\ i \in 1..(n + 1) /\ (byte # End => i \in 1..n)
  BY PatternIs
<1>2. ASSUME byte \in {"*", "+", "?"}, it.next = i + 1 PROVE Fine
  <2>1. byte # End /\ byte \in Suffixes
    BY <1>2 DEF End, Suffixes
  <2> HIDE DEF it, n
  <2>2. \A k \in i..(it.next - 1) : k = i
    BY <1>1, <1>2
  <2> QED
    BY <1>1, <1>2, <2>1, <2>2
<1>3. ASSUME it.next = i PROVE Fine
  <2> HIDE DEF it, n
  <2> QED
    BY <1>1, <1>3
<1>4. ASSUME byte = "lbrace" PROVE Fine
  <2>1. it = Braces(pattern, i)
    BY <1>4, QuantifierBy
  <2>2. byte # End
    BY <1>4 DEF End
  <2>3. /\ Braces(pattern, i).next \in i..(n + 1)
        /\ \A k \in i..(Braces(pattern, i).next - 1) : At(pattern, k) \in Suffixes
    BY <1>1, <1>4, <2>2, BracesAre
  <2> HIDE DEF it
  <2> QED
    BY <2>1, <2>3
<1>5. ASSUME byte \in {"*", "+", "?"} PROVE it.next = i + 1
  BY <1>5, QuantifierBy
<1>6. ASSUME byte \notin QuantifierBytes PROVE it.next = i
  BY <1>6, QuantifierBy
<1>7. Fine
  <2> HIDE DEF Fine, it
  <2> QED
    BY <1>2, <1>3, <1>4, <1>5, <1>6 DEF QuantifierBytes
<1> QED
  BY <1>7

\* Behind an atom there are at most the bytes of a quantifier, and the next atom then.
LEMMA QuantifiedIs ==
    ASSUME NEW pattern \in Seq(Bytes), NEW i \in 1..(Len(pattern) + 1)
    PROVE  LET next == Quantified(pattern, i).next
           IN  /\ next \in i..(Len(pattern) + 1)
               /\ \A k \in i..(next - 1) : At(pattern, k) \in Suffixes
<1> DEFINE n == Len(pattern)
           q == Quantifier(pattern, i)
           it == Quantified(pattern, i)
           Fine == it.next \in i..(n + 1) /\ \A k \in i..(it.next - 1) : At(pattern, k) \in Suffixes
<1> HIDE DEF Bytes
<1>1. n \in Nat /\ i \in 1..(n + 1) /\ \A k \in Nat : At(pattern, k) # End => k <= n
  BY PatternIs
<1>2. q.next \in i..(n + 1) /\ \A k \in i..(q.next - 1) : At(pattern, k) \in Suffixes
  BY QuantifierIs
<1>3. it.next = q.next \/ (At(pattern, q.next) = "?" /\ it.next = q.next + 1)
  <2>1. q = [bounds |-> q.bounds, next |-> q.next]
    BY QuantifierShape
  <2>2. it = IF At(pattern, q.next) = "?" /\ q.bounds # Once THEN [q EXCEPT !.next = @ + 1] ELSE q
    BY DEF Quantified, LazyMark
  <2> HIDE DEF q, it
  <2> QED
    BY <2>1, <2>2
<1> HIDE DEF q, it, n
<1>4. ASSUME At(pattern, q.next) = "?", it.next = q.next + 1 PROVE Fine
  <2>1. "?" \in Suffixes /\ "?" # End
    BY DEF Suffixes, End
  <2>2. q.next <= n
    BY <1>1, <1>2, <1>4, <2>1
  <2>3. \A k \in i..(it.next - 1) : k \in i..(q.next - 1) \/ k = q.next
    BY <1>1, <1>2, <1>4
  <2> QED
    BY <1>1, <1>2, <1>4, <2>1, <2>2, <2>3
<1>5. Fine
  BY <1>2, <1>3, <1>4
<1> QED
  BY <1>5 DEF it, n

\* A quantifier is read alike alone and inside a pattern, before what is none.
LEMMA QuantifiedThere ==
    ASSUME NEW part, NEW pattern, NEW d, Lies(part, pattern, d), NEW bounds,
           Quantified(part, 1) = [bounds |-> bounds, next |-> Len(part) + 1],
           At(pattern, d + Len(part) + 1) \notin QuantifierBytes
    PROVE  Quantified(pattern, d + 1) = [bounds |-> bounds, next |-> d + Len(part) + 1]
<1> DEFINE n == Len(part)
           q == Quantifier(part, 1)
           there == Quantifier(pattern, d + 1)
           byte == At(part, 1)
           Same == there = [bounds |-> q.bounds, next |-> d + q.next]
           Lazy(a, quantifier) == At(a, quantifier.next) = "?" /\ quantifier.bounds # Once
<1> HIDE DEF Bytes
<1>1. /\ part \in Seq(Bytes) /\ pattern \in Seq(Bytes) /\ n \in Nat /\ d \in Nat
      /\ 1 \in 1..(n + 1) /\ 1 + 1 = 2 /\ d + 1 + 1 = d + 2 /\ d + 1 + n = d + n + 1
      /\ At(part, n + 1) = End
  BY PatternIs DEF Lies
<1>2. q.next \in 1..(n + 1)
  BY <1>1, QuantifierIs
<1>3. Quantified(part, 1) = IF Lazy(part, q) THEN [q EXCEPT !.next = @ + 1] ELSE q
  BY DEF Quantified, LazyMark
<1>4. Quantified(pattern, d + 1) = IF Lazy(pattern, there) THEN [there EXCEPT !.next = @ + 1] ELSE there
  BY DEF Quantified, LazyMark
<1>5. ASSUME n = 0 PROVE Same /\ q = [bounds |-> Once, next |-> 1]
  <2>1. byte = End /\ End \notin QuantifierBytes
    <3>1. End \notin QuantifierBytes
      BY DEF End, QuantifierBytes
    <3> QED
      BY <1>1, <1>5, <3>1
  <2>2. q = [bounds |-> Once, next |-> 1]
    BY <2>1, QuantifierBy
  <2>3. d + n + 1 = d + 1
    BY <1>1, <1>5
  <2>4. there = [bounds |-> Once, next |-> d + 1]
    BY <2>3, QuantifierBy
  <2>5. q.bounds = Once /\ q.next = 1
    BY <2>2
  <2> QED
    BY <2>2, <2>4, <2>5
<1>6. ASSUME n # 0 PROVE Same /\ byte \in QuantifierBytes
  <2>1. 1 \in 1..n /\ At(pattern, d + 1) = byte
    BY <1>1, <1>6, AtThere
  <2>2. ASSUME q = [bounds |-> Once, next |-> 1] PROVE FALSE
    <3>1. q.bounds = Once /\ q.next = 1
      BY <2>2
    <3>2. Quantified(part, 1) = q
      BY <1>3, <3>1
    <3>3. Quantified(part, 1).next = n + 1
      OBVIOUS
    <3> HIDE DEF q, n
    <3> QED
      BY <1>1, <1>6, <3>1, <3>2, <3>3
  <2>3. byte \in QuantifierBytes
    BY <2>2, QuantifierBy
  <2>4. ASSUME NEW b, q = [bounds |-> b, next |-> 2], there = [bounds |-> b, next |-> d + 2] PROVE Same
    <3>1. q.bounds = b /\ q.next = 2
      BY <2>4
    <3> QED
      BY <2>4, <3>1
  <2>5. ASSUME byte = "*" PROVE Same
    <3>1. q = [bounds |-> <<0, Unbounded>>, next |-> 2] /\ there = [bounds |-> <<0, Unbounded>>, next |-> d + 2]
      BY <1>1, <2>1, <2>5, QuantifierBy
    <3> HIDE DEF q, there, Same
    <3> QED
      BY <2>4, <3>1
  <2>6. ASSUME byte = "+" PROVE Same
    <3>1. q = [bounds |-> <<1, Unbounded>>, next |-> 2] /\ there = [bounds |-> <<1, Unbounded>>, next |-> d + 2]
      BY <1>1, <2>1, <2>6, QuantifierBy
    <3> HIDE DEF q, there, Same
    <3> QED
      BY <2>4, <3>1
  <2>7. ASSUME byte = "?" PROVE Same
    <3>1. q = [bounds |-> <<0, 1>>, next |-> 2] /\ there = [bounds |-> <<0, 1>>, next |-> d + 2]
      BY <1>1, <2>1, <2>7, QuantifierBy
    <3> HIDE DEF q, there, Same
    <3> QED
      BY <2>4, <3>1
  <2>8. ASSUME byte = "lbrace" PROVE Same
    <3>1. q = Braces(part, 1) /\ there = Braces(pattern, d + 1)
      BY <2>1, <2>8, QuantifierBy
    <3>2. Braces(part, 1).next # 1
      <4>1. SUFFICES ASSUME Braces(part, 1).next = 1 PROVE FALSE
        OBVIOUS
      <4>2. BracesAs(Braces(part, 1), part, 1, Number(part, 2), Number(part, Number(part, 2).next + 1))
        BY <1>1, BracesBy
      <4>3. Number(part, 2).next \in 2..(n + 1)
        <5>1. 2 \in 1..(n + 1)
          BY <1>1, <1>6
        <5> QED
          BY <1>1, <5>1, NumberIs
      <4>4. Number(part, 2).next <= n =>
              Number(part, Number(part, 2).next + 1).next \in (Number(part, 2).next + 1)..(n + 1)
        <5> DEFINE m == Number(part, 2).next + 1
        <5>1. Number(part, 2).next <= n => m \in 1..(n + 1)
          BY <1>1, <4>3
        <5> HIDE DEF m
        <5>2. Number(part, 2).next <= n => Number(part, m).next \in m..(n + 1)
          BY <1>1, <5>1, NumberIs
        <5> QED
          BY <5>2 DEF m
      <4>5. At(part, Number(part, 2).next) = "comma" => Number(part, 2).next <= n
        <5>1. "comma" # End
          BY DEF End
        <5> QED
          BY <1>1, <4>3, <5>1, PatternIs
      <4> DEFINE low == Number(part, 2)
                 high == Number(part, low.next + 1)
      <4>6. Braces(part, 1) = [bounds |-> Once, next |-> 1]
        <5> HIDE DEF low, high
        <5>1. BracesAs(Braces(part, 1), part, 1, low, high)
          BY <4>2 DEF low, high
        <5>2. low.next \in 2..(n + 1)
              /\ (At(part, low.next) = "comma" => high.next \in (low.next + 1)..(n + 1))
          BY <4>3, <4>4, <4>5 DEF low, high
        <5>3. ASSUME NEW x, Braces(part, 1) = [bounds |-> x, next |-> low.next + 1] PROVE FALSE
          <6>1. Braces(part, 1).next = low.next + 1
            BY <5>3
          <6> QED
            BY <1>1, <4>1, <5>2, <6>1
        <5>4. ASSUME NEW x, At(part, low.next) = "comma",
                     Braces(part, 1) = [bounds |-> x, next |-> high.next + 1] PROVE FALSE
          <6>1. Braces(part, 1).next = high.next + 1
            BY <5>4
          <6> QED
            BY <1>1, <4>1, <5>2, <5>4, <6>1
        <5> QED
          BY <5>1, <5>3, <5>4 DEF BracesAs
      <4> QED
        BY <2>2, <3>1, <4>6
    <3>3. Braces(pattern, d + 1) = [bounds |-> Braces(part, 1).bounds, next |-> d + Braces(part, 1).next]
      BY <2>1, <3>2, BracesThere
    <3> QED
      BY <3>1, <3>3
  <2> HIDE DEF Same, byte
  <2> QED
    BY <2>3, <2>5, <2>6, <2>7, <2>8 DEF QuantifierBytes
<1>7. Same
  BY <1>5, <1>6
<1>8. there.next = d + q.next /\ there.bounds = q.bounds
  <2> HIDE DEF q, there
  <2> QED
    BY <1>7
<1>9. CASE q.next = n + 1
  <2>1. At(part, q.next) # "?"
    BY <1>1, <1>9 DEF End
  <2>2. q = [bounds |-> bounds, next |-> n + 1]
    BY <1>3, <2>1
  <2>3. there.next = d + n + 1
    BY <1>1, <1>8, <1>9
  <2>4. At(pattern, there.next) # "?"
    BY <2>3 DEF QuantifierBytes
  <2>5. Quantified(pattern, d + 1) = there
    BY <1>4, <2>4
  <2>6. q.bounds = bounds
    BY <2>2
  <2> HIDE DEF there, q
  <2>7. there = [bounds |-> bounds, next |-> d + n + 1]
    BY <1>7, <1>8, <2>3, <2>6
  <2> QED
    BY <2>5, <2>7
<1>10. CASE q.next # n + 1
  <2>1. Lazy(part, q)
    <3>1. SUFFICES ASSUME ~Lazy(part, q) PROVE FALSE
      OBVIOUS
    <3>2. Quantified(part, 1) = q
      BY <1>3, <3>1
    <3>3. q.next = n + 1
      BY <3>2
    <3> QED
      BY <1>10, <3>3
  <2>2. q.next \in 1..n
    <3> HIDE DEF q, n
    <3> QED
      BY <1>1, <1>2, <1>10
  <2>3. At(pattern, there.next) = At(part, q.next)
    <3>1. At(pattern, d + q.next) = At(part, q.next)
      <4> DEFINE k == q.next
      <4>1. k \in 1..n
        BY <2>2
      <4> HIDE DEF k
      <4>2. At(pattern, d + k) = At(part, k)
        BY <4>1, AtThere
      <4> QED
        BY <4>2 DEF k
    <3> HIDE DEF q, there
    <3> QED
      BY <1>8, <3>1
  <2>4. Lazy(pattern, there)
    <3> HIDE DEF q, there
    <3> QED
      BY <1>8, <2>1, <2>3
  <2>5. Quantified(pattern, d + 1) = [there EXCEPT !.next = @ + 1]
    BY <1>4, <2>4
  <2>6. Quantified(part, 1) = [q EXCEPT !.next = @ + 1]
    BY <1>3, <2>1
  <2>7. q = [bounds |-> q.bounds, next |-> q.next]
    BY QuantifierShape
  <2> HIDE DEF q, there, n
  <2>8. bounds = q.bounds /\ n + 1 = q.next + 1
    <3>1. Quantified(part, 1) = [bounds |-> q.bounds, next |-> q.next + 1]
      BY <2>6, <2>7
    <3>2. Quantified(part, 1) = [bounds |-> bounds, next |-> n + 1]
      BY DEF n
    <3> DEFINE it == Quantified(part, 1)
               next == q.next + 1
               end == n + 1
    <3> HIDE DEF it, next, end
    <3>3. it.bounds = q.bounds /\ it.next = next
      BY <3>1 DEF it, next
    <3>4. it.bounds = bounds /\ it.next = end
      BY <3>2 DEF it, end
    <3> QED
      BY <3>3, <3>4 DEF next, end
  <2>9. d + n + 1 = d + q.next + 1
    <3>1. n \in Nat /\ q.next \in Int /\ n + 1 = q.next + 1
      BY <1>1, <2>2, <2>8
    <3>2. n = q.next
      BY <3>1
    <3> QED
      BY <3>2
  <2>10. Quantified(pattern, d + 1) = [bounds |-> q.bounds, next |-> d + q.next + 1]
    BY <1>7, <1>8, <2>5
  <2> QED
    BY <2>8, <2>9, <2>10 DEF n
<1> QED
  BY <1>9, <1>10

-----------------------------------------------------------------------------
(* Compiling.                                                               *)

\* The atom at i with its quantifier, and where the next one is.
SuffixAt(pattern, i) == Suffix(pattern, Unquantified(pattern, i))
AtomAt(pattern, i) ==
    Atom(Unquantified(pattern, i).kind, Unquantified(pattern, i).set, SuffixAt(pattern, i).bounds)
NextAt(pattern, i) == SuffixAt(pattern, i).next

CompileTurn(from, pattern, i, n) ==
    IF At(pattern, i) = End THEN [ok |-> TRUE, atoms |-> << >>]
    ELSE IF n = MaxAtoms THEN Refused
    ELSE IF ~Unquantified(pattern, i).ok THEN Refused
    ELSE Prefixed(AtomAt(pattern, i), from[NextAt(pattern, i)][n + 1])
IsCompiling(from, pattern) ==
    from = [i \in 1..(Len(pattern) + 1) |->
              [n \in 0..MaxAtoms |-> CompileTurn(from, pattern, i, n)]]

LEMMA CompileIs ==
    ASSUME NEW pattern, \E from : IsCompiling(from, pattern)
    PROVE  \E from : IsCompiling(from, pattern) /\ Compile(pattern) = from[1][0]
BY DEF IsCompiling, CompileTurn, CompileAtom, CompileSuffix, AtomAt, NextAt, SuffixAt, Compile, Turns

\* An atom is not empty, and its quantifier ends inside the pattern.
LEMMA NextAtomIs ==
    ASSUME NEW pattern \in Seq(Bytes), NEW i \in 1..Len(pattern), Unquantified(pattern, i).ok
    PROVE  /\ Unquantified(pattern, i).next \in (i + 1)..(Len(pattern) + 1)
           /\ NextAt(pattern, i) \in Unquantified(pattern, i).next..(Len(pattern) + 1)
           /\ \A k \in Unquantified(pattern, i).next..(NextAt(pattern, i) - 1) :
                 At(pattern, k) \in Suffixes
<1> DEFINE n == Len(pattern)
           atom == Unquantified(pattern, i)
           next == atom.next
           last == NextAt(pattern, i)
<1> HIDE DEF Bytes
<1>1. n \in Nat /\ i \in 1..n
  BY PatternIs
<1>2. next \in (i + 1)..(n + 1)
  BY UnquantifiedIs
<1>3. next \in 1..(n + 1)
  <2> HIDE DEF next, n
  <2> QED
    BY <1>1, <1>2
<1>4. CASE atom.kind = "one"
  <2>1. last = Quantified(pattern, next).next
    BY <1>4 DEF NextAt, SuffixAt, Suffix
  <2>2. /\ Quantified(pattern, next).next \in next..(n + 1)
        /\ \A k \in next..(Quantified(pattern, next).next - 1) : At(pattern, k) \in Suffixes
    <3> HIDE DEF next
    <3> QED
      BY <1>3, QuantifiedIs
  <2> QED
    BY <1>2, <2>1, <2>2
<1>5. CASE atom.kind # "one"
  <2>1. last = next
    BY <1>5 DEF NextAt, SuffixAt, Suffix
  <2>2. last \in next..(n + 1) /\ ~\E k \in next..(last - 1) : TRUE
    <3> HIDE DEF next, last, n
    <3> QED
      BY <1>1, <1>3, <2>1
  <2> QED
    BY <1>2, <2>2
<1> QED
  BY <1>4, <1>5

CompileResults(pattern) ==
    {Refused} \union {[ok |-> TRUE, atoms |-> atoms] :
                         atoms \in Seq({AtomAt(pattern, i) : i \in 1..Len(pattern)})}

LEMMA PrefixedIs ==
    ASSUME NEW pattern, NEW i \in 1..Len(pattern), NEW rest \in CompileResults(pattern)
    PROVE  Prefixed(AtomAt(pattern, i), rest) \in CompileResults(pattern)
<1> DEFINE A == {AtomAt(pattern, j) : j \in 1..Len(pattern)}
           atom == AtomAt(pattern, i)
           it == Prefixed(atom, rest)
<1>1. atom \in A
  OBVIOUS
<1> HIDE DEF A, atom
<1>2. CASE rest = Refused
  <2>1. ~rest.ok
    BY <1>2 DEF Refused
  <2>2. it = Refused
    BY <2>1 DEF Prefixed
  <2> QED
    BY <2>2 DEF CompileResults, atom
<1>3. ASSUME NEW atoms \in Seq(A), rest = [ok |-> TRUE, atoms |-> atoms]
      PROVE  it \in CompileResults(pattern)
  <2>1. rest.ok /\ rest.atoms = atoms
    BY <1>3
  <2>2. it = [ok |-> TRUE, atoms |-> <<atom>> \o atoms]
    BY <2>1 DEF Prefixed
  <2>3. <<atom>> \o atoms \in Seq(A)
    BY <1>1
  <2> QED
    BY <2>2, <2>3 DEF CompileResults, A
<1> QED
  BY <1>2, <1>3 DEF CompileResults, A, atom

LEMMA CompilingExists ==
    ASSUME NEW pattern \in Seq(Bytes)
    PROVE  \E from : IsCompiling(from, pattern)
<1> DEFINE m == Len(pattern) + 1
           N == 0..MaxAtoms
           C == CompileResults(pattern)
           R == [N -> C]
           F == [1..m -> R]
           step == [i \in 1..m |-> [f \in F |-> [n \in N |-> CompileTurn(f, pattern, i, n)]]]
<1> HIDE DEF Bytes
<1>1. Len(pattern) \in Nat /\ m \in Nat /\ 1 \in Nat /\ m = Len(pattern) + 1 /\ MaxAtoms \in Nat
  BY PatternIs, RegexAssumption
<1>2. Refused \in C /\ [ok |-> TRUE, atoms |-> << >>] \in C
  <2>1. << >> \in Seq({AtomAt(pattern, i) : i \in 1..Len(pattern)})
    BY EmptySeq
  <2> QED
    BY <2>1 DEF CompileResults
<1>3. \A i \in 1..m : \A f \in F : step[i][f] = [n \in N |-> CompileTurn(f, pattern, i, n)]
  OBVIOUS
<1>4. R # {}
  <2>1. [n \in N |-> Refused] \in R
    BY <1>2
  <2> QED
    BY <2>1
<1> HIDE DEF step, m
<1>5. ASSUME NEW i \in 1..m, NEW n \in N
      PROVE  /\ \A f \in F : CompileTurn(f, pattern, i, n) \in C
             /\ \A f, g \in F : (\A j \in (i + 1)..m : f[j] = g[j])
                                   => CompileTurn(f, pattern, i, n) = CompileTurn(g, pattern, i, n)
  <2>1. CASE At(pattern, i) = End
    <3> HIDE DEF C
    <3> QED
      BY <1>2, <2>1 DEF CompileTurn
  <2>2. CASE At(pattern, i) # End /\ (n = MaxAtoms \/ ~Unquantified(pattern, i).ok)
    <3> HIDE DEF C
    <3> QED
      BY <1>2, <2>2 DEF CompileTurn
  <2>3. CASE At(pattern, i) # End /\ n # MaxAtoms /\ Unquantified(pattern, i).ok
    <3> DEFINE next == NextAt(pattern, i)
               atom == AtomAt(pattern, i)
    <3>1. i \in 1..Len(pattern)
      BY <1>1, <2>3, PatternIs
    <3>2. next \in (i + 1)..m /\ next \in 1..m /\ n + 1 \in N
      <4>1. /\ Unquantified(pattern, i).next \in (i + 1)..(Len(pattern) + 1)
            /\ next \in Unquantified(pattern, i).next..(Len(pattern) + 1)
        BY <2>3, <3>1, NextAtomIs
      <4> HIDE DEF next
      <4> QED
        BY <1>1, <2>3, <3>1, <4>1
    <3>3. \A f : CompileTurn(f, pattern, i, n) = Prefixed(atom, f[next][n + 1])
      BY <2>3 DEF CompileTurn
    <3>4. \A rest \in C : Prefixed(atom, rest) \in C
      BY <3>1, PrefixedIs
    <3> HIDE DEF C, next, atom
    <3>5. \A f \in F : f[next][n + 1] \in C
      BY <3>2
    <3>6. \A f \in F : CompileTurn(f, pattern, i, n) \in C
      BY <3>3, <3>4, <3>5
    <3>7. \A f, g \in F : (\A j \in (i + 1)..m : f[j] = g[j]) => f[next] = g[next]
      BY <3>2
    <3> QED
      BY <3>3, <3>6, <3>7
  <2> QED
    BY <2>1, <2>2, <2>3
<1>6. \A i \in 1..m : \A f \in F : step[i][f] \in R
  <2> HIDE DEF C, F, N
  <2> QED
    BY <1>3, <1>5
<1>7. \A i \in 1..m : \A f, g \in F :
         (\A j \in (i + 1)..m : f[j] = g[j]) => step[i][f] = step[i][g]
  <2> SUFFICES ASSUME NEW i \in 1..m, NEW f \in F, NEW g \in F, \A j \in (i + 1)..m : f[j] = g[j]
               PROVE  step[i][f] = step[i][g]
    BY Zenon
  <2>1. \A n \in N : CompileTurn(f, pattern, i, n) = CompileTurn(g, pattern, i, n)
    BY <1>5
  <2>2. step[i][f] = [n \in N |-> CompileTurn(f, pattern, i, n)]
        /\ step[i][g] = [n \in N |-> CompileTurn(g, pattern, i, n)]
    BY <1>3
  <2> HIDE DEF F, N
  <2> QED
    BY <2>1, <2>2
<1> HIDE DEF R, F
<1>8. LooksAhead(1, m, R, step)
  BY <1>1, <1>4, <1>6, <1>7 DEF LooksAhead, F
<1>9. PICK from \in F : \A i \in 1..m : from[i] = step[i][from]
  BY <1>8, AheadExists DEF F
<1>10. from = [i \in 1..m |-> [n \in N |-> CompileTurn(from, pattern, i, n)]]
  <2> HIDE DEF N
  <2> QED
    BY <1>3, <1>9 DEF F
<1> QED
  BY <1>10 DEF IsCompiling, m

-----------------------------------------------------------------------------
(* Patterns put together from pieces.                                       *)

Parts == {parts \in Seq(Pieces \X Quantifiers) : Len(parts) <= MaxPieces}

LEMMA PartIs ==
    ASSUME NEW parts \in Parts, NEW k \in 1..Len(parts)
    PROVE  /\ parts[k][1].text \in Seq(Bytes) /\ parts[k][2].text \in Seq(Bytes)
           /\ Unquantified(parts[k][1].text, 1)
                = Compiled("one", parts[k][1].set, Len(parts[k][1].text) + 1)
           /\ Quantified(parts[k][2].text, 1)
                = [bounds |-> parts[k][2].bounds, next |-> Len(parts[k][2].text) + 1]
           /\ parts[k][2].bounds \in Nat \X (Nat \union {Unbounded})
<1>1. parts \in Seq(Pieces \X Quantifiers)
  BY DEF Parts
<1>2. parts[k] \in Pieces \X Quantifiers
  BY <1>1
<1>3. parts[k][1] \in Pieces /\ parts[k][2] \in Quantifiers
  BY <1>2
<1> QED
  BY <1>3, PieceAssumption, Zenon

OpeningText(from) == IF from THEN <<"^">> ELSE << >>
ClosingText(to) == IF to THEN <<"$">> ELSE << >>
SpellTurn(s, parts, to, k) ==
    IF k > Len(parts) THEN ClosingText(to)
    ELSE parts[k][1].text \o parts[k][2].text \o s[k + 1]
IsSpelling(s, parts, to) == s = [k \in 1..(Len(parts) + 1) |-> SpellTurn(s, parts, to, k)]

LEMMA SpelledIs ==
    ASSUME NEW parts, NEW from, NEW to, \E s : IsSpelling(s, parts, to)
    PROVE  \E s : IsSpelling(s, parts, to)
                  /\ Spelled(parts, from, to) = OpeningText(from) \o s[1]
BY DEF IsSpelling, SpellTurn, ClosingText, OpeningText, Spelled

LEMMA ClosingIs ==
    ASSUME NEW to \in BOOLEAN
    PROVE  ClosingText(to) \in Seq(Bytes)
<1>1. "$" \in Bytes
  BY PieceAssumption
<1> HIDE DEF Bytes
<1>2. <<"$">> \in Seq(Bytes) /\ << >> \in Seq(Bytes)
  BY <1>1
<1> QED
  BY <1>2 DEF ClosingText

LEMMA SpellingExists ==
    ASSUME NEW parts \in Parts, NEW to \in BOOLEAN
    PROVE  \E s \in [1..(Len(parts) + 1) -> Seq(Bytes)] : IsSpelling(s, parts, to)
<1> DEFINE m == Len(parts) + 1
           R == Seq(Bytes)
           F == [1..m -> R]
           step == [k \in 1..m |-> [f \in F |-> SpellTurn(f, parts, to, k)]]
<1> HIDE DEF Bytes
<1>1. Len(parts) \in Nat /\ m \in Nat /\ 1 \in Nat /\ m = Len(parts) + 1
  BY DEF Parts
<1>2. R # {} /\ ClosingText(to) \in R
  BY ClosingIs
<1>3. \A k \in 1..m : \A f \in F : step[k][f] = SpellTurn(f, parts, to, k)
  OBVIOUS
<1> HIDE DEF step, m
<1>4. ASSUME NEW k \in 1..m
      PROVE  /\ \A f \in F : SpellTurn(f, parts, to, k) \in R
             /\ \A f, g \in F : (\A j \in (k + 1)..m : f[j] = g[j])
                                   => SpellTurn(f, parts, to, k) = SpellTurn(g, parts, to, k)
  <2>1. CASE k > Len(parts)
    <3> HIDE DEF R
    <3> QED
      BY <1>2, <2>1 DEF SpellTurn
  <2>2. CASE k \in 1..Len(parts)
    <3> DEFINE a == parts[k][1].text
               b == parts[k][2].text
               j == k + 1
    <3>1. a \in R /\ b \in R
      BY <2>2, PartIs
    <3>2. j \in 1..m /\ j \in (k + 1)..m /\ ~(k > Len(parts))
      BY <1>1, <2>2
    <3>3. \A f : SpellTurn(f, parts, to, k) = a \o b \o f[j]
      BY <3>2 DEF SpellTurn
    <3> HIDE DEF a, b, j
    <3>4. \A f \in F : f[j] \in R
      BY <3>2
    <3>5. \A c \in R : a \o b \o c \in R
      BY <3>1
    <3> QED
      BY <3>2, <3>3, <3>4, <3>5
  <2> QED
    BY <1>1, <2>1, <2>2
<1> HIDE DEF R, F
<1>5. LooksAhead(1, m, R, step)
  BY <1>1, <1>2, <1>3, <1>4 DEF LooksAhead, F
<1>6. PICK s \in F : \A k \in 1..m : s[k] = step[k][s]
  BY <1>5, AheadExists DEF F
<1>7. s = [k \in 1..m |-> SpellTurn(s, parts, to, k)]
  BY <1>3, <1>6 DEF F
<1> QED
  BY <1>7 DEF IsSpelling, m, F, R

\* A spelling reads as its first piece, its quantifier and the spelling of the others.
LEMMA SpellingIs ==
    ASSUME NEW parts \in Parts, NEW to \in BOOLEAN, NEW s, IsSpelling(s, parts, to)
    PROVE  /\ s[Len(parts) + 1] = ClosingText(to)
           /\ \A k \in 1..Len(parts) : s[k] = parts[k][1].text \o parts[k][2].text \o s[k + 1]
           /\ \A k \in 1..(Len(parts) + 1) : s[k] \in Seq(Bytes)
<1> DEFINE n == Len(parts)
           S == {k \in 1..(n + 1) : s[k] \in Seq(Bytes)}
<1> HIDE DEF Bytes
<1>1. n \in Nat
  BY DEF Parts
<1>2. \A k \in 1..(n + 1) : s[k] = SpellTurn(s, parts, to, k)
  BY <1>1 DEF IsSpelling
<1>3. s[n + 1] = ClosingText(to)
  BY <1>1, <1>2 DEF SpellTurn
<1>4. \A k \in 1..n : s[k] = parts[k][1].text \o parts[k][2].text \o s[k + 1]
  <2> SUFFICES ASSUME NEW k \in 1..n PROVE s[k] = parts[k][1].text \o parts[k][2].text \o s[k + 1]
    OBVIOUS
  <2>1. k \in 1..(n + 1) /\ ~(k > Len(parts))
    BY <1>1
  <2>2. SpellTurn(s, parts, to, k) = parts[k][1].text \o parts[k][2].text \o s[k + 1]
    BY <2>1 DEF SpellTurn
  <2> QED
    BY <1>2, <2>1, <2>2
<1>5. Falls(1, n + 1, S)
  <2> SUFFICES ASSUME NEW k \in 1..(n + 1), \A j \in (k + 1)..(n + 1) : j \in S PROVE k \in S
    BY DEF Falls
  <2>1. CASE k = n + 1
    <3>1. s[k] \in Seq(Bytes)
      BY <1>3, <2>1, ClosingIs
    <3> QED
      BY <3>1
  <2>2. CASE k \in 1..n
    <3>1. s[k + 1] \in Seq(Bytes)
      BY <1>1, <2>2
    <3>2. parts[k][1].text \in Seq(Bytes) /\ parts[k][2].text \in Seq(Bytes)
      BY <2>2, PartIs
    <3>3. s[k] \in Seq(Bytes)
      <4> DEFINE a == parts[k][1].text
                 b == parts[k][2].text
                 c == s[k + 1]
      <4>1. s[k] = a \o b \o c
        BY <1>4, <2>2
      <4>2. a \in Seq(Bytes) /\ b \in Seq(Bytes) /\ c \in Seq(Bytes)
        BY <3>1, <3>2
      <4> HIDE DEF a, b, c
      <4> QED
        BY <4>1, <4>2
    <3> QED
      BY <3>3
  <2> QED
    BY <1>1, <2>1, <2>2
<1>6. \A k \in 1..(n + 1) : k \in S
  <2>1. 1 \in Nat /\ n + 1 \in Nat
    BY <1>1
  <2> HIDE DEF S
  <2> QED
    BY <1>5, <2>1, FallInduction
<1> QED
  BY <1>3, <1>4, <1>6

\* No piece begins like a quantifier.
LEMMA SpellingBegins ==
    ASSUME NEW parts \in Parts, NEW to \in BOOLEAN, NEW s, IsSpelling(s, parts, to),
           NEW k \in 1..(Len(parts) + 1)
    PROVE  At(s[k], 1) \notin QuantifierBytes
<1> DEFINE n == Len(parts)
<1> HIDE DEF Bytes
<1>1. n \in Nat
  BY DEF Parts
<1>2. CASE k = n + 1
  <2>1. s[k] = ClosingText(to)
    BY <1>2, SpellingIs
  <2>2. At(ClosingText(to), 1) \in {"$", End}
    <3>1. At(<<"$">>, 1) = "$" /\ At(<< >>, 1) = End
      BY DEF At
    <3> QED
      BY <3>1 DEF ClosingText
  <2>3. At(s[k], 1) \in {"$", End}
    BY <2>1, <2>2
  <2> QED
    BY <2>3 DEF QuantifierBytes, End
<1>3. CASE k \in 1..n
  <2> DEFINE a == parts[k][1].text
             b == parts[k][2].text
             c == s[k + 1]
             j == k + 1
  <2>1. s[k] = a \o b \o c
    BY <1>3, SpellingIs
  <2>2. a \in Seq(Bytes) /\ b \in Seq(Bytes)
        /\ Unquantified(a, 1) = Compiled("one", parts[k][1].set, Len(a) + 1)
    BY <1>3, PartIs
  <2>3. c \in Seq(Bytes)
    <3>1. j \in 1..(n + 1)
      BY <1>1, <1>3
    <3> HIDE DEF j
    <3>2. s[j] \in Seq(Bytes)
      BY <3>1, SpellingIs
    <3> QED
      BY <3>2 DEF j
  <2>4. Lies(a, a, 0)
    <3> HIDE DEF a
    <3> QED
      BY <2>2, PatternIs DEF Lies
  <2>5. 1 <= Len(a) /\ At(a, 1) \notin NotAnAtom
    <3> HIDE DEF a
    <3> QED
      BY <2>2, <2>4, UnquantifiedThere
  <2>6. At(a \o b \o c, 1) = At(a, 1)
    <3> HIDE DEF a, b, c
    <3> QED
      BY <2>2, <2>3, <2>5 DEF At
  <2>7. At(s[k], 1) \notin NotAnAtom
    BY <2>1, <2>5, <2>6
  <2> QED
    BY <2>7 DEF NotAnAtom, QuantifierBytes
<1> QED
  BY <1>1, <1>2, <1>3

\* A text that ends the pattern.
Finishes(text, pattern, d) == Lies(text, pattern, d) /\ d + Len(text) = Len(pattern)

LEMMA EndsApart ==
    ASSUME NEW a \in Seq(Bytes), NEW b \in Seq(Bytes), NEW c \in Seq(Bytes),
           NEW pattern, NEW d, Finishes(a \o b \o c, pattern, d)
    PROVE  /\ Lies(a, pattern, d) /\ Lies(b, pattern, d + Len(a))
           /\ Finishes(c, pattern, d + Len(a) + Len(b))
           /\ At(pattern, d + Len(a) + Len(b) + 1) = At(c, 1)
<1> DEFINE t == a \o b \o c
           la == Len(a)
           lb == Len(b)
           lc == Len(c)
<1> HIDE DEF Bytes
<1>1. la \in Nat /\ lb \in Nat /\ lc \in Nat
  OBVIOUS
<1>2. /\ t \in Seq(Bytes) /\ pattern \in Seq(Bytes) /\ d \in Nat /\ Len(pattern) \in Nat
      /\ d + Len(t) = Len(pattern) /\ \A k \in 1..Len(t) : pattern[d + k] = t[k]
  BY PatternIs DEF Finishes, Lies
<1>3. Len(t) = la + lb + lc
  OBVIOUS
<1>4. \A k \in 1..la : t[k] = a[k]
  OBVIOUS
<1>5. \A k \in 1..lb : t[la + k] = b[k]
  OBVIOUS
<1>6. \A k \in 1..lc : t[la + lb + k] = c[k]
  OBVIOUS
<1> HIDE DEF t, la, lb, lc
<1>7. \A k \in 1..la : pattern[d + k] = a[k]
  <2>1. \A k \in 1..la : k \in 1..Len(t)
    BY <1>1, <1>3
  <2> QED
    BY <1>2, <1>4, <2>1
<1>8. \A k \in 1..lb : pattern[d + la + k] = b[k]
  <2>1. \A k \in 1..lb : la + k \in 1..Len(t) /\ d + (la + k) = d + la + k
    BY <1>1, <1>2, <1>3
  <2> QED
    BY <1>2, <1>5, <2>1
<1>9. \A k \in 1..lc : pattern[d + la + lb + k] = c[k]
  <2>1. \A k \in 1..lc : la + lb + k \in 1..Len(t) /\ d + (la + lb + k) = d + la + lb + k
    BY <1>1, <1>2, <1>3
  <2> QED
    BY <1>2, <1>6, <2>1
<1>10. /\ d + la \in Nat /\ d + la + lb \in Nat /\ d + la <= Len(pattern)
       /\ d + la + lb <= Len(pattern) /\ d + la + lb + lc = Len(pattern)
  BY <1>1, <1>2, <1>3
<1>11. At(pattern, d + la + lb + 1) = At(c, 1)
  <2>1. CASE lc = 0
    <3>1. d + la + lb = Len(pattern)
      BY <1>10, <1>1, <2>1
    <3>2. At(c, 1) = End
      BY <1>1, <2>1 DEF At, lc
    <3> QED
      BY <1>2, <3>1, <3>2, PatternIs
  <2>2. CASE lc # 0
    <3>1. 1 \in 1..lc
      BY <1>1, <2>2
    <3>2. pattern[d + la + lb + 1] = c[1]
      BY <1>9, <3>1
    <3>3. At(c, 1) = c[1]
      BY <3>1 DEF At, lc
    <3>4. d + la + lb + 1 <= Len(pattern)
      BY <1>1, <1>10, <2>2
    <3> QED
      BY <3>2, <3>3, <3>4 DEF At
  <2> QED
    BY <2>1, <2>2
<1> QED
  BY <1>2, <1>7, <1>8, <1>9, <1>10, <1>11 DEF Lies, Finishes, la, lb, lc

PieceAtom(part) == Atom("one", part[1].set, part[2].bounds)
ClosingAtoms(to) == IF to THEN <<Atom("end", {}, Once)>> ELSE << >>
\* The atoms of the pieces from the k-th on.
TailAtoms(parts, to, k) ==
    [j \in 1..(Len(parts) + 1 - k) |-> PieceAtom(parts[k - 1 + j])] \o ClosingAtoms(to)

PartAtoms(parts) == {PieceAtom(parts[k]) : k \in 1..Len(parts)} \union {Atom("end", {}, Once)}

LEMMA TailIs ==
    ASSUME NEW parts \in Parts, NEW to \in BOOLEAN
    PROVE  /\ TailAtoms(parts, to, Len(parts) + 1) = ClosingAtoms(to)
           /\ \A k \in 1..Len(parts) :
                 TailAtoms(parts, to, k) = <<PieceAtom(parts[k])>> \o TailAtoms(parts, to, k + 1)
           /\ \A k \in 1..(Len(parts) + 1) : TailAtoms(parts, to, k) \in Seq(PartAtoms(parts))
           /\ TailAtoms(parts, to, 1) = [k \in DOMAIN parts |-> PieceAtom(parts[k])] \o ClosingAtoms(to)
<1> DEFINE n == Len(parts)
           A == PartAtoms(parts)
           closing == ClosingAtoms(to)
           Body(k) == [j \in 1..(n + 1 - k) |-> PieceAtom(parts[k - 1 + j])]
<1>1. n \in Nat /\ DOMAIN parts = 1..n
  BY DEF Parts
<1>2. closing \in Seq(A)
  <2>1. Atom("end", {}, Once) \in A
    BY DEF PartAtoms
  <2> HIDE DEF A
  <2>2. <<Atom("end", {}, Once)>> \in Seq(A) /\ << >> \in Seq(A)
    BY <2>1
  <2> QED
    BY <2>2 DEF ClosingAtoms
<1>3. \A k \in 1..n : PieceAtom(parts[k]) \in A
  BY DEF PartAtoms
<1> HIDE DEF A, closing, n
<1>4. ASSUME NEW k \in 1..(n + 1) PROVE Body(k) \in Seq(A) /\ Len(Body(k)) = n + 1 - k
  <2>1. n + 1 - k \in Nat
    BY <1>1
  <2>2. \A j \in 1..(n + 1 - k) : k - 1 + j \in 1..n
    BY <1>1
  <2>3. \A j \in 1..(n + 1 - k) : PieceAtom(parts[k - 1 + j]) \in A
    BY <1>3, <2>2
  <2> DEFINE m == n + 1 - k
  <2> HIDE DEF m
  <2>4. [j \in 1..m |-> PieceAtom(parts[k - 1 + j])] \in Seq(A)
        /\ Len([j \in 1..m |-> PieceAtom(parts[k - 1 + j])]) = m
    BY <2>1, <2>3 DEF m
  <2> QED
    BY <2>4 DEF m
<1>5. \A k \in 1..(n + 1) : TailAtoms(parts, to, k) = Body(k) \o closing
  BY DEF TailAtoms, closing, n
<1>6. Body(n + 1) = << >>
  <2>1. n + 1 \in 1..(n + 1)
    BY <1>1
  <2>2. Body(n + 1) \in Seq(A) /\ Len(Body(n + 1)) = n + 1 - (n + 1)
    BY <1>4, <2>1
  <2>3. n + 1 - (n + 1) = 0
    BY <1>1
  <2> DEFINE body == Body(n + 1)
  <2>4. body \in Seq(A) /\ Len(body) = 0
    BY <2>2, <2>3
  <2> HIDE DEF body
  <2>5. body = << >>
    BY <2>4, EmptySeq
  <2> QED
    BY <2>5 DEF body
<1>7. TailAtoms(parts, to, n + 1) = closing
  <2>1. n + 1 \in 1..(n + 1)
    BY <1>1
  <2>2. TailAtoms(parts, to, n + 1) = << >> \o closing
    BY <1>5, <1>6, <2>1
  <2> QED
    BY <1>2, <2>2, ConcatEmptySeq
<1>8. ASSUME NEW k \in 1..n
      PROVE  TailAtoms(parts, to, k) = <<PieceAtom(parts[k])>> \o TailAtoms(parts, to, k + 1)
  <2> DEFINE a == PieceAtom(parts[k])
             body == Body(k)
             rest == Body(k + 1)
  <2>1. k \in 1..(n + 1) /\ k + 1 \in 1..(n + 1)
    BY <1>1
  <2>2. body \in Seq(A) /\ Len(body) = n + 1 - k
    BY <1>4, <2>1
  <2>3. rest \in Seq(A) /\ Len(rest) = n + 1 - (k + 1)
    BY <1>4, <2>1
  <2>4. \A j \in 1..(n + 1 - k) : body[j] = PieceAtom(parts[k - 1 + j])
    OBVIOUS
  <2>5. \A j \in 1..(n + 1 - (k + 1)) : rest[j] = PieceAtom(parts[k + 1 - 1 + j])
    OBVIOUS
  <2>6. a \in A
    BY <1>3
  <2>7. \A j \in 1..(n + 1 - k) : j = 1 => k - 1 + j = k
    BY <1>1
  <2>8. \A j \in 2..(n + 1 - k) : j - 1 \in 1..(n + 1 - (k + 1)) /\ k + 1 - 1 + (j - 1) = k - 1 + j
    BY <1>1
  <2>9. \A j \in 1..(n + 1 - k) : body[j] = IF j = 1 THEN a ELSE rest[j - 1]
    <3> HIDE DEF body, rest
    <3>1. \A j \in 1..(n + 1 - k) : j = 1 => body[j] = a
      BY <2>4, <2>7
    <3>2. \A j \in 2..(n + 1 - k) : rest[j - 1] = PieceAtom(parts[k - 1 + j])
      BY <2>5, <2>8
    <3>3. \A j \in 1..(n + 1 - k) : j # 1 => j \in 2..(n + 1 - k)
      BY <1>1
    <3> QED
      BY <2>4, <3>1, <3>2, <3>3
  <2> HIDE DEF body, rest, a
  <2>10. body = <<a>> \o rest
    <3> DEFINE s == <<a>>
    <3>1. s \in Seq(A) /\ Len(s) = 1 /\ s[1] = a
      BY <2>6
    <3> HIDE DEF s
    <3>2. s \o rest \in Seq(A) /\ Len(s \o rest) = n + 1 - k
          /\ \A j \in 1..(n + 1 - k) : (s \o rest)[j] = IF j <= 1 THEN s[j] ELSE rest[j - 1]
      <4>1. /\ s \o rest \in Seq(A) /\ Len(s \o rest) = Len(s) + Len(rest)
            /\ \A j \in 1..(Len(s) + Len(rest)) :
                  (s \o rest)[j] = IF j <= Len(s) THEN s[j] ELSE rest[j - Len(s)]
        BY <2>3, <3>1, ConcatProperties
      <4>2. Len(s) + Len(rest) = n + 1 - k
        BY <1>1, <2>3, <3>1
      <4> QED
        BY <3>1, <4>1, <4>2
    <3>3. \A j \in 1..(n + 1 - k) : (s \o rest)[j] = body[j]
      <4> SUFFICES ASSUME NEW j \in 1..(n + 1 - k) PROVE (s \o rest)[j] = body[j]
        OBVIOUS
      <4>1. CASE j = 1
        BY <2>9, <3>1, <3>2, <4>1
      <4>2. CASE j # 1
        <5>1. ~(j <= 1)
          BY <1>1, <4>2
        <5> QED
          BY <2>9, <3>2, <4>2, <5>1
      <4> QED
        BY <4>1, <4>2
    <3>4. body = s \o rest
      BY <2>2, <3>2, <3>3, SeqEqual
    <3> QED
      BY <3>4 DEF s
  <2>11. <<a>> \in Seq(A)
    BY <2>6
  <2>12. (<<a>> \o rest) \o closing = <<a>> \o (rest \o closing)
    BY <1>2, <2>3, <2>11, ConcatAssociative
  <2>13. TailAtoms(parts, to, k) = body \o closing /\ TailAtoms(parts, to, k + 1) = rest \o closing
    BY <1>5, <2>1 DEF body, rest
  <2> QED
    BY <2>10, <2>12, <2>13 DEF a
<1>9. \A k \in 1..(n + 1) : TailAtoms(parts, to, k) \in Seq(A)
  <2> SUFFICES ASSUME NEW k \in 1..(n + 1) PROVE TailAtoms(parts, to, k) \in Seq(A)
    OBVIOUS
  <2> DEFINE body == Body(k)
  <2>1. body \in Seq(A) /\ TailAtoms(parts, to, k) = body \o closing
    BY <1>4, <1>5
  <2> HIDE DEF body
  <2> QED
    BY <1>2, <2>1
<1>10. TailAtoms(parts, to, 1) = [k \in DOMAIN parts |-> PieceAtom(parts[k])] \o closing
  <2>1. 1 \in 1..(n + 1) /\ n + 1 - 1 = n /\ \A j \in 1..n : 1 - 1 + j = j
    BY <1>1
  <2>2. Body(1) = [k \in DOMAIN parts |-> PieceAtom(parts[k])]
    BY <1>1, <2>1
  <2> QED
    BY <1>5, <2>1, <2>2
<1> QED
  BY <1>7, <1>8, <1>9, <1>10 DEF n, A, closing

\* The turn of the compiler at an atom that is neither refused nor one too many.
LEMMA TurnIs ==
    ASSUME NEW from, NEW pattern \in Seq(Bytes), IsCompiling(from, pattern),
           NEW i \in 1..(Len(pattern) + 1), NEW n \in 0..MaxAtoms
    PROVE  /\ At(pattern, i) = End => from[i][n] = [ok |-> TRUE, atoms |-> << >>]
           /\ At(pattern, i) # End /\ (n = MaxAtoms \/ ~Unquantified(pattern, i).ok)
                => from[i][n] = Refused
           /\ At(pattern, i) # End /\ n # MaxAtoms /\ Unquantified(pattern, i).ok
                => from[i][n] = Prefixed(AtomAt(pattern, i), from[NextAt(pattern, i)][n + 1])
<1> HIDE DEF Bytes
<1>1. from[i][n] = CompileTurn(from, pattern, i, n)
  <2> DEFINE turns == [j \in 1..(Len(pattern) + 1) |->
                         [m \in 0..MaxAtoms |-> CompileTurn(from, pattern, j, m)]]
  <2>1. from = turns
    BY DEF IsCompiling
  <2>2. turns[i][n] = CompileTurn(from, pattern, i, n)
    OBVIOUS
  <2> HIDE DEF turns
  <2> QED
    BY <2>1, <2>2
<1>2. At(pattern, i) = End => CompileTurn(from, pattern, i, n) = [ok |-> TRUE, atoms |-> << >>]
  BY DEF CompileTurn
<1>3. At(pattern, i) # End /\ (n = MaxAtoms \/ ~Unquantified(pattern, i).ok)
        => CompileTurn(from, pattern, i, n) = Refused
  BY DEF CompileTurn
<1>4. At(pattern, i) # End /\ n # MaxAtoms /\ Unquantified(pattern, i).ok
        => CompileTurn(from, pattern, i, n)
             = Prefixed(AtomAt(pattern, i), from[NextAt(pattern, i)][n + 1])
  BY DEF CompileTurn
<1> QED
  BY <1>1, <1>2, <1>3, <1>4

\* Behind its first d bytes the pattern compiles to these atoms.
Yields(from, atoms, d, n) == from[d + 1][n] = [ok |-> TRUE, atoms |-> atoms]
TailYields(from, pattern, parts, to, s, k) ==
    \A d \in Nat, n \in 0..MaxAtoms :
        Finishes(s[k], pattern, d) /\ n + (Len(parts) + 1 - k) + 1 <= MaxAtoms
            => Yields(from, TailAtoms(parts, to, k), d, n)

LEMMA PieceYields ==
    ASSUME NEW from, NEW pattern \in Seq(Bytes), IsCompiling(from, pattern),
           NEW parts \in Parts, NEW to \in BOOLEAN, NEW s, IsSpelling(s, parts, to),
           NEW k \in 1..Len(parts), TailYields(from, pattern, parts, to, s, k + 1)
    PROVE  TailYields(from, pattern, parts, to, s, k)
<1> HIDE DEF Bytes
<1> SUFFICES ASSUME NEW d \in Nat, NEW n \in 0..MaxAtoms, Finishes(s[k], pattern, d),
                    n + (Len(parts) + 1 - k) + 1 <= MaxAtoms
             PROVE  Yields(from, TailAtoms(parts, to, k), d, n)
  BY DEF TailYields
<1> DEFINE part == parts[k]
           a == part[1].text
           b == part[2].text
           c == s[k + 1]
           i == d + 1
           e == d + Len(a)
           f == d + Len(a) + Len(b)
           atom == Unquantified(pattern, i)
           rest == TailAtoms(parts, to, k + 1)
<1>1. /\ a \in Seq(Bytes) /\ b \in Seq(Bytes)
      /\ Unquantified(a, 1) = Compiled("one", part[1].set, Len(a) + 1)
      /\ Quantified(b, 1) = [bounds |-> part[2].bounds, next |-> Len(b) + 1]
  BY PartIs
<1>2. Len(parts) \in Nat /\ MaxAtoms \in Nat /\ Len(pattern) \in Nat /\ k \in 1..Len(parts)
  BY PatternIs, RegexAssumption DEF Parts
<1>3. c \in Seq(Bytes) /\ At(c, 1) \notin QuantifierBytes
  <2> DEFINE j == k + 1
  <2>1. j \in 1..(Len(parts) + 1)
    BY <1>2
  <2> HIDE DEF j
  <2>2. s[j] \in Seq(Bytes) /\ At(s[j], 1) \notin QuantifierBytes
    BY <2>1, SpellingIs, SpellingBegins
  <2> QED
    BY <2>2 DEF j
<1>4. s[k] = a \o b \o c
  BY SpellingIs
<1> HIDE DEF a, b, c
<1>5. /\ Lies(a, pattern, d) /\ Lies(b, pattern, e) /\ Finishes(c, pattern, f)
      /\ At(pattern, f + 1) = At(c, 1)
  BY <1>1, <1>3, <1>4, EndsApart
<1>6. 1 <= Len(a) /\ atom = Compiled("one", part[1].set, d + Len(a) + 1)
  <2> DEFINE set == part[1].set
  <2>1. Lies(a, pattern, d) /\ Unquantified(a, 1) = Compiled("one", set, Len(a) + 1)
    BY <1>1, <1>5
  <2> HIDE DEF set
  <2>2. 1 <= Len(a) /\ Unquantified(pattern, d + 1) = Compiled("one", set, d + Len(a) + 1)
    BY <2>1, UnquantifiedThere
  <2> QED
    BY <2>2 DEF set
<1>7. Len(a) \in Nat /\ Len(b) \in Nat /\ e \in Nat /\ f \in Nat /\ f <= Len(pattern)
  <2>1. Len(a) \in Nat /\ Len(b) \in Nat /\ Len(c) \in Nat
    BY <1>1, <1>3
  <2>2. e \in Nat /\ f \in Nat
    BY <2>1
  <2>3. f + Len(c) = Len(pattern)
    BY <1>5 DEF Finishes
  <2> HIDE DEF e, f
  <2> QED
    BY <1>2, <2>1, <2>2, <2>3
<1>8. i \in 1..Len(pattern)
  <2>1. d + Len(a) <= Len(pattern)
    BY <1>5 DEF Lies
  <2> QED
    BY <1>2, <1>6, <1>7, <2>1
<1>9. Quantified(pattern, e + 1) = [bounds |-> part[2].bounds, next |-> f + 1]
  <2>1. At(pattern, e + Len(b) + 1) \notin QuantifierBytes
    BY <1>3, <1>5
  <2> HIDE DEF e
  <2>2. Quantified(pattern, e + 1) = [bounds |-> part[2].bounds, next |-> e + Len(b) + 1]
    BY <1>1, <1>5, <2>1, QuantifiedThere
  <2> QED
    BY <2>2 DEF e
<1>10. atom.ok /\ atom.kind = "one" /\ atom.set = part[1].set /\ atom.next = e + 1
  BY <1>6 DEF Compiled
<1>11. SuffixAt(pattern, i) = [bounds |-> part[2].bounds, next |-> f + 1]
  <2>1. SuffixAt(pattern, i) = Quantified(pattern, atom.next)
    BY <1>10 DEF SuffixAt, Suffix
  <2> HIDE DEF atom, e, f
  <2> QED
    BY <1>9, <1>10, <2>1
<1>12. AtomAt(pattern, i) = PieceAtom(part) /\ NextAt(pattern, i) = f + 1
  BY <1>10, <1>11 DEF AtomAt, NextAt, PieceAtom
<1> HIDE DEF atom, i, e, f, part, rest
<1>13. n # MaxAtoms /\ n + 1 \in 0..MaxAtoms
       /\ (n + 1) + (Len(parts) + 1 - (k + 1)) + 1 <= MaxAtoms
  BY <1>2
<1>14. Yields(from, rest, f, n + 1)
  <2> DEFINE m == n + 1
             j == k + 1
  <2>1. m \in 0..MaxAtoms /\ m + (Len(parts) + 1 - j) + 1 <= MaxAtoms
    BY <1>13
  <2>2. Finishes(s[j], pattern, f) /\ TailYields(from, pattern, parts, to, s, j)
    BY <1>5 DEF c
  <2> HIDE DEF m, j
  <2>3. Yields(from, TailAtoms(parts, to, j), f, m)
    BY <1>7, <2>1, <2>2 DEF TailYields
  <2> QED
    BY <2>3 DEF m, j, rest
<1>15. At(pattern, i) # End
  BY <1>8, PatternIs
<1>16. from[i][n] = Prefixed(PieceAtom(part), from[f + 1][n + 1])
  <2>1. i \in 1..(Len(pattern) + 1)
    BY <1>2, <1>8
  <2>2. Unquantified(pattern, i).ok
    BY <1>10 DEF atom
  <2>3. from[i][n] = Prefixed(AtomAt(pattern, i), from[NextAt(pattern, i)][n + 1])
    BY <1>13, <1>15, <2>1, <2>2, TurnIs
  <2> QED
    BY <1>12, <2>3
<1>17. Prefixed(PieceAtom(part), from[f + 1][n + 1])
          = [ok |-> TRUE, atoms |-> <<PieceAtom(part)>> \o rest]
  <2> DEFINE r == from[f + 1][n + 1]
  <2>1. r.ok /\ r.atoms = rest
    BY <1>14 DEF Yields
  <2> HIDE DEF r
  <2> QED
    BY <2>1 DEF Prefixed, r
<1>18. TailAtoms(parts, to, k) = <<PieceAtom(part)>> \o rest
  BY TailIs DEF part, rest
<1> QED
  BY <1>16, <1>17, <1>18 DEF Yields, i

LEMMA ClosingYields ==
    ASSUME NEW from, NEW pattern \in Seq(Bytes), IsCompiling(from, pattern),
           NEW parts \in Parts, NEW to \in BOOLEAN, NEW s, IsSpelling(s, parts, to)
    PROVE  TailYields(from, pattern, parts, to, s, Len(parts) + 1)
<1> HIDE DEF Bytes
<1> SUFFICES ASSUME NEW d \in Nat, NEW n \in 0..MaxAtoms, Finishes(s[Len(parts) + 1], pattern, d),
                    n + (Len(parts) + 1 - (Len(parts) + 1)) + 1 <= MaxAtoms
             PROVE  Yields(from, TailAtoms(parts, to, Len(parts) + 1), d, n)
  BY DEF TailYields
<1>1. Len(parts) \in Nat /\ MaxAtoms \in Nat /\ Len(pattern) \in Nat
  BY PatternIs, RegexAssumption DEF Parts
<1>2. Finishes(ClosingText(to), pattern, d) /\ TailAtoms(parts, to, Len(parts) + 1) = ClosingAtoms(to)
  BY SpellingIs, TailIs
<1>3. n # MaxAtoms /\ n + 1 \in 0..MaxAtoms
  BY <1>1
<1>4. CASE ~to
  <2>1. d + 0 = Len(pattern)
    BY <1>2, <1>4 DEF ClosingText, Finishes
  <2> DEFINE i == d + 1
  <2>2. i \in 1..(Len(pattern) + 1) /\ At(pattern, i) = End
    BY <1>1, <2>1, PatternIs
  <2>3. from[i][n] = [ok |-> TRUE, atoms |-> << >>]
    <3> HIDE DEF i
    <3> QED
      BY <2>2, TurnIs
  <2> QED
    BY <1>2, <1>4, <2>3 DEF Yields, ClosingAtoms
<1>5. CASE to
  <2> DEFINE t == <<"$">>
             i == d + 1
             j == d + 2
             m == n + 1
  <2>1. Len(t) = 1 /\ t[1] = "$" /\ Finishes(t, pattern, d)
    BY <1>2, <1>5 DEF ClosingText
  <2> HIDE DEF t
  <2>2. d + 1 = Len(pattern) /\ At(pattern, i) = "$"
    <3>1. d + 1 = Len(pattern) /\ pattern[d + 1] = t[1]
      BY <2>1 DEF Finishes, Lies
    <3> QED
      BY <2>1, <3>1 DEF At
  <2>3. i \in 1..Len(pattern) /\ i \in 1..(Len(pattern) + 1) /\ j \in 1..(Len(pattern) + 1)
        /\ At(pattern, j) = End /\ At(pattern, i) # End
    <3>1. j = Len(pattern) + 1 /\ i = Len(pattern) /\ i \in 1..Len(pattern)
      BY <1>1, <2>2
    <3> HIDE DEF i, j
    <3> QED
      BY <1>1, <3>1, PatternIs
  <2>4. Unquantified(pattern, i) = Compiled("end", {}, j)
    <3>1. UnquantifiedAs(pattern, i, j, d + 3)
      <4>1. UnquantifiedAs(pattern, i, i + 1, i + 2) /\ i + 1 = j /\ i + 2 = d + 3
        BY UnquantifiedBy
      <4> QED
        BY <4>1
    <3> QED
      BY <2>2, <3>1 DEF UnquantifiedAs
  <2>5. /\ Unquantified(pattern, i).ok /\ Unquantified(pattern, i).kind = "end"
        /\ Unquantified(pattern, i).set = {} /\ Unquantified(pattern, i).next = j
    BY <2>4 DEF Compiled
  <2> HIDE DEF i, j
  <2>6. SuffixAt(pattern, i) = [bounds |-> Once, next |-> j]
    BY <2>5 DEF SuffixAt, Suffix
  <2>7. AtomAt(pattern, i) = Atom("end", {}, Once) /\ NextAt(pattern, i) = j
    BY <2>5, <2>6 DEF AtomAt, NextAt
  <2>8. from[j][m] = [ok |-> TRUE, atoms |-> << >>]
    <3>1. m \in 0..MaxAtoms
      BY <1>3
    <3> HIDE DEF m
    <3> QED
      BY <2>3, <3>1, TurnIs
  <2>9. from[i][n] = Prefixed(Atom("end", {}, Once), from[j][n + 1])
    BY <1>3, <2>3, <2>5, <2>7, TurnIs
  <2> DEFINE last == Atom("end", {}, Once)
             r == from[j][m]
  <2>10. from[i][n] = Prefixed(last, r) /\ r.ok /\ r.atoms = << >>
    BY <2>8, <2>9
  <2> HIDE DEF last, r
  <2>11. from[i][n] = [ok |-> TRUE, atoms |-> <<last>>]
    <3>1. <<last>> \o << >> = <<last>>
      OBVIOUS
    <3> QED
      BY <2>10, <3>1 DEF Prefixed
  <2> QED
    BY <1>2, <1>5, <2>11 DEF Yields, ClosingAtoms, last, i
<1> QED
  BY <1>4, <1>5

\* The compiler reads the pieces of a pattern, from the last one up.
LEMMA PartsYield ==
    ASSUME NEW from, NEW pattern \in Seq(Bytes), IsCompiling(from, pattern),
           NEW parts \in Parts, NEW to \in BOOLEAN, NEW s, IsSpelling(s, parts, to)
    PROVE  TailYields(from, pattern, parts, to, s, 1)
<1> DEFINE n == Len(parts)
           S == {k \in 1..(n + 1) : TailYields(from, pattern, parts, to, s, k)}
<1> HIDE DEF Bytes
<1>1. n \in Nat /\ 1 \in Nat /\ n + 1 \in Nat
  BY DEF Parts
<1>2. Falls(1, n + 1, S)
  <2> SUFFICES ASSUME NEW k \in 1..(n + 1), \A j \in (k + 1)..(n + 1) : j \in S PROVE k \in S
    BY DEF Falls
  <2>1. CASE k = n + 1
    <3>1. TailYields(from, pattern, parts, to, s, k)
      BY <2>1, ClosingYields
    <3> QED
      BY <3>1
  <2>2. CASE k \in 1..n
    <3>1. k + 1 \in (k + 1)..(n + 1)
      BY <1>1, <2>2
    <3>2. TailYields(from, pattern, parts, to, s, k + 1)
      BY <3>1
    <3>3. TailYields(from, pattern, parts, to, s, k)
      BY <2>2, <3>2, PieceYields
    <3> QED
      BY <3>3
  <2> QED
    BY <1>1, <2>1, <2>2
<1>3. \A k \in 1..(n + 1) : k \in S
  <2> HIDE DEF S
  <2> QED
    BY <1>1, <1>2, FallInduction
<1>4. 1 \in 1..(n + 1)
  BY <1>1
<1> QED
  BY <1>3, <1>4

OpeningAtoms(from) == IF from THEN <<Atom("start", {}, Once)>> ELSE << >>

LEMMA MeantIs ==
    ASSUME NEW parts \in Parts, NEW from \in BOOLEAN, NEW to \in BOOLEAN
    PROVE  /\ Meant(parts, from, to) = OpeningAtoms(from) \o TailAtoms(parts, to, 1)
           /\ Len(Meant(parts, from, to)) \in Nat
           /\ \A k \in 1..Len(Meant(parts, from, to)) : IsAtom(Meant(parts, from, to)[k])
<1> DEFINE A == PartAtoms(parts) \union {Atom("start", {}, Once)}
           body == [k \in DOMAIN parts |-> PieceAtom(parts[k])]
           opening == OpeningAtoms(from)
           closing == ClosingAtoms(to)
           it == Meant(parts, from, to)
<1>1. it = opening \o body \o closing
  BY DEF Meant, OpeningAtoms, ClosingAtoms, PieceAtom
<1>2. TailAtoms(parts, to, 1) = body \o closing /\ TailAtoms(parts, to, 1) \in Seq(PartAtoms(parts))
  <2>1. Len(parts) \in Nat
    BY DEF Parts
  <2>2. 1 \in 1..(Len(parts) + 1)
    BY <2>1
  <2> QED
    BY <2>2, TailIs
<1>3. opening \in Seq(A) /\ body \in Seq(A) /\ closing \in Seq(A)
  <2>1. Atom("start", {}, Once) \in A /\ Atom("end", {}, Once) \in A
    BY DEF PartAtoms
  <2>2. DOMAIN parts = 1..Len(parts) /\ Len(parts) \in Nat
    BY DEF Parts
  <2>3. \A k \in 1..Len(parts) : PieceAtom(parts[k]) \in A
    BY DEF PartAtoms
  <2> HIDE DEF A
  <2>4. <<Atom("start", {}, Once)>> \in Seq(A) /\ <<Atom("end", {}, Once)>> \in Seq(A) /\ << >> \in Seq(A)
    BY <2>1
  <2>5. opening \in Seq(A) /\ closing \in Seq(A)
    BY <2>4 DEF OpeningAtoms, ClosingAtoms
  <2>6. body \in Seq(A)
    BY <2>2, <2>3
  <2> QED
    BY <2>5, <2>6
<1>4. \A atom \in A : IsAtom(atom)
  <2>1. IsAtom(Atom("start", {}, Once)) /\ IsAtom(Atom("end", {}, Once))
    BY DEF IsAtom, Atom, Once
  <2>2. ASSUME NEW k \in 1..Len(parts) PROVE IsAtom(PieceAtom(parts[k]))
    <3> DEFINE bounds == parts[k][2].bounds
    <3>1. bounds \in Nat \X (Nat \union {Unbounded})
      BY PartIs
    <3> HIDE DEF bounds
    <3>2. bounds[1] \in Nat /\ bounds[2] \in Nat \union {Unbounded}
      BY <3>1
    <3>3. PieceAtom(parts[k]) = [kind |-> "one", set |-> parts[k][1].set, min |-> bounds[1], max |-> bounds[2]]
      BY DEF PieceAtom, Atom, bounds
    <3>4. PieceAtom(parts[k]).kind = "one" /\ PieceAtom(parts[k]).min = bounds[1]
          /\ PieceAtom(parts[k]).max = bounds[2]
      BY <3>3
    <3> QED
      BY <3>2, <3>4 DEF IsAtom
  <2> QED
    BY <2>1, <2>2 DEF PartAtoms
<1> HIDE DEF A, body, opening, closing, it
<1>5. it \in Seq(A)
  BY <1>1, <1>3
<1>6. it = opening \o TailAtoms(parts, to, 1)
  <2>1. (opening \o body) \o closing = opening \o (body \o closing)
    BY <1>3, ConcatAssociative
  <2> QED
    BY <1>1, <1>2, <2>1
<1>7. Len(it) \in Nat /\ \A k \in 1..Len(it) : it[k] \in A
  BY <1>5
<1> QED
  BY <1>4, <1>6, <1>7 DEF it, opening

LEMMA Prepended ==
    ASSUME NEW S, NEW t \in Seq(S), Len(t) = 1, NEW u \in Seq(S)
    PROVE  /\ Len(u) \in Nat /\ Len(t \o u) = 1 + Len(u) /\ (t \o u)[1] = t[1]
           /\ \A k \in 1..Len(u) : (t \o u)[1 + k] = u[k]
<1> DEFINE v == t \o u
<1>1. /\ Len(v) = Len(t) + Len(u)
      /\ \A k \in 1..(Len(t) + Len(u)) : v[k] = IF k <= Len(t) THEN t[k] ELSE u[k - Len(t)]
  BY ConcatProperties
<1>2. Len(u) \in Nat
  OBVIOUS
<1> HIDE DEF v
<1>3. Len(v) = 1 + Len(u) /\ \A k \in 1..(1 + Len(u)) : v[k] = IF k <= 1 THEN t[k] ELSE u[k - 1]
  BY <1>1
<1>4. v[1] = t[1]
  BY <1>2, <1>3
<1>5. ASSUME NEW k \in 1..Len(u) PROVE v[1 + k] = u[k]
  <2>1. 1 + k \in 1..(1 + Len(u)) /\ ~(1 + k <= 1) /\ (1 + k) - 1 = k
    BY <1>2
  <2> QED
    BY <1>3, <2>1
<1> QED
  BY <1>2, <1>3, <1>4, <1>5 DEF v

\* A pattern put together from pieces compiles to what the pieces mean.
LEMMA SpelledCompiles ==
    ASSUME NEW parts \in Parts, NEW from \in BOOLEAN, NEW to \in BOOLEAN
    PROVE  Compile(Spelled(parts, from, to)) = [ok |-> TRUE, atoms |-> Meant(parts, from, to)]
<1> DEFINE pattern == Spelled(parts, from, to)
           tail == TailAtoms(parts, to, 1)
<1> HIDE DEF Bytes
<1>1. PICK s : IsSpelling(s, parts, to) /\ pattern = OpeningText(from) \o s[1]
  <2>1. \E s : IsSpelling(s, parts, to)
    BY SpellingExists
  <2> QED
    BY <2>1, SpelledIs
<1>2. Len(parts) \in Nat /\ Len(parts) + 2 <= MaxAtoms /\ MaxAtoms \in Nat
  <2>1. Len(parts) \in Nat /\ Len(parts) <= MaxPieces /\ MaxPieces \in Nat
        /\ MaxPieces + 2 <= MaxAtoms /\ MaxAtoms \in Nat
    BY RegexAssumption, PieceAssumption DEF Parts
  <2> QED
    BY <2>1
<1> DEFINE text == s[1]
<1>3. text \in Seq(Bytes)
  <2>1. 1 \in 1..(Len(parts) + 1)
    BY <1>2
  <2> QED
    BY <1>1, <2>1, SpellingIs
<1>4. OpeningText(from) \in Seq(Bytes)
  <2>1. "^" \in Bytes
    BY PieceAssumption
  <2>2. <<"^">> \in Seq(Bytes) /\ << >> \in Seq(Bytes)
    BY <2>1
  <2> QED
    BY <2>2 DEF OpeningText
<1> HIDE DEF pattern, text
<1>5. pattern \in Seq(Bytes) /\ pattern = OpeningText(from) \o text
  <2>1. pattern = OpeningText(from) \o text
    BY <1>1 DEF text
  <2> HIDE DEF text
  <2> QED
    BY <1>3, <1>4, <2>1
<1>6. PICK comp : IsCompiling(comp, pattern) /\ Compile(pattern) = comp[1][0]
  BY <1>5, CompilingExists, CompileIs
<1>7. TailYields(comp, pattern, parts, to, s, 1)
  BY <1>1, <1>5, <1>6, PartsYield
<1>8. \A d \in Nat, n \in 0..MaxAtoms :
         Finishes(text, pattern, d) /\ n + (Len(parts) + 1 - 1) + 1 <= MaxAtoms => Yields(comp, tail, d, n)
  BY <1>7 DEF TailYields, text
<1>9. CASE ~from
  <2>1. pattern = text
    <3>1. OpeningText(from) = << >>
      BY <1>9 DEF OpeningText
    <3> QED
      BY <1>3, <1>5, <3>1, ConcatEmptySeq
  <2>2. Finishes(text, pattern, 0)
    <3>1. Len(text) \in Nat /\ 0 + Len(text) = Len(pattern)
          /\ \A k \in 1..Len(text) : 0 + k = k
      BY <1>3, <2>1
    <3> QED
      BY <1>3, <2>1, <3>1 DEF Finishes, Lies
  <2>3. Yields(comp, tail, 0, 0)
    <3>1. 0 \in Nat /\ 0 \in 0..MaxAtoms /\ 0 + (Len(parts) + 1 - 1) + 1 <= MaxAtoms
      BY <1>2
    <3> QED
      BY <1>8, <2>2, <3>1
  <2>4. comp[1][0] = [ok |-> TRUE, atoms |-> tail]
    <3>1. 0 + 1 = 1
      OBVIOUS
    <3> QED
      BY <2>3, <3>1 DEF Yields
  <2>5. Meant(parts, from, to) = tail
    <3>1. Meant(parts, from, to) = << >> \o tail
      BY <1>9, MeantIs DEF OpeningAtoms
    <3>2. tail \in Seq(PartAtoms(parts))
      <4>1. 1 \in 1..(Len(parts) + 1)
        BY <1>2
      <4> QED
        BY <4>1, TailIs
    <3> HIDE DEF tail
    <3> QED
      BY <3>1, <3>2, ConcatEmptySeq
  <2> QED
    BY <1>6, <2>4, <2>5 DEF pattern
<1>10. CASE from
  <2> DEFINE t == <<"^">>
             start == Atom("start", {}, Once)
  <2>1. t \in Seq(Bytes) /\ Len(t) = 1 /\ t[1] = "^" /\ pattern = t \o text
    <3>1. OpeningText(from) = t
      BY <1>10 DEF OpeningText
    <3>2. Len(t) = 1 /\ t[1] = "^"
      OBVIOUS
    <3> HIDE DEF t
    <3> QED
      BY <1>4, <1>5, <3>1, <3>2
  <2> HIDE DEF t
  <2>2. /\ Len(text) \in Nat /\ Len(pattern) = 1 + Len(text) /\ pattern[1] = "^"
        /\ \A k \in 1..Len(text) : pattern[1 + k] = text[k]
    BY <1>3, <2>1, Prepended
  <2>3. Finishes(text, pattern, 1)
    BY <1>3, <1>5, <2>2 DEF Finishes, Lies
  <2>4. Yields(comp, tail, 1, 1)
    <3>1. 1 \in Nat /\ 1 \in 0..MaxAtoms /\ 1 + (Len(parts) + 1 - 1) + 1 <= MaxAtoms
      BY <1>2
    <3> QED
      BY <1>8, <2>3, <3>1
  <2>5. comp[2][1] = [ok |-> TRUE, atoms |-> tail]
    <3>1. 1 + 1 = 2
      OBVIOUS
    <3> QED
      BY <2>4, <3>1 DEF Yields
  <2>6. At(pattern, 1) = "^" /\ 1 \in 1..Len(pattern)
    BY <2>2 DEF At
  <2>7. Unquantified(pattern, 1) = Compiled("start", {}, 2)
    <3>1. UnquantifiedAs(pattern, 1, 2, 3)
      <4>1. UnquantifiedAs(pattern, 1, 1 + 1, 1 + 2) /\ 1 + 1 = 2 /\ 1 + 2 = 3
        BY UnquantifiedBy
      <4> QED
        BY <4>1
    <3> QED
      BY <2>6, <3>1 DEF UnquantifiedAs
  <2>8. /\ Unquantified(pattern, 1).ok /\ Unquantified(pattern, 1).kind = "start"
        /\ Unquantified(pattern, 1).set = {} /\ Unquantified(pattern, 1).next = 2
    BY <2>7 DEF Compiled
  <2>9. SuffixAt(pattern, 1) = [bounds |-> Once, next |-> 2]
    BY <2>8 DEF SuffixAt, Suffix
  <2>10. AtomAt(pattern, 1) = start /\ NextAt(pattern, 1) = 2
    BY <2>8, <2>9 DEF AtomAt, NextAt
  <2>11. comp[1][0] = Prefixed(start, comp[2][1])
    <3>1. 1 \in 1..(Len(pattern) + 1) /\ 0 \in 0..MaxAtoms /\ 0 # MaxAtoms /\ At(pattern, 1) # End
      BY <1>2, <2>2, <2>6 DEF End
    <3>2. comp[1][0] = Prefixed(AtomAt(pattern, 1), comp[NextAt(pattern, 1)][0 + 1])
      BY <1>5, <1>6, <2>8, <3>1, TurnIs
    <3>3. 0 + 1 = 1
      OBVIOUS
    <3> QED
      BY <2>10, <3>2, <3>3
  <2>12. comp[1][0] = [ok |-> TRUE, atoms |-> <<start>> \o tail]
    <3> DEFINE r == comp[2][1]
    <3>1. r.ok /\ r.atoms = tail
      BY <2>5
    <3> HIDE DEF r
    <3> QED
      BY <2>11, <3>1 DEF Prefixed, r
  <2>13. Meant(parts, from, to) = <<start>> \o tail
    BY <1>10, MeantIs DEF OpeningAtoms
  <2> QED
    BY <1>6, <2>12, <2>13 DEF pattern
<1> QED
  BY <1>9, <1>10

\* It is supported, and found exactly where it denotes a match.
LEMMA SpelledSearch ==
    ASSUME NEW parts \in Parts, NEW from \in BOOLEAN, NEW to \in BOOLEAN,
           NEW subject \in Seq(Bytes)
    PROVE  Search(Spelled(parts, from, to), subject)
              = [supported |-> TRUE, found |-> Denotes(Meant(parts, from, to), subject)]
<1> DEFINE atoms == Meant(parts, from, to)
           rx == Compile(Spelled(parts, from, to))
           Found == \E start \in 0..Len(subject) : Matches(atoms, subject)[1][start]
<1> HIDE DEF Bytes
<1>1. rx = [ok |-> TRUE, atoms |-> atoms]
  BY SpelledCompiles
<1>2. Len(atoms) \in Nat /\ Len(subject) \in Nat /\ \A k \in 1..Len(atoms) : IsAtom(atoms[k])
  BY MeantIs
<1> HIDE DEF atoms
<1>3. Found <=> Denotes(atoms, subject)
  BY <1>2, SearchIsComplete
<1>4. Search(Spelled(parts, from, to), subject) = SearchCompiled(rx, subject)
  BY DEF Search
<1> HIDE DEF rx
<1>5. rx.ok = TRUE /\ rx.atoms = atoms
  BY <1>1
<1>6. SearchCompiled(rx, subject) = [supported |-> TRUE, found |-> Found]
  BY <1>5 DEF SearchCompiled
<1>7. Found \in BOOLEAN /\ Denotes(atoms, subject) \in BOOLEAN
  BY DEF Denotes
<1>8. Found = Denotes(atoms, subject)
  BY <1>3, <1>7
<1> QED
  BY <1>4, <1>6, <1>8 DEF atoms

-----------------------------------------------------------------------------
(* What no supported pattern holds.                                         *)

\* The backslashes in a row before a place escape it when they are odd in number.
Backslashes(pattern, k) == {j \in 1..(k - 1) : \A l \in j..(k - 1) : pattern[l] = "\\"}
Escaped(pattern, k) == Cardinality(Backslashes(pattern, k)) % 2 = 1

LEMMA EscapedBy ==
    ASSUME NEW pattern, NEW k \in Nat \ {0}
    PROVE  /\ ~Escaped(pattern, 1)
           /\ pattern[k] # "\\" => ~Escaped(pattern, k + 1)
           /\ pattern[k] = "\\" => (Escaped(pattern, k + 1) <=> ~Escaped(pattern, k))
<1>1. Cardinality({}) % 2 # 1
  <2>1. Cardinality({}) = 0
    BY FS_EmptySet
  <2>2. 0 % 2 = 0
    OBVIOUS
  <2> QED
    BY <2>1, <2>2
<1>2. ~Escaped(pattern, 1)
  <2>1. Backslashes(pattern, 1) = {}
    BY DEF Backslashes
  <2> QED
    BY <1>1, <2>1 DEF Escaped
<1>3. ASSUME pattern[k] # "\\" PROVE ~Escaped(pattern, k + 1)
  <2>1. \A j \in 1..k : k \in j..k
    OBVIOUS
  <2>2. k + 1 - 1 = k
    OBVIOUS
  <2>3. Backslashes(pattern, k + 1) = {}
    BY <1>3, <2>1, <2>2 DEF Backslashes
  <2> QED
    BY <1>1, <2>3 DEF Escaped
<1>4. ASSUME pattern[k] = "\\" PROVE Escaped(pattern, k + 1) <=> ~Escaped(pattern, k)
  <2> DEFINE before == Backslashes(pattern, k)
             c == Cardinality(before)
  <2>1. k + 1 - 1 = k /\ \A j : j \in 1..k <=> j \in 1..(k - 1) \/ j = k
    OBVIOUS
  <2>2. ASSUME NEW j \in 1..k
        PROVE  (\A l \in j..k : pattern[l] = "\\") <=> (\A l \in j..(k - 1) : pattern[l] = "\\")
    <3>1. \A l : l \in j..k <=> l \in j..(k - 1) \/ l = k
      OBVIOUS
    <3> QED
      BY <1>4, <3>1
  <2>3. \A l \in k..(k - 1) : FALSE
    OBVIOUS
  <2>4. Backslashes(pattern, k + 1) = before \union {k}
    <3>1. Backslashes(pattern, k + 1) = {j \in 1..k : \A l \in j..k : pattern[l] = "\\"}
      BY <2>1 DEF Backslashes
    <3>2. k \in Backslashes(pattern, k + 1)
      BY <2>1, <2>2, <2>3, <3>1
    <3>3. \A j : j # k => (j \in Backslashes(pattern, k + 1) <=> j \in before)
      BY <2>1, <2>2, <3>1 DEF Backslashes
    <3> HIDE DEF before
    <3>4. \A j : j \in Backslashes(pattern, k + 1) <=> j \in before \union {k}
      BY <3>2, <3>3
    <3> QED
      BY <3>4
  <2>5. k \notin before
    BY DEF Backslashes
  <2>6. IsFiniteSet(before)
    <3>1. IsFiniteSet(1..(k - 1)) /\ before \subseteq 1..(k - 1)
      BY FS_Interval DEF Backslashes
    <3> QED
      BY <3>1, FS_Subset
  <2> HIDE DEF before
  <2>7. c \in Nat /\ Cardinality(before \union {k}) = c + 1
    BY <2>5, <2>6, FS_CardinalityType, FS_AddElement
  <2> HIDE DEF c
  <2>8. (c + 1) % 2 = 1 <=> ~(c % 2 = 1)
    BY <2>7
  <2> QED
    BY <2>4, <2>7, <2>8 DEF Escaped, c, before
<1> QED
  BY <1>2, <1>3, <1>4

\* The byte at a place is no group, alternation or word boundary.
Plain(pattern, k) ==
    /\ pattern[k] \in {"(", ")", "|"} => Escaped(pattern, k)
    /\ pattern[k] = "b" => ~Escaped(pattern, k)

\* Nothing of the kind is in an atom that is taken, and none of its bytes escapes the next.
LEMMA AtomIsPlain ==
    ASSUME NEW pattern \in Seq(Bytes \ {"["}), NEW i \in 1..Len(pattern),
           Unquantified(pattern, i).ok, ~Escaped(pattern, i)
    PROVE  LET next == Unquantified(pattern, i).next
           IN  /\ \A k \in i..(next - 1) : Plain(pattern, k)
               /\ ~Escaped(pattern, next)
<1> DEFINE n == Len(pattern)
           byte == At(pattern, i)
           escaped == At(pattern, i + 1)
           it == Unquantified(pattern, i)
           Fine == (\A k \in i..(it.next - 1) : Plain(pattern, k)) /\ ~Escaped(pattern, it.next)
<1>1. pattern \in Seq(Bytes) /\ n \in Nat /\ i \in 1..n /\ pattern[i] # "["
  OBVIOUS
<1> HIDE DEF Bytes
<1>2. byte = pattern[i] /\ \A k \in Nat : At(pattern, k) # End => k <= n
  BY <1>1, PatternIs
<1>3. UnquantifiedAs(pattern, i, i + 1, i + 2)
  BY UnquantifiedBy
<1>4. byte \notin NotAnAtom
  BY <1>1, UnquantifiedIs
<1>5. ASSUME byte # "\\" PROVE Fine
  <2>1. it.next = i + 1
    <3>1. \E kind, set : it = Compiled(kind, set, i + 1)
      BY <1>1, <1>2, <1>3, <1>4, <1>5 DEF UnquantifiedAs
    <3> HIDE DEF it
    <3> QED
      BY <3>1 DEF Compiled
  <2>2. Plain(pattern, i)
    BY <1>2, <1>4 DEF Plain, NotAnAtom
  <2>3. ~Escaped(pattern, i + 1)
    BY <1>1, <1>2, <1>5, EscapedBy
  <2>4. \A k \in i..(it.next - 1) : k = i
    <3> HIDE DEF it
    <3> QED
      BY <1>1, <2>1
  <2> QED
    BY <2>1, <2>2, <2>3, <2>4
<1>6. ASSUME byte = "\\" PROVE Fine
  <2> DEFINE j == i + 1
             Kept == IF escaped \in {End, "p", "P", "b", "B"} \union (Digits \ {"0"})
                     THEN Refused ELSE Compiled("one", {EscapeLiteral(escaped)}, i + 2)
  <2>1. it.next = i + 2 /\ escaped # End /\ escaped # "b"
    <3>1. CASE escaped \in ShorthandNames
      <4>1. it = Compiled("one", Shorthand(escaped), i + 2)
        BY <1>3, <1>6, <3>1 DEF UnquantifiedAs
      <4>2. it.next = i + 2
        BY <4>1 DEF Compiled
      <4> QED
        BY <3>1, <4>2 DEF ShorthandNames, End
    <3>2. CASE escaped \notin ShorthandNames
      <4>1. it = Kept
        BY <1>3, <1>6, <3>2 DEF UnquantifiedAs
      <4>2. escaped \notin {End, "p", "P", "b", "B"} \union (Digits \ {"0"})
        BY <4>1 DEF Refused
      <4>3. it = Compiled("one", {EscapeLiteral(escaped)}, i + 2)
        BY <4>1, <4>2
      <4>4. it.next = i + 2
        BY <4>3 DEF Compiled
      <4> QED
        BY <4>2, <4>4
    <3> QED
      BY <3>1, <3>2
  <2>2. j \in 1..n
    <3>1. At(pattern, j) # End /\ j \in Nat
      BY <1>1, <2>1
    <3> QED
      BY <1>1, <1>2, <3>1
  <2>3. pattern[j] = escaped
    BY <1>1, <2>2, PatternIs
  <2>4. Escaped(pattern, j)
    <3>1. i \in Nat \ {0} /\ pattern[i] = "\\"
      BY <1>1, <1>2, <1>6
    <3>2. Escaped(pattern, i + 1) <=> ~Escaped(pattern, i)
      BY <3>1, EscapedBy
    <3> QED
      BY <3>2
  <2>5. ~Escaped(pattern, j + 1)
    <3> HIDE DEF j
    <3> QED
      BY <2>2, <2>4, EscapedBy
  <2>6. Plain(pattern, i)
    BY <1>2, <1>6 DEF Plain
  <2>7. Plain(pattern, j)
    <3> HIDE DEF j, escaped
    <3> QED
      BY <2>1, <2>3, <2>4 DEF Plain
  <2>8. j + 1 = i + 2 /\ \A k \in i..(it.next - 1) : k = i \/ k = j
    <3> HIDE DEF it
    <3> QED
      BY <1>1, <2>1
  <2> QED
    BY <2>1, <2>5, <2>6, <2>7, <2>8
<1> QED
  BY <1>5, <1>6

LEMMA SuffixIsPlain ==
    ASSUME NEW pattern \in Seq(Bytes), NEW lo \in 1..(Len(pattern) + 1),
           NEW hi \in lo..(Len(pattern) + 1),
           \A k \in lo..(hi - 1) : At(pattern, k) \in Suffixes, ~Escaped(pattern, lo)
    PROVE  (\A k \in lo..(hi - 1) : Plain(pattern, k)) /\ ~Escaped(pattern, hi)
<1> HIDE DEF Bytes
<1>1. Len(pattern) \in Nat /\ \A k \in 1..Len(pattern) : At(pattern, k) = pattern[k]
  BY PatternIs
<1>2. "\\" \notin Suffixes /\ "(" \notin Suffixes /\ ")" \notin Suffixes /\ "|" \notin Suffixes
      /\ "b" \notin Suffixes
  BY RegexAssumption DEF Suffixes
<1>3. \A k \in lo..(hi - 1) : pattern[k] \in Suffixes
  BY <1>1
<1>4. \A k \in lo..(hi - 1) : Plain(pattern, k)
  BY <1>2, <1>3 DEF Plain
<1>5. CASE hi = lo
  BY <1>4, <1>5
<1>6. CASE hi # lo
  <2> DEFINE k == hi - 1
  <2>1. k \in lo..(hi - 1) /\ k \in Nat \ {0} /\ k + 1 = hi
    BY <1>1, <1>6
  <2> HIDE DEF k
  <2>2. pattern[k] # "\\"
    BY <1>2, <1>3, <2>1
  <2>3. ~Escaped(pattern, k + 1)
    BY <2>1, <2>2, EscapedBy
  <2> QED
    BY <1>4, <2>1, <2>3
<1> QED
  BY <1>5, <1>6

\* What is compiled from a place on, itself not escaped, holds nothing of the kind.
PlainFrom(from, pattern, i) ==
    \A n \in 0..MaxAtoms :
        from[i][n].ok /\ ~Escaped(pattern, i) => \A k \in i..Len(pattern) : Plain(pattern, k)

LEMMA CompiledIsPlain ==
    ASSUME NEW pattern \in Seq(Bytes \ {"["}), NEW from, IsCompiling(from, pattern)
    PROVE  \A i \in 1..(Len(pattern) + 1) : PlainFrom(from, pattern, i)
<1> DEFINE m == Len(pattern) + 1
           S == {i \in 1..m : PlainFrom(from, pattern, i)}
<1>1. pattern \in Seq(Bytes) /\ Len(pattern) \in Nat /\ m \in Nat /\ 1 \in Nat /\ MaxAtoms \in Nat
  BY RegexAssumption
<1> HIDE DEF Bytes
<1>2. ASSUME NEW i \in 1..m, \A j \in (i + 1)..m : PlainFrom(from, pattern, j)
      PROVE  PlainFrom(from, pattern, i)
  <2> SUFFICES ASSUME NEW n \in 0..MaxAtoms, from[i][n].ok, ~Escaped(pattern, i)
               PROVE  \A k \in i..Len(pattern) : Plain(pattern, k)
    BY DEF PlainFrom
  <2>1. CASE At(pattern, i) = End
    <3>1. ~(i \in 1..Len(pattern))
      BY <1>1, <2>1, PatternIs
    <3>2. \A k \in i..Len(pattern) : FALSE
      BY <1>1, <3>1
    <3> QED
      BY <3>2
  <2>2. CASE At(pattern, i) # End
    <3> DEFINE mid == Unquantified(pattern, i).next
               next == NextAt(pattern, i)
    <3>1. i \in 1..Len(pattern)
      BY <1>1, <2>2, PatternIs
    <3>2. n # MaxAtoms /\ Unquantified(pattern, i).ok
      <4>1. ~Refused.ok
        BY DEF Refused
      <4> QED
        BY <1>1, <2>2, <4>1, TurnIs
    <3>3. from[next][n + 1].ok
      <4> DEFINE r == from[next][n + 1]
                 atom == AtomAt(pattern, i)
      <4>1. from[i][n] = Prefixed(atom, r)
        BY <1>1, <2>2, <3>2, TurnIs
      <4> HIDE DEF r, atom
      <4>2. ~r.ok => ~Prefixed(atom, r).ok
        BY DEF Prefixed, Refused
      <4> QED
        BY <4>1, <4>2 DEF r
    <3>4. /\ mid \in (i + 1)..m /\ next \in mid..m
          /\ \A k \in mid..(next - 1) : At(pattern, k) \in Suffixes
      BY <1>1, <3>1, <3>2, NextAtomIs
    <3>5. (\A k \in i..(mid - 1) : Plain(pattern, k)) /\ ~Escaped(pattern, mid)
      BY <3>1, <3>2, AtomIsPlain
    <3> HIDE DEF mid, next
    <3>6. mid \in 1..m
      BY <1>1, <3>4
    <3>7. (\A k \in mid..(next - 1) : Plain(pattern, k)) /\ ~Escaped(pattern, next)
      BY <1>1, <3>4, <3>5, <3>6, SuffixIsPlain
    <3>8. next \in (i + 1)..m /\ n + 1 \in 0..MaxAtoms
      BY <1>1, <3>2, <3>4, <3>6
    <3>9. \A k \in next..Len(pattern) : Plain(pattern, k)
      <4>1. PlainFrom(from, pattern, next)
        BY <1>2, <3>8
      <4> QED
        BY <3>3, <3>7, <3>8, <4>1 DEF PlainFrom
    <3>10. \A k \in i..Len(pattern) : k \in i..(mid - 1) \/ k \in mid..(next - 1) \/ k \in next..Len(pattern)
      BY <1>1, <3>4, <3>6
    <3> QED
      BY <3>5, <3>7, <3>9, <3>10
  <2> QED
    BY <2>1, <2>2
<1> HIDE DEF m
<1>3. Falls(1, m, S)
  BY <1>2 DEF Falls
<1>4. \A i \in 1..m : i \in S
  <2> HIDE DEF S
  <2> QED
    BY <1>1, <1>3, FallInduction
<1> QED
  BY <1>4 DEF m

LEMMA SupportedIsPlain ==
    ASSUME NEW pattern \in Seq(Bytes \ {"["}), Compile(pattern).ok
    PROVE  \A k \in 1..Len(pattern) : Plain(pattern, k)
<1>1. pattern \in Seq(Bytes) /\ Len(pattern) \in Nat /\ MaxAtoms \in Nat
  BY RegexAssumption
<1> HIDE DEF Bytes
<1>2. PICK from : IsCompiling(from, pattern) /\ Compile(pattern) = from[1][0]
  BY <1>1, CompilingExists, CompileIs
<1>3. 1 \in 1..(Len(pattern) + 1) /\ 0 \in 0..MaxAtoms
  BY <1>1
<1>4. PlainFrom(from, pattern, 1)
  BY <1>2, <1>3, CompiledIsPlain
<1>5. ~Escaped(pattern, 1)
  <2>1. 1 \in Nat \ {0}
    OBVIOUS
  <2> QED
    BY <2>1, EscapedBy
<1> QED
  BY <1>2, <1>3, <1>4, <1>5 DEF PlainFrom
-----------------------------------------------------------------------------
(* The searches.                                                            *)

\* What a search has taken and answered.
SearchInv ==
    /\ op \in {"none", "search", "try"}
    /\ op = "search" =>
        /\ input.parts \in Parts /\ input.from \in BOOLEAN /\ input.to \in BOOLEAN
        /\ input.subject \in Seq(Bytes)
        /\ answer = Search(Spelled(input.parts, input.from, input.to), input.subject)
    /\ op = "try" =>
        /\ input \in Seq(Bytes \ {"["})
        /\ answer = Search(input, input)

LEMMA SearchesAreTyped == SearchSpec => []SearchInv
<1> HIDE DEF Bytes
<1>1. Init => SearchInv
  BY DEF Init, SearchInv
<1>2. SearchInv /\ [SearchNext]_vars => SearchInv'
  <2> SUFFICES ASSUME SearchInv, [SearchNext]_vars PROVE SearchInv'
    OBVIOUS
  <2>1. CASE SearchFor
    <3>1. PICK parts \in SeqsUpTo(Pieces \X Quantifiers, MaxPieces), from \in BOOLEAN,
               to \in BOOLEAN, subject \in Subjects :
              Call("search", [parts |-> parts, from |-> from, to |-> to, subject |-> subject],
                   Search(Spelled(parts, from, to), subject))
      BY <2>1, Zenon DEF SearchFor
    <3>2. parts \in Parts
      <4>1. parts \in Seq(Pieces \X Quantifiers)
        BY PieceAssumption, SeqsUpToAre
      <4>2. PICK k \in 0..MaxPieces : parts \in [1..k -> Pieces \X Quantifiers]
        BY DEF SeqsUpTo
      <4>3. Len(parts) = k /\ MaxPieces \in Nat
        <5>1. MaxPieces \in Nat
          BY PieceAssumption
        <5> QED
          BY <4>1, <4>2, <5>1, LenProperties
      <4> QED
        BY <4>1, <4>3 DEF Parts
    <3>3. subject \in Seq(Bytes)
      BY SubjectAssumption
    <3> DEFINE in == [parts |-> parts, from |-> from, to |-> to, subject |-> subject]
    <3>4. in.parts = parts /\ in.from = from /\ in.to = to /\ in.subject = subject
      OBVIOUS
    <3> HIDE DEF in
    <3>5. op' = "search" /\ input' = in /\ answer' = Search(Spelled(parts, from, to), subject)
      BY <3>1 DEF Call, in
    <3> QED
      BY <3>2, <3>3, <3>4, <3>5 DEF SearchInv
  <2>2. CASE TryPattern
    <3>1. PICK pattern \in SeqsUpTo(Syntax, MaxSyntax) : Call("try", pattern, Search(pattern, pattern))
      BY <2>2 DEF TryPattern
    <3>2. pattern \in Seq(Bytes \ {"["})
      BY SubjectAssumption, SeqsUpToAre
    <3> QED
      BY <3>1, <3>2 DEF Call, SearchInv
  <2>3. CASE UNCHANGED vars
    BY <2>3 DEF vars, SearchInv
  <2> QED
    BY <2>1, <2>2, <2>3 DEF SearchNext
<1> QED
  BY <1>1, <1>2, PTL DEF SearchSpec

\* Whatever the bytes, the sets and the number of atoms allowed: a pattern put
\* together from pieces is supported and found exactly in the texts a part of which
\* some choice of counts for its quantifiers spells out, and a pattern without a class
\* that is supported holds no group, alternation or word boundary (regex.c rx_compile,
\* rx_match_from, tf_regex_search).
THEOREM SearchesAreExact == SearchSpec => []SearchFindsWhatThePatternDenotes
<1> HIDE DEF Bytes
<1>1. SearchInv => SearchFindsWhatThePatternDenotes
  <2> SUFFICES ASSUME SearchInv PROVE SearchFindsWhatThePatternDenotes
    OBVIOUS
  <2>1. ASSUME op = "search"
        PROVE  answer = [supported |-> TRUE,
                         found |-> Denotes(Meant(input.parts, input.from, input.to), input.subject)]
    <3> DEFINE parts == input.parts
               from == input.from
               to == input.to
               subject == input.subject
    <3>1. /\ parts \in Parts /\ from \in BOOLEAN /\ to \in BOOLEAN /\ subject \in Seq(Bytes)
          /\ answer = Search(Spelled(parts, from, to), subject)
      BY <2>1 DEF SearchInv
    <3> HIDE DEF parts, from, to, subject
    <3>2. answer = [supported |-> TRUE, found |-> Denotes(Meant(parts, from, to), subject)]
      BY <3>1, SpelledSearch
    <3> QED
      BY <3>2 DEF parts, from, to, subject
  <2>2. ASSUME op = "try", answer.supported
        PROVE  \A k \in DOMAIN input : Plain(input, k)
    <3>1. input \in Seq(Bytes \ {"["}) /\ answer = Search(input, input)
      BY <2>2 DEF SearchInv
    <3>2. Compile(input).ok
      <4> DEFINE rx == Compile(input)
      <4>1. answer = SearchCompiled(rx, input)
        BY <3>1 DEF Search
      <4> HIDE DEF rx
      <4> QED
        BY <2>2, <4>1 DEF SearchCompiled, rx
    <3>3. \A k \in 1..Len(input) : Plain(input, k)
      BY <3>1, <3>2, SupportedIsPlain
    <3> QED
      BY <3>1, <3>3
  <2>3. op = "try" /\ answer.supported =>
          \A k \in DOMAIN input :
              /\ input[k] \in {"(", ")", "|"} => Escaped(input, k)
              /\ input[k] = "b" => ~Escaped(input, k)
    BY <2>2 DEF Plain
  <2> QED
    BY <2>1, <2>3 DEF SearchFindsWhatThePatternDenotes, Escaped, Backslashes
<1> QED
  BY <1>1, SearchesAreTyped, PTL
=============================================================================
