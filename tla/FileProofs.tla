----------------------------- MODULE FileProofs -----------------------------
(***************************************************************************)
(* What becomes of the rows of a JSONL file.                               *)
(*                                                                         *)
(* Its writer appends to it or dies: it is still a file of rows, whose     *)
(* readable rows are those it had, with or without the new one, or a       *)
(* beginning of those it had.  The split of expand_seeds shuffles the rows *)
(* it accepted and parts them: the shuffle keeps the rows and their        *)
(* distinct ids, and train and dev never reach beyond the rows and never   *)
(* overlap.  Last, what the search for a suffix that makes an id unique    *)
(* relies on.                                                              *)
(***************************************************************************)
EXTENDS Jsonl, Split, SequenceTheorems, FiniteSetTheorems, WellFoundedInduction, TLAPS

-----------------------------------------------------------------------------
(* Files.                                                                   *)

\* A beginning of a sequence is a sequence, with the same elements.
LEMMA BeginningIsSeq ==
    ASSUME NEW S, NEW rows \in Seq(S), NEW n \in 0..Len(rows)
    PROVE  /\ SubSeq(rows, 1, n) \in Seq(S)
           /\ Len(SubSeq(rows, 1, n)) = n
           /\ \A i \in 1..n : SubSeq(rows, 1, n)[i] = rows[i]
<1>1. \A i \in 1..n : rows[i] \in S
  BY ElementOfSeq, LenProperties
<1>2. n \in Int /\ 1 \in Int
  BY LenProperties
<1> QED
  BY <1>1, <1>2, SubSeqProperties

\* The empty file is a file.
LEMMA EmptyFileType ==
    ASSUME NEW S
    PROVE  EmptyFile \in FilesOf(S)
BY EmptySeq DEF EmptyFile, FilesOf, Tails

\* The rows left under a glued line are a beginning of the file's rows.
LEMMA RowsUnderGlueIsBeginning ==
    ASSUME NEW S, NEW file \in FilesOf(S)
    PROVE  \E n \in 0..Len(file.rows) : RowsUnderGlue(file) = SubSeq(file.rows, 1, n)
<1>1. file.rows \in Seq(S) /\ Len(file.rows) \in Nat
  BY LenProperties DEF FilesOf
<1>2. CASE file.tail = "bare" /\ Len(file.rows) > 0
  BY <1>1, <1>2 DEF RowsUnderGlue
<1>3. CASE file.tail = "bare" /\ Len(file.rows) = 0
  <2>1. RowsUnderGlue(file) = << >> /\ SubSeq(file.rows, 1, 0) = << >>
    BY <1>3, SubSeqEmpty DEF RowsUnderGlue
  <2> QED
    BY <2>1, <1>3
<1>4. CASE file.tail # "bare"
  BY <1>1, <1>4, SubSeqFull DEF RowsUnderGlue
<1> QED
  BY <1>1, <1>2, <1>3, <1>4

LEMMA RowsUnderGlueType ==
    ASSUME NEW S, NEW file \in FilesOf(S)
    PROVE  RowsUnderGlue(file) \in Seq(S)
<1>1. file.rows \in Seq(S)
  BY DEF FilesOf
<1> QED
  BY <1>1, RowsUnderGlueIsBeginning, BeginningIsSeq

\* Appending rows to a file of rows gives a file of rows.
LEMMA AppendLinesType ==
    ASSUME NEW S, NEW file \in FilesOf(S), NEW lines \in Seq(S)
    PROVE  AppendLines(file, lines) \in FilesOf(S)
<1>1. file.rows \in Seq(S) /\ RowsUnderGlue(file) \in Seq(S)
  BY RowsUnderGlueType DEF FilesOf
<1>2. CASE lines = << >>
  BY <1>2 DEF AppendLines
<1>3. CASE lines # << >>
  <2>1. Tail(lines) \in Seq(S)
    BY <1>3, HeadTailProperties
  <2>2. file.rows \o lines \in Seq(S) /\ RowsUnderGlue(file) \o Tail(lines) \in Seq(S)
    BY <1>1, <2>1, ConcatProperties
  <2> QED
    BY <1>3, <2>2 DEF AppendLines, FilesOf, Tails
<1> QED
  BY <1>2, <1>3

\* One line appended: the file gains the row, or the glue costs it that row and
\* perhaps the one before.
LEMMA AppendOneLine ==
    ASSUME NEW S, NEW file \in FilesOf(S), NEW line \in S
    PROVE  /\ AppendLines(file, <<line>>).tail = "clean"
           /\ \/ AppendLines(file, <<line>>).rows = Append(file.rows, line)
              \/ \E n \in 0..Len(file.rows) :
                    AppendLines(file, <<line>>).rows = SubSeq(file.rows, 1, n)
           /\ file.tail = "clean" =>
                AppendLines(file, <<line>>).rows = Append(file.rows, line)
<1>1. file.rows \in Seq(S) /\ RowsUnderGlue(file) \in Seq(S)
  BY RowsUnderGlueType DEF FilesOf
<1>2. <<line>> # << >> /\ Tail(<<line>>) = << >>
  OBVIOUS
<1>3. RowsUnderGlue(file) \o Tail(<<line>>) = RowsUnderGlue(file)
  BY <1>1, <1>2, ConcatEmptySeq
<1>4. file.rows \o <<line>> = Append(file.rows, line)
  BY <1>1
<1> QED
  BY <1>2, <1>3, <1>4, RowsUnderGlueIsBeginning DEF AppendLines

\* A line cut by the death of its writer: nothing but the end of the file changes,
\* or the whole line is there.
LEMMA CutLineIsFile ==
    ASSUME NEW S, NEW file \in FilesOf(S), NEW line \in S, NEW f \in CutLine(file, line)
    PROVE  /\ f \in FilesOf(S)
           /\ f.rows \in {RowsUnderGlue(file), Append(file.rows, line)}
<1>1. RowsUnderGlue(file) \in Seq(S) /\ Append(file.rows, line) \in Seq(S)
  BY RowsUnderGlueType, AppendProperties DEF FilesOf
<1> QED
  BY <1>1, SMTT(60) DEF CutLine, FilesOf, Tails

\* Whatever part of its buffer a killed writer flushed, the file is a file of rows.
LEMMA CutAppendsType ==
    ASSUME NEW S, NEW file \in FilesOf(S), NEW lines \in Seq(S), NEW torn,
           NEW f \in CutAppends(file, lines, torn)
    PROVE  f \in FilesOf(S)
<1> DEFINE Written(n) == AppendLines(file, SubSeq(lines, 1, n))
<1>1. \A n \in 0..Len(lines) : Written(n) \in FilesOf(S)
  BY AppendLinesType, BeginningIsSeq
<1>2. CASE \E n \in 0..Len(lines) : f = Written(n)
  BY <1>1, <1>2
<1>3. CASE \E n \in 0..(Len(lines) - 1) : f \in CutLine(Written(n), lines[n + 1])
  <2>1. PICK n \in 0..(Len(lines) - 1) : f \in CutLine(Written(n), lines[n + 1])
    BY <1>3
  <2>2. n \in 0..Len(lines) /\ n + 1 \in 1..Len(lines)
    BY LenProperties
  <2>3. lines[n + 1] \in S
    BY <2>2, ElementOfSeq
  <2>4. Written(n) \in FilesOf(S)
    BY <1>1, <2>2
  <2> HIDE DEF Written
  <2> QED
    BY <2>1, <2>3, <2>4, CutLineIsFile
<1> QED
  BY <1>2, <1>3 DEF CutAppends

\* A killed write of one line leaves the file, the line behind it, or a cut line.
LEMMA OneLineCut ==
    ASSUME NEW S, NEW file \in FilesOf(S), NEW line \in S, NEW torn,
           NEW f \in CutAppends(file, <<line>>, torn)
    PROVE  f = file \/ f = AppendLines(file, <<line>>) \/ f \in CutLine(file, line)
<1>1. Len(<<line>>) = 1 /\ <<line>>[1] = line /\ <<line>> \in Seq(S)
  OBVIOUS
<1>2. SubSeq(<<line>>, 1, 0) = << >> /\ SubSeq(<<line>>, 1, 1) = <<line>>
  <2>1. SubSeq(<<line>>, 1, 0) = << >>
    BY <1>1, SubSeqEmpty
  <2>2. SubSeq(<<line>>, 1, Len(<<line>>)) = <<line>>
    BY <1>1, SubSeqFull
  <2> QED
    BY <1>1, <2>1, <2>2
<1>3. AppendLines(file, << >>) = file
  BY DEF AppendLines
<1>4. CASE \E n \in 0..1 : f = AppendLines(file, SubSeq(<<line>>, 1, n))
  <2>1. PICK n \in {0, 1} : f = AppendLines(file, SubSeq(<<line>>, 1, n))
    BY <1>4
  <2> QED
    BY <1>2, <1>3, <2>1
<1>5. CASE \E n \in 0..0 :
              f \in CutLine(AppendLines(file, SubSeq(<<line>>, 1, n)), <<line>>[n + 1])
  <2>1. PICK n \in {0} :
          f \in CutLine(AppendLines(file, SubSeq(<<line>>, 1, n)), <<line>>[n + 1])
    BY <1>5
  <2>2. n = 0 /\ n + 1 = 1
    BY <2>1
  <2> QED
    BY <1>1, <1>2, <1>3, <2>1, <2>2
<1>6. Len(<<line>>) - 1 = 0
  BY <1>1
<1> QED
  BY <1>1, <1>4, <1>5, <1>6 DEF CutAppends

\* The writer dies in the write of one line: the file has the rows it had, a
\* beginning of them, or them and the new one.
LEMMA CutAppendOfOneLine ==
    ASSUME NEW S, NEW file \in FilesOf(S), NEW line \in S, NEW torn,
           NEW f \in CutAppends(file, <<line>>, torn)
    PROVE  \/ f.rows = Append(file.rows, line)
           \/ \E n \in 0..Len(file.rows) : f.rows = SubSeq(file.rows, 1, n)
<1>1. file.rows \in Seq(S) /\ file.rows = SubSeq(file.rows, 1, Len(file.rows))
  BY SubSeqFull DEF FilesOf
<1>2. Len(file.rows) \in Nat
  BY <1>1, LenProperties
<1>3. CASE f = file
  BY <1>1, <1>2, <1>3
<1>4. CASE f = AppendLines(file, <<line>>)
  BY <1>4, AppendOneLine
<1>5. CASE f \in CutLine(file, line)
  BY <1>5, CutLineIsFile, RowsUnderGlueIsBeginning
<1> QED
  BY <1>3, <1>4, <1>5, OneLineCut

\* When writes are not torn, a crash leaves a file that ended with a newline as it
\* was, or with the whole line.
LEMMA WholeCutIsWhole ==
    ASSUME NEW S, NEW file \in FilesOf(S), file.tail = "clean", NEW line \in S,
           NEW f \in CutAppends(file, <<line>>, FALSE)
    PROVE  /\ f = file \/ f.rows = Append(file.rows, line)
           /\ f.tail = "clean"
<1>1. PICK n \in 0..Len(<<line>>) : f = AppendLines(file, SubSeq(<<line>>, 1, n))
  BY DEF CutAppends
<1>2. n \in {0, 1} /\ <<line>> \in Seq(S) /\ Len(<<line>>) = 1
  BY <1>1
<1>3. CASE n = 0
  <2>1. SubSeq(<<line>>, 1, 0) = << >>
    BY SubSeqEmpty
  <2> QED
    BY <1>1, <1>3, <2>1 DEF AppendLines
<1>4. CASE n = 1
  <2>1. SubSeq(<<line>>, 1, Len(<<line>>)) = <<line>>
    BY <1>2, SubSeqFull
  <2>2. f = AppendLines(file, <<line>>)
    BY <1>1, <1>2, <1>4, <2>1
  <2> QED
    BY <2>2, AppendOneLine
<1> QED
  BY <1>2, <1>3, <1>4

-----------------------------------------------------------------------------
(* The split.                                                               *)

\* Rounded down, a share of at most the whole is at most the whole.
LEMMA DivBound ==
    ASSUME NEW m \in Nat, NEW d \in Nat \ {0}
    PROVE  /\ m \div d \in Nat
           /\ d * (m \div d) <= m
OBVIOUS

\* The train and the dev part together have at most as many rows as were accepted.
LEMMA PartsFit ==
    ASSUME NEW n \in Nat
    PROVE  /\ NTrain(n) \in Nat /\ NDev(n) \in Nat
           /\ NTrain(n) + NDev(n) <= n
<1>1. /\ FracUnit \in Nat /\ FracUnit > 0 /\ TrainFrac \in Nat /\ DevFrac \in Nat
      /\ TrainFrac + DevFrac <= FracUnit
  BY SplitAssumption
<1>2. n * TrainFrac \in Nat /\ n * DevFrac \in Nat
  BY <1>1
<1>3. /\ NTrain(n) \in Nat /\ FracUnit * NTrain(n) <= n * TrainFrac
      /\ NDev(n) \in Nat /\ FracUnit * NDev(n) <= n * DevFrac
  BY <1>1, <1>2, DivBound DEF NTrain, NDev
<1>4. n * TrainFrac + n * DevFrac <= n * FracUnit
  BY <1>1
<1>5. FracUnit * (NTrain(n) + NDev(n)) <= FracUnit * n
  BY <1>1, <1>2, <1>3, <1>4
<1>6. \A a, b, u \in Nat : u > 0 /\ u * a <= u * b => a <= b
  OBVIOUS
<1> QED
  BY <1>1, <1>3, <1>5, <1>6

\* Finitely many rows have finitely many ids.
LEMMA IdsOfIsFinite ==
    ASSUME NEW S, NEW rows \in Seq(S)
    PROVE  IsFiniteSet(IdsOf(rows))
<1> DEFINE ids == [i \in 1..Len(rows) |-> rows[i].id]
<1>1. DOMAIN rows = 1..Len(rows) /\ Len(rows) \in Nat
  BY LenProperties
<1>2. ids \in Surjection(1..Len(rows), IdsOf(rows))
  BY <1>1 DEF Surjection, IdsOf
<1>3. IsFiniteSet(1..Len(rows))
  BY <1>1, FS_Interval
<1> QED
  BY <1>2, <1>3, FS_Surjection

\* A beginning of rows with distinct ids has distinct ids, among those of the rows.
LEMMA BeginningIsDistinct ==
    ASSUME NEW S, NEW rows \in Seq(S), DistinctIds(rows), NEW n \in 0..Len(rows)
    PROVE  /\ DistinctIds(SubSeq(rows, 1, n))
           /\ IdsOf(SubSeq(rows, 1, n)) \subseteq IdsOf(rows)
<1>1. DOMAIN rows = 1..Len(rows) /\ Len(rows) \in Nat
  BY LenProperties
<1>2. DOMAIN SubSeq(rows, 1, n) = 1..n
  BY BeginningIsSeq, LenProperties
<1> QED
  BY <1>1, <1>2, BeginningIsSeq, SMTT(60) DEF DistinctIds, IdsOf

\* A row with a new id keeps the ids distinct.
LEMMA AppendIsDistinct ==
    ASSUME NEW S, NEW rows \in Seq(S), NEW row \in S
    PROVE  /\ IdsOf(Append(rows, row)) = IdsOf(rows) \union {row.id}
           /\ DistinctIds(rows) /\ row.id \notin IdsOf(rows) =>
                DistinctIds(Append(rows, row))
<1>1. /\ DOMAIN rows = 1..Len(rows) /\ Len(rows) \in Nat
      /\ DOMAIN Append(rows, row) = 1..(Len(rows) + 1)
      /\ \A i \in 1..Len(rows) : Append(rows, row)[i] = rows[i]
      /\ Append(rows, row)[Len(rows) + 1] = row
  BY LenProperties, AppendProperties
<1>2. 1..(Len(rows) + 1) = (1..Len(rows)) \union {Len(rows) + 1}
  BY <1>1
<1> QED
  BY <1>1, <1>2 DEF DistinctIds, IdsOf

\* A shuffle keeps the number of rows and invents none; distinct ids stay distinct.
LEMMA ShuffleKeepsRows ==
    ASSUME NEW S, NEW rows \in Seq(S), NEW shuffled \in Shuffles(rows)
    PROVE  /\ shuffled \in Seq(S)
           /\ Len(shuffled) = Len(rows)
           /\ IdsOf(shuffled) \subseteq IdsOf(rows)
           /\ DistinctIds(rows) => DistinctIds(shuffled)
<1>1. DOMAIN rows = 1..Len(rows) /\ Len(rows) \in Nat
  BY LenProperties
<1>2. PICK p \in Permutations(Len(rows)) : shuffled = [i \in 1..Len(rows) |-> rows[p[i]]]
  BY DEF Shuffles
<1>3. /\ p \in [1..Len(rows) -> 1..Len(rows)]
      /\ \A i, j \in 1..Len(rows) : p[i] = p[j] => i = j
  BY <1>2 DEF Permutations
<1>4. \A i \in 1..Len(rows) : rows[p[i]] \in S
  BY <1>1, <1>3, ElementOfSeq
<1>5. shuffled \in Seq(S) /\ Len(shuffled) = Len(rows) /\ DOMAIN shuffled = 1..Len(rows)
  BY <1>1, <1>2, <1>4
<1> QED
  BY <1>1, <1>2, <1>3, <1>5 DEF IdsOf, DistinctIds

\* A nonempty set of naturals has a least element.
LEMMA LeastNatural ==
    ASSUME NEW T \in SUBSET Nat, T # {}
    PROVE  \E m \in T : \A n \in T : m <= n
<1>1. PICK m \in T : \A n \in T : ~(<<n, m>> \in OpToRel(<, Nat))
  BY NatLessThanWellFounded, WFMin
<1>2. \A n \in T : ~(n < m)
  BY <1>1 DEF OpToRel
<1> QED
  BY <1>2

\* Looked for from any number on, an id with a suffix that is not yet taken comes after
\* at most as many tries as there are ids taken.
LEMMA FreeSuffixExists ==
    ASSUME NEW B, NEW id \in Seq(Nat \union B), NEW taken, IsFiniteSet(taken),
           NEW from \in Nat
    PROVE  \E u \in from..(from + Cardinality(taken)) :
              /\ Append(id, u) \notin taken
              /\ \A t \in from..(u - 1) : Append(id, t) \in taken
<1> DEFINE tries == from..(from + Cardinality(taken))
           free == {s \in tries : Append(id, s) \notin taken}
           Candidate == [s \in tries |-> Append(id, s)]
<1>1. Cardinality(taken) \in Nat
  BY FS_CardinalityType
<1>2. IsFiniteSet(tries) /\ Cardinality(tries) = Cardinality(taken) + 1
  <2>1. \A lo, n \in Nat : IsFiniteSet(lo..(lo + n)) /\ Cardinality(lo..(lo + n)) = n + 1
    BY FS_Interval
  <2> QED
    BY <1>1, <2>1
<1>3. \A s, t \in Nat : Append(id, s) = Append(id, t) => s = t
  <2> SUFFICES ASSUME NEW s \in Nat, NEW t \in Nat, Append(id, s) = Append(id, t)
               PROVE  s = t
    OBVIOUS
  <2>1. s \in Nat \union B /\ t \in Nat \union B
    OBVIOUS
  <2>2. Append(id, s)[Len(id) + 1] = s /\ Append(id, t)[Len(id) + 1] = t
    BY <2>1, AppendProperties
  <2> QED
    BY <2>2
<1>4. free # {}
  <2> SUFFICES ASSUME \A s \in tries : Append(id, s) \in taken
               PROVE  FALSE
    OBVIOUS
  <2>1. Candidate \in Injection(tries, taken)
    <3>1. Candidate \in [tries -> taken]
      OBVIOUS
    <3>2. \A s \in tries : s \in Nat /\ Candidate[s] = Append(id, s)
      BY <1>1
    <3> HIDE DEF tries, Candidate
    <3>3. \A s, t \in tries : Candidate[s] = Candidate[t] => s = t
      BY <1>3, <3>2
    <3> QED
      BY <3>1, <3>3 DEF Injection, IsInjective
  <2>2. Cardinality(tries) <= Cardinality(taken)
    BY <2>1, FS_Injection
  <2> HIDE DEF tries
  <2> QED
    BY <1>1, <1>2, <2>2
<1>5. PICK s \in free : \A t \in free : s <= t
  <2>1. free \in SUBSET Nat
    BY <1>1
  <2> HIDE DEF free
  <2> QED
    BY <1>4, <2>1, LeastNatural
<1>6. \A t \in from..(s - 1) : Append(id, t) \in taken
  BY <1>1, <1>5
<1> QED
  BY <1>5, <1>6
=============================================================================
