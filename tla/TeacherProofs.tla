---------------------------- MODULE TeacherProofs ----------------------------
(***************************************************************************)
(* run_teacher_expand never writes one trajectory_id twice, for any seeds, *)
(* any replies of the teacher and whatever a failing disk leaves of a row; *)
(* and when it ends well under a disk that did not fail, it has split just *)
(* the rows it counts.                                                     *)
(*                                                                         *)
(* A row without an id keeps none, so what is unique are the ids of the    *)
(* others; seen holds them all, because a row whose write fails counts as  *)
(* seen too.                                                               *)
(*                                                                         *)
(* Every row it keeps, reads back or splits passes Python's                *)
(* verify_trajectory on what C can read of it, as long as no answer gives  *)
(* an expected state as an empty string (C takes it for an absent one) and *)
(* the file a killed run left holds rows that verify, which is what such a *)
(* run leaves; what else is in a split is a piece of a row, and a write    *)
(* failed.  And its log of rejected attempts adds up: every expansion      *)
(* before the current one is accepted or used up its attempts.             *)
(***************************************************************************)
EXTENDS TeacherExpand, FileProofs, GraderProofs

NamedIds(list) == IdsOf(list) \ {NoId}

\* What the loop knows of the file it has written so far.
IdsAreSeen ==
    phase # "idle" =>
        /\ NamedIds(partial.rows) \subseteq seen
        /\ UniqueIds
\* Until a write fails, the file and the rows read from it are what was counted.
RowsAreCounted ==
    /\ (phase \in {"asking", "reading"} /\ ~faulted) =>
          partial.tail = "clean" /\ Len(partial.rows) = accepted
    /\ (phase \in {"train", "dev", "test", "removing", "done"} /\ ~faulted) =>
          Len(rows) = accepted
SplitsAreParts == ~faulted =>
    /\ phase \in {"dev", "test", "removing", "done"} => train = TrainPart(rows)
    /\ phase \in {"test", "removing", "done"} => dev = DevPart(rows)
    /\ phase \in {"removing", "done"} => test = SeedList
Inv ==
    /\ TypeOK
    /\ (phase = "idle" => accepted = 0 /\ seen = {} /\ rows = << >> /\ ~faulted)
    /\ (sticky => faulted)
    /\ IdsAreSeen
    /\ RowsAreCounted
    /\ SplitsAreParts

-----------------------------------------------------------------------------
\* A beginning of rows with distinct names has distinct names.
LEMMA BeginningIsUnique ==
    ASSUME NEW S, NEW list \in Seq(S), NEW n \in 0..Len(list)
    PROVE  /\ IdsAreUnique(list) => IdsAreUnique(SubSeq(list, 1, n))
           /\ NamedIds(SubSeq(list, 1, n)) \subseteq NamedIds(list)
<1>1. DOMAIN list = 1..Len(list) /\ Len(list) \in Nat
  BY LenProperties
<1>2. DOMAIN SubSeq(list, 1, n) = 1..n
  BY BeginningIsSeq, LenProperties
<1> QED
  BY <1>1, <1>2, BeginningIsSeq DEF IdsAreUnique, NamedIds, IdsOf

\* One more row, whose name is new or which has none, keeps names distinct.
LEMMA AppendIsUnique ==
    ASSUME NEW S, NEW list \in Seq(S), NEW row \in S
    PROVE  /\ NamedIds(Append(list, row)) \subseteq NamedIds(list) \union {row.id}
           /\ IdsAreUnique(list) /\ row.id \notin NamedIds(list) =>
                IdsAreUnique(Append(list, row))
<1>1. /\ DOMAIN list = 1..Len(list) /\ Len(list) \in Nat
      /\ DOMAIN Append(list, row) = 1..(Len(list) + 1)
      /\ \A i \in 1..Len(list) : Append(list, row)[i] = list[i]
      /\ Append(list, row)[Len(list) + 1] = row
  BY LenProperties, AppendProperties
<1>2. 1..(Len(list) + 1) = (1..Len(list)) \union {Len(list) + 1}
  BY <1>1
<1> QED
  BY <1>1, <1>2 DEF IdsAreUnique, NamedIds, IdsOf

\* A shuffle has as many rows and keeps distinct names distinct.
LEMMA ShuffleIsUnique ==
    ASSUME NEW S, NEW list \in Seq(S), NEW shuffled \in Shuffles(list), IdsAreUnique(list)
    PROVE  /\ IdsAreUnique(shuffled)
           /\ NamedIds(shuffled) \subseteq NamedIds(list)
<1>1. DOMAIN list = 1..Len(list) /\ Len(list) \in Nat
  BY LenProperties
<1>2. PICK p \in Permutations(Len(list)) : shuffled = [i \in 1..Len(list) |-> list[p[i]]]
  BY DEF Shuffles
<1>3. /\ p \in [1..Len(list) -> 1..Len(list)]
      /\ \A i, j \in 1..Len(list) : p[i] = p[j] => i = j
  BY <1>2 DEF Permutations
<1> QED
  BY <1>1, <1>2, <1>3 DEF IdsAreUnique, NamedIds, IdsOf

\* A piece of a row after rows with distinct names has no name of its own.
LEMMA LinesAreUnique ==
    ASSUME NEW S, NEW file \in FilesOf(S), IdsAreUnique(file.rows)
    PROVE  /\ LinesOf(file) \in Seq(S \union {Scrap})
           /\ IdsAreUnique(LinesOf(file))
           /\ file.tail # "torn" => LinesOf(file) = file.rows
<1>1. file.rows \in Seq(S)
  BY DEF FilesOf
<1>2. file.rows \in Seq(S \union {Scrap})
  <2>1. S \subseteq S \union {Scrap}
    OBVIOUS
  <2> QED
    BY <1>1, <2>1, SeqMonotonic
<1>3. CASE file.tail # "torn"
  <2>1. LinesOf(file) = file.rows
    BY <1>1, <1>3, ConcatEmptySeq DEF LinesOf
  <2> QED
    BY <1>2, <2>1
<1>4. CASE file.tail = "torn"
  <2> DEFINE lines == LinesOf(file)
             n == Len(file.rows)
  <2>1. lines = file.rows \o <<Scrap>> /\ <<Scrap>> \in Seq(S \union {Scrap})
    BY <1>4 DEF LinesOf
  <2>2. n \in Nat /\ DOMAIN file.rows = 1..n /\ Len(<<Scrap>>) = 1 /\ <<Scrap>>[1] = Scrap
    BY <1>1, LenProperties
  <2>3. lines \in Seq(S \union {Scrap}) /\ Len(lines) = n + 1
    BY <1>2, <2>1, <2>2, ConcatProperties
  <2>4. DOMAIN lines = 1..(n + 1)
    BY <2>3, LenProperties
  <2>5. \A k \in 1..(n + 1) :
            lines[k] = IF k <= n THEN file.rows[k] ELSE <<Scrap>>[k - n]
    BY <1>2, <2>1, <2>2, ConcatProperties
  <2>6. (n + 1) - n = 1 /\ ~(n + 1 <= n) /\ n + 1 \in 1..(n + 1)
    BY <2>2
  <2>7. lines[n + 1] = Scrap
    BY <2>2, <2>5, <2>6
  <2>8. \A k \in 1..(n + 1) : k # n + 1 => k \in 1..n /\ lines[k] = file.rows[k]
    BY <2>2, <2>5
  <2> HIDE DEF lines, n
  <2>9. IdsAreUnique(lines)
    BY <2>2, <2>4, <2>7, <2>8 DEF IdsAreUnique
  <2> QED
    BY <1>4, <2>3, <2>9 DEF lines
<1> QED
  BY <1>3, <1>4

-----------------------------------------------------------------------------
\* While an expansion is asked for, its seed is there.
LEMMA SeedIsThere ==
    ASSUME TypeOK, slot < Total
    PROVE  SeedOf(slot) \in Bases
<1> DEFINE d == slot \div ExpansionsPerSeed
<1>1. SeedList \in Seq(Bases) /\ ExpansionsPerSeed \in Nat
  BY TeacherAssumption
<1>2. Len(SeedList) \in Nat
  BY <1>1, LenProperties
<1>3. slot \in Nat /\ slot < Len(SeedList) * ExpansionsPerSeed
  BY DEF TypeOK, Total
<1>4. ExpansionsPerSeed \in Nat \ {0}
  BY <1>1, <1>2, <1>3
<1>5. d \in Nat /\ ExpansionsPerSeed * d <= slot
  BY <1>3, <1>4, DivBound
<1> HIDE DEF d
<1>6. ExpansionsPerSeed * d < ExpansionsPerSeed * Len(SeedList)
  BY <1>2, <1>3, <1>4, <1>5
<1>7. \A a, b, u \in Nat : u * a < u * b => a < b
  OBVIOUS
<1>8. d + 1 \in 1..Len(SeedList)
  BY <1>2, <1>4, <1>5, <1>6, <1>7
<1>9. SeedList[d + 1] \in Bases
  BY <1>1, <1>8, ElementOfSeq
<1> QED
  BY <1>9 DEF SeedOf, d

\* The row of an admissible reply is a row, and its id, if it has one, was not seen
\* before: the search for a suffix ends.
LEMMA AdmittedRowIsNew ==
    ASSUME TypeOK, NEW answer \in Answers, Admissible(answer)
    PROVE  /\ AdmittedRow(answer.doc) \in Row
           /\ AdmittedRow(answer.doc).id \in {NoId, AdmittedId(answer.doc)}
           /\ AdmittedId(answer.doc) \in Ids
           /\ AdmittedId(answer.doc) \notin seen
<1> DEFINE doc == answer.doc
           id == OriginalId(doc)
<1>1. doc \in Docs
  <2>1. VerdictOn(answer) = "accept"
    BY DEF Admissible
  <2>2. Unfenced(answer) # Prose
    BY <2>1 DEF VerdictOn
  <2>3. answer.doc # Prose
    BY <2>2 DEF Unfenced
  <2>4. answer.doc # Stepless
    BY <2>1 DEF VerdictOn
  <2>5. answer.doc \in Docs \union {Prose, Stepless}
    BY TeacherAssumption
  <2> QED
    BY <2>3, <2>4, <2>5
<1> HIDE DEF doc
<1>2. SeedOf(slot) \in Bases
  <2>1. slot < Total
    BY DEF Admissible, Trying, Asking
  <2> QED
    BY <2>1, SeedIsThere
<1>3. id \in Ids
  <2>1. <<Unknown>> \in Ids
    BY TeacherAssumption DEF Ids
  <2>2. doc.id \in Ids \union {NoId, LongId}
    BY <1>1 DEF Docs
  <2> QED
    BY <2>1, <2>2 DEF OriginalId
<1> HIDE DEF id
<1>4. accepted \in Nat /\ IsFiniteSet(seen) /\ Cardinality(seen) \in Nat
  BY FS_CardinalityType DEF TypeOK
<1>5. \E u \in accepted..(accepted + Cardinality(seen)) :
          /\ Append(id, u) \notin seen
          /\ \A t \in accepted..(u - 1) : Append(id, t) \in seen
  BY <1>3, <1>4, FreeSuffixExists DEF Ids
<1>6. /\ FreshSuffix(id) \in accepted..(accepted + Cardinality(seen))
      /\ Append(id, FreshSuffix(id)) \notin seen
  BY <1>5 DEF FreshSuffix
<1>7. FreshSuffix(id) \in Nat
  BY <1>4, <1>6
<1>8. Append(id, FreshSuffix(id)) \in Ids
  BY <1>3, <1>7, AppendProperties DEF Ids
<1>9. AdmittedId(doc) \in Ids /\ AdmittedId(doc) \notin seen
  BY <1>3, <1>6, <1>8 DEF AdmittedId, id
<1>10. AdmittedRow(doc) \in Row /\ AdmittedRow(doc).id \in {NoId, AdmittedId(doc)}
  BY <1>1, <1>2, <1>9 DEF AdmittedRow, Row
<1> QED
  BY <1>9, <1>10 DEF doc

\* What a write of an admissible row may leave of the file, all of it or less: rows,
\* none of them twice, and none with a name that is not given out.
LEMMA WrittenRowIsUnique ==
    ASSUME TypeOK, IdsAreSeen, NEW answer \in Answers, Admissible(answer),
           NEW file \in CutAppends(partial, <<AdmittedRow(answer.doc)>>, TRUE)
                        \union {AppendLines(partial, <<AdmittedRow(answer.doc)>>)}
    PROVE  /\ file \in FilesOf(Row)
           /\ IdsAreUnique(file.rows)
           /\ NamedIds(file.rows) \subseteq seen \union {AdmittedId(answer.doc)}
<1> DEFINE row == AdmittedRow(answer.doc)
           id == AdmittedId(answer.doc)
<1>1. row \in Row /\ row.id \in {NoId, id} /\ id \notin seen
  BY AdmittedRowIsNew
<1> HIDE DEF row, id
<1>2. /\ partial \in FilesOf(Row) /\ partial.rows \in Seq(Row)
      /\ IdsAreUnique(partial.rows) /\ NamedIds(partial.rows) \subseteq seen
  <2>1. phase # "idle"
    BY DEF Admissible, Trying, Asking
  <2> QED
    BY <2>1 DEF TypeOK, FilesOf, IdsAreSeen, UniqueIds
<1>3. <<row>> \in Seq(Row)
  BY <1>1
<1>4. file \in CutAppends(partial, <<row>>, TRUE) \union {AppendLines(partial, <<row>>)}
  BY DEF row
<1>5. file \in FilesOf(Row)
  BY <1>2, <1>3, <1>4, CutAppendsType, AppendLinesType
<1>6. \/ file.rows = Append(partial.rows, row)
      \/ \E n \in 0..Len(partial.rows) : file.rows = SubSeq(partial.rows, 1, n)
  <2> DEFINE torn == TRUE
  <2>1. CASE file \in CutAppends(partial, <<row>>, torn)
    <3> HIDE DEF torn
    <3> QED
      BY <1>1, <1>2, <2>1, CutAppendOfOneLine
  <2>2. CASE file = AppendLines(partial, <<row>>)
    BY <1>1, <1>2, <2>2, AppendOneLine
  <2> QED
    BY <1>4, <2>1, <2>2
<1>7. NamedIds(partial.rows) \subseteq seen \union {id}
  BY <1>2
<1>8. row.id \notin NamedIds(partial.rows)
  BY <1>1, <1>2 DEF NamedIds
<1>9. CASE file.rows = Append(partial.rows, row)
  <2>1. /\ NamedIds(file.rows) \subseteq NamedIds(partial.rows) \union {row.id}
        /\ IdsAreUnique(file.rows)
    BY <1>1, <1>2, <1>8, <1>9, AppendIsUnique
  <2>2. NoId \notin NamedIds(file.rows)
    BY DEF NamedIds
  <2> QED
    BY <1>1, <1>5, <1>7, <2>1, <2>2 DEF id
<1>10. CASE \E n \in 0..Len(partial.rows) : file.rows = SubSeq(partial.rows, 1, n)
  <2>1. IdsAreUnique(file.rows) /\ NamedIds(file.rows) \subseteq NamedIds(partial.rows)
    BY <1>2, <1>10, BeginningIsUnique
  <2> QED
    BY <1>5, <1>7, <2>1 DEF id
<1> QED
  BY <1>6, <1>9, <1>10

\* The train and the dev part of rows with distinct names have distinct names, and the
\* sizes the fractions say.
LEMMA PartsAreUnique ==
    ASSUME NEW S, NEW list \in Seq(S), IdsAreUnique(list)
    PROVE  /\ Len(TrainPart(list)) = NTrain(Len(list))
           /\ Len(DevPart(list)) = NDev(Len(list))
           /\ IdsAreUnique(TrainPart(list) \o DevPart(list))
<1> DEFINE n == Len(list)
           t == NTrain(n)
           d == NDev(n)
           T == TrainPart(list)
           D == DevPart(list)
<1>1. n \in Nat /\ DOMAIN list = 1..n /\ \A i \in 1..n : list[i] \in S
  BY LenProperties, ElementOfSeq
<1>2. t \in Nat /\ d \in Nat /\ t + d <= n
  BY <1>1, PartsFit
<1>3. T = SubSeq(list, 1, t) /\ D = SubSeq(list, t + 1, t + d)
  BY DEF TrainPart, DevPart
<1> HIDE DEF n, t, d, T, D
<1>4. T \in Seq(S) /\ Len(T) = t /\ \A i \in 1..t : T[i] = list[i]
  <2>1. t \in 0..Len(list)
    BY <1>1, <1>2 DEF n
  <2> QED
    BY <1>3, <2>1, BeginningIsSeq
<1>5. D \in Seq(S) /\ Len(D) = d /\ \A i \in 1..d : D[i] = list[t + i]
  <2> DEFINE a == t + 1
             b == t + d
  <2>1. a \in Int /\ b \in Int /\ D = SubSeq(list, a, b)
    BY <1>2, <1>3
  <2>2. \A i \in a..b : list[i] \in S
    BY <1>1, <1>2
  <2>3. b - a + 1 = d /\ (a <= b <=> d > 0) /\ \A i \in 1..d : a + i - 1 = t + i
    BY <1>2
  <2> HIDE DEF a, b
  <2>4. /\ D \in Seq(S)
        /\ Len(D) = IF a <= b THEN b - a + 1 ELSE 0
        /\ \A i \in 1..(b - a + 1) : D[i] = list[a + i - 1]
    BY <2>1, <2>2, SubSeqProperties
  <2>5. 1..(b - a + 1) = 1..d /\ (~(a <= b) => d = 0)
    BY <1>2, <2>3
  <2>6. Len(D) = d
    BY <2>3, <2>4, <2>5
  <2>7. \A i \in 1..d : D[i] = list[a + i - 1]
    BY <2>4, <2>5
  <2>8. \A i \in 1..d : D[i] = list[t + i]
    BY <2>3, <2>7
  <2> QED
    BY <2>4, <2>6, <2>8
<1>6. /\ DOMAIN (T \o D) = 1..(t + d)
      /\ \A i \in 1..(t + d) : (T \o D)[i] = list[i]
  <2>1. /\ Len(T \o D) = t + d /\ T \o D \in Seq(S)
        /\ \A i \in 1..(t + d) : (T \o D)[i] = IF i <= t THEN T[i] ELSE D[i - t]
    BY <1>4, <1>5, ConcatProperties, ZenonT(60)
  <2>2. ASSUME NEW i \in 1..(t + d), i > t
        PROVE  i - t \in 1..d /\ t + (i - t) = i
    BY <1>2, <2>2
  <2>3. ASSUME NEW i \in 1..(t + d), i <= t
        PROVE  i \in 1..t
    BY <1>2, <2>3
  <2>4. DOMAIN (T \o D) = 1..(t + d)
    BY <2>1, LenProperties
  <2>5. ASSUME NEW i \in 1..(t + d)
        PROVE  (T \o D)[i] = list[i]
    <3>1. CASE i <= t
      BY <1>4, <2>1, <2>3, <3>1
    <3>2. CASE i > t
      BY <1>2, <1>5, <2>1, <2>2, <3>2
    <3>3. i <= t \/ i > t
      BY <1>2
    <3> QED
      BY <3>1, <3>2, <3>3
  <2> QED
    BY <2>4, <2>5
<1>7. \A i \in 1..(t + d) : i \in DOMAIN list
  BY <1>1, <1>2
<1>8. IdsAreUnique(T \o D)
  BY <1>6, <1>7 DEF IdsAreUnique
<1> QED
  BY <1>4, <1>5, <1>8 DEF n, t, d, T, D

-----------------------------------------------------------------------------
LEMMA InitInv ==
    ASSUME Init
    PROVE  Inv
<1>1. partial \in FilesOf(Row)
  BY TeacherAssumption DEF Init
<1>2. Len(SeedList) \in Nat /\ ExpansionsPerSeed \in Nat /\ MaxRetries \in Nat
  BY TeacherAssumption, LenProperties
<1>3. Total \in Nat
  BY <1>2 DEF Total
<1>4. TypeOK
  <2>1. 0 \in 0..Total /\ 0 \in 0..MaxRetries
    BY <1>2, <1>3
  <2>2. IsFiniteSet({}) /\ {} \subseteq Ids /\ << >> \in Seq(Row \union {Scrap})
    BY FS_EmptySet, EmptySeq
  <2> QED
    BY <1>1, <2>1, <2>2 DEF Init, TypeOK
<1> QED
  BY <1>4 DEF Init, Inv, IdsAreSeen, RowsAreCounted, SplitsAreParts

\* A run starts on an empty file.
LEMMA StartInv ==
    ASSUME Inv, StartRun \/ StartFails
    PROVE  Inv'
<1>1. /\ phase = "idle" /\ partial' = EmptyFile /\ phase' \in {"asking", "failed"}
      /\ UNCHANGED <<splits, loop, sticky, log, rows, faulted>>
  BY DEF StartRun, StartFails
<1>2. EmptyFile \in FilesOf(Row)
  BY EmptyFileType
<1>3. TypeOK'
  BY <1>1, <1>2 DEF Inv, TypeOK, splits, loop
<1>4. IdsAreUnique(<< >>) /\ NamedIds(<< >>) = {} /\ Len(<< >>) = 0
  BY DEF IdsAreUnique, NamedIds, IdsOf
<1>5. EmptyFile.rows = << >> /\ EmptyFile.tail = "clean"
  BY DEF EmptyFile
<1>6. accepted = 0 /\ rows = << >>
  BY <1>1 DEF Inv
<1>7. IdsAreSeen'
  BY <1>1, <1>4, <1>5, <1>6 DEF IdsAreSeen, UniqueIds, loop
<1>8. RowsAreCounted'
  BY <1>1, <1>4, <1>5, <1>6 DEF RowsAreCounted, loop
<1>9. SplitsAreParts'
  BY <1>1 DEF SplitsAreParts
<1> QED
  BY <1>1, <1>3, <1>7, <1>8, <1>9 DEF Inv

\* A rejection, logged or not, and the end of the attempts touch neither rows nor ids.
LEMMA RefusedInv ==
    ASSUME Inv, (\E answer \in Answers : Reject(answer)) \/ GiveUp
    PROVE  Inv'
<1>1. /\ phase = "asking" /\ slot < Total
      /\ UNCHANGED <<partial, splits, phase, accepted, seen, sticky, rows>>
  BY DEF Reject, GiveUp, Trying, Asking
<1>2. Len(SeedList) \in Nat /\ ExpansionsPerSeed \in Nat /\ MaxRetries \in Nat
  BY TeacherAssumption, LenProperties
<1>3. Total \in Nat
  BY <1>2 DEF Total
<1>4. slot' \in 0..Total /\ attempt' \in 0..MaxRetries
  <2>1. /\ \/ slot' = slot /\ attempt < MaxRetries /\ attempt' = attempt + 1
           \/ slot' = slot + 1 /\ attempt' = 0
        /\ slot \in 0..Total /\ attempt \in 0..MaxRetries
    BY DEF Reject, GiveUp, Trying, Asking, Inv, TypeOK
  <2> QED
    BY <1>1, <1>2, <1>3, <2>1
<1>5. faulted' \in BOOLEAN /\ (faulted => faulted')
  BY DEF Reject, GiveUp, Inv, TypeOK
<1> QED
  BY <1>1, <1>4, <1>5
  DEF Inv, TypeOK, IdsAreSeen, UniqueIds, RowsAreCounted, SplitsAreParts, splits

\* A reply is admitted, and its row is written, or not to its end, or not at all.
LEMMA AcceptInv ==
    ASSUME Inv, NEW answer \in Answers,
           Accept(answer) \/ AcceptUnflushed(answer) \/ AcceptFails(answer)
    PROVE  Inv'
<1> DEFINE row == AdmittedRow(answer.doc)
           id == AdmittedId(answer.doc)
<1>1. TypeOK /\ IdsAreSeen /\ Admissible(answer)
  BY DEF Inv, Accept, AcceptUnflushed, AcceptFails
<1>2. phase = "asking" /\ slot < Total
  BY <1>1 DEF Admissible, Trying, Asking
<1>3. row \in Row /\ id \in Ids
  BY <1>1, AdmittedRowIsNew
<1> HIDE DEF row, id
<1>4. seen' = seen \union {id}
  BY DEF Accept, AcceptUnflushed, AcceptFails, Admit, id
<1>5. partial' \in CutAppends(partial, <<row>>, TRUE) \union {AppendLines(partial, <<row>>)}
  BY DEF Accept, AcceptUnflushed, AcceptFails, row
<1>6. /\ partial' \in FilesOf(Row)
      /\ IdsAreUnique(partial'.rows)
      /\ NamedIds(partial'.rows) \subseteq seen'
  BY <1>1, <1>4, <1>5, WrittenRowIsUnique DEF row, id
<1>7. UNCHANGED <<splits, rows, log>> /\ phase' \in {"asking", "failed"}
  BY <1>2 DEF Accept, AcceptUnflushed, AcceptFails
<1>8. seen' \subseteq Ids /\ IsFiniteSet(seen')
  BY <1>1, <1>3, <1>4, FS_AddElement DEF TypeOK
<1>9. Len(SeedList) \in Nat /\ ExpansionsPerSeed \in Nat /\ MaxRetries \in Nat
  BY TeacherAssumption, LenProperties
<1>10. Total \in Nat
  BY <1>9 DEF Total
<1>11. /\ slot' \in 0..Total /\ attempt' \in 0..MaxRetries /\ accepted' \in Nat
       /\ sticky' \in BOOLEAN /\ faulted' \in BOOLEAN
  <2>1. slot \in 0..Total /\ attempt \in 0..MaxRetries /\ accepted \in Nat
    BY <1>1 DEF TypeOK
  <2>2. slot + 1 \in 0..Total /\ 0 \in 0..MaxRetries /\ accepted + 1 \in Nat
    BY <1>2, <1>9, <1>10, <2>1
  <2>3. CASE Accept(answer) \/ AcceptUnflushed(answer)
    BY <1>1, <2>2, <2>3 DEF Accept, AcceptUnflushed, Admit, TypeOK
  <2>4. CASE AcceptFails(answer)
    BY <1>1, <2>4 DEF AcceptFails, TypeOK
  <2> QED
    BY <2>3, <2>4
<1>12. TypeOK'
  BY <1>1, <1>6, <1>7, <1>8, <1>11 DEF TypeOK
<1>13. IdsAreSeen'
  BY <1>1, <1>2, <1>6, <1>7 DEF IdsAreSeen, UniqueIds
<1>14. RowsAreCounted'
  <2>1. CASE phase' = "failed" \/ faulted'
    BY <2>1 DEF RowsAreCounted
  <2>2. CASE phase' # "failed" /\ ~faulted'
    <3>1. Accept(answer)
      BY <2>2 DEF AcceptUnflushed, AcceptFails
    <3>2. ~faulted /\ accepted' = accepted + 1 /\ partial' = AppendLines(partial, <<row>>)
      BY <2>2, <3>1 DEF Accept, Admit, row
    <3>3. partial.tail = "clean" /\ Len(partial.rows) = accepted
      BY <1>2, <3>2 DEF Inv, RowsAreCounted
    <3>4. partial \in FilesOf(Row) /\ partial.rows \in Seq(Row)
      BY <1>1 DEF TypeOK, FilesOf
    <3>5. partial'.tail = "clean" /\ partial'.rows = Append(partial.rows, row)
      BY <1>3, <3>2, <3>3, <3>4, AppendOneLine
    <3>6. Len(partial'.rows) = accepted'
      BY <1>3, <3>2, <3>3, <3>4, <3>5, AppendProperties
    <3> QED
      BY <1>7, <2>2, <3>5, <3>6 DEF RowsAreCounted
  <2> QED
    BY <2>1, <2>2
<1>15. SplitsAreParts'
  BY <1>7 DEF SplitsAreParts
<1>16. sticky' => faulted'
  BY DEF Inv, Accept, AcceptUnflushed, AcceptFails
<1> QED
  BY <1>7, <1>12, <1>13, <1>14, <1>15, <1>16 DEF Inv

\* The lines are read back and shuffled, or some of them are.
LEMMA ReadInv ==
    ASSUME Inv, ReadBack \/ ReadBackShort
    PROVE  Inv'
<1> DEFINE all == LinesOf(partial)
           Lines == Row \union {Scrap}
<1>1. /\ phase = "reading" /\ phase' = "train"
      /\ UNCHANGED <<partial, splits, loop, sticky, log>>
  BY DEF ReadBack, ReadBackShort
<1>2. partial \in FilesOf(Row) /\ IdsAreUnique(partial.rows)
  BY <1>1 DEF Inv, TypeOK, IdsAreSeen, UniqueIds
<1>3. all \in Seq(Lines) /\ IdsAreUnique(all) /\ (partial.tail # "torn" => all = partial.rows)
  BY <1>2, LinesAreUnique
<1> HIDE DEF all, Lines
<1>4. PICK lines \in Seq(Lines) : IdsAreUnique(lines) /\ rows' \in Shuffles(lines)
  <2>1. CASE ReadBack
    BY <1>3, <2>1 DEF ReadBack, all
  <2>2. CASE ReadBackShort
    <3>1. PICK part \in Prefixes(all) : rows' \in Shuffles(part)
      BY <2>2 DEF ReadBackShort, all
    <3>2. PICK n \in 0..Len(all) : part = SubSeq(all, 1, n)
      BY <3>1 DEF Prefixes
    <3> QED
      BY <1>3, <3>1, <3>2, BeginningIsSeq, BeginningIsUnique
  <2> QED
    BY <2>1, <2>2
<1>5. rows' \in Seq(Lines) /\ IdsAreUnique(rows')
  BY <1>4, ShuffleKeepsRows, ShuffleIsUnique
<1>6. ASSUME ~faulted'
      PROVE  Len(rows') = accepted'
  <2>1. ReadBack /\ ~faulted
    BY <1>6 DEF ReadBack, ReadBackShort
  <2>2. partial.tail = "clean" /\ Len(partial.rows) = accepted
    BY <1>1, <2>1 DEF Inv, RowsAreCounted
  <2>3. rows' \in Shuffles(all) /\ Len(all) = accepted
    BY <1>3, <2>1, <2>2 DEF ReadBack, all
  <2>4. Len(rows') = Len(all)
    BY <1>3, <2>3, ShuffleKeepsRows
  <2> QED
    BY <1>1, <2>3, <2>4 DEF loop
<1>7. faulted' \in BOOLEAN /\ (faulted => faulted')
  BY DEF ReadBack, ReadBackShort, Inv, TypeOK
<1>8. TypeOK'
  BY <1>1, <1>5, <1>7 DEF Inv, TypeOK, loop, Lines
<1> QED
  BY <1>1, <1>5, <1>6, <1>7, <1>8
  DEF Inv, IdsAreSeen, UniqueIds, RowsAreCounted, SplitsAreParts, loop

\* The splits are written and the partial file goes; or a split is not written, and it
\* goes all the same.
LEMMA EndInv ==
    ASSUME Inv, WriteTrain \/ WriteDev \/ WriteTest \/ WriteFails \/ CloseFails \/ Remove
    PROVE  Inv'
<1>1. EmptyFile \in FilesOf(Row) /\ EmptyFile.rows = << >>
  BY EmptyFileType DEF EmptyFile
<1>2. IdsAreUnique(<< >>) /\ NamedIds(<< >>) = {}
  BY DEF IdsAreUnique, NamedIds, IdsOf
<1>3. /\ UNCHANGED <<loop, sticky, log, rows>>
      /\ faulted' \in BOOLEAN /\ (faulted => faulted')
      /\ phase \in {"train", "dev", "test", "removing"}
      /\ phase' \in {"dev", "test", "removing", "done", "failed"}
      /\ partial' \in {partial, EmptyFile}
  BY DEF WriteTrain, WriteDev, WriteTest, WriteFails, CloseFails, Remove, Inv, TypeOK
<1>4. TypeOK'
  BY <1>1, <1>3 DEF Inv, TypeOK, loop
<1>5. IdsAreSeen'
  BY <1>1, <1>2, <1>3 DEF Inv, IdsAreSeen, UniqueIds, loop
<1>6. RowsAreCounted'
  <2>1. phase' # "asking" /\ phase' # "reading"
    BY <1>3
  <2> QED
    BY <1>3, <2>1 DEF Inv, RowsAreCounted, loop
<1>7. SplitsAreParts'
  <2>1. CASE WriteTrain
    BY <2>1 DEF WriteTrain, SplitsAreParts
  <2>2. CASE WriteDev
    BY <2>2 DEF WriteDev, Inv, SplitsAreParts
  <2>3. CASE WriteTest
    BY <2>3 DEF WriteTest, Inv, SplitsAreParts
  <2>4. CASE WriteFails
    BY <2>4 DEF WriteFails, SplitsAreParts
  <2>5. CASE CloseFails
    BY <2>5 DEF CloseFails, SplitsAreParts
  <2>6. CASE Remove
    BY <2>6 DEF Remove, Inv, SplitsAreParts, splits
  <2> QED
    BY <2>1, <2>2, <2>3, <2>4, <2>5, <2>6
<1> QED
  BY <1>3, <1>4, <1>5, <1>6, <1>7 DEF Inv

\* Steps that only change where the program is.
LEMMA MoveInv ==
    ASSUME Inv, RequestFails \/ LoopDone \/ Crash
    PROVE  Inv'
<1>1. /\ UNCHANGED <<partial, splits, loop, sticky, log, rows, faulted>>
      /\ phase # "idle"
      /\ phase' \in {"failed", "dead"} \/ (phase = "asking" /\ phase' = "reading")
  BY DEF RequestFails, LoopDone, Crash, Trying, Asking, Running
<1>2. TypeOK'
  BY <1>1 DEF Inv, TypeOK, loop
<1>3. IdsAreSeen'
  BY <1>1 DEF Inv, IdsAreSeen, UniqueIds, loop
<1>4. RowsAreCounted' /\ SplitsAreParts'
  BY <1>1 DEF Inv, RowsAreCounted, SplitsAreParts, loop
<1> QED
  BY <1>1, <1>2, <1>3, <1>4 DEF Inv

LEMMA StepInv == Inv /\ [Next]_vars => Inv'
<1> SUFFICES ASSUME Inv, [Next]_vars
             PROVE  Inv'
  OBVIOUS
<1>1. CASE StartRun \/ StartFails
  BY <1>1, StartInv
<1>2. CASE Ask
  BY <1>2, RefusedInv, AcceptInv DEF Ask
<1>3. CASE GiveUp
  BY <1>3, RefusedInv
<1>4. CASE ReadBack \/ ReadBackShort
  BY <1>4, ReadInv
<1>5. CASE WriteTrain \/ WriteDev \/ WriteTest \/ WriteFails \/ CloseFails \/ Remove
  BY <1>5, EndInv
<1>6. CASE RequestFails \/ LoopDone \/ Crash
  BY <1>6, MoveInv
<1>7. CASE UNCHANGED vars
  BY <1>7 DEF vars, splits, loop, Inv, TypeOK, IdsAreSeen, UniqueIds, RowsAreCounted,
             SplitsAreParts
<1> QED
  BY <1>1, <1>2, <1>3, <1>4, <1>5, <1>6, <1>7 DEF Next, Proceed

\* The invariant holds in every state of every run.
THEOREM InvHolds == Spec => []Inv
<1>1. Init => Inv
  BY InitInv
<1> QED
  BY <1>1, StepInv, PTL DEF Spec

\* No two rows of a run share a trajectory_id, in the partial file or read back from
\* it, whatever the teacher replies and the disk loses (cli.c:5153-5165).
THEOREM IdsStayUnique == Spec => []UniqueIds
<1>1. Inv => UniqueIds
  BY DEF Inv, IdsAreSeen, UniqueIds
<1> QED
  BY <1>1, InvHolds, PTL

\* A run that reports success, under a disk that did not fail, has split the rows it
\* counts into parts of the sizes asked for that share no id (cli.c:5207-5358).
THEOREM SuccessIsKept == Spec => []SuccessKeepsRows
<1>1. Inv => SuccessKeepsRows
  <2> SUFFICES ASSUME Inv, phase = "done", ~faulted
               PROVE  /\ Len(rows) = accepted
                      /\ Len(train) = NTrain(accepted) /\ Len(dev) = NDev(accepted)
                      /\ IdsAreUnique(train \o dev)
                      /\ test = SeedList
    BY DEF SuccessKeepsRows
  <2>1. Len(rows) = accepted /\ rows \in Seq(Row \union {Scrap}) /\ IdsAreUnique(rows)
    BY DEF Inv, TypeOK, RowsAreCounted, IdsAreSeen, UniqueIds
  <2>2. train = TrainPart(rows) /\ dev = DevPart(rows) /\ test = SeedList
    BY DEF Inv, SplitsAreParts
  <2> QED
    BY <2>1, <2>2, PartsAreUnique
<1> QED
  BY <1>1, InvHolds, PTL
-----------------------------------------------------------------------------
\* The rows it admits.

\* The rows of which Python's verify_trajectory passes what C can read.
GoodRows ==
    {row \in Row : IsShaped(row.doc) /\ PyVerdict(Legible(row.doc), OwnOutputs(row.doc)).passed}
GoodLines == GoodRows \union {Scrap}

\* Whatever a run has written, kept or read back are such rows, and pieces of them only
\* where something failed.
GoodInv ==
    /\ partial \in FilesOf(GoodRows)
    /\ rows \in Seq(GoodLines) /\ train \in Seq(GoodLines) /\ dev \in Seq(GoodLines)
    /\ ~faulted => rows \in Seq(GoodRows)
    /\ ~faulted /\ phase # "failed" => train \in Seq(GoodRows) /\ dev \in Seq(GoodRows)

\* No answer of the teacher gives an expected state as an empty string, and the files
\* of killed runs hold rows that verify: GoodInv says that is what killed runs leave.
AnswersHaveNoBlanks ==
    \A answer \in Answers : answer.doc \in Docs => NoBlankAfter(answer.doc)
LeftoversVerify == Leftovers \subseteq FilesOf(GoodRows)

\* The train and the dev part of rows are rows.
LEMMA PartsAreRows ==
    ASSUME NEW S, NEW list \in Seq(S)
    PROVE  TrainPart(list) \in Seq(S) /\ DevPart(list) \in Seq(S)
<1> DEFINE n == Len(list)
           t == NTrain(n)
           d == NDev(n)
<1>1. n \in Nat /\ \A k \in 1..n : list[k] \in S
  BY LenProperties, ElementOfSeq
<1>2. t \in Nat /\ d \in Nat /\ t + d <= n
  BY <1>1, PartsFit
<1>3. TrainPart(list) = SubSeq(list, 1, t) /\ DevPart(list) = SubSeq(list, t + 1, t + d)
  BY DEF TrainPart, DevPart
<1> HIDE DEF n, t, d
<1>4. \A a, b \in Int : (\A k \in a..b : list[k] \in S) => SubSeq(list, a, b) \in Seq(S)
  BY SubSeqProperties
<1>5. /\ t + 1 \in Int /\ t + d \in Int /\ 1 \in Int /\ t \in Int
      /\ \A k \in 1..t : list[k] \in S
      /\ \A k \in (t + 1)..(t + d) : list[k] \in S
  BY <1>1, <1>2
<1> QED
  BY <1>3, <1>4, <1>5

\* A beginning of rows is rows.
LEMMA PrefixesAreRows ==
    ASSUME NEW S, NEW list \in Seq(S), NEW part \in Prefixes(list)
    PROVE  part \in Seq(S)
BY BeginningIsSeq DEF Prefixes

\* What a failing writer leaves of rows is rows and a piece of one.
LEMMA PiecesAreLines ==
    ASSUME NEW S, NEW list \in Seq(S \union {Scrap}), NEW part \in Pieces(list)
    PROVE  part \in Seq(S \union {Scrap})
<1>1. \A beginning \in Prefixes(list) : beginning \in Seq(S \union {Scrap})
  BY PrefixesAreRows
<1>2. \A beginning \in Prefixes(list) : Append(beginning, Scrap) \in Seq(S \union {Scrap})
  BY <1>1, AppendProperties
<1> QED
  BY <1>1, <1>2 DEF Pieces

\* The row of an admissible answer verifies.
LEMMA AdmittedRowIsGood ==
    ASSUME AnswersHaveNoBlanks, TypeOK, NEW answer \in Answers, Admissible(answer)
    PROVE  AdmittedRow(answer.doc) \in GoodRows
<1> DEFINE doc == answer.doc
<1>1. AdmittedRow(doc) \in Row
  BY AdmittedRowIsNew
<1>2. AdmittedRow(doc).doc = doc
  BY DEF AdmittedRow
<1>3. Unfenced(answer) # Prose /\ doc # Stepless /\ GateClass(doc) = "accept"
  BY DEF Admissible, VerdictOn
<1>4. doc # Prose
  BY <1>3 DEF Unfenced
<1>5. doc \in Docs
  BY <1>3, <1>4, TeacherAssumption
<1>6. doc.steps \in Seq(StepsOf(Outputs)) /\ NoBlankAfter(doc)
  BY <1>5 DEF Docs, AnswersHaveNoBlanks
<1>7. IsShaped(doc) /\ PyVerdict(Legible(doc), OwnOutputs(doc)).passed
  BY <1>3, <1>6, AcceptedRowVerifies
<1> QED
  BY <1>1, <1>2, <1>7 DEF GoodRows

\* The files of a run that did not fail, and the rows it reads, are whole.
LEMMA GoodIsLines ==
    ASSUME NEW list \in Seq(GoodRows)
    PROVE  list \in Seq(GoodLines)
<1>1. GoodRows \subseteq GoodLines
  BY DEF GoodLines
<1> QED
  BY <1>1, SeqMonotonic

LEMMA GoodStep ==
    ASSUME AnswersHaveNoBlanks, Inv, GoodInv, [Next]_vars
    PROVE  GoodInv'
<1>1. EmptyFile \in FilesOf(GoodRows) /\ TypeOK
  BY EmptyFileType DEF Inv
<1>2. CASE StartRun \/ StartFails \/ Remove
  BY <1>1, <1>2 DEF StartRun, StartFails, Remove, GoodInv, splits
<1>3. CASE Ask
  <2>1. PICK answer \in Answers :
            Reject(answer) \/ Accept(answer) \/ AcceptUnflushed(answer) \/ AcceptFails(answer)
    BY <1>3 DEF Ask
  <2>2. CASE Reject(answer)
    BY <2>2 DEF Reject, GoodInv, splits
  <2>3. CASE ~Reject(answer)
    <3> DEFINE row == AdmittedRow(answer.doc)
    <3>1. Admissible(answer)
      BY <2>1, <2>3 DEF Accept, AcceptUnflushed, AcceptFails
    <3>2. row \in GoodRows
      BY <1>1, <3>1, AdmittedRowIsGood
    <3> HIDE DEF row
    <3>3. /\ partial' \in CutAppends(partial, <<row>>, TRUE) \union {AppendLines(partial, <<row>>)}
          /\ UNCHANGED <<splits, rows>> /\ (faulted => faulted')
          /\ phase' \in {phase, "failed"}
      BY <1>1, <2>1, <2>3 DEF Accept, AcceptUnflushed, AcceptFails, row, TypeOK
    <3>4. <<row>> \in Seq(GoodRows)
      BY <3>2
    <3>5. partial' \in FilesOf(GoodRows)
      BY <3>3, <3>4, CutAppendsType, AppendLinesType DEF GoodInv
    <3> QED
      BY <3>3, <3>5 DEF GoodInv, splits
  <2> QED
    BY <2>2, <2>3
<1>4. CASE GiveUp \/ RequestFails \/ LoopDone \/ Crash
  <2>1. /\ UNCHANGED <<partial, splits, rows, faulted>>
        /\ phase # "failed"
    BY <1>4 DEF GiveUp, RequestFails, LoopDone, Crash, Trying, Asking, Running
  <2> QED
    BY <2>1 DEF GoodInv, splits
<1>5. CASE ReadBack \/ ReadBackShort
  <2>1. partial \in FilesOf(GoodRows) /\ IdsAreUnique(partial.rows)
    BY <1>5 DEF GoodInv, Inv, IdsAreSeen, UniqueIds, ReadBack, ReadBackShort
  <2>2. LinesOf(partial) \in Seq(GoodLines)
    BY <2>1, LinesAreUnique DEF GoodLines
  <2>3. \A part \in Prefixes(LinesOf(partial)) : part \in Seq(GoodLines)
    BY <2>2, PrefixesAreRows
  <2>4. rows' \in Seq(GoodLines)
    BY <1>5, <2>2, <2>3, ShuffleKeepsRows DEF ReadBack, ReadBackShort
  <2>5. ~faulted' => rows' \in Seq(GoodRows)
    <3> SUFFICES ASSUME ~faulted'
                 PROVE  rows' \in Seq(GoodRows)
      OBVIOUS
    <3>1. ReadBack /\ ~faulted /\ phase = "reading"
      BY <1>5 DEF ReadBack, ReadBackShort
    <3>2. partial.tail = "clean"
      BY <3>1 DEF Inv, RowsAreCounted
    <3>3. LinesOf(partial) = partial.rows /\ partial.rows \in Seq(GoodRows)
      BY <2>1, <3>2, LinesAreUnique DEF FilesOf
    <3> QED
      BY <3>1, <3>3, ShuffleKeepsRows DEF ReadBack
  <2>6. UNCHANGED <<partial, splits>> /\ (faulted => faulted') /\ phase # "failed"
    BY <1>5 DEF ReadBack, ReadBackShort
  <2> QED
    BY <2>4, <2>5, <2>6 DEF GoodInv, splits
<1>6. CASE WriteTrain \/ WriteDev \/ WriteTest \/ WriteFails \/ CloseFails
  <2>1. TrainPart(rows) \in Seq(GoodLines) /\ DevPart(rows) \in Seq(GoodLines)
    BY PartsAreRows DEF GoodInv
  <2>2. ~faulted => TrainPart(rows) \in Seq(GoodRows) /\ DevPart(rows) \in Seq(GoodRows)
    BY PartsAreRows DEF GoodInv
  <2>3. /\ \A part \in Pieces(TrainPart(rows)) : part \in Seq(GoodLines)
        /\ \A part \in Pieces(DevPart(rows)) : part \in Seq(GoodLines)
    BY <2>1, PiecesAreLines DEF GoodLines
  <2>4. /\ partial' \in {partial, EmptyFile} /\ rows' = rows /\ (faulted => faulted')
        /\ train' \in Pieces(TrainPart(rows)) \union {train, TrainPart(rows)}
        /\ dev' \in Pieces(DevPart(rows)) \union {dev, DevPart(rows)}
        /\ phase # "failed"
    BY <1>6 DEF WriteTrain, WriteDev, WriteTest, WriteFails, CloseFails
  <2>5. ~faulted' /\ phase' # "failed" =>
            train' \in {train, TrainPart(rows)} /\ dev' \in {dev, DevPart(rows)}
    BY <1>6 DEF WriteTrain, WriteDev, WriteTest, WriteFails, CloseFails
  <2>6. train' \in Seq(GoodLines) /\ dev' \in Seq(GoodLines)
    BY <2>1, <2>3, <2>4 DEF GoodInv
  <2> QED
    BY <1>1, <2>2, <2>4, <2>5, <2>6 DEF GoodInv
<1>7. CASE UNCHANGED vars
  BY <1>7 DEF vars, splits, GoodInv
<1> QED
  BY <1>2, <1>3, <1>4, <1>5, <1>6, <1>7 DEF Next, Proceed

\* Each row a run has written or split is one of which Python's verify_trajectory passes
\* what C can read, and a line that is no row is a piece of one and there for a write that
\* failed (README.md:27, cli.c:4671-4772), if no answer gives an expected state as an
\* empty string, which C takes for an absent one.
THEOREM AdmittedRowsAreVerified ==
    ASSUME AnswersHaveNoBlanks, LeftoversVerify
    PROVE  Spec => []AdmittedRowsVerify
<1>1. Init => GoodInv
  <2> SUFFICES ASSUME Init
               PROVE  GoodInv
    OBVIOUS
  <2>1. << >> \in Seq(GoodRows) /\ << >> \in Seq(GoodLines)
    BY EmptySeq
  <2> QED
    BY <2>1 DEF Init, GoodInv, LeftoversVerify
<1>2. Inv /\ GoodInv /\ [Next]_vars => GoodInv'
  BY GoodStep
<1>3. GoodInv => AdmittedRowsVerify
  <2> SUFFICES ASSUME GoodInv, NEW list \in {partial.rows, train, dev}, NEW k \in DOMAIN list
               PROVE  IF list[k] = Scrap
                      THEN faulted \/ phase = "failed"
                      ELSE /\ IsShaped(list[k].doc)
                           /\ PyVerdict(Legible(list[k].doc), OwnOutputs(list[k].doc)).passed
    BY DEF AdmittedRowsVerify
  <2>1. partial.rows \in Seq(GoodRows)
    BY DEF GoodInv, FilesOf
  <2>2. list \in Seq(GoodLines)
    BY <2>1, GoodIsLines DEF GoodInv
  <2>3. list[k] \in GoodLines
    BY <2>2, LenProperties, ElementOfSeq
  <2>4. ~faulted /\ phase # "failed" => list \in Seq(GoodRows)
    BY <2>1 DEF GoodInv
  <2>5. ~faulted /\ phase # "failed" => list[k] \in GoodRows
    BY <2>4, LenProperties, ElementOfSeq
  <2>6. Scrap \notin GoodRows
    BY TeacherAssumption DEF GoodRows
  <2> QED
    BY <2>3, <2>5, <2>6 DEF GoodRows, GoodLines
<1> QED
  BY <1>1, <1>2, <1>3, InvHolds, PTL DEF Spec
-----------------------------------------------------------------------------
\* The count of attempts.

Logged == [slot : Nat, attempt : Nat, written : BOOLEAN]
\* The attempts at expansion n among some entries of a log, and the expansions before s
\* that used them all up.
TriesAt(entries, among, n) == {k \in among : entries[k].slot = n}
UsedUp(entries, s) ==
    {n \in 0..(s - 1) : Cardinality(TriesAt(entries, DOMAIN entries, n)) = MaxRetries}

\* While it asks, no attempt is logged under a later expansion than the current one.
TriesInv ==
    phase \in {"idle", "asking"} =>
        /\ log \in Seq(Logged) /\ rejected \in Nat
        /\ phase = "idle" => log = << >> /\ slot = 0 /\ attempt = 0 /\ accepted = 0 /\ rejected = 0
        /\ \A k \in DOMAIN log : log[k].slot <= slot
        /\ accepted + rejected = slot
        /\ Cardinality(TriesAt(log, DOMAIN log, slot)) = attempt
        /\ rejected = Cardinality(UsedUp(log, slot))
        /\ \A k \in DOMAIN log :
              log[k].attempt = Cardinality(TriesAt(log, 1..(k - 1), log[k].slot))
        /\ ~faulted => \A k \in DOMAIN log : log[k].written

\* The attempts at an expansion are finitely many.
LEMMA TriesAreFinite ==
    ASSUME NEW entries \in Seq(Logged), NEW n
    PROVE  /\ IsFiniteSet(TriesAt(entries, DOMAIN entries, n))
           /\ Cardinality(TriesAt(entries, DOMAIN entries, n)) \in Nat
<1> DEFINE tries == TriesAt(entries, DOMAIN entries, n)
<1>1. DOMAIN entries = 1..Len(entries) /\ Len(entries) \in Nat
  BY LenProperties
<1>2. IsFiniteSet(1..Len(entries)) /\ tries \subseteq 1..Len(entries)
  BY <1>1, FS_Interval DEF TriesAt
<1>3. IsFiniteSet(tries)
  BY <1>2, FS_Subset
<1> QED
  BY <1>3, FS_CardinalityType

\* One more entry is one more attempt at its expansion and at no other, and changes
\* nothing of what was logged before an earlier entry.
LEMMA OneMoreTry ==
    ASSUME NEW entries \in Seq(Logged), NEW entry \in Logged
    PROVE  LET longer == Append(entries, entry)
           IN  /\ \A n : n # entry.slot =>
                    TriesAt(longer, DOMAIN longer, n) = TriesAt(entries, DOMAIN entries, n)
               /\ Cardinality(TriesAt(longer, DOMAIN longer, entry.slot))
                    = Cardinality(TriesAt(entries, DOMAIN entries, entry.slot)) + 1
               /\ \A n : \A k \in 1..(Len(entries) + 1) :
                    TriesAt(longer, 1..(k - 1), n) = TriesAt(entries, 1..(k - 1), n)
<1> DEFINE longer == Append(entries, entry)
           m == Len(entries)
<1>1. /\ m \in Nat /\ DOMAIN entries = 1..m /\ DOMAIN longer = 1..(m + 1)
      /\ \A k \in 1..m : longer[k] = entries[k]
      /\ longer[m + 1] = entry
  BY LenProperties, AppendProperties
<1> HIDE DEF m, longer
<1>2. 1..(m + 1) = (1..m) \union {m + 1} /\ m + 1 \notin 1..m
  BY <1>1
<1>3. ASSUME NEW n, n # entry.slot
      PROVE  TriesAt(longer, DOMAIN longer, n) = TriesAt(entries, DOMAIN entries, n)
  BY <1>1, <1>2, <1>3 DEF TriesAt
<1>4. TriesAt(longer, DOMAIN longer, entry.slot)
        = TriesAt(entries, DOMAIN entries, entry.slot) \union {m + 1}
  BY <1>1, <1>2 DEF TriesAt
<1>5. m + 1 \notin TriesAt(entries, DOMAIN entries, entry.slot)
  BY <1>1, <1>2 DEF TriesAt
<1>6. Cardinality(TriesAt(longer, DOMAIN longer, entry.slot))
        = Cardinality(TriesAt(entries, DOMAIN entries, entry.slot)) + 1
  BY <1>4, <1>5, TriesAreFinite, FS_AddElement
<1>7. ASSUME NEW k \in 1..(m + 1), NEW n
      PROVE  TriesAt(longer, 1..(k - 1), n) = TriesAt(entries, 1..(k - 1), n)
  <2>1. \A j \in 1..(k - 1) : j \in 1..m
    BY <1>1
  <2> QED
    BY <1>1, <2>1 DEF TriesAt
<1> QED
  BY <1>3, <1>6, <1>7 DEF longer, m

\* The expansions used up before the next one are those before this one and, if its
\* attempts are used up, this one.
LEMMA UsedUpGrows ==
    ASSUME NEW entries, NEW s \in Nat
    PROVE  LET tries == Cardinality(TriesAt(entries, DOMAIN entries, s))
           IN  /\ Cardinality(UsedUp(entries, s)) \in Nat
               /\ Cardinality(UsedUp(entries, s + 1))
                    = Cardinality(UsedUp(entries, s)) + IF tries = MaxRetries THEN 1 ELSE 0
<1> DEFINE tries == Cardinality(TriesAt(entries, DOMAIN entries, s))
<1>1. /\ s + 1 - 1 = s /\ s \notin 0..(s - 1) /\ 0..s = (0..(s - 1)) \union {s}
  OBVIOUS
<1>2. IsFiniteSet(UsedUp(entries, s)) /\ Cardinality(UsedUp(entries, s)) \in Nat
  <2>1. UsedUp(entries, s) \subseteq 0..(s - 1) /\ IsFiniteSet(0..(s - 1))
    BY FS_Interval DEF UsedUp
  <2> QED
    BY <2>1, FS_Subset, FS_CardinalityType
<1>3. s \notin UsedUp(entries, s)
  BY <1>1 DEF UsedUp
<1>4. CASE tries = MaxRetries
  <2>1. UsedUp(entries, s + 1) = UsedUp(entries, s) \union {s}
    BY <1>1, <1>4 DEF UsedUp
  <2> QED
    BY <1>2, <1>3, <1>4, <2>1, FS_AddElement
<1>5. CASE tries # MaxRetries
  <2>1. UsedUp(entries, s + 1) = UsedUp(entries, s)
    BY <1>1, <1>5 DEF UsedUp
  <2> QED
    BY <1>2, <1>5, <2>1
<1> QED
  BY <1>4, <1>5

\* A rejected attempt is the next one at its expansion, and is logged as such or not at all.
LEMMA RejectTallies ==
    ASSUME TypeOK, TriesInv, NEW answer \in Answers, Reject(answer)
    PROVE  TriesInv'
<1> PICK written \in {TRUE, ~Unseen} :
        /\ log' = Append(log, Rejection(written))
        /\ faulted' = (faulted \/ ~written)
  BY DEF Reject
<1> DEFINE entry == Rejection(written)
<1>1. /\ phase = "asking" /\ attempt < MaxRetries
      /\ log' = Append(log, entry) /\ attempt' = attempt + 1
      /\ UNCHANGED <<phase, slot, accepted, rejected>>
      /\ (~faulted' => ~faulted /\ written) /\ entry.written = written
  BY DEF Reject, Trying, Asking, Rejection
<1>2. /\ log \in Seq(Logged) /\ rejected \in Nat
      /\ \A k \in DOMAIN log : log[k].slot <= slot
      /\ accepted + rejected = slot
      /\ Cardinality(TriesAt(log, DOMAIN log, slot)) = attempt
      /\ rejected = Cardinality(UsedUp(log, slot))
      /\ \A k \in DOMAIN log :
            log[k].attempt = Cardinality(TriesAt(log, 1..(k - 1), log[k].slot))
      /\ ~faulted => \A k \in DOMAIN log : log[k].written
  BY <1>1 DEF TriesInv
<1>3. /\ entry \in Logged /\ entry.slot = slot /\ entry.attempt = attempt
      /\ slot \in Nat /\ attempt \in Nat /\ MaxRetries \in Nat
  <2>1. MaxRetries \in Nat /\ ExpansionsPerSeed \in Nat /\ Len(SeedList) \in Nat
    BY TeacherAssumption, LenProperties
  <2>2. Total \in Nat
    BY <2>1 DEF Total
  <2>3. written \in BOOLEAN
    BY TeacherAssumption
  <2>4. slot \in Nat /\ attempt \in Nat
    BY <2>1, <2>2 DEF TypeOK
  <2> QED
    BY <2>1, <2>3, <2>4 DEF entry, Rejection, Logged
<1> HIDE DEF entry
<1> DEFINE m == Len(log)
<1>4. /\ m \in Nat /\ DOMAIN log = 1..m /\ DOMAIN log' = 1..(m + 1) /\ log' \in Seq(Logged)
      /\ \A k \in 1..m : log'[k] = log[k]
      /\ log'[m + 1] = entry
  BY <1>1, <1>2, <1>3, LenProperties, AppendProperties
<1>5. /\ \A n : n # slot =>
            TriesAt(log', DOMAIN log', n) = TriesAt(log, DOMAIN log, n)
      /\ Cardinality(TriesAt(log', DOMAIN log', slot)) = attempt + 1
      /\ \A n : \A k \in 1..(m + 1) : TriesAt(log', 1..(k - 1), n) = TriesAt(log, 1..(k - 1), n)
  BY <1>1, <1>2, <1>3, OneMoreTry
<1> HIDE DEF m
<1>6. UsedUp(log', slot) = UsedUp(log, slot)
  <2>1. \A n \in 0..(slot - 1) : n # slot
    BY <1>3
  <2> QED
    BY <1>5, <2>1 DEF UsedUp
<1>7. ASSUME NEW k \in 1..(m + 1)
      PROVE  /\ log'[k].slot <= slot
             /\ log'[k].attempt = Cardinality(TriesAt(log', 1..(k - 1), log'[k].slot))
  <2>1. CASE k \in 1..m
    BY <1>2, <1>4, <1>5, <2>1
  <2>2. CASE k = m + 1
    <3>1. k - 1 = m /\ log'[k] = entry
      BY <1>4, <2>2
    <3>2. TriesAt(log', 1..(k - 1), slot) = TriesAt(log, DOMAIN log, slot)
      BY <1>4, <1>5, <2>2, <3>1
    <3> QED
      BY <1>2, <1>3, <3>1, <3>2
  <2> QED
    BY <1>4, <2>1, <2>2
<1>8. ASSUME ~faulted', NEW k \in 1..(m + 1)
      PROVE  log'[k].written
  <2>1. k \in 1..m \/ k = m + 1
    BY <1>4
  <2> QED
    BY <1>1, <1>2, <1>4, <1>8, <2>1
<1> QED
  BY <1>1, <1>2, <1>4, <1>5, <1>6, <1>7, <1>8 DEF TriesInv

\* The next expansion has no attempts yet; the one before it counts as rejected exactly
\* when its attempts are used up.
LEMMA NextExpansionTallies ==
    ASSUME TypeOK, TriesInv, phase = "asking", UNCHANGED <<phase, log>>,
           slot' = slot + 1, attempt' = 0, faulted => faulted',
           \/ attempt = MaxRetries /\ rejected' = rejected + 1 /\ accepted' = accepted
           \/ attempt # MaxRetries /\ rejected' = rejected /\ accepted' = accepted + 1
    PROVE  TriesInv'
<1>1. /\ log \in Seq(Logged) /\ rejected \in Nat
      /\ \A k \in DOMAIN log : log[k].slot <= slot
      /\ accepted + rejected = slot
      /\ Cardinality(TriesAt(log, DOMAIN log, slot)) = attempt
      /\ rejected = Cardinality(UsedUp(log, slot))
      /\ \A k \in DOMAIN log :
            log[k].attempt = Cardinality(TriesAt(log, 1..(k - 1), log[k].slot))
      /\ ~faulted => \A k \in DOMAIN log : log[k].written
  BY DEF TriesInv
<1>2. slot \in Nat /\ accepted \in Nat
  <2>1. ExpansionsPerSeed \in Nat /\ Len(SeedList) \in Nat
    BY TeacherAssumption, LenProperties
  <2>2. Total \in Nat
    BY <2>1 DEF Total
  <2> QED
    BY <2>2 DEF TypeOK
<1>3. \A k \in DOMAIN log : log[k].slot \in Nat
  <2>1. \A k \in DOMAIN log : log[k] \in Logged
    BY <1>1, LenProperties, ElementOfSeq
  <2> QED
    BY <2>1 DEF Logged
<1>4. \A k \in DOMAIN log : log[k].slot <= slot + 1 /\ log[k].slot # slot + 1
  BY <1>1, <1>2, <1>3
<1>5. Cardinality(TriesAt(log, DOMAIN log, slot + 1)) = 0
  <2>1. TriesAt(log, DOMAIN log, slot + 1) = {}
    BY <1>4 DEF TriesAt
  <2> QED
    BY <2>1, FS_EmptySet
<1>6. Cardinality(UsedUp(log, slot + 1)) = rejected + IF attempt = MaxRetries THEN 1 ELSE 0
  <2>1. Cardinality(UsedUp(log, slot + 1))
            = Cardinality(UsedUp(log, slot))
              + IF Cardinality(TriesAt(log, DOMAIN log, slot)) = MaxRetries THEN 1 ELSE 0
    BY <1>1, <1>2, UsedUpGrows
  <2> QED
    BY <1>1, <2>1
<1>7. /\ rejected' = Cardinality(UsedUp(log, slot + 1)) /\ rejected' \in Nat
      /\ accepted' + rejected' = slot + 1
  BY <1>1, <1>2, <1>6
<1> QED
  BY <1>1, <1>4, <1>5, <1>7 DEF TriesInv

LEMMA TriesStep ==
    ASSUME TypeOK, TriesInv, [Next]_vars
    PROVE  TriesInv'
<1>1. CASE GiveUp
  BY <1>1, NextExpansionTallies DEF GiveUp, Asking
<1>2. CASE Ask
  <2>1. PICK answer \in Answers :
            Reject(answer) \/ Accept(answer) \/ AcceptUnflushed(answer) \/ AcceptFails(answer)
    BY <1>2 DEF Ask
  <2>2. CASE Reject(answer)
    BY <2>2, RejectTallies
  <2>3. CASE Accept(answer) \/ AcceptUnflushed(answer)
    <3>1. /\ phase = "asking" /\ attempt < MaxRetries /\ UNCHANGED <<phase, log, rejected>>
          /\ slot' = slot + 1 /\ attempt' = 0 /\ accepted' = accepted + 1
          /\ faulted => faulted'
      BY <2>3 DEF Accept, AcceptUnflushed, Admissible, Trying, Asking, Admit, TypeOK
    <3>2. attempt # MaxRetries
      <4>1. attempt \in Nat /\ MaxRetries \in Nat
        BY TeacherAssumption DEF TypeOK
      <4> QED
        BY <3>1, <4>1
    <3> QED
      BY <3>1, <3>2, NextExpansionTallies
  <2>4. CASE AcceptFails(answer)
    BY <2>4 DEF AcceptFails, TriesInv
  <2> QED
    BY <2>1, <2>2, <2>3, <2>4
<1>3. CASE StartRun \/ StartFails \/ RequestFails \/ LoopDone \/ ReadBack \/ ReadBackShort
           \/ WriteTrain \/ WriteDev \/ WriteTest \/ WriteFails \/ CloseFails \/ Remove
           \/ Crash \/ UNCHANGED vars
  <2>1. /\ UNCHANGED <<loop, log>> /\ (faulted => faulted')
        /\ phase' \in {"idle", "asking"} => phase \in {"idle", phase'}
    BY <1>3 DEF StartRun, StartFails, RequestFails, LoopDone, ReadBack, ReadBackShort,
                WriteTrain, WriteDev, WriteTest, WriteFails, CloseFails, Remove, Crash, vars
  <2>2. phase' \in {"idle", "asking"} => phase' = phase \/ phase = "idle"
    BY <2>1
  <2>3. phase' = "idle" => phase = "idle"
    BY <2>1
  <2> QED
    BY <2>1, <2>2, <2>3 DEF TriesInv, loop
<1> QED
  BY <1>1, <1>2, <1>3 DEF Next, Proceed

\* While the loop asks, every expansion so far was accepted or rejected, one is rejected
\* after max_retries attempts and never before, and each attempt is logged under its own
\* number (cli.c:5062-5205).
THEOREM ExpansionsAddUp == Spec => []EveryExpansionAccounted
<1>1. Init => TriesInv
  <2> SUFFICES ASSUME Init
               PROVE  TriesInv
    OBVIOUS
  <2>1. log = << >> /\ slot = 0 /\ attempt = 0 /\ accepted = 0 /\ rejected = 0
    BY DEF Init
  <2>2. log \in Seq(Logged) /\ DOMAIN log = {}
    BY <2>1, EmptySeq
  <2>3. TriesAt(log, DOMAIN log, slot) = {} /\ UsedUp(log, slot) = {}
    BY <2>1, <2>2 DEF TriesAt, UsedUp
  <2>4. Cardinality(TriesAt(log, DOMAIN log, slot)) = 0 /\ Cardinality(UsedUp(log, slot)) = 0
    BY <2>3, FS_EmptySet
  <2> QED
    BY <2>1, <2>2, <2>4 DEF TriesInv
<1>2. Inv /\ TriesInv /\ [Next]_vars => TriesInv'
  BY TriesStep DEF Inv
<1>3. TriesInv => EveryExpansionAccounted
  BY DEF TriesInv, EveryExpansionAccounted, TriesAt, UsedUp
<1> QED
  BY <1>1, <1>2, <1>3, InvHolds, PTL DEF Spec
=============================================================================
