---------------------------- MODULE ExpandProofs ----------------------------
(***************************************************************************)
(* expand_seeds keeps its types and never admits one trajectory_id twice,  *)
(* for any seeds, any replies of the teacher, any number of workers, of    *)
(* retries and of resumed runs, and whatever a crash leaves of a line.     *)
(*                                                                         *)
(* The renaming of a repeated id is the heart of it: the loop that looks   *)
(* for a free suffix ends, because seen_ids is finite (FreshSuffixIsFree), *)
(* and the id it finds is free in the partial file too, because seen_ids   *)
(* holds all its ids while the pool runs (the last part of Inv).           *)
(*                                                                         *)
(* The sections below add what the two reports of a run say of its files   *)
(* (LossStaysBounded, RejectionsAreTallied); that the splits of a finished *)
(* run share no id and no seed gets more rows than its expansions, torn    *)
(* lines or not; that the expansions add up; and that the program          *)
(* implements the write-ahead log of Ledger, if no crash cuts a line in    *)
(* the middle: the row appended to a cut line is lost with it.             *)
(***************************************************************************)
EXTENDS Expand, FileProofs

Inv ==
    /\ TypeOK
    /\ IsFiniteSet(seen)
    /\ IdsOf(accepted) \subseteq seen
    /\ UniqueIds
    /\ Pooling => IdsOf(partial.rows) \subseteq seen

-----------------------------------------------------------------------------
\* The search for a suffix ends, after at most one try for each id seen, and the
\* renamed id is one nobody has (expand.py:393-399).
LEMMA FreshSuffixIsFree ==
    ASSUME TypeOK, IsFiniteSet(seen), NEW id \in Ids
    PROVE  /\ FreshSuffix(id) \in Nat
           /\ Append(id, FreshSuffix(id)) \notin seen
<1> DEFINE tries == Len(accepted)..(Len(accepted) + Cardinality(seen))
<1>1. Len(accepted) \in Nat
  <2>1. accepted \in Seq(Row)
    BY DEF TypeOK
  <2> QED
    BY <2>1, LenProperties
<1>2. Cardinality(seen) \in Nat
  BY FS_CardinalityType
<1>3. \E u \in tries : /\ Append(id, u) \notin seen
                       /\ \A t \in Len(accepted)..(u - 1) : Append(id, t) \in seen
  BY <1>1, FreeSuffixExists DEF Ids
<1>4. FreshSuffix(id) \in tries /\ Append(id, FreshSuffix(id)) \notin seen
  BY <1>3 DEF FreshSuffix
<1> QED
  BY <1>1, <1>2, <1>4

\* The row of an accepted reply is a row, under an id that was not seen before.
LEMMA AdmittedRowIsNew ==
    ASSUME TypeOK, IsFiniteSet(seen), NEW f \in Slots, reply[f] # NoReply
    PROVE  /\ AdmittedRow(f) \in Row
           /\ AdmittedRow(f).id = AdmittedId(f)
           /\ AdmittedId(f) \in Ids
           /\ AdmittedId(f) \notin seen
<1>1. SeedOf(f) \in Bases
  <2>1. f[1] \in 1..Len(SeedList)
    BY DEF Slots, SeedCount
  <2> QED
    BY <2>1, ExpandAssumption, ElementOfSeq DEF SeedOf
<1>2. OriginalId(f) \in Ids
  <2>1. reply[f] \in Ids \union {NoId}
    BY ExpandAssumption DEF TypeOK
  <2>2. <<Unknown>> \in Ids
    BY ExpandAssumption DEF Ids
  <2> QED
    BY <2>1, <2>2 DEF OriginalId
<1>3. /\ Append(OriginalId(f), FreshSuffix(OriginalId(f))) \in Ids
      /\ Append(OriginalId(f), FreshSuffix(OriginalId(f))) \notin seen
  BY <1>2, FreshSuffixIsFree, AppendProperties DEF Ids
<1>4. AdmittedId(f) \in Ids /\ AdmittedId(f) \notin seen
  BY <1>2, <1>3 DEF AdmittedId
<1> QED
  BY <1>1, <1>4 DEF AdmittedRow, Row

-----------------------------------------------------------------------------
\* The header of a run and the rejections of a future are entries of rejections.jsonl.
LEMMA EntriesType ==
    ASSUME TypeOK
    PROVE  /\ run + 1 \in Nat
           /\ [run |-> run + 1, reason |-> "_run_start", seed |-> NoId, attempt |-> 0] \in Entry
           /\ \A f \in Slots : LogEntries(f) \in Seq(Entry)
<1>1. run \in Nat /\ run + 1 \in Nat
  BY DEF TypeOK
<1>2. ASSUME NEW f \in Slots
      PROVE  LogEntries(f) \in Seq(Entry)
  <2>1. rejs[f] \in Seq(Reasons)
    BY DEF TypeOK
  <2>2. DOMAIN rejs[f] = 1..Len(rejs[f]) /\ Len(rejs[f]) \in Nat
    BY <2>1, LenProperties
  <2>3. \A a \in 1..Len(rejs[f]) : rejs[f][a] \in Reasons
    BY <2>1, ElementOfSeq
  <2>4. f[1] \in 1..Len(SeedList)
    BY DEF Slots, SeedCount
  <2>5. SeedOf(f) \in Bases
    BY <2>4, ExpandAssumption, ElementOfSeq DEF SeedOf
  <2>6. \A a \in 1..Len(rejs[f]) : 
            [run |-> run, reason |-> rejs[f][a], seed |-> SeedOf(f), attempt |-> a - 1] \in Entry
    BY <1>1, <2>2, <2>3, <2>5 DEF Entry
  <2> QED
    BY <2>2, <2>6 DEF LogEntries
<1> QED
  BY <1>1, <1>2 DEF Entry

\* The seeds are rows.
LEMMA TestRowsType == TestRows \in Seq(Row)
<1>1. Len(SeedList) \in Nat
  BY ExpandAssumption, LenProperties
<1>2. \A k \in 1..Len(SeedList) : SeedList[k] \in Bases
  BY ExpandAssumption, ElementOfSeq
<1>3. \A k \in 1..Len(SeedList) :
            [id |-> IdOfSeed(SeedList[k]), seed |-> SeedList[k]] \in Row
  BY <1>2 DEF Row, Ids, IdOfSeed
<1> QED
  BY <1>1, <1>3 DEF TestRows, SeedCount

\* The parts of the accepted rows are sequences of rows, and so are the beginnings a
\* crash leaves of a split.
LEMMA SplitsType ==
    ASSUME accepted \in Seq(Row)
    PROVE  /\ TrainPart(accepted) \in Seq(Row)
           /\ DevPart(accepted) \in Seq(Row)
           /\ Prefixes(TrainPart(accepted)) \subseteq Seq(Row)
           /\ Prefixes(DevPart(accepted)) \subseteq Seq(Row)
           /\ Prefixes(TestRows) \subseteq Seq(Row)
<1> DEFINE n == Len(accepted)
<1>1. n \in Nat
  BY LenProperties
<1>2. NTrain(n) \in Nat /\ NDev(n) \in Nat /\ NTrain(n) + NDev(n) <= n
  BY <1>1, PartsFit
<1>3. \A i \in 1..n : accepted[i] \in Row
  BY ElementOfSeq
<1>4. TrainPart(accepted) \in Seq(Row)
  BY <1>1, <1>2, BeginningIsSeq DEF TrainPart
<1>5. DevPart(accepted) \in Seq(Row)
  <2>1. \A i \in (NTrain(n) + 1)..(NTrain(n) + NDev(n)) : accepted[i] \in Row
    BY <1>1, <1>2, <1>3
  <2>2. NTrain(n) + 1 \in Int /\ NTrain(n) + NDev(n) \in Int
    BY <1>2
  <2> QED
    BY <2>1, <2>2, SubSeqProperties DEF DevPart
<1>6. \A rows \in Seq(Row) : Prefixes(rows) \subseteq Seq(Row)
  BY BeginningIsSeq DEF Prefixes
<1> QED
  BY <1>4, <1>5, <1>6, TestRowsType

-----------------------------------------------------------------------------
LEMMA InitInv == Init => Inv
<1> SUFFICES ASSUME Init
             PROVE  Inv
  OBVIOUS
<1>1. EmptyFile \in FilesOf(Row) /\ EmptyFile \in FilesOf(Entry)
  BY EmptyFileType
<1>2. TypeOK
  BY <1>1 DEF Init, TypeOK, Phases, Statuses
<1>3. IdsOf(<< >>) = {} /\ DistinctIds(<< >>)
  BY DEF IdsOf, DistinctIds
<1>4. IsFiniteSet({})
  BY FS_EmptySet
<1> QED
  BY <1>2, <1>3, <1>4 DEF Init, Inv, UniqueIds, EmptyFile, Pooling

\* The start of a run reads what the last one left: the ids it has seen are those of
\* the rows it can read.
LEMMA StartInv ==
    ASSUME Inv, NEW resume \in BOOLEAN, Start(resume)
    PROVE  Inv'
<1>1. partial \in FilesOf(Row) /\ DistinctIds(partial.rows)
  BY DEF Inv, TypeOK, UniqueIds
<1>2. partial' \in FilesOf(Row)
  BY <1>1, EmptyFileType DEF Start
<1>3. DistinctIds(partial'.rows)
  BY <1>1 DEF Start, EmptyFile, DistinctIds
<1>4. accepted' = partial'.rows /\ seen' = IdsOf(accepted')
  BY DEF Start
<1>5. accepted' \in Seq(Row)
  BY <1>2, <1>4 DEF FilesOf
<1>6. IsFiniteSet(seen')
  BY <1>4, <1>5, IdsOfIsFinite
<1>7. seen' \subseteq Ids
  <2>1. \A i \in DOMAIN accepted' : accepted'[i] \in Row
    BY <1>5, ElementOfSeq, LenProperties
  <2> QED
    BY <1>4, <2>1 DEF IdsOf, Row
<1>8. rejBuf' \in Seq(Entry) /\ run' \in Nat
  BY EntriesType DEF Inv, Start, Header
<1>9. TypeOK'
  BY <1>2, <1>5, <1>7, <1>8 DEF Inv, TypeOK, Start, splits, Phases, Statuses
<1> QED
  BY <1>3, <1>4, <1>6, <1>9 DEF Inv, UniqueIds

\* A worker touches nothing but its own future.
LEMMA WorkerInv ==
    ASSUME Inv, NEW f \in Slots, Worker(f)
    PROVE  Inv'
<1>1. TypeOK
  BY DEF Inv
<1>2. CASE Begin(f)
  BY <1>1, <1>2 DEF Inv, TypeOK, UniqueIds, Begin, Pooling, Statuses, splits, memory
<1>3. CASE \E reason \in Reasons : AttemptRejected(f, reason)
  <2>1. PICK reason \in Reasons : AttemptRejected(f, reason)
    BY <1>3
  <2>2. Append(rejs[f], reason) \in Seq(Reasons)
    BY <1>1, AppendProperties DEF TypeOK
  <2>3. TypeOK'
    BY <1>1, <2>1, <2>2 DEF TypeOK, AttemptRejected, Statuses, splits, memory
  <2> QED
    BY <2>1, <2>3 DEF Inv, UniqueIds, AttemptRejected, Pooling, memory
<1>4. CASE \E id \in Replies : AttemptVerified(f, id)
  <2>1. PICK id \in Replies : AttemptVerified(f, id)
    BY <1>4
  <2>2. TypeOK'
    BY <1>1, <2>1 DEF TypeOK, AttemptVerified, Statuses, splits, memory
  <2> QED
    BY <2>1, <2>2 DEF Inv, UniqueIds, AttemptVerified, Pooling, memory
<1> QED
  BY <1>2, <1>3, <1>4 DEF Worker

\* The main thread takes a finished future; when it admits a row, the row's id is new
\* to memory and to the partial file.
LEMMA CollectInv ==
    ASSUME Inv, NEW f \in Slots, Collect(f)
    PROVE  Inv'
<1>1. TypeOK /\ IsFiniteSet(seen)
  BY DEF Inv
<1>2. rejBuf \o LogEntries(f) \in Seq(Entry)
  <2>1. rejBuf \in Seq(Entry) /\ LogEntries(f) \in Seq(Entry)
    BY <1>1, EntriesType DEF TypeOK
  <2> QED
    BY <2>1, ConcatProperties
<1>3. CASE CollectRejected(f)
  <2>1. TypeOK'
    BY <1>1, <1>2, <1>3 DEF TypeOK, CollectRejected, Statuses, splits
  <2> QED
    BY <1>3, <2>1 DEF Inv, UniqueIds, CollectRejected, Pooling
<1>4. CASE CollectRaises(f)
  <2>1. TypeOK'
    BY <1>1, <1>2, <1>4 DEF TypeOK, CollectRaises, Statuses, Phases, splits
  <2> QED
    BY <1>4, <2>1 DEF Inv, UniqueIds, CollectRaises, Collecting, Pooling
<1>5. CASE CollectAccepted(f)
  <2> DEFINE row == AdmittedRow(f)
  <2>1. reply[f] # NoReply /\ phase = "running" /\ phase' = "running"
    BY <1>5 DEF CollectAccepted, Collecting
  <2>2. /\ row \in Row /\ row.id = AdmittedId(f)
        /\ AdmittedId(f) \in Ids /\ AdmittedId(f) \notin seen
    BY <1>1, <2>1, AdmittedRowIsNew
  <2>3. /\ accepted' = Append(accepted, row)
        /\ seen' = seen \union {row.id}
        /\ partial' = AppendLines(partial, <<row>>)
    BY <1>5, <2>2 DEF CollectAccepted
  <2>4. /\ accepted \in Seq(Row) /\ partial \in FilesOf(Row) /\ partial.rows \in Seq(Row)
        /\ IdsOf(accepted) \subseteq seen /\ IdsOf(partial.rows) \subseteq seen
        /\ DistinctIds(accepted) /\ DistinctIds(partial.rows)
    BY <1>1, <2>1 DEF Inv, TypeOK, UniqueIds, Pooling, FilesOf
  <2> HIDE DEF row
  <2>5. accepted' \in Seq(Row)
    BY <2>2, <2>3, <2>4, AppendProperties
  <2>6. partial' \in FilesOf(Row)
    <3>1. <<row>> \in Seq(Row)
      BY <2>2
    <3> QED
      BY <2>3, <2>4, <3>1, AppendLinesType
  <2>7. seen' \subseteq Ids
    BY <1>1, <2>2, <2>3 DEF TypeOK
  <2>8. IsFiniteSet(seen')
    BY <1>1, <2>3, FS_AddElement
  <2>9. IdsOf(accepted') \subseteq seen' /\ DistinctIds(accepted')
    BY <2>2, <2>3, <2>4, AppendIsDistinct
  <2>10. IdsOf(partial'.rows) \subseteq seen' /\ DistinctIds(partial'.rows)
    <3>1. CASE partial'.rows = Append(partial.rows, row)
      <4>1. /\ IdsOf(Append(partial.rows, row)) = IdsOf(partial.rows) \union {row.id}
            /\ DistinctIds(Append(partial.rows, row))
        BY <2>2, <2>4, AppendIsDistinct
      <4> QED
        BY <2>3, <2>4, <3>1, <4>1
    <3>2. CASE \E n \in 0..Len(partial.rows) : partial'.rows = SubSeq(partial.rows, 1, n)
      BY <2>3, <2>4, <3>2, BeginningIsDistinct
    <3> QED
      BY <2>2, <2>3, <2>4, <3>1, <3>2, AppendOneLine
  <2>11. TypeOK'
    BY <1>1, <1>2, <1>5, <2>5, <2>6, <2>7 DEF TypeOK, CollectAccepted, Statuses, splits
  <2> QED
    BY <2>8, <2>9, <2>10, <2>11 DEF Inv, UniqueIds
<1> QED
  BY <1>3, <1>4, <1>5 DEF Collect

\* The end of a run: the accepted rows are shuffled, written and unlinked.
LEMMA FinishInv ==
    ASSUME Inv, Finish
    PROVE  Inv'
<1>1. TypeOK /\ accepted \in Seq(Row)
  BY DEF Inv, TypeOK
<1>2. ASSUME CloseRejLog
      PROVE  rejLog' \in FilesOf(Entry) /\ rejBuf' \in Seq(Entry)
  <2>1. AppendLines(rejLog, rejBuf) \in FilesOf(Entry)
    BY <1>1, AppendLinesType DEF TypeOK
  <2> QED
    BY <1>2, <2>1, EmptySeq DEF CloseRejLog
<1>3. CASE PoolDone
  <2>1. accepted' \in Shuffles(accepted) /\ CloseRejLog
    BY <1>3 DEF PoolDone
  <2>2. /\ accepted' \in Seq(Row) /\ IdsOf(accepted') \subseteq IdsOf(accepted)
        /\ DistinctIds(accepted) => DistinctIds(accepted')
    BY <1>1, <2>1, ShuffleKeepsRows
  <2>3. TypeOK'
    BY <1>1, <1>2, <1>3, <2>1, <2>2 DEF TypeOK, PoolDone, Phases, splits, pool
  <2> QED
    BY <1>3, <2>2, <2>3 DEF Inv, UniqueIds, PoolDone, Pooling
<1>4. CASE PoolFailed
  <2>1. TypeOK'
    BY <1>1, <1>2, <1>4 DEF TypeOK, PoolFailed, Phases, splits, pool
  <2> QED
    BY <1>4, <2>1 DEF Inv, UniqueIds, PoolFailed, Pooling
<1>5. CASE WriteTrain \/ WriteDev \/ WriteTest
  <2>1. TypeOK'
    BY <1>1, <1>5, SplitsType, TestRowsType
    DEF TypeOK, WriteTrain, WriteDev, WriteTest, Phases, memory, pool
  <2> QED
    BY <1>5, <2>1 DEF Inv, UniqueIds, WriteTrain, WriteDev, WriteTest, Pooling, memory
<1>6. CASE UnlinkPartial
  <2>1. TypeOK'
    BY <1>1, <1>6, EmptyFileType DEF TypeOK, UnlinkPartial, Phases, splits, memory, pool
  <2>2. DistinctIds(EmptyFile.rows)
    BY DEF DistinctIds, EmptyFile
  <2> QED
    BY <1>6, <2>1, <2>2 DEF Inv, UniqueIds, UnlinkPartial, Pooling, memory
<1> QED
  BY <1>3, <1>4, <1>5, <1>6 DEF Finish

\* A crash cuts the files, but what can still be read is rows, and none twice.
LEMMA CrashInv ==
    ASSUME Inv, Crashes
    PROVE  Inv'
<1>1. TypeOK /\ IsFiniteSet(seen)
  BY DEF Inv
<1>2. ASSUME LoseRejections
      PROVE  rejLog' \in FilesOf(Entry) /\ rejBuf' \in Seq(Entry)
  <2>1. rejLog \in FilesOf(Entry) /\ rejBuf \in Seq(Entry)
    BY <1>1 DEF TypeOK
  <2> QED
    BY <1>2, <2>1, CutAppendsType, EmptySeq DEF LoseRejections
<1>3. CASE Crash
  <2>1. TypeOK'
    BY <1>1, <1>2, <1>3 DEF TypeOK, Crash, Phases, splits, pool
  <2> QED
    BY <1>3, <2>1 DEF Inv, UniqueIds, Crash, Pooling
<1>4. CASE \E f \in Slots : CrashInAppend(f)
  <2>1. PICK f \in Slots : CrashInAppend(f)
    BY <1>4
  <2> DEFINE row == AdmittedRow(f)
  <2>2. /\ reply[f] # NoReply /\ phase = "running" /\ phase' = "dead"
        /\ partial' \in CutAppends(partial, <<row>>, TornWrites)
    BY <2>1 DEF CrashInAppend, Collecting
  <2>3. row \in Row /\ row.id \notin seen
    BY <1>1, <2>2, AdmittedRowIsNew
  <2>4. /\ partial \in FilesOf(Row) /\ partial.rows \in Seq(Row)
        /\ IdsOf(partial.rows) \subseteq seen /\ DistinctIds(partial.rows)
    BY <1>1, <2>2 DEF Inv, TypeOK, UniqueIds, Pooling, FilesOf
  <2> HIDE DEF row
  <2>5. partial' \in FilesOf(Row)
    <3>1. <<row>> \in Seq(Row)
      BY <2>3
    <3> QED
      BY <2>2, <2>4, <3>1, CutAppendsType
  <2>6. DistinctIds(partial'.rows)
    <3>1. CASE partial'.rows = Append(partial.rows, row)
      BY <2>3, <2>4, <3>1, AppendIsDistinct
    <3>2. CASE \E n \in 0..Len(partial.rows) : partial'.rows = SubSeq(partial.rows, 1, n)
      BY <2>4, <3>2, BeginningIsDistinct
    <3> QED
      BY <2>2, <2>3, <2>4, <3>1, <3>2, CutAppendOfOneLine
  <2>7. TypeOK'
    BY <1>1, <1>2, <2>1, <2>5 DEF TypeOK, CrashInAppend, Phases, splits, pool
  <2> QED
    BY <2>1, <2>6, <2>7 DEF Inv, UniqueIds, CrashInAppend, Pooling
<1>5. CASE CrashInSplit
  <2>1. TypeOK'
    BY <1>1, <1>5, SplitsType DEF TypeOK, CrashInSplit, Phases, memory, pool
  <2> QED
    BY <1>5, <2>1 DEF Inv, UniqueIds, CrashInSplit, Pooling, memory
<1> QED
  BY <1>3, <1>4, <1>5 DEF Crashes

LEMMA StepInv == Inv /\ [Next]_vars => Inv'
<1> SUFFICES ASSUME Inv, [Next]_vars
             PROVE  Inv'
  OBVIOUS
<1>1. CASE \E resume \in BOOLEAN : Start(resume)
  BY <1>1, StartInv
<1>2. CASE \E f \in Slots : Worker(f) \/ Collect(f)
  BY <1>2, WorkerInv, CollectInv
<1>3. CASE Finish
  BY <1>3, FinishInv
<1>4. CASE Crashes
  BY <1>4, CrashInv
<1>5. CASE UNCHANGED vars
  BY <1>5 DEF vars, splits, memory, pool, Inv, TypeOK, UniqueIds, Pooling
<1> QED
  BY <1>1, <1>2, <1>3, <1>4, <1>5 DEF Next

\* The invariant holds in every state of every run.
THEOREM InvHolds == Spec => []Inv
BY InitInv, StepInv, PTL DEF Spec

\* Every variable keeps its type: in particular the search for a suffix always finds
\* one, and every id that is admitted is an id.
THEOREM TypeCorrect == Spec => []TypeOK
<1>1. Inv => TypeOK
  BY DEF Inv
<1> QED
  BY <1>1, InvHolds, PTL

\* No two accepted rows share a trajectory_id, in memory or in the partial file,
\* however often the command is killed and resumed (expand.py:390-401).
THEOREM IdsStayUnique == Spec => []UniqueIds
<1>1. Inv => UniqueIds
  BY DEF Inv
<1> QED
  BY <1>1, InvHolds, PTL

-----------------------------------------------------------------------------
(* What a torn line costs.  Only the first append of a run can meet the end *)
(* of a line that an earlier run left unfinished; from then on the file     *)
(* ends with a newline and grows as accepted does.                          *)

\* rows without the lost rows that follow the first n.
Without(rows, n, lost) == SubSeq(rows, 1, n) \o SubSeq(rows, n + lost + 1, Len(rows))

LossInv ==
    phase = "running" =>
        \/ partial.rows = accepted
        \/ /\ partial.tail = "clean"
           /\ \E lost \in {1, 2}, n \in 0..Len(accepted) :
                /\ n + lost <= Len(accepted)
                /\ partial.rows = Without(accepted, n, lost)

\* The end of a sequence, row by row.
LEMMA EndIsSeq ==
    ASSUME NEW S, NEW rows \in Seq(S), NEW a \in 1..(Len(rows) + 1)
    PROVE  /\ SubSeq(rows, a, Len(rows)) \in Seq(S)
           /\ Len(SubSeq(rows, a, Len(rows))) = Len(rows) + 1 - a
           /\ \A i \in 1..(Len(rows) + 1 - a) : SubSeq(rows, a, Len(rows))[i] = rows[a + i - 1]
<1>1. Len(rows) \in Nat /\ a \in Int /\ Len(rows) \in Int /\ a >= 1
  BY LenProperties
<1>2. \A i \in a..Len(rows) : rows[i] \in S
  BY <1>1, ElementOfSeq
<1>3. /\ SubSeq(rows, a, Len(rows)) \in Seq(S)
      /\ Len(SubSeq(rows, a, Len(rows))) = IF a <= Len(rows) THEN Len(rows) - a + 1 ELSE 0
      /\ \A i \in 1..(Len(rows) - a + 1) : SubSeq(rows, a, Len(rows))[i] = rows[a + i - 1]
  BY <1>1, <1>2, SubSeqProperties
<1>4. Len(rows) - a + 1 = Len(rows) + 1 - a /\ (a > Len(rows) => Len(rows) + 1 - a = 0)
  BY <1>1
<1> QED
  BY <1>1, <1>3, <1>4

\* left is rows without the lost ones after the first n, row by row.
IsRest(left, S, rows, n, lost) ==
    /\ left \in Seq(S)
    /\ Len(left) = Len(rows) - lost
    /\ \A i \in 1..(Len(rows) - lost) : left[i] = IF i <= n THEN rows[i] ELSE rows[i + lost]

\* What is left without some rows.
LEMMA WithoutProperties ==
    ASSUME NEW S, NEW rows \in Seq(S), NEW n \in Nat, NEW lost \in Nat, n + lost <= Len(rows)
    PROVE  IsRest(Without(rows, n, lost), S, rows, n, lost)
<1> DEFINE a == n + lost + 1
           beginning == SubSeq(rows, 1, n)
           end == SubSeq(rows, a, Len(rows))
<1>1. /\ Len(rows) \in Nat /\ a \in 1..(Len(rows) + 1) /\ n \in 0..Len(rows)
      /\ n + (Len(rows) + 1 - a) = Len(rows) - lost
  BY LenProperties
<1>2. beginning \in Seq(S) /\ Len(beginning) = n /\ \A i \in 1..n : beginning[i] = rows[i]
  BY <1>1, BeginningIsSeq
<1>3. /\ end \in Seq(S) /\ Len(end) = Len(rows) + 1 - a
      /\ \A i \in 1..(Len(rows) + 1 - a) : end[i] = rows[a + i - 1]
  BY <1>1, EndIsSeq
<1>4. Without(rows, n, lost) = beginning \o end
  BY DEF Without
<1> HIDE DEF beginning, end
<1>5. /\ beginning \o end \in Seq(S) /\ Len(beginning \o end) = Len(rows) - lost
      /\ \A i \in 1..(Len(rows) - lost) :
            (beginning \o end)[i] = IF i <= n THEN beginning[i] ELSE end[i - n]
  <2>1. Len(beginning) + Len(end) = Len(rows) - lost
    BY <1>1, <1>2, <1>3
  <2>2. /\ beginning \o end \in Seq(S) /\ Len(beginning \o end) = Len(beginning) + Len(end)
        /\ \A i \in 1..(Len(beginning) + Len(end)) : (beginning \o end)[i] =
                IF i <= Len(beginning) THEN beginning[i] ELSE end[i - Len(beginning)]
    <3>1. beginning \in Seq(S) /\ end \in Seq(S)
      BY <1>2, <1>3
    <3> QED
      BY <3>1, ConcatProperties
  <2> QED
    BY <1>2, <2>1, <2>2
<1>6. ASSUME NEW i \in 1..(Len(rows) - lost)
      PROVE  (beginning \o end)[i] = IF i <= n THEN rows[i] ELSE rows[i + lost]
  <2>1. CASE i <= n
    <3>1. i \in 1..n
      BY <1>1, <2>1
    <3> QED
      BY <1>2, <1>5, <2>1, <3>1
  <2>2. CASE ~(i <= n)
    <3>1. i - n \in 1..(Len(rows) + 1 - a) /\ a + (i - n) - 1 = i + lost
      BY <1>1, <2>2
    <3> QED
      BY <1>3, <1>5, <2>2, <3>1
  <2> QED
    BY <2>1, <2>2
<1> QED
  BY <1>4, <1>5, <1>6 DEF IsRest

\* Growing both keeps what is missing.
LEMMA WithoutAppend ==
    ASSUME NEW S, NEW rows \in Seq(S), NEW row \in S,
           NEW n \in Nat, NEW lost \in Nat, n + lost <= Len(rows)
    PROVE  Append(Without(rows, n, lost), row) = Without(Append(rows, row), n, lost)
<1> DEFINE L == Len(rows)
           old == Without(rows, n, lost)
           new == Without(Append(rows, row), n, lost)
<1>1. /\ L \in Nat /\ Append(rows, row) \in Seq(S) /\ Len(Append(rows, row)) = L + 1
      /\ \A i \in 1..L : Append(rows, row)[i] = rows[i]
      /\ Append(rows, row)[L + 1] = row
  BY LenProperties, AppendProperties
<1>2. /\ old \in Seq(S) /\ Len(old) = L - lost
      /\ \A i \in 1..(L - lost) : old[i] = IF i <= n THEN rows[i] ELSE rows[i + lost]
  <2>1. IsRest(old, S, rows, n, lost)
    BY WithoutProperties
  <2> HIDE DEF old
  <2> QED
    BY <2>1 DEF IsRest, L
<1>3. /\ new \in Seq(S) /\ Len(new) = L + 1 - lost
      /\ \A i \in 1..(L + 1 - lost) :
            new[i] = IF i <= n THEN Append(rows, row)[i] ELSE Append(rows, row)[i + lost]
  <2> DEFINE longer == Append(rows, row)
  <2>1. L \in Nat /\ longer \in Seq(S) /\ Len(longer) = L + 1 /\ n + lost <= Len(longer)
    BY <1>1
  <2>2. longer \in Seq(S) /\ n + lost <= Len(longer)
    BY <2>1
  <2> HIDE DEF longer, L
  <2>3. IsRest(Without(longer, n, lost), S, longer, n, lost)
    BY <2>2, WithoutProperties
  <2>4. IsRest(new, S, longer, n, lost)
    BY <2>3 DEF longer
  <2>5. Len(longer) - lost = L + 1 - lost
    BY <2>1
  <2> HIDE DEF new
  <2>6. /\ new \in Seq(S) /\ Len(new) = L + 1 - lost
        /\ \A i \in 1..(L + 1 - lost) : new[i] = IF i <= n THEN longer[i] ELSE longer[i + lost]
    BY <2>4, <2>5 DEF IsRest
  <2> QED
    BY <2>6 DEF longer
<1> HIDE DEF old, new, L
<1>4. /\ Append(old, row) \in Seq(S) /\ Len(Append(old, row)) = L - lost + 1
      /\ \A i \in 1..(L - lost) : Append(old, row)[i] = old[i]
      /\ Append(old, row)[L - lost + 1] = row
  BY <1>2, AppendProperties
<1>5. \A i \in 1..(L - lost + 1) : Append(old, row)[i] = new[i]
  <2> SUFFICES ASSUME NEW i \in 1..(L - lost + 1)
               PROVE  Append(old, row)[i] = new[i]
    OBVIOUS
  <2>1. L - lost >= n /\ L + 1 - lost = L - lost + 1
    BY <1>1 DEF L
  <2>2. CASE i <= n
    BY <1>1, <1>2, <1>3, <1>4, <2>1, <2>2
  <2>3. CASE i > n /\ i <= L - lost
    BY <1>1, <1>2, <1>3, <1>4, <2>1, <2>3
  <2>4. CASE i = L - lost + 1
    <3>1. i + lost = L + 1 /\ ~(i <= n) /\ i \in 1..(L + 1 - lost)
      BY <1>1, <2>1, <2>4
    <3>2. new[i] = Append(rows, row)[L + 1]
      BY <1>3, <3>1
    <3>3. Append(rows, row)[L + 1] = row /\ Append(old, row)[L - lost + 1] = row
      BY <1>1, <1>4
    <3> QED
      BY <2>4, <3>2, <3>3
  <2>5. i <= n \/ (i > n /\ i <= L - lost) \/ i = L - lost + 1
    <3>1. L \in Nat
      BY <1>1
    <3> QED
      BY <3>1
  <2> QED
    BY <2>2, <2>3, <2>4, <2>5
<1>6. Len(Append(old, row)) = Len(new)
  BY <1>1, <1>3, <1>4
<1>7. Append(old, row) = new
  BY <1>1, <1>3, <1>4, <1>5, <1>6, SeqEqual
<1> QED
  BY <1>7 DEF old, new

\* The end of a sequence is cut off by leaving it out.
LEMMA WithoutEnd ==
    ASSUME NEW S, NEW rows \in Seq(S), NEW n \in Nat, NEW lost \in Nat, n + lost = Len(rows)
    PROVE  Without(rows, n, lost) = SubSeq(rows, 1, n)
<1>1. Len(rows) \in Nat /\ n \in 0..Len(rows)
  BY LenProperties
<1>2. SubSeq(rows, n + lost + 1, Len(rows)) = << >>
  BY <1>1, SubSeqEmpty
<1>3. SubSeq(rows, 1, n) \in Seq(S)
  BY <1>1, BeginningIsSeq
<1> QED
  BY <1>2, <1>3, ConcatEmptySeq DEF Without

\* A beginning of the rows is a beginning of the rows with one more.
LEMMA BeginningOfAppend ==
    ASSUME NEW S, NEW rows \in Seq(S), NEW row \in S, NEW n \in 0..Len(rows)
    PROVE  SubSeq(Append(rows, row), 1, n) = SubSeq(rows, 1, n)
<1>1. /\ Len(rows) \in Nat /\ Append(rows, row) \in Seq(S)
      /\ Len(Append(rows, row)) = Len(rows) + 1
      /\ \A i \in 1..Len(rows) : Append(rows, row)[i] = rows[i]
  BY LenProperties, AppendProperties
<1>2. n \in 0..Len(Append(rows, row)) /\ \A i \in 1..n : i \in 1..Len(rows)
  BY <1>1
<1>3. /\ SubSeq(rows, 1, n) \in Seq(S) /\ Len(SubSeq(rows, 1, n)) = n
      /\ \A i \in 1..n : SubSeq(rows, 1, n)[i] = rows[i]
  BY BeginningIsSeq
<1>4. /\ SubSeq(Append(rows, row), 1, n) \in Seq(S) /\ Len(SubSeq(Append(rows, row), 1, n)) = n
      /\ \A i \in 1..n : SubSeq(Append(rows, row), 1, n)[i] = Append(rows, row)[i]
  BY <1>1, <1>2, BeginningIsSeq
<1> QED
  BY <1>1, <1>2, <1>3, <1>4, SeqEqual

\* An append to a file whose rows are the accepted ones costs at most the appended row
\* and the one before it.
LEMMA FirstAppendLoss ==
    ASSUME NEW S, NEW file \in FilesOf(S), NEW row \in S
    PROVE  \/ AppendLines(file, <<row>>).rows = Append(file.rows, row)
           \/ \E lost \in {1, 2}, n \in 0..Len(file.rows) :
                /\ n + lost = Len(file.rows) + 1
                /\ AppendLines(file, <<row>>).rows = Without(Append(file.rows, row), n, lost)
<1> DEFINE rows == file.rows
           L == Len(rows)
<1>1. /\ rows \in Seq(S) /\ L \in Nat /\ Append(rows, row) \in Seq(S)
      /\ Len(Append(rows, row)) = L + 1
  BY LenProperties, AppendProperties DEF FilesOf
<1>2. CASE file.tail = "clean"
  BY <1>2, AppendOneLine
<1>3. CASE file.tail # "clean"
  <2>1. AppendLines(file, <<row>>).rows = RowsUnderGlue(file)
    <3>1. <<row>> # << >> /\ Tail(<<row>>) = << >> /\ RowsUnderGlue(file) \in Seq(S)
      BY RowsUnderGlueType
    <3> QED
      BY <1>3, <3>1, ConcatEmptySeq DEF AppendLines
  <2>2. \E n \in {L - 1, L} : n >= 0 /\ RowsUnderGlue(file) = SubSeq(rows, 1, n)
    <3>1. CASE file.tail = "bare" /\ L > 0
      <4>1. L - 1 >= 0 /\ RowsUnderGlue(file) = SubSeq(rows, 1, L - 1)
        BY <1>1, <3>1 DEF RowsUnderGlue
      <4> QED
        BY <4>1
    <3>2. CASE file.tail = "bare" /\ L = 0
      <4>1. SubSeq(rows, 1, L - 1) = << >> /\ SubSeq(rows, 1, L) = << >>
        BY <1>1, <3>2, SubSeqEmpty
      <4> QED
        BY <3>2, <4>1 DEF RowsUnderGlue
    <3>3. CASE file.tail # "bare"
      BY <1>1, <3>3, SubSeqFull DEF RowsUnderGlue
    <3> QED
      BY <1>1, <3>1, <3>2, <3>3
  <2>3. PICK n \in 0..L : n \in {L - 1, L} /\ RowsUnderGlue(file) = SubSeq(rows, 1, n)
    BY <1>1, <2>2
  <2>4. L + 1 - n \in {1, 2} /\ L + 1 - n \in Nat /\ n \in Nat /\ n + (L + 1 - n) = L + 1
    BY <1>1, <2>3
  <2>5. SubSeq(rows, 1, n) = Without(Append(rows, row), n, L + 1 - n)
    <3>1. Without(Append(rows, row), n, L + 1 - n) = SubSeq(Append(rows, row), 1, n)
      BY <1>1, <2>4, WithoutEnd
    <3> QED
      BY <1>1, <2>3, <3>1, BeginningOfAppend
  <2> QED
    BY <2>1, <2>3, <2>4, <2>5
<1> QED
  BY <1>2, <1>3

LEMMA LossStep ==
    ASSUME Inv, LossInv, [Next]_vars
    PROVE  LossInv'
<1>1. CASE \E resume \in BOOLEAN : Start(resume)
  BY <1>1 DEF Start, LossInv
<1>2. CASE \E f \in Slots : Worker(f) \/ CollectRejected(f) \/ CollectRaises(f)
  BY <1>2 DEF Worker, Begin, AttemptRejected, AttemptVerified, CollectRejected,
              CollectRaises, Collecting, memory, LossInv
<1>3. CASE \E f \in Slots : CollectAccepted(f)
  <2>1. PICK f \in Slots : CollectAccepted(f)
    BY <1>3
  <2> DEFINE row == AdmittedRow(f)
             L == Len(accepted)
  <2>2. /\ phase = "running" /\ reply[f] # NoReply
        /\ accepted' = Append(accepted, row)
        /\ partial' = AppendLines(partial, <<row>>)
    BY <2>1 DEF CollectAccepted, Collecting
  <2>3. row \in Row
    BY <2>2, AdmittedRowIsNew DEF Inv
  <2>4. accepted \in Seq(Row) /\ partial \in FilesOf(Row) /\ L \in Nat
    BY LenProperties DEF Inv, TypeOK
  <2> HIDE DEF row
  <2>5. Len(accepted') = L + 1 /\ partial'.tail = "clean"
    BY <2>2, <2>3, <2>4, AppendProperties, AppendOneLine
  <2>6. CASE partial.rows = accepted
    <3>1. CASE partial'.rows = Append(partial.rows, row)
      BY <2>2, <2>6, <3>1 DEF LossInv
    <3>2. CASE \E lost \in {1, 2}, n \in 0..Len(partial.rows) :
                    /\ n + lost = Len(partial.rows) + 1
                    /\ partial'.rows = Without(Append(partial.rows, row), n, lost)
      <4>1. PICK lost \in {1, 2}, n \in 0..L :
                    /\ n + lost = L + 1
                    /\ partial'.rows = Without(accepted', n, lost)
        BY <2>2, <2>6, <3>2
      <4>2. n \in 0..Len(accepted') /\ n + lost <= Len(accepted')
        BY <2>4, <2>5, <4>1
      <4> QED
        BY <2>5, <4>1, <4>2 DEF LossInv
    <3> QED
      BY <2>2, <2>3, <2>4, <3>1, <3>2, FirstAppendLoss
  <2>7. CASE partial.rows # accepted
    <3>1. PICK lost \in {1, 2}, n \in 0..L :
                /\ partial.tail = "clean" /\ n + lost <= L
                /\ partial.rows = Without(accepted, n, lost)
      BY <2>2, <2>7 DEF LossInv
    <3>2. partial'.rows = Append(Without(accepted, n, lost), row)
      BY <2>2, <2>3, <2>4, <3>1, AppendOneLine
    <3>3. n \in Nat /\ lost \in Nat /\ n \in 0..(L + 1) /\ n + lost <= L + 1
      <4>1. L \in Nat /\ n \in 0..L /\ lost \in {1, 2} /\ n + lost <= L
        BY <2>4, <3>1
      <4> HIDE DEF L
      <4> QED
        BY <4>1
    <3>4. partial'.rows = Without(accepted', n, lost)
      <4>1. n \in Nat /\ lost \in Nat /\ n + lost <= Len(accepted) /\ accepted \in Seq(Row)
        BY <2>4, <3>1, <3>3
      <4>2. Append(Without(accepted, n, lost), row) = Without(Append(accepted, row), n, lost)
        BY <2>3, <4>1, WithoutAppend
      <4> QED
        BY <2>2, <3>2, <4>2
    <3>5. n \in 0..Len(accepted') /\ n + lost <= Len(accepted')
      BY <2>5, <3>3
    <3> QED
      BY <2>5, <3>1, <3>4, <3>5 DEF LossInv
  <2> QED
    BY <2>6, <2>7
<1>4. CASE Finish \/ Crashes
  BY <1>4 DEF Finish, PoolDone, PoolFailed, WriteTrain, WriteDev, WriteTest, UnlinkPartial,
              Crashes, Crash, CrashInAppend, CrashInSplit, LossInv
<1>5. CASE UNCHANGED vars
  BY <1>5 DEF vars, memory, LossInv
<1> QED
  BY <1>1, <1>2, <1>3, <1>4, <1>5 DEF Next, Collect

\* A crash in the middle of a line costs the partial file at most two rows, accepted one
\* after the other; the rest is there, in the order it was accepted (expand.py:205-215
\* skips the unreadable line, expand.py:403 appends).
THEOREM LossStaysBounded == Spec => []LossIsBounded
<1>1. Init => LossInv
  BY DEF Init, LossInv
<1>2. Inv /\ LossInv /\ [Next]_vars => LossInv'
  BY LossStep
<1>3. Inv /\ LossInv => LossIsBounded
  <2> SUFFICES ASSUME Inv, LossInv, phase = "running"
               PROVE  \E lost \in 0..2, n \in 0..Len(accepted) :
                        /\ n + lost <= Len(accepted)
                        /\ partial.rows = Without(accepted, n, lost)
    BY DEF LossIsBounded, Without
  <2>1. accepted \in Seq(Row) /\ Len(accepted) \in Nat
    BY LenProperties DEF Inv, TypeOK
  <2>2. Without(accepted, Len(accepted), 0) = accepted
    BY <2>1, WithoutEnd, SubSeqFull
  <2>3. CASE partial.rows = accepted
    BY <2>1, <2>2, <2>3
  <2>4. CASE partial.rows # accepted
    BY <2>4 DEF LossInv
  <2> QED
    BY <2>3, <2>4
<1> QED
  BY <1>1, <1>2, <1>3, InvHolds, PTL DEF Spec

-----------------------------------------------------------------------------
(* The rejection log.  What a run has given up is in its buffer, below the  *)
(* header of the run; when the buffer reaches a log that a crash has cut,   *)
(* the line that is glued and lost is the header, never a rejection.        *)

\* The expansions a run has given up, in a sequence of log entries.
GivenUp(entries, r) ==
    {i \in DOMAIN entries :
        /\ entries[i].run = r
        /\ entries[i].attempt = MaxRetries - 1
        /\ entries[i].reason # "_run_start"}
Tally(entries, r) == Cardinality(GivenUp(entries, r))

\* A future is given up after max_retries rejections, and only then.
AttemptsInv ==
    \A f \in Slots :
        /\ status[f] = "queued" => rejs[f] = << >> /\ reply[f] = NoReply
        /\ status[f] = "running" => Len(rejs[f]) < MaxRetries /\ reply[f] = NoReply
        /\ status[f] = "finished" =>
                IF reply[f] = NoReply THEN Len(rejs[f]) = MaxRetries ELSE Len(rejs[f]) < MaxRetries

TallyInv ==
    /\ AttemptsInv
    /\ \A i \in DOMAIN rejLog.rows : rejLog.rows[i].run <= run
    /\ Pooling => \A i \in DOMAIN rejLog.rows : rejLog.rows[i].run # run
    /\ \A i \in DOMAIN rejBuf : rejBuf[i].run = run
    /\ Pooling => rejBuf # << >> /\ rejBuf[1].reason = "_run_start"
    /\ phase = "running" => rejected = Tally(rejBuf, run)
    /\ phase \in {"train", "dev", "test", "unlink", "done"} =>
            rejected = Tally(rejLog.rows, run)

LEMMA GivenUpIsFinite ==
    ASSUME NEW entries \in Seq(Entry), NEW r
    PROVE  IsFiniteSet(GivenUp(entries, r)) /\ Tally(entries, r) \in Nat
<1>1. DOMAIN entries = 1..Len(entries) /\ Len(entries) \in Nat
  BY LenProperties
<1>2. IsFiniteSet(1..Len(entries))
  BY <1>1, FS_Interval
<1>3. GivenUp(entries, r) \in SUBSET (1..Len(entries))
  BY <1>1 DEF GivenUp
<1>4. IsFiniteSet(GivenUp(entries, r))
  BY <1>2, <1>3, FS_Subset
<1> QED
  BY <1>4, FS_CardinalityType DEF Tally

\* The tally of two logs, one after the other, is the sum of theirs.
LEMMA TallyConcat ==
    ASSUME NEW s \in Seq(Entry), NEW t \in Seq(Entry), NEW r
    PROVE  Tally(s \o t, r) = Tally(s, r) + Tally(t, r)
<1> DEFINE n == Len(s)
           m == Len(t)
           old == GivenUp(s, r)
           add == GivenUp(t, r)
           moved == {i \in (n + 1)..(n + m) : i - n \in add}
           Shift == [i \in add |-> n + i]
<1>1. /\ n \in Nat /\ m \in Nat /\ DOMAIN s = 1..n /\ DOMAIN t = 1..m
      /\ s \o t \in Seq(Entry)
      /\ DOMAIN (s \o t) = 1..(n + m)
      /\ \A i \in 1..(n + m) : (s \o t)[i] = IF i <= n THEN s[i] ELSE t[i - n]
  <2>1. /\ s \o t \in Seq(Entry) /\ Len(s \o t) = Len(s) + Len(t)
        /\ \A i \in 1..(Len(s) + Len(t)) :
                (s \o t)[i] = IF i <= Len(s) THEN s[i] ELSE t[i - Len(s)]
    BY ConcatProperties
  <2> QED
    BY <2>1, LenProperties
<1> HIDE DEF n, m
<1>2. \A i \in old : i \in 1..n
  BY <1>1 DEF GivenUp
<1>3. \A i \in add : i \in 1..m
  BY <1>1 DEF GivenUp
<1>4. GivenUp(s \o t, r) = old \union moved
  <2>1. ASSUME NEW i \in 1..n
        PROVE  i \in GivenUp(s \o t, r) <=> i \in old
    <3>1. i \in 1..(n + m) /\ (s \o t)[i] = s[i]
      BY <1>1
    <3> QED
      BY <1>1, <3>1 DEF GivenUp
  <2>2. ASSUME NEW i \in (n + 1)..(n + m)
        PROVE  i \in GivenUp(s \o t, r) <=> i \in moved
    <3>1. i \in 1..(n + m) /\ i - n \in 1..m /\ (s \o t)[i] = t[i - n]
      BY <1>1
    <3> QED
      BY <1>1, <3>1 DEF GivenUp
  <2>3. \A i : i \in 1..(n + m) <=> i \in 1..n \/ i \in (n + 1)..(n + m)
    BY <1>1
  <2>4. \A i : i \in 1..n => i \notin (n + 1)..(n + m)
    BY <1>1
  <2>5. GivenUp(s \o t, r) \subseteq 1..(n + m)
    BY <1>1 DEF GivenUp
  <2> QED
    BY <1>2, <2>1, <2>2, <2>3, <2>4, <2>5
<1>5. old \cap moved = {}
  BY <1>1, <1>2
<1>6. Shift \in Bijection(add, moved)
  <2>1. Shift \in [add -> moved]
    BY <1>1, <1>3
  <2>2. \A i, j \in add : Shift[i] = Shift[j] => i = j
    BY <1>1, <1>3
  <2>3. \A i \in moved : i - n \in add /\ Shift[i - n] = i
    BY <1>1
  <2> HIDE DEF Shift, moved, add
  <2> QED
    BY <2>1, <2>2, <2>3 DEF Bijection, Injection, Surjection, IsInjective
<1>7. IsFiniteSet(old) /\ IsFiniteSet(add)
  BY GivenUpIsFinite
<1>8. IsFiniteSet(moved) /\ Cardinality(moved) = Cardinality(add)
  BY <1>6, <1>7, FS_Bijection DEF ExistsBijection
<1> HIDE DEF old, add, moved
<1>9. Cardinality(old \union moved) = Cardinality(old) + Cardinality(add)
  <2>1. Cardinality(old \union moved) =
            Cardinality(old) + Cardinality(moved) - Cardinality(old \cap moved)
    BY <1>7, <1>8, FS_Union
  <2>2. Cardinality(old) \in Nat /\ Cardinality(add) \in Nat
    BY <1>7, FS_CardinalityType
  <2>3. Cardinality(old \cap moved) = 0
    BY <1>5, FS_EmptySet
  <2> QED
    BY <1>8, <2>1, <2>2, <2>3
<1> QED
  BY <1>4, <1>9 DEF Tally, old, add

\* Entries none of which is a last rejection of the run count for nothing.
LEMMA TallyOfNone ==
    ASSUME NEW entries, NEW r,
           \A i \in DOMAIN entries : entries[i].run # r \/ entries[i].reason = "_run_start"
                                        \/ entries[i].attempt # MaxRetries - 1
    PROVE  Tally(entries, r) = 0
<1>1. GivenUp(entries, r) = {}
  BY DEF GivenUp
<1> QED
  BY <1>1, FS_EmptySet DEF Tally

\* The header does not count: without the first line the tally is the same.
LEMMA TallyWithoutHeader ==
    ASSUME NEW entries \in Seq(Entry), entries # << >>, entries[1].reason = "_run_start", NEW r
    PROVE  Tally(Tail(entries), r) = Tally(entries, r)
<1> DEFINE first == <<entries[1]>>
           rest == Tail(entries)
<1>1. Len(entries) \in Nat /\ Len(entries) # 0
  BY EmptySeq, LenProperties
<1>2. /\ rest \in Seq(Entry) /\ Len(rest) = Len(entries) - 1
      /\ \A i \in 1..Len(rest) : rest[i] = entries[i + 1]
  BY HeadTailProperties
<1>3. first \in Seq(Entry) /\ Len(first) = 1 /\ first[1] = entries[1] /\ DOMAIN first = {1}
  <2>1. entries[1] \in Entry
    BY <1>1, ElementOfSeq
  <2> QED
    BY <2>1
<1> HIDE DEF first, rest
<1>4. /\ first \o rest \in Seq(Entry) /\ Len(first \o rest) = Len(first) + Len(rest)
      /\ \A i \in 1..(Len(first) + Len(rest)) :
            (first \o rest)[i] = IF i <= Len(first) THEN first[i] ELSE rest[i - Len(first)]
  <2>1. first \in Seq(Entry) /\ rest \in Seq(Entry)
    BY <1>2, <1>3
  <2> QED
    BY <2>1, ConcatProperties
<1>5. Len(first \o rest) = Len(entries)
  BY <1>1, <1>2, <1>3, <1>4
<1>6. \A i \in 1..Len(entries) : (first \o rest)[i] = entries[i]
  <2> SUFFICES ASSUME NEW i \in 1..Len(entries)
               PROVE  (first \o rest)[i] = entries[i]
    OBVIOUS
  <2>1. i \in 1..(Len(first) + Len(rest))
    BY <1>1, <1>2, <1>3
  <2>2. CASE i = 1
    BY <1>3, <1>4, <2>1, <2>2
  <2>3. CASE i # 1
    <3>1. i - 1 \in 1..Len(rest) /\ ~(i <= 1) /\ (i - 1) + 1 = i
      BY <1>1, <1>2, <2>3
    <3> QED
      BY <1>2, <1>3, <1>4, <2>1, <3>1
  <2> QED
    BY <2>2, <2>3
<1>7. first \o rest = entries
  BY <1>4, <1>5, <1>6, SeqEqual
<1>8. Tally(first, r) = 0
  BY <1>3, TallyOfNone
<1>9. Tally(entries, r) = Tally(first, r) + Tally(rest, r)
  BY <1>2, <1>3, <1>7, TallyConcat
<1>10. Tally(rest, r) \in Nat
  BY <1>2, GivenUpIsFinite
<1> QED
  BY <1>8, <1>9, <1>10 DEF rest

\* Below a log without entries of the run, cut or not, the buffer keeps its tally.
LEMMA TallyOfClosedLog ==
    ASSUME NEW log \in FilesOf(Entry), NEW buf \in Seq(Entry), NEW r,
           \A i \in DOMAIN log.rows : log.rows[i].run # r,
           buf # << >>, buf[1].reason = "_run_start"
    PROVE  Tally(AppendLines(log, buf).rows, r) = Tally(buf, r)
<1>1. log.rows \in Seq(Entry) /\ RowsUnderGlue(log) \in Seq(Entry) /\ Tail(buf) \in Seq(Entry)
  BY RowsUnderGlueType, HeadTailProperties DEF FilesOf
<1>2. Tally(buf, r) \in Nat
  BY GivenUpIsFinite
<1>3. CASE log.tail = "clean"
  <2>1. AppendLines(log, buf).rows = log.rows \o buf
    BY <1>3 DEF AppendLines
  <2>2. Tally(log.rows, r) = 0
    BY TallyOfNone
  <2>3. Tally(log.rows \o buf, r) = Tally(log.rows, r) + Tally(buf, r)
    BY <1>1, TallyConcat
  <2> QED
    BY <1>2, <2>1, <2>2, <2>3
<1>4. CASE log.tail # "clean"
  <2>1. AppendLines(log, buf).rows = RowsUnderGlue(log) \o Tail(buf)
    BY <1>4 DEF AppendLines
  <2>2. Tally(RowsUnderGlue(log), r) = 0
    <3>1. PICK n \in 0..Len(log.rows) : RowsUnderGlue(log) = SubSeq(log.rows, 1, n)
      BY RowsUnderGlueIsBeginning
    <3>2. /\ DOMAIN SubSeq(log.rows, 1, n) = 1..n
          /\ \A i \in 1..n : SubSeq(log.rows, 1, n)[i] = log.rows[i]
      BY <1>1, BeginningIsSeq, LenProperties
    <3>3. \A i \in 1..n : i \in DOMAIN log.rows
      BY <1>1, LenProperties
    <3> QED
      BY <3>1, <3>2, <3>3, TallyOfNone
  <2>3. Tally(RowsUnderGlue(log) \o Tail(buf), r) = Tally(RowsUnderGlue(log), r) + Tally(Tail(buf), r)
    BY <1>1, TallyConcat
  <2>4. Tally(Tail(buf), r) = Tally(buf, r)
    BY TallyWithoutHeader
  <2> QED
    BY <1>2, <2>1, <2>2, <2>3, <2>4
<1> QED
  BY <1>3, <1>4

\* Of the rejections of a future, one is the last.
LEMMA TallyOfLogEntries ==
    ASSUME TypeOK, NEW f \in Slots
    PROVE  /\ \A i \in DOMAIN LogEntries(f) : LogEntries(f)[i].run = run
           /\ Len(rejs[f]) = MaxRetries => Tally(LogEntries(f), run) = 1
           /\ Len(rejs[f]) < MaxRetries => Tally(LogEntries(f), run) = 0
<1> DEFINE entries == LogEntries(f)
<1>1. /\ DOMAIN rejs[f] = 1..Len(rejs[f]) /\ Len(rejs[f]) \in Nat
      /\ \A a \in 1..Len(rejs[f]) : rejs[f][a] \in Reasons
  <2>1. rejs[f] \in Seq(Reasons)
    BY DEF TypeOK
  <2> QED
    BY <2>1, LenProperties, ElementOfSeq
<1>2. MaxRetries \in Nat /\ MaxRetries # 0
  BY ExpandAssumption
<1>3. /\ DOMAIN entries = 1..Len(rejs[f])
      /\ \A a \in 1..Len(rejs[f]) : /\ entries[a].run = run
                                     /\ entries[a].attempt = a - 1
                                     /\ entries[a].reason # "_run_start"
  BY <1>1, ExpandAssumption DEF LogEntries
<1> HIDE DEF entries
<1>4. GivenUp(entries, run) = {a \in 1..Len(rejs[f]) : a = MaxRetries}
  BY <1>1, <1>2, <1>3 DEF GivenUp
<1>5. Len(rejs[f]) = MaxRetries => GivenUp(entries, run) = {MaxRetries}
  BY <1>1, <1>2, <1>4
<1>6. Len(rejs[f]) < MaxRetries => GivenUp(entries, run) = {}
  BY <1>1, <1>2, <1>4
<1> QED
  BY <1>3, <1>5, <1>6, FS_Singleton, FS_EmptySet DEF Tally, entries

\* A worker ends its future when it has max_retries rejections or a verified reply.
LEMMA AttemptsStep ==
    ASSUME TypeOK, AttemptsInv, [Next]_vars
    PROVE  AttemptsInv'
<1>1. /\ status \in [Slots -> Statuses] /\ rejs \in [Slots -> Seq(Reasons)]
      /\ reply \in [Slots -> Replies \union {NoReply}]
      /\ MaxRetries \in Nat /\ MaxRetries # 0
      /\ \A id \in Replies : id # NoReply
  BY ExpandAssumption DEF TypeOK
<1>2. CASE \E resume \in BOOLEAN : Start(resume)
  BY <1>2 DEF Start, AttemptsInv
<1>3. CASE \E f \in Slots : Worker(f)
  <2>1. PICK f \in Slots : Worker(f)
    BY <1>3
  <2>2. CASE Begin(f)
    <3>1. /\ status[f] = "queued" /\ status' = [status EXCEPT ![f] = "running"]
          /\ UNCHANGED <<reply, rejs>>
      BY <2>2 DEF Begin
    <3>2. Len(rejs[f]) < MaxRetries
      BY <1>1, <3>1 DEF AttemptsInv
    <3> QED
      BY <1>1, <3>1, <3>2 DEF AttemptsInv
  <2>3. CASE \E reason \in Reasons : AttemptRejected(f, reason)
    <3>1. PICK reason \in Reasons : AttemptRejected(f, reason)
      BY <2>3
    <3>2. /\ status[f] = "running" /\ reply' = reply
          /\ rejs' = [rejs EXCEPT ![f] = Append(rejs[f], reason)]
          /\ status' = [status EXCEPT ![f] =
                            IF Len(rejs[f]) + 1 < MaxRetries THEN "running" ELSE "finished"]
      BY <3>1 DEF AttemptRejected
    <3>3. Len(rejs[f]) \in Nat /\ Len(rejs'[f]) = Len(rejs[f]) + 1
      <4>1. rejs[f] \in Seq(Reasons) /\ rejs'[f] = Append(rejs[f], reason)
        BY <1>1, <3>2
      <4> QED
        BY <4>1, LenProperties, AppendProperties
    <3>4. Len(rejs[f]) < MaxRetries /\ reply[f] = NoReply
      BY <3>2 DEF AttemptsInv
    <3>5. /\ status'[f] = "running" => Len(rejs'[f]) < MaxRetries
          /\ status'[f] = "finished" => Len(rejs'[f]) = MaxRetries
          /\ status'[f] # "queued"
      BY <1>1, <3>2, <3>3, <3>4
    <3>6. \A g \in Slots : g # f => status'[g] = status[g] /\ rejs'[g] = rejs[g]
      BY <1>1, <3>2
    <3> QED
      BY <3>2, <3>4, <3>5, <3>6 DEF AttemptsInv
  <2>4. CASE \E id \in Replies : AttemptVerified(f, id)
    <3>1. PICK id \in Replies : AttemptVerified(f, id)
      BY <2>4
    <3>2. /\ status[f] = "running" /\ rejs' = rejs
          /\ reply' = [reply EXCEPT ![f] = id]
          /\ status' = [status EXCEPT ![f] = "finished"]
      BY <3>1 DEF AttemptVerified
    <3> QED
      BY <1>1, <3>2 DEF AttemptsInv
  <2> QED
    BY <2>1, <2>2, <2>3, <2>4 DEF Worker
<1>4. CASE \E f \in Slots : Collect(f)
  <2>1. PICK f \in Slots : Collect(f)
    BY <1>4
  <2>2. status' = [status EXCEPT ![f] = "collected"] /\ UNCHANGED <<reply, rejs>>
    BY <2>1 DEF Collect, CollectRejected, CollectAccepted, CollectRaises
  <2> QED
    BY <1>1, <2>2 DEF AttemptsInv
<1>5. CASE UNCHANGED pool
  BY <1>5 DEF pool, AttemptsInv
<1>6. Finish \/ Crashes \/ UNCHANGED vars => UNCHANGED pool
  BY DEF Finish, PoolDone, PoolFailed, WriteTrain, WriteDev, WriteTest, UnlinkPartial,
         Crashes, Crash, CrashInAppend, CrashInSplit, vars, pool
<1> QED
  BY <1>2, <1>3, <1>4, <1>5, <1>6 DEF Next

\* Whatever a close or a crash makes of the log, its entries are those of the log and
\* the buffer.
LEMMA LogRuns ==
    ASSUME NEW log \in FilesOf(Entry), NEW buf \in Seq(Entry), NEW r \in Nat,
           \A i \in DOMAIN log.rows : log.rows[i].run <= r,
           \A i \in DOMAIN buf : buf[i].run <= r,
           NEW file, file = AppendLines(log, buf) \/ file \in CutAppends(log, buf, TornWrites)
    PROVE  \A i \in DOMAIN file.rows : file.rows[i].run <= r
<1> DEFINE Old == {e \in Entry : e.run <= r}
<1>1. log \in FilesOf(Old) /\ buf \in Seq(Old)
  <2>1. log.rows \in Seq(Entry) /\ \A i \in 1..Len(log.rows) : log.rows[i] \in Old
    <3>1. log.rows \in Seq(Entry)
      BY DEF FilesOf
    <3> QED
      BY <3>1, LenProperties, ElementOfSeq
  <2>2. \A i \in 1..Len(buf) : buf[i] \in Old
    BY LenProperties, ElementOfSeq
  <2>3. \A s \in Seq(Entry) : (\A i \in 1..Len(s) : s[i] \in Old) => s \in Seq(Old)
    OBVIOUS
  <2>4. log.rows \in Seq(Old) /\ buf \in Seq(Old)
    BY <2>1, <2>2, <2>3
  <2> QED
    BY <2>4 DEF FilesOf
<1>2. file \in FilesOf(Old)
  BY <1>1, AppendLinesType, CutAppendsType
<1>3. file.rows \in Seq(Old)
  BY <1>2 DEF FilesOf
<1>4. \A i \in DOMAIN file.rows : file.rows[i] \in Old
  BY <1>3, LenProperties, ElementOfSeq
<1> QED
  BY <1>4

\* The entries of a collected future go below those of the buffer.
LEMMA BufferGrows ==
    ASSUME TypeOK, TallyInv, Pooling, NEW f \in Slots, rejBuf' = rejBuf \o LogEntries(f)
    PROVE  /\ \A i \in DOMAIN rejBuf' : rejBuf'[i].run = run
           /\ rejBuf' # << >> /\ rejBuf'[1].reason = "_run_start"
           /\ Tally(rejBuf', run) = Tally(rejBuf, run) + Tally(LogEntries(f), run)
<1>1. rejBuf \in Seq(Entry) /\ LogEntries(f) \in Seq(Entry)
  BY EntriesType DEF TypeOK
<1>2. /\ \A i \in DOMAIN rejBuf : rejBuf[i].run = run
      /\ rejBuf # << >> /\ rejBuf[1].reason = "_run_start"
  BY DEF TallyInv
<1> DEFINE n == Len(rejBuf)
           m == Len(LogEntries(f))
<1>3. /\ n \in Nat /\ n # 0 /\ m \in Nat
      /\ DOMAIN rejBuf = 1..n /\ DOMAIN LogEntries(f) = 1..m
  BY <1>1, <1>2, LenProperties, EmptySeq
<1>4. /\ DOMAIN rejBuf' = 1..(n + m)
      /\ \A i \in 1..(n + m) : rejBuf'[i] = IF i <= n THEN rejBuf[i] ELSE LogEntries(f)[i - n]
  <2>1. /\ rejBuf \o LogEntries(f) \in Seq(Entry)
        /\ Len(rejBuf \o LogEntries(f)) = n + m
        /\ \A i \in 1..(n + m) : (rejBuf \o LogEntries(f))[i] =
                IF i <= n THEN rejBuf[i] ELSE LogEntries(f)[i - n]
    BY <1>1, ConcatProperties
  <2>2. DOMAIN (rejBuf \o LogEntries(f)) = 1..(n + m)
    BY <2>1, LenProperties
  <2> QED
    BY <2>1, <2>2
<1>5. \A i \in 1..m : LogEntries(f)[i].run = run
  BY <1>3, TallyOfLogEntries
<1> HIDE DEF n, m
<1>6. \A i \in 1..(n + m) : rejBuf'[i].run = run
  <2> SUFFICES ASSUME NEW i \in 1..(n + m)
               PROVE  rejBuf'[i].run = run
    OBVIOUS
  <2>1. CASE i <= n
    <3>1. i \in 1..n
      BY <1>3, <2>1
    <3> QED
      BY <1>2, <1>3, <1>4, <2>1, <3>1
  <2>2. CASE ~(i <= n)
    <3>1. i - n \in 1..m
      BY <1>3, <2>2
    <3> QED
      BY <1>4, <1>5, <2>2, <3>1
  <2> QED
    BY <2>1, <2>2
<1>7. 1 \in 1..(n + m) /\ rejBuf'[1] = rejBuf[1]
  <2>1. 1 \in 1..(n + m) /\ 1 <= n
    BY <1>3
  <2>2. rejBuf'[1] = IF 1 <= n THEN rejBuf[1] ELSE LogEntries(f)[1 - n]
    BY <1>4, <2>1
  <2> QED
    BY <2>1, <2>2
<1>8. rejBuf' # << >>
  <2>1. DOMAIN rejBuf' # {}
    BY <1>4, <1>7
  <2>2. DOMAIN << >> = {}
    OBVIOUS
  <2> QED
    BY <2>1, <2>2
<1> QED
  BY <1>1, <1>2, <1>4, <1>6, <1>7, <1>8, TallyConcat

\* Closed, or cut by a crash, the log holds entries of this run and of earlier ones.
LEMMA LogIsClosed ==
    ASSUME TypeOK, TallyInv, CloseRejLog \/ LoseRejections
    PROVE  /\ \A i \in DOMAIN rejLog'.rows : rejLog'.rows[i].run <= run
           /\ \A i \in DOMAIN rejBuf' : rejBuf'[i].run = run
<1>1. rejLog \in FilesOf(Entry) /\ rejBuf \in Seq(Entry) /\ run \in Nat
  BY DEF TypeOK
<1>2. /\ \A i \in DOMAIN rejLog.rows : rejLog.rows[i].run <= run
      /\ \A i \in DOMAIN rejBuf : rejBuf[i].run <= run
  BY <1>1 DEF TallyInv
<1>3. /\ rejLog' = AppendLines(rejLog, rejBuf) \/ rejLog' \in CutAppends(rejLog, rejBuf, TornWrites)
      /\ rejBuf' = << >>
  BY DEF CloseRejLog, LoseRejections
<1> QED
  BY <1>1, <1>2, <1>3, LogRuns

LEMMA TallyStep ==
    ASSUME TypeOK, TallyInv, [Next]_vars
    PROVE  TallyInv'
<1>1. AttemptsInv'
  BY AttemptsStep DEF TallyInv
<1>2. /\ rejLog \in FilesOf(Entry) /\ rejLog.rows \in Seq(Entry) /\ rejBuf \in Seq(Entry)
      /\ run \in Nat /\ rejected \in Nat
      /\ \A i \in DOMAIN rejLog.rows : rejLog.rows[i].run \in Nat
  <2>1. rejLog \in FilesOf(Entry) /\ rejLog.rows \in Seq(Entry)
    BY DEF TypeOK, FilesOf
  <2>2. \A i \in DOMAIN rejLog.rows : rejLog.rows[i] \in Entry
    BY <2>1, LenProperties, ElementOfSeq
  <2> QED
    BY <2>1, <2>2 DEF TypeOK, Entry
<1>3. CASE \E resume \in BOOLEAN : Start(resume)
  <2>1. /\ run' = run + 1 /\ rejLog' = rejLog /\ rejected' = 0 /\ phase' = "running"
        /\ rejBuf' = <<[run |-> run', reason |-> "_run_start", seed |-> NoId, attempt |-> 0]>>
    BY <1>3 DEF Start, Header
  <2>2. \A i \in DOMAIN rejLog'.rows : rejLog'.rows[i].run <= run' /\ rejLog'.rows[i].run # run'
    BY <1>2, <2>1 DEF TallyInv
  <2>3. /\ DOMAIN rejBuf' = {1} /\ rejBuf'[1].run = run'
        /\ rejBuf'[1].reason = "_run_start" /\ rejBuf' # << >>
    BY <2>1
  <2>4. Tally(rejBuf', run') = 0
    BY <2>3, TallyOfNone
  <2> QED
    BY <1>1, <2>1, <2>2, <2>3, <2>4 DEF TallyInv
<1>4. CASE \E f \in Slots : Worker(f)
  <2>1. UNCHANGED <<phase, rejLog, rejBuf, rejected, run>>
    BY <1>4 DEF Worker, Begin, AttemptRejected, AttemptVerified, memory
  <2> QED
    BY <1>1, <2>1 DEF TallyInv, Pooling
<1>5. CASE \E f \in Slots : Collect(f)
  <2>1. PICK f \in Slots : Collect(f)
    BY <1>5
  <2>2. /\ phase = "running" /\ status[f] = "finished" /\ UNCHANGED <<rejLog, run>>
        /\ rejBuf' = rejBuf \o LogEntries(f)
    BY <2>1 DEF Collect, CollectRejected, CollectAccepted, CollectRaises, Collecting
  <2>3. /\ \A i \in DOMAIN rejBuf' : rejBuf'[i].run = run
        /\ rejBuf' # << >> /\ rejBuf'[1].reason = "_run_start"
        /\ Tally(rejBuf', run) = Tally(rejBuf, run) + Tally(LogEntries(f), run)
    BY <2>2, BufferGrows DEF Pooling
  <2>4. /\ rejected = Tally(rejBuf, run)
        /\ \A i \in DOMAIN rejLog.rows : rejLog.rows[i].run <= run
        /\ \A i \in DOMAIN rejLog.rows : rejLog.rows[i].run # run
        /\ IF reply[f] = NoReply THEN Len(rejs[f]) = MaxRetries ELSE Len(rejs[f]) < MaxRetries
    BY <2>2 DEF TallyInv, Pooling, AttemptsInv
  <2>5. phase' = "running" => rejected' = Tally(rejBuf', run)
    <3>1. CASE CollectRejected(f)
      <4>1. rejected' = rejected + 1 /\ Tally(LogEntries(f), run) = 1
        BY <2>4, <3>1, TallyOfLogEntries DEF CollectRejected
      <4> QED
        BY <2>3, <2>4, <4>1
    <3>2. CASE CollectAccepted(f)
      <4>1. rejected' = rejected /\ Tally(LogEntries(f), run) = 0
        BY <2>4, <3>2, TallyOfLogEntries DEF CollectAccepted
      <4> QED
        BY <1>2, <2>3, <2>4, <4>1
    <3>3. CASE CollectRaises(f)
      BY <3>3 DEF CollectRaises
    <3> QED
      BY <2>1, <3>1, <3>2, <3>3 DEF Collect
  <2>6. phase' \in {"running", "failing"}
    BY <2>1, <2>2 DEF Collect, CollectRejected, CollectAccepted, CollectRaises
  <2> QED
    BY <1>1, <2>2, <2>3, <2>4, <2>5, <2>6 DEF TallyInv
<1>6. CASE PoolDone
  <2>1. /\ phase = "running" /\ phase' = "train" /\ CloseRejLog /\ UNCHANGED <<rejected, run>>
    BY <1>6 DEF PoolDone
  <2>2. Tally(rejLog'.rows, run) = Tally(rejBuf, run)
    <3>1. /\ \A i \in DOMAIN rejLog.rows : rejLog.rows[i].run # run
          /\ rejBuf # << >> /\ rejBuf[1].reason = "_run_start"
      BY <2>1 DEF TallyInv, Pooling
    <3> QED
      BY <1>2, <2>1, <3>1, TallyOfClosedLog DEF CloseRejLog
  <2> QED
    BY <1>1, <2>1, <2>2, LogIsClosed DEF TallyInv, Pooling
<1>7. CASE PoolFailed \/ Crash \/ \E f \in Slots : CrashInAppend(f)
  <2>1. phase' = "dead" /\ (CloseRejLog \/ LoseRejections) /\ run' = run
    BY <1>7 DEF PoolFailed, Crash, CrashInAppend
  <2> QED
    BY <1>1, <2>1, LogIsClosed DEF TallyInv, Pooling
<1>8. CASE WriteTrain \/ WriteDev \/ WriteTest \/ UnlinkPartial
  <2>1. /\ phase \in {"train", "dev", "test", "unlink"}
        /\ phase' \in {"dev", "test", "unlink", "done"}
        /\ UNCHANGED <<rejLog, rejBuf, rejected, run>>
    BY <1>8 DEF WriteTrain, WriteDev, WriteTest, UnlinkPartial, memory
  <2> QED
    BY <1>1, <2>1 DEF TallyInv, Pooling
<1>9. CASE CrashInSplit
  <2>1. phase' = "dead" /\ UNCHANGED <<rejLog, rejBuf, rejected, run>>
    BY <1>9 DEF CrashInSplit, memory
  <2> QED
    BY <1>1, <2>1 DEF TallyInv, Pooling
<1>10. CASE UNCHANGED vars
  <2>1. UNCHANGED <<phase, rejLog, rejBuf, rejected, run>>
    BY <1>10 DEF vars, memory
  <2> QED
    BY <1>1, <2>1 DEF TallyInv, Pooling
<1> QED
  BY <1>3, <1>4, <1>5, <1>6, <1>7, <1>8, <1>9, <1>10 DEF Next, Finish, Crashes

\* When a run is done, rejections.jsonl tells how many expansions it gave up, even below
\* an older log that a crash cut (expand.py:236-247, 372-376).
THEOREM RejectionsAreTallied == Spec => []RejectionsTally
<1>1. Init => TallyInv
  BY DEF Init, EmptyFile, TallyInv, AttemptsInv, Pooling
<1>2. Inv /\ TallyInv /\ [Next]_vars => TallyInv'
  BY TallyStep DEF Inv
<1>3. TallyInv => RejectionsTally
  BY DEF TallyInv, RejectionsTally, Tally, GivenUp
<1> QED
  BY <1>1, <1>2, <1>3, InvHolds, PTL DEF Spec

-----------------------------------------------------------------------------
(* The splits of a finished run.                                            *)

\* What a run has written so far is what it accepted.
SplitsAreParts ==
    /\ phase \in {"dev", "test", "unlink", "done"} => train = TrainPart(accepted)
    /\ phase \in {"test", "unlink", "done"} => dev = DevPart(accepted)

\* Train and dev, as parts of rows with distinct ids, share no id.
LEMMA PartsAreDisjoint ==
    ASSUME NEW S, NEW rows \in Seq(S), DistinctIds(rows)
    PROVE  /\ IdsOf(TrainPart(rows)) \intersect IdsOf(DevPart(rows)) = {}
           /\ DistinctIds(TrainPart(rows)) /\ DistinctIds(DevPart(rows))
           /\ IdsOf(TrainPart(rows)) \union IdsOf(DevPart(rows)) \subseteq IdsOf(rows)
           /\ Len(TrainPart(rows)) + Len(DevPart(rows)) <= Len(rows)
<1> DEFINE n == Len(rows)
           t == NTrain(n)
           d == NDev(n)
<1>1. n \in Nat /\ DOMAIN rows = 1..n
  BY LenProperties
<1>2. t \in Nat /\ d \in Nat /\ t + d <= n
  BY <1>1, PartsFit
<1> HIDE DEF n, t, d
<1>3. /\ TrainPart(rows) = SubSeq(rows, 1, t)
      /\ DevPart(rows) = SubSeq(rows, t + 1, t + d)
  BY DEF TrainPart, DevPart, n, t, d
<1>4. /\ Len(TrainPart(rows)) = t /\ DOMAIN TrainPart(rows) = 1..t
      /\ \A i \in 1..t : TrainPart(rows)[i] = rows[i]
  <2>1. t \in 0..Len(rows)
    BY <1>1, <1>2 DEF n
  <2> QED
    BY <1>3, <2>1, BeginningIsSeq, LenProperties
<1>5. /\ Len(DevPart(rows)) = d /\ DOMAIN DevPart(rows) = 1..d
      /\ \A i \in 1..d : DevPart(rows)[i] = rows[t + i]
  <2> DEFINE a == t + 1
             b == t + d
  <2>1. \A i \in a..b : rows[i] \in S
    BY <1>1, <1>2, ElementOfSeq DEF n
  <2>2. a \in Int /\ b \in Int /\ DevPart(rows) = SubSeq(rows, a, b)
    BY <1>2, <1>3
  <2> HIDE DEF a, b
  <2>3. /\ DevPart(rows) \in Seq(S)
        /\ Len(DevPart(rows)) = IF a <= b THEN b - a + 1 ELSE 0
        /\ \A i \in 1..(b - a + 1) : DevPart(rows)[i] = rows[a + i - 1]
    BY <2>1, <2>2, SubSeqProperties
  <2>4. Len(DevPart(rows)) = d
    BY <1>2, <2>3 DEF a, b
  <2>5. \A i \in 1..d : i \in 1..(b - a + 1) /\ a + i - 1 = t + i
    BY <1>2 DEF a, b
  <2> QED
    BY <2>3, <2>4, <2>5, LenProperties
<1>6. \A i \in 1..t, j \in 1..d : rows[i].id # rows[t + j].id
  <2> SUFFICES ASSUME NEW i \in 1..t, NEW j \in 1..d, rows[i].id = rows[t + j].id
               PROVE  FALSE
    OBVIOUS
  <2>1. i \in DOMAIN rows /\ t + j \in DOMAIN rows /\ i # t + j
    BY <1>1, <1>2
  <2> QED
    BY <2>1 DEF DistinctIds
<1>7. IdsOf(TrainPart(rows)) \intersect IdsOf(DevPart(rows)) = {}
  BY <1>4, <1>5, <1>6 DEF IdsOf
<1>8. \A j \in 1..d : t + j \in DOMAIN rows
  BY <1>1, <1>2
<1>9. \A i \in 1..t : i \in DOMAIN rows
  BY <1>1, <1>2
<1>10. DistinctIds(TrainPart(rows)) /\ IdsOf(TrainPart(rows)) \subseteq IdsOf(rows)
  BY <1>4, <1>9 DEF DistinctIds, IdsOf
<1>11. IdsOf(DevPart(rows)) \subseteq IdsOf(rows)
  BY <1>5, <1>8 DEF IdsOf
<1>12. DistinctIds(DevPart(rows))
  <2> SUFFICES ASSUME NEW i \in 1..d, NEW j \in 1..d, rows[t + i].id = rows[t + j].id
               PROVE  i = j
    BY <1>5 DEF DistinctIds
  <2>1. t + i = t + j
    BY <1>8 DEF DistinctIds
  <2> QED
    BY <1>2, <2>1
<1> QED
  BY <1>2, <1>4, <1>5, <1>7, <1>10, <1>11, <1>12 DEF n

LEMMA SplitsArePartsStep == SplitsAreParts /\ [Next]_vars => SplitsAreParts'
<1> SUFFICES ASSUME SplitsAreParts, [Next]_vars
             PROVE  SplitsAreParts'
  OBVIOUS
<1> USE DEF SplitsAreParts
<1>1. CASE \E resume \in BOOLEAN : Start(resume)
  BY <1>1 DEF Start
<1>2. CASE \E f \in Slots : Worker(f) \/ Collect(f)
  <2>1. PICK f \in Slots : Worker(f) \/ Collect(f)
    BY <1>2
  <2>2. CASE Worker(f)
    BY <2>2 DEF Worker, Begin, AttemptRejected, AttemptVerified, splits, memory
  <2>3. CASE Collect(f)
    BY <2>3 DEF Collect, CollectRejected, CollectAccepted, CollectRaises, Collecting,
                splits
  <2> QED
    BY <2>1, <2>2, <2>3
<1>3. CASE Finish
  BY <1>3 DEF Finish, PoolDone, PoolFailed, WriteTrain, WriteDev, WriteTest,
              UnlinkPartial, splits, memory
<1>4. CASE Crashes
  BY <1>4 DEF Crashes, Crash, CrashInAppend, CrashInSplit
<1>5. CASE UNCHANGED vars
  BY <1>5 DEF vars, splits, memory
<1> QED
  BY <1>1, <1>2, <1>3, <1>4, <1>5 DEF Next

\* A finished run leaves a train and a dev split of its own accepted rows that share
\* no id (expand.py:421-426).
THEOREM SplitsStayDisjoint == Spec => []PublishedSplitsAreDisjoint
<1>1. Init => SplitsAreParts
  BY DEF Init, SplitsAreParts
<1>2. Spec => []SplitsAreParts
  BY <1>1, SplitsArePartsStep, PTL DEF Spec
<1>3. Inv /\ SplitsAreParts => PublishedSplitsAreDisjoint
  <2> SUFFICES ASSUME Inv, SplitsAreParts, phase \in {"unlink", "done"}
               PROVE  PublishedSplitsAreDisjoint
    BY DEF PublishedSplitsAreDisjoint
  <2>1. /\ accepted \in Seq(Row) /\ DistinctIds(accepted)
        /\ IdsOf(accepted) \subseteq seen
    BY DEF Inv, TypeOK, UniqueIds
  <2>2. train = TrainPart(accepted) /\ dev = DevPart(accepted)
    BY DEF SplitsAreParts
  <2>3. /\ IdsOf(train) \intersect IdsOf(dev) = {}
        /\ DistinctIds(train) /\ DistinctIds(dev)
        /\ IdsOf(train) \union IdsOf(dev) \subseteq IdsOf(accepted)
        /\ Len(train) + Len(dev) <= Len(accepted)
    BY <2>1, <2>2, PartsAreDisjoint
  <2> QED
    BY <2>1, <2>3 DEF PublishedSplitsAreDisjoint
<1> QED
  BY <1>2, <1>3, InvHolds, PTL

-----------------------------------------------------------------------------
\* When lines are written whole, the partial file always ends with a newline, which is
\* why no append is glued to anything.
Whole ==
    /\ partial.tail = "clean"
    /\ AcceptedIsRecoverable

\* What is shuffled at the end of a run is what the partial file holds.
LEMMA WholeShuffleStep ==
    ASSUME TypeOK, Whole, PoolDone
    PROVE  Whole'
<1>1. phase = "running" /\ phase' = "train" /\ accepted' \in Shuffles(accepted)
  BY DEF PoolDone
<1>2. partial' = partial /\ partial.rows = accepted
  BY <1>1 DEF PoolDone, Whole, AcceptedIsRecoverable
<1> QED
  BY <1>1, <1>2 DEF Whole, AcceptedIsRecoverable

LEMMA WholeStep ==
    ASSUME TornWrites = FALSE, Inv, Whole, [Next]_vars
    PROVE  Whole'
<1>1. TypeOK /\ IsFiniteSet(seen) /\ partial \in FilesOf(Row)
  BY DEF Inv, TypeOK
<1>2. CASE \E resume \in BOOLEAN : Start(resume)
  <2>1. PICK resume \in BOOLEAN : Start(resume)
    BY <1>2
  <2>2. partial'.tail = "clean"
    BY <2>1 DEF Start, EmptyFile, Whole
  <2> QED
    BY <2>1, <2>2 DEF Start, Whole, AcceptedIsRecoverable
<1>3. CASE \E f \in Slots : Worker(f) \/ CollectRejected(f) \/ CollectRaises(f)
  BY <1>3 DEF Whole, AcceptedIsRecoverable, Worker, Begin, AttemptRejected,
      AttemptVerified, CollectRejected, CollectRaises, Collecting, splits, memory
<1>4. CASE \E f \in Slots : CollectAccepted(f)
  <2>1. PICK f \in Slots : CollectAccepted(f)
    BY <1>4
  <2>2. /\ phase = "running" /\ phase' = "running" /\ reply[f] # NoReply
        /\ accepted' = Append(accepted, AdmittedRow(f))
        /\ partial' = AppendLines(partial, <<AdmittedRow(f)>>)
    BY <2>1 DEF CollectAccepted, Collecting
  <2>3. AdmittedRow(f) \in Row
    BY <1>1, <2>2, AdmittedRowIsNew
  <2>4. partial.rows = accepted /\ partial.tail = "clean"
    BY <2>2 DEF Whole, AcceptedIsRecoverable
  <2>5. partial'.tail = "clean" /\ partial'.rows = Append(partial.rows, AdmittedRow(f))
    BY <1>1, <2>2, <2>3, <2>4, AppendOneLine
  <2> QED
    BY <2>2, <2>4, <2>5 DEF Whole, AcceptedIsRecoverable
<1>5. CASE PoolDone
  BY <1>1, <1>5, WholeShuffleStep
<1>6. CASE PoolFailed \/ WriteTrain \/ WriteDev \/ WriteTest
  BY <1>6 DEF Whole, AcceptedIsRecoverable, PoolFailed, WriteTrain, WriteDev, WriteTest,
      splits, memory
<1>7. CASE UnlinkPartial
  BY <1>7 DEF Whole, AcceptedIsRecoverable, UnlinkPartial, EmptyFile
<1>8. CASE Crash \/ CrashInSplit
  BY <1>8 DEF Whole, AcceptedIsRecoverable, Crash, CrashInSplit
<1>9. CASE \E f \in Slots : CrashInAppend(f)
  <2>1. PICK f \in Slots : CrashInAppend(f)
    BY <1>9
  <2>2. /\ phase' = "dead" /\ reply[f] # NoReply
        /\ partial' \in CutAppends(partial, <<AdmittedRow(f)>>, FALSE)
    BY <2>1 DEF CrashInAppend
  <2>3. AdmittedRow(f) \in Row
    BY <1>1, <2>2, AdmittedRowIsNew
  <2>4. partial'.tail = "clean"
    BY <1>1, <2>2, <2>3, WholeCutIsWhole DEF Whole
  <2> QED
    BY <2>2, <2>4 DEF Whole, AcceptedIsRecoverable
<1>10. CASE UNCHANGED vars
  BY <1>10 DEF vars, memory, Whole, AcceptedIsRecoverable
<1> QED
  BY <1>2, <1>3, <1>4, <1>5, <1>6, <1>7, <1>8, <1>9, <1>10
  DEF Next, Collect, Finish, Crashes

\* As long as its run is not over, every accepted row can be read back from the
\* partial file (expand.py:403), when no crash cuts a line in the middle.
THEOREM AcceptedStaysRecoverable ==
    ASSUME TornWrites = FALSE
    PROVE  Spec => []AcceptedIsRecoverable
<1>1. Init => Whole
  BY DEF Init, EmptyFile, Whole, AcceptedIsRecoverable
<1>2. Inv /\ Whole /\ [Next]_vars => Whole'
  BY WholeStep
<1>3. Whole => AcceptedIsRecoverable
  BY DEF Whole
<1> QED
  BY <1>1, <1>2, <1>3, InvHolds, PTL DEF Spec

-----------------------------------------------------------------------------
(* How many rows a seed has.                                                *)

LEMMA CountIsNat ==
    ASSUME NEW rows \in Seq(Row), NEW s
    PROVE  /\ IsFiniteSet({i \in DOMAIN rows : rows[i].seed = s})
           /\ RowsOfSeed(rows, s) \in Nat
<1>1. DOMAIN rows = 1..Len(rows) /\ Len(rows) \in Nat
  BY LenProperties
<1>2. IsFiniteSet(1..Len(rows))
  BY <1>1, FS_Interval
<1>3. IsFiniteSet({i \in DOMAIN rows : rows[i].seed = s})
  BY <1>1, <1>2, FS_Subset
<1> QED
  BY <1>3, FS_CardinalityType DEF RowsOfSeed

LEMMA CountAppend ==
    ASSUME NEW rows \in Seq(Row), NEW row \in Row, NEW s
    PROVE  RowsOfSeed(Append(rows, row), s) =
                IF row.seed = s THEN RowsOfSeed(rows, s) + 1 ELSE RowsOfSeed(rows, s)
<1> DEFINE n == Len(rows)
           before == {i \in DOMAIN rows : rows[i].seed = s}
           after == {i \in DOMAIN Append(rows, row) : Append(rows, row)[i].seed = s}
<1>1. /\ n \in Nat /\ DOMAIN rows = 1..n /\ DOMAIN Append(rows, row) = 1..(n + 1)
      /\ \A i \in 1..n : Append(rows, row)[i] = rows[i]
      /\ Append(rows, row)[n + 1] = row
  BY LenProperties, AppendProperties
<1>2. 1..(n + 1) = (1..n) \union {n + 1} /\ n + 1 \notin 1..n
  BY <1>1
<1>3. after = IF row.seed = s THEN before \union {n + 1} ELSE before
  BY <1>1, <1>2
<1>4. n + 1 \notin before
  BY <1>1, <1>2
<1>5. IsFiniteSet(before)
  BY CountIsNat
<1> HIDE DEF before, after
<1>6. Cardinality(after) = IF row.seed = s THEN Cardinality(before) + 1 ELSE Cardinality(before)
  BY <1>3, <1>4, <1>5, FS_AddElement
<1> QED
  BY <1>6 DEF RowsOfSeed, before, after

LEMMA CountBeginning ==
    ASSUME NEW rows \in Seq(Row), NEW n \in 0..Len(rows), NEW s
    PROVE  RowsOfSeed(SubSeq(rows, 1, n), s) <= RowsOfSeed(rows, s)
<1> DEFINE some == {i \in DOMAIN SubSeq(rows, 1, n) : SubSeq(rows, 1, n)[i].seed = s}
           all == {i \in DOMAIN rows : rows[i].seed = s}
<1>1. /\ DOMAIN SubSeq(rows, 1, n) = 1..n /\ DOMAIN rows = 1..Len(rows) /\ Len(rows) \in Nat
      /\ \A i \in 1..n : SubSeq(rows, 1, n)[i] = rows[i]
  BY BeginningIsSeq, LenProperties
<1>2. some \in SUBSET all
  BY <1>1
<1>3. IsFiniteSet(all)
  BY CountIsNat
<1> HIDE DEF some, all
<1>4. Cardinality(some) <= Cardinality(all)
  BY <1>2, <1>3, FS_Subset
<1> QED
  BY <1>4 DEF RowsOfSeed, some, all

LEMMA CountShuffle ==
    ASSUME NEW rows \in Seq(Row), NEW shuffled \in Shuffles(rows), NEW s
    PROVE  RowsOfSeed(shuffled, s) <= RowsOfSeed(rows, s)
<1> DEFINE after == {i \in DOMAIN shuffled : shuffled[i].seed = s}
           before == {i \in DOMAIN rows : rows[i].seed = s}
<1>1. DOMAIN rows = 1..Len(rows) /\ Len(rows) \in Nat
  BY LenProperties
<1>2. PICK p \in Permutations(Len(rows)) : shuffled = [i \in 1..Len(rows) |-> rows[p[i]]]
  BY DEF Shuffles
<1>3. /\ p \in [1..Len(rows) -> 1..Len(rows)]
      /\ \A i, j \in 1..Len(rows) : p[i] = p[j] => i = j
  BY <1>2 DEF Permutations
<1>4. \A i \in after : i \in 1..Len(rows) /\ p[i] \in before
  BY <1>1, <1>2, <1>3
<1> DEFINE q == [i \in after |-> p[i]]
<1>5. q \in [after -> before]
  BY <1>4
<1>6. \A i, j \in after : q[i] = q[j] => i = j
  BY <1>3, <1>4
<1>7. IsFiniteSet(before)
  BY CountIsNat
<1> HIDE DEF after, before, q
<1>8. q \in Injection(after, before)
  BY <1>5, <1>6 DEF Injection, IsInjective
<1>9. Cardinality(after) <= Cardinality(before)
  BY <1>7, <1>8, FS_Injection
<1> QED
  BY <1>9 DEF RowsOfSeed, after, before

-----------------------------------------------------------------------------
(* The quota.  The rows of a seed and the expansions still asked of it      *)
(* never exceed expansions_per_seed together: that is what makes the skip   *)
(* of a resumed run (expand.py:205-221) right.                              *)

Asked(k) == {e \in 1..ExpansionsPerSeed :
                status[<<k, e>>] \in {"queued", "running", "finished"}}

QuotaInv ==
    /\ \A k \in 1..SeedCount :
          /\ RowsOfSeed(accepted, SeedList[k]) <= ExpansionsPerSeed
          /\ RowsOfSeed(partial.rows, SeedList[k]) <= ExpansionsPerSeed
    /\ phase = "running" => \A k \in 1..SeedCount :
          /\ RowsOfSeed(accepted, SeedList[k]) + Cardinality(Asked(k)) <= ExpansionsPerSeed
          /\ RowsOfSeed(partial.rows, SeedList[k]) <= RowsOfSeed(accepted, SeedList[k])

\* The seed file names every seed once.
SeedsAreDistinct ==
    \A j, k \in 1..SeedCount : SeedList[j] = SeedList[k] => j = k

LEMMA AskedIsFinite ==
    ASSUME NEW k
    PROVE  IsFiniteSet(Asked(k)) /\ Cardinality(Asked(k)) \in Nat
<1>1. IsFiniteSet(1..ExpansionsPerSeed)
  BY ExpandAssumption, FS_Interval
<1>2. Asked(k) \in SUBSET (1..ExpansionsPerSeed)
  BY DEF Asked
<1> QED
  BY <1>1, <1>2, FS_Subset, FS_CardinalityType

LEMMA CountOfNone == ASSUME NEW s PROVE RowsOfSeed(<< >>, s) = 0
<1>1. {i \in DOMAIN << >> : << >>[i].seed = s} = {}
  OBVIOUS
<1> QED
  BY <1>1, FS_EmptySet DEF RowsOfSeed

\* The counts of a state of the program are natural numbers.
LEMMA CountsAreNat ==
    ASSUME TypeOK, NEW k \in 1..SeedCount
    PROVE  /\ RowsOfSeed(accepted, SeedList[k]) \in Nat
           /\ RowsOfSeed(partial.rows, SeedList[k]) \in Nat
           /\ ExpansionsPerSeed \in Nat
<1>1. accepted \in Seq(Row) /\ partial.rows \in Seq(Row)
  BY DEF TypeOK, FilesOf
<1> QED
  BY <1>1, CountIsNat, ExpandAssumption

\* A resumed run asks for exactly what is missing.
LEMMA StartQuota ==
    ASSUME Inv, QuotaInv, NEW resume \in BOOLEAN, Start(resume)
    PROVE  QuotaInv'
<1>1. /\ accepted' = partial'.rows
      /\ partial' = IF resume THEN partial ELSE EmptyFile
  BY DEF Start
<1>2. TypeOK'
  BY StartInv DEF Inv
<1>3. ASSUME NEW k \in 1..SeedCount
      PROVE  RowsOfSeed(accepted', SeedList[k]) <= ExpansionsPerSeed
  <2>1. CASE partial' = EmptyFile
    BY <1>1, <2>1, CountOfNone, ExpandAssumption DEF EmptyFile
  <2>2. CASE partial' = partial
    BY <1>1, <2>2 DEF QuotaInv
  <2> QED
    BY <1>1, <2>1, <2>2
<1>4. ASSUME NEW k \in 1..SeedCount
      PROVE  RowsOfSeed(accepted', SeedList[k]) + Cardinality(Asked(k)') <= ExpansionsPerSeed
  <2> DEFINE c == RowsOfSeed(accepted', SeedList[k])
  <2>1. c \in Nat /\ ExpansionsPerSeed \in Nat /\ c <= ExpansionsPerSeed
    <3>1. accepted' \in Seq(Row)
      BY <1>2 DEF TypeOK
    <3> QED
      BY <1>3, <3>1, CountIsNat, ExpandAssumption
  <2>2. Remaining(k, accepted') = ExpansionsPerSeed - c
    BY <2>1 DEF Remaining
  <2>3. \A e \in 1..ExpansionsPerSeed :
            status'[<<k, e>>] = IF e <= ExpansionsPerSeed - c THEN "queued" ELSE "unused"
    <3>1. \A e \in 1..ExpansionsPerSeed : <<k, e>> \in Slots
      BY DEF Slots
    <3> QED
      BY <2>2, <3>1 DEF Start
  <2>4. Asked(k)' = 1..(ExpansionsPerSeed - c)
    BY <2>1, <2>3 DEF Asked
  <2>5. Cardinality(1..(ExpansionsPerSeed - c)) = ExpansionsPerSeed - c
    BY <2>1, FS_Interval
  <2> QED
    BY <2>1, <2>4, <2>5
<1>5. \A k \in 1..SeedCount : RowsOfSeed(accepted', SeedList[k]) \in Nat
  BY <1>2, CountIsNat DEF TypeOK
<1> QED
  BY <1>1, <1>3, <1>4, <1>5 DEF QuotaInv

\* Begin and the attempts leave a future among those asked for.
LEMMA WorkerQuota ==
    ASSUME Inv, QuotaInv, NEW f \in Slots, Worker(f)
    PROVE  QuotaInv'
<1>1. UNCHANGED <<phase, accepted, partial>>
  BY DEF Worker, Begin, AttemptRejected, AttemptVerified, memory
<1>2. \A k \in 1..SeedCount : Asked(k)' = Asked(k)
  <2> SUFFICES ASSUME NEW k \in 1..SeedCount, NEW e \in 1..ExpansionsPerSeed
               PROVE  status'[<<k, e>>] \in {"queued", "running", "finished"} <=>
                        status[<<k, e>>] \in {"queued", "running", "finished"}
    BY DEF Asked
  <2>1. <<k, e>> \in Slots /\ status \in [Slots -> Statuses]
    BY DEF Slots, Inv, TypeOK
  <2>2. /\ status[f] \in {"queued", "running"}
        /\ \E s \in {"running", "finished"} : status' = [status EXCEPT ![f] = s]
    BY DEF Worker, Begin, AttemptRejected, AttemptVerified
  <2> QED
    BY <2>1, <2>2
<1> QED
  BY <1>1, <1>2 DEF QuotaInv

\* A future that is not collected yet is one of those asked for, and collecting it
\* asks for one less of its seed.
LEMMA CollectedIsNotAsked ==
    ASSUME Inv, NEW f \in Slots, status[f] = "finished", NEW k \in 1..SeedCount
    PROVE  /\ f[1] = k => f[2] \in Asked(k)
           /\ status' = [status EXCEPT ![f] = "collected"] =>
                Asked(k)' = IF f[1] = k THEN Asked(k) \ {f[2]} ELSE Asked(k)
<1>1. /\ f = <<f[1], f[2]>> /\ f[1] \in 1..SeedCount /\ f[2] \in 1..ExpansionsPerSeed
      /\ \A e \in 1..ExpansionsPerSeed : <<k, e>> \in Slots
      /\ status \in [Slots -> Statuses]
  BY DEF Slots, Inv, TypeOK
<1>2. f[1] = k => f[2] \in Asked(k)
  BY <1>1 DEF Asked
<1>3. ASSUME status' = [status EXCEPT ![f] = "collected"]
      PROVE  Asked(k)' = IF f[1] = k THEN Asked(k) \ {f[2]} ELSE Asked(k)
  <2>1. \A e \in 1..ExpansionsPerSeed :
            status'[<<k, e>>] = IF f[1] = k /\ f[2] = e THEN "collected" ELSE status[<<k, e>>]
    BY <1>1, <1>3
  <2> QED
    BY <2>1 DEF Asked
<1> QED
  BY <1>2, <1>3

\* An admitted row counts for the seed of its future, and for no other.
LEMMA AdmittedCounts ==
    ASSUME Inv, SeedsAreDistinct, NEW f \in Slots, reply[f] # NoReply,
           NEW k \in 1..SeedCount, NEW rows \in Seq(Row)
    PROVE  RowsOfSeed(Append(rows, AdmittedRow(f)), SeedList[k]) =
                IF f[1] = k THEN RowsOfSeed(rows, SeedList[k]) + 1
                ELSE RowsOfSeed(rows, SeedList[k])
<1>1. AdmittedRow(f) \in Row
  BY AdmittedRowIsNew DEF Inv
<1>2. AdmittedRow(f).seed = SeedList[f[1]]
  BY DEF AdmittedRow, SeedOf
<1>3. f[1] \in 1..SeedCount
  BY DEF Slots
<1>4. AdmittedRow(f).seed = SeedList[k] <=> f[1] = k
  BY <1>2, <1>3 DEF SeedsAreDistinct
<1> QED
  BY <1>1, <1>4, CountAppend

\* The file an append or its crash leaves counts at most the admitted row more.
LEMMA PartialCounts ==
    ASSUME Inv, SeedsAreDistinct, NEW f \in Slots, reply[f] # NoReply,
           NEW k \in 1..SeedCount, NEW rows,
           \/ rows = Append(partial.rows, AdmittedRow(f))
           \/ \E n \in 0..Len(partial.rows) : rows = SubSeq(partial.rows, 1, n)
    PROVE  RowsOfSeed(rows, SeedList[k]) <=
                IF f[1] = k THEN RowsOfSeed(partial.rows, SeedList[k]) + 1
                ELSE RowsOfSeed(partial.rows, SeedList[k])
<1>1. partial.rows \in Seq(Row)
  BY DEF Inv, TypeOK, FilesOf
<1>2. RowsOfSeed(partial.rows, SeedList[k]) \in Nat
  BY <1>1, CountIsNat
<1>3. CASE rows = Append(partial.rows, AdmittedRow(f))
  BY <1>1, <1>2, <1>3, AdmittedCounts
<1>4. CASE \E n \in 0..Len(partial.rows) : rows = SubSeq(partial.rows, 1, n)
  <2>1. PICK n \in 0..Len(partial.rows) : rows = SubSeq(partial.rows, 1, n)
    BY <1>4
  <2>2. RowsOfSeed(rows, SeedList[k]) <= RowsOfSeed(partial.rows, SeedList[k])
    BY <1>1, <2>1, CountBeginning
  <2>3. RowsOfSeed(rows, SeedList[k]) \in Nat
    BY <1>1, <2>1, BeginningIsSeq, CountIsNat
  <2> QED
    BY <1>2, <2>2, <2>3
<1> QED
  BY <1>3, <1>4

LEMMA CollectQuota ==
    ASSUME Inv, QuotaInv, SeedsAreDistinct, NEW f \in Slots, Collect(f)
    PROVE  QuotaInv'
<1>1. /\ phase = "running" /\ status[f] = "finished"
      /\ status' = [status EXCEPT ![f] = "collected"]
  BY DEF Collect, CollectRejected, CollectAccepted, CollectRaises, Collecting
<1>2. TypeOK /\ TypeOK'
  BY CollectInv DEF Inv
<1>3. ASSUME NEW k \in 1..SeedCount
      PROVE  /\ Cardinality(Asked(k)) \in Nat /\ Cardinality(Asked(k)') \in Nat
             /\ Cardinality(Asked(k)') =
                    IF f[1] = k THEN Cardinality(Asked(k)) - 1 ELSE Cardinality(Asked(k))
  <2>1. /\ f[1] = k => f[2] \in Asked(k)
        /\ Asked(k)' = IF f[1] = k THEN Asked(k) \ {f[2]} ELSE Asked(k)
    BY <1>1, CollectedIsNotAsked
  <2>2. IsFiniteSet(Asked(k)) /\ Cardinality(Asked(k)) \in Nat
    BY AskedIsFinite
  <2>3. /\ IsFiniteSet(Asked(k) \ {f[2]})
        /\ f[2] \in Asked(k) =>
                Cardinality(Asked(k) \ {f[2]}) = Cardinality(Asked(k)) - 1
    BY <2>2, FS_RemoveElement
  <2>4. Cardinality(Asked(k) \ {f[2]}) \in Nat
    BY <2>3, FS_CardinalityType
  <2> QED
    BY <2>1, <2>2, <2>3, <2>4
<1>4. CASE CollectRejected(f) \/ CollectRaises(f)
  <2>1. UNCHANGED <<accepted, partial>>
    BY <1>4 DEF CollectRejected, CollectRaises
  <2>2. \A k \in 1..SeedCount : RowsOfSeed(accepted, SeedList[k]) \in Nat
    BY <1>2, CountsAreNat
  <2> QED
    BY <1>1, <1>3, <2>1, <2>2, ExpandAssumption DEF QuotaInv
<1>5. CASE CollectAccepted(f)
  <2>1. /\ reply[f] # NoReply /\ phase' = "running"
        /\ accepted' = Append(accepted, AdmittedRow(f))
        /\ partial' = AppendLines(partial, <<AdmittedRow(f)>>)
    BY <1>1, <1>5 DEF CollectAccepted
  <2>2. accepted \in Seq(Row) /\ partial \in FilesOf(Row) /\ AdmittedRow(f) \in Row
    BY <1>2, <2>1, AdmittedRowIsNew DEF Inv, TypeOK
  <2> SUFFICES ASSUME NEW k \in 1..SeedCount
               PROVE  /\ RowsOfSeed(accepted', SeedList[k]) + Cardinality(Asked(k)')
                            <= ExpansionsPerSeed
                      /\ RowsOfSeed(accepted', SeedList[k]) <= ExpansionsPerSeed
                      /\ RowsOfSeed(partial'.rows, SeedList[k]) <= ExpansionsPerSeed
                      /\ RowsOfSeed(partial'.rows, SeedList[k])
                            <= RowsOfSeed(accepted', SeedList[k])
    BY DEF QuotaInv
  <2>3. RowsOfSeed(accepted', SeedList[k]) =
            IF f[1] = k THEN RowsOfSeed(accepted, SeedList[k]) + 1
            ELSE RowsOfSeed(accepted, SeedList[k])
    BY <2>1, <2>2, AdmittedCounts
  <2>4. RowsOfSeed(partial'.rows, SeedList[k]) <=
            IF f[1] = k THEN RowsOfSeed(partial.rows, SeedList[k]) + 1
            ELSE RowsOfSeed(partial.rows, SeedList[k])
    BY <2>1, <2>2, AppendOneLine, PartialCounts
  <2>5. /\ RowsOfSeed(accepted, SeedList[k]) + Cardinality(Asked(k)) <= ExpansionsPerSeed
        /\ RowsOfSeed(partial.rows, SeedList[k]) <= RowsOfSeed(accepted, SeedList[k])
    BY <1>1 DEF QuotaInv
  <2>6. /\ RowsOfSeed(accepted, SeedList[k]) \in Nat
        /\ RowsOfSeed(partial.rows, SeedList[k]) \in Nat
        /\ ExpansionsPerSeed \in Nat
    BY <1>2, CountsAreNat
  <2>7. /\ RowsOfSeed(accepted', SeedList[k]) \in Nat
        /\ RowsOfSeed(partial'.rows, SeedList[k]) \in Nat
    BY <1>2, CountIsNat DEF TypeOK, FilesOf
  <2> QED
    BY <1>3, <2>3, <2>4, <2>5, <2>6, <2>7
<1> QED
  BY <1>4, <1>5 DEF Collect

LEMMA CrashInAppendQuota ==
    ASSUME Inv, QuotaInv, SeedsAreDistinct, NEW f \in Slots, CrashInAppend(f)
    PROVE  QuotaInv'
<1>1. /\ phase = "running" /\ phase' = "dead" /\ status[f] = "finished"
      /\ reply[f] # NoReply /\ accepted' = accepted
      /\ partial' \in CutAppends(partial, <<AdmittedRow(f)>>, TornWrites)
  BY DEF CrashInAppend, Collecting
<1>2. TypeOK /\ TypeOK'
  BY CrashInv DEF Inv, Crashes
<1>3. partial \in FilesOf(Row) /\ AdmittedRow(f) \in Row
  BY <1>1, <1>2, AdmittedRowIsNew DEF Inv, TypeOK
<1> SUFFICES ASSUME NEW k \in 1..SeedCount
             PROVE  RowsOfSeed(partial'.rows, SeedList[k]) <= ExpansionsPerSeed
  BY <1>1 DEF QuotaInv
<1>4. RowsOfSeed(partial'.rows, SeedList[k]) <=
            IF f[1] = k THEN RowsOfSeed(partial.rows, SeedList[k]) + 1
            ELSE RowsOfSeed(partial.rows, SeedList[k])
  BY <1>1, <1>3, CutAppendOfOneLine, PartialCounts
<1>5. /\ RowsOfSeed(accepted, SeedList[k]) + Cardinality(Asked(k)) <= ExpansionsPerSeed
      /\ RowsOfSeed(partial.rows, SeedList[k]) <= RowsOfSeed(accepted, SeedList[k])
  BY <1>1 DEF QuotaInv
<1>6. /\ RowsOfSeed(accepted, SeedList[k]) \in Nat
      /\ RowsOfSeed(partial.rows, SeedList[k]) \in Nat
      /\ ExpansionsPerSeed \in Nat
  BY <1>2, CountsAreNat
<1>7. RowsOfSeed(partial'.rows, SeedList[k]) \in Nat
  BY <1>2, CountIsNat DEF TypeOK, FilesOf
<1>8. Cardinality(Asked(k)) \in Nat /\ (f[1] = k => Cardinality(Asked(k)) > 0)
  <2>1. f[1] = k => f[2] \in Asked(k)
    BY <1>1, CollectedIsNotAsked
  <2>2. IsFiniteSet(Asked(k)) /\ Cardinality(Asked(k)) \in Nat
    BY AskedIsFinite
  <2>3. Cardinality(Asked(k)) = 0 => Asked(k) = {}
    BY <2>2, FS_EmptySet
  <2> QED
    BY <2>1, <2>2, <2>3
<1> QED
  BY <1>4, <1>5, <1>6, <1>7, <1>8

LEMMA FinishQuota ==
    ASSUME Inv, QuotaInv, Finish
    PROVE  QuotaInv'
<1>1. TypeOK /\ TypeOK'
  BY FinishInv DEF Inv
<1>2. CASE PoolDone
  <2>1. /\ phase' # "running" /\ partial' = partial
        /\ accepted \in Seq(Row) /\ accepted' \in Seq(Row) /\ accepted' \in Shuffles(accepted)
    BY <1>1, <1>2 DEF PoolDone, TypeOK
  <2> SUFFICES ASSUME NEW k \in 1..SeedCount
               PROVE  RowsOfSeed(accepted', SeedList[k]) <= ExpansionsPerSeed
    BY <2>1 DEF QuotaInv
  <2>2. RowsOfSeed(accepted', SeedList[k]) <= RowsOfSeed(accepted, SeedList[k])
    BY <2>1, CountShuffle
  <2>3. /\ RowsOfSeed(accepted', SeedList[k]) \in Nat
        /\ RowsOfSeed(accepted, SeedList[k]) \in Nat /\ ExpansionsPerSeed \in Nat
    BY <2>1, CountIsNat, ExpandAssumption
  <2> QED
    BY <2>2, <2>3 DEF QuotaInv
<1>3. CASE PoolFailed \/ WriteTrain \/ WriteDev \/ WriteTest
  BY <1>3 DEF QuotaInv, PoolFailed, WriteTrain, WriteDev, WriteTest, memory
<1>4. CASE UnlinkPartial
  <2>1. \A k \in 1..SeedCount : RowsOfSeed(EmptyFile.rows, SeedList[k]) <= ExpansionsPerSeed
    BY CountOfNone, ExpandAssumption DEF EmptyFile
  <2> QED
    BY <1>4, <2>1 DEF QuotaInv, UnlinkPartial, memory
<1> QED
  BY <1>2, <1>3, <1>4 DEF Finish

LEMMA QuotaStep ==
    ASSUME Inv, QuotaInv, SeedsAreDistinct, [Next]_vars
    PROVE  QuotaInv'
<1>1. CASE \E resume \in BOOLEAN : Start(resume)
  BY <1>1, StartQuota
<1>2. CASE \E f \in Slots : Worker(f) \/ Collect(f)
  BY <1>2, WorkerQuota, CollectQuota
<1>3. CASE Finish
  BY <1>3, FinishQuota
<1>4. CASE Crash \/ CrashInSplit
  BY <1>4 DEF QuotaInv, Crash, CrashInSplit, memory
<1>5. CASE \E f \in Slots : CrashInAppend(f)
  BY <1>5, CrashInAppendQuota
<1>6. CASE UNCHANGED vars
  BY <1>6 DEF vars, memory, pool, QuotaInv, Asked
<1> QED
  BY <1>1, <1>2, <1>3, <1>4, <1>5, <1>6 DEF Next, Crashes

\* The quota is kept in every state, if no two seeds share an id.
LEMMA QuotaInvHolds ==
    ASSUME SeedsAreDistinct
    PROVE  Spec => []QuotaInv
<1>1. Init => QuotaInv
  BY CountOfNone, ExpandAssumption DEF Init, QuotaInv, EmptyFile
<1>2. Inv /\ QuotaInv /\ [Next]_vars => QuotaInv'
  BY QuotaStep
<1> QED
  BY <1>1, <1>2, InvHolds, PTL DEF Spec

\* No seed ever gets more variants than expansions_per_seed, over however many killed
\* and resumed runs, torn lines included, if no two seeds share an id.
THEOREM QuotaIsKept ==
    ASSUME SeedsAreDistinct
    PROVE  Spec => []QuotaPerSeed
<1>1. QuotaInv => QuotaPerSeed
  BY DEF QuotaInv, QuotaPerSeed
<1> QED
  BY <1>1, QuotaInvHolds, PTL

-----------------------------------------------------------------------------
(* The expansions add up.  A seed with c rows leaves the last c of its      *)
(* slots unused, so at the start of a run there are as many unused slots as *)
(* rows; after that, each future that leaves the pool is a row or a         *)
(* rejection.                                                               *)

\* Every row was made from a seed of the seed file.
NamesSeeds(rows) == \A i \in DOMAIN rows : \E k \in 1..SeedCount : rows[i].seed = SeedList[k]

AccountInv ==
    /\ NamesSeeds(accepted) /\ NamesSeeds(partial.rows)
    /\ EveryExpansionAccounted

\* There are expansions_per_seed slots for each seed.
LEMMA SlotsAreCounted ==
    /\ SeedCount \in Nat /\ SeedCount * ExpansionsPerSeed \in Nat
    /\ IsFiniteSet(Slots)
    /\ Cardinality(Slots) = SeedCount * ExpansionsPerSeed
<1>1. SeedCount \in Nat /\ ExpansionsPerSeed \in Nat
  BY ExpandAssumption, LenProperties DEF SeedCount
<1>2. /\ IsFiniteSet(1..SeedCount) /\ Cardinality(1..SeedCount) = SeedCount
      /\ IsFiniteSet(1..ExpansionsPerSeed)
      /\ Cardinality(1..ExpansionsPerSeed) = ExpansionsPerSeed
  BY <1>1, FS_Interval
<1>3. /\ IsFiniteSet(Slots)
      /\ Cardinality(Slots) = Cardinality(1..SeedCount) * Cardinality(1..ExpansionsPerSeed)
  BY <1>2, FS_Product DEF Slots
<1> QED
  BY <1>1, <1>2, <1>3

\* As many slots lie beyond what remains to be asked for as there are rows: number the
\* rows of each seed, and give each the slot counted back from the last.
LEMMA UsedSlotsAreRows ==
    ASSUME SeedsAreDistinct, NEW rows \in Seq(Row), NamesSeeds(rows),
           \A k \in 1..SeedCount : RowsOfSeed(rows, SeedList[k]) <= ExpansionsPerSeed
    PROVE  Len(rows) + Cardinality({f \in Slots : f[2] <= Remaining(f[1], rows)}) =
                SeedCount * ExpansionsPerSeed
<1> DEFINE E == ExpansionsPerSeed
           RowsOf(k) == {i \in DOMAIN rows : rows[i].seed = SeedList[k]}
           c(k) == RowsOfSeed(rows, SeedList[k])
           Number == [k \in 1..SeedCount |-> CHOOSE g : g \in Bijection(1..c(k), RowsOf(k))]
           asked == {f \in Slots : f[2] <= Remaining(f[1], rows)}
           used == {f \in Slots : f[2] > E - c(f[1])}
           RowAt == [f \in used |-> Number[f[1]][E + 1 - f[2]]]
<1>1. DOMAIN rows = 1..Len(rows) /\ Len(rows) \in Nat /\ E \in Nat
  BY LenProperties, ExpandAssumption
<1>2. \A k \in 1..SeedCount : c(k) \in Nat /\ c(k) <= E
  BY CountIsNat
<1>3. \A k \in 1..SeedCount : Number[k] \in Bijection(1..c(k), RowsOf(k))
  <2> SUFFICES ASSUME NEW k \in 1..SeedCount
               PROVE  \E g : g \in Bijection(1..c(k), RowsOf(k))
    OBVIOUS
  <2>1. IsFiniteSet(RowsOf(k)) /\ c(k) = Cardinality(RowsOf(k))
    BY CountIsNat DEF RowsOfSeed
  <2> QED
    BY <2>1, FS_CardinalityType DEF ExistsBijection
<1>4. /\ \A f \in Slots : f = <<f[1], f[2]>> /\ f[1] \in 1..SeedCount /\ f[2] \in 1..E
      /\ \A k \in 1..SeedCount, e \in 1..E : <<k, e>> \in Slots
  BY DEF Slots
<1> HIDE DEF Number, RowsOf, c, E
<1>5. \A k \in 1..SeedCount :
        /\ \A j \in 1..c(k) : Number[k][j] \in RowsOf(k)
        /\ \A j, m \in 1..c(k) : Number[k][j] = Number[k][m] => j = m
        /\ \A i \in RowsOf(k) : \E j \in 1..c(k) : Number[k][j] = i
  BY <1>3 DEF Bijection, Injection, Surjection, IsInjective
<1>6. \A f \in used :
        /\ f = <<f[1], f[2]>> /\ f[1] \in 1..SeedCount
        /\ f[2] \in Nat /\ E + 1 - f[2] \in 1..c(f[1])
  BY <1>1, <1>2, <1>4
<1> HIDE DEF used
<1>7. RowAt \in [used -> DOMAIN rows]
  BY <1>5, <1>6 DEF RowsOf
<1>8. \A f, g \in used : RowAt[f] = RowAt[g] => f = g
  <2> SUFFICES ASSUME NEW f \in used, NEW g \in used,
                      Number[f[1]][E + 1 - f[2]] = Number[g[1]][E + 1 - g[2]]
               PROVE  f = g
    OBVIOUS
  <2>1. Number[f[1]][E + 1 - f[2]] \in RowsOf(f[1]) /\ Number[g[1]][E + 1 - g[2]] \in RowsOf(g[1])
    BY <1>5, <1>6
  <2>2. f[1] = g[1]
    BY <1>6, <2>1 DEF RowsOf, SeedsAreDistinct
  <2>3. E + 1 - f[2] = E + 1 - g[2]
    BY <1>5, <1>6, <2>2
  <2> QED
    BY <1>1, <1>6, <2>2, <2>3, SMTT(60)
<1>9. \A i \in DOMAIN rows : \E f \in used : RowAt[f] = i
  <2> SUFFICES ASSUME NEW i \in DOMAIN rows
               PROVE  \E f \in used : Number[f[1]][E + 1 - f[2]] = i
    OBVIOUS
  <2>1. PICK k \in 1..SeedCount : i \in RowsOf(k)
    BY DEF NamesSeeds, RowsOf
  <2>2. PICK j \in 1..c(k) : Number[k][j] = i
    BY <1>5, <2>1
  <2>3. E + 1 - j \in 1..E /\ E + 1 - j > E - c(k) /\ E + 1 - (E + 1 - j) = j
    BY <1>1, <1>2, <2>2
  <2>4. <<k, E + 1 - j>> \in used
    BY <1>4, <2>3 DEF used
  <2> QED
    BY <2>2, <2>3, <2>4
<1>10. RowAt \in Bijection(used, DOMAIN rows)
  <2> HIDE DEF RowAt
  <2> QED
    BY <1>7, <1>8, <1>9 DEF Bijection, Injection, Surjection, IsInjective
<1>11. IsFiniteSet(used)
  BY SlotsAreCounted, FS_Subset DEF used
<1>12. Cardinality(used) = Len(rows)
  <2>1. Cardinality(DOMAIN rows) = Cardinality(used)
    BY <1>10, <1>11, FS_Bijection DEF ExistsBijection
  <2>2. Cardinality(DOMAIN rows) = Len(rows)
    BY <1>1, FS_Interval, SMTT(60)
  <2> QED
    BY <2>1, <2>2
<1>13. asked = Slots \ used
  <2>1. \A k \in 1..SeedCount : Remaining(k, rows) = E - c(k)
    BY <1>1, <1>2 DEF Remaining, c, E
  <2> QED
    BY <1>1, <1>2, <1>4, <2>1 DEF used
<1>14. Cardinality(asked) = Cardinality(Slots) - Cardinality(used)
  <2>1. used \subseteq Slots
    BY DEF used
  <2>2. Slots \cap used = used
    BY <2>1
  <2>3. Cardinality(Slots \ used) = Cardinality(Slots) - Cardinality(Slots \cap used)
    BY SlotsAreCounted, FS_Difference
  <2> QED
    BY <1>13, <2>2, <2>3
<1> QED
  BY <1>1, <1>12, <1>14, SlotsAreCounted

\* A shuffle, a beginning and an appended row keep to the seeds of the seed file.
LEMMA NamesSeedsKept ==
    ASSUME NEW rows \in Seq(Row), NamesSeeds(rows)
    PROVE  /\ \A shuffled \in Shuffles(rows) : NamesSeeds(shuffled)
           /\ \A n \in 0..Len(rows) : NamesSeeds(SubSeq(rows, 1, n))
           /\ \A f \in Slots : AdmittedRow(f) \in Row => NamesSeeds(Append(rows, AdmittedRow(f)))
<1>1. DOMAIN rows = 1..Len(rows) /\ Len(rows) \in Nat
  BY LenProperties
<1>2. ASSUME NEW shuffled \in Shuffles(rows)
      PROVE  NamesSeeds(shuffled)
  <2>1. PICK p \in [1..Len(rows) -> 1..Len(rows)] :
            shuffled = [i \in 1..Len(rows) |-> rows[p[i]]]
    BY DEF Shuffles, Permutations
  <2> QED
    BY <1>1, <2>1 DEF NamesSeeds
<1>3. ASSUME NEW n \in 0..Len(rows)
      PROVE  NamesSeeds(SubSeq(rows, 1, n))
  <2>1. DOMAIN SubSeq(rows, 1, n) = 1..n /\ \A i \in 1..n : SubSeq(rows, 1, n)[i] = rows[i]
    BY BeginningIsSeq, LenProperties
  <2> QED
    BY <1>1, <2>1 DEF NamesSeeds
<1>4. ASSUME NEW f \in Slots, AdmittedRow(f) \in Row
      PROVE  NamesSeeds(Append(rows, AdmittedRow(f)))
  <2> DEFINE row == AdmittedRow(f)
  <2>1. f[1] \in 1..SeedCount /\ row.seed = SeedList[f[1]]
    BY DEF Slots, AdmittedRow, SeedOf
  <2> HIDE DEF row
  <2>2. /\ DOMAIN Append(rows, row) = 1..(Len(rows) + 1)
        /\ \A i \in 1..Len(rows) : Append(rows, row)[i] = rows[i]
        /\ Append(rows, row)[Len(rows) + 1] = row
    BY <1>4, LenProperties, AppendProperties DEF row
  <2>3. \A i \in 1..(Len(rows) + 1) : i \in 1..Len(rows) \/ i = Len(rows) + 1
    BY <1>1
  <2>4. NamesSeeds(Append(rows, row))
    BY <1>1, <2>1, <2>2, <2>3 DEF NamesSeeds
  <2> QED
    BY <2>4 DEF row
<1> QED
  BY <1>2, <1>3, <1>4

\* The start of a run asks for what its rows leave to ask for.
LEMMA StartAccounts ==
    ASSUME Inv, QuotaInv, AccountInv, SeedsAreDistinct, NEW resume \in BOOLEAN, Start(resume)
    PROVE  AccountInv'
<1>1. /\ accepted' = partial'.rows /\ rejected' = 0 /\ phase' = "running"
      /\ partial' = IF resume THEN partial ELSE EmptyFile
      /\ status' = [f \in Slots |->
                    IF f[2] <= Remaining(f[1], accepted') THEN "queued" ELSE "unused"]
  BY DEF Start
<1>2. accepted' \in Seq(Row)
  BY StartInv DEF Inv, TypeOK
<1>3. NamesSeeds(partial'.rows)
  BY <1>1 DEF AccountInv, NamesSeeds, EmptyFile
<1>4. \A k \in 1..SeedCount : RowsOfSeed(accepted', SeedList[k]) <= ExpansionsPerSeed
  BY StartQuota DEF QuotaInv
<1>5. Outstanding' = {f \in Slots : f[2] <= Remaining(f[1], accepted')}
  BY <1>1 DEF Outstanding
<1>6. Len(accepted') + Cardinality(Outstanding') = SeedCount * ExpansionsPerSeed
  BY <1>1, <1>2, <1>3, <1>4, <1>5, UsedSlotsAreRows
<1>7. Len(accepted') \in Nat
  BY <1>2, LenProperties
<1>8. Len(accepted') + rejected' + Cardinality(Outstanding') = SeedCount * ExpansionsPerSeed
  BY <1>1, <1>6, <1>7
<1> QED
  BY <1>1, <1>3, <1>8 DEF AccountInv, EveryExpansionAccounted

\* A future that is collected leaves the pool.
LEMMA CollectedLeavesThePool ==
    ASSUME Inv, NEW f \in Slots, status[f] = "finished",
           status' = [status EXCEPT ![f] = "collected"]
    PROVE  /\ Cardinality(Outstanding) \in Nat /\ Cardinality(Outstanding') \in Nat
           /\ Cardinality(Outstanding) = Cardinality(Outstanding') + 1
<1>1. status \in [Slots -> Statuses]
  BY DEF Inv, TypeOK
<1>2. f \in Outstanding /\ Outstanding' = Outstanding \ {f}
  BY <1>1 DEF Outstanding
<1>3. Outstanding \in SUBSET Slots
  BY DEF Outstanding
<1>4. IsFiniteSet(Outstanding)
  BY <1>3, SlotsAreCounted, FS_Subset
<1>5. /\ IsFiniteSet(Outstanding \ {f})
      /\ Cardinality(Outstanding \ {f}) = Cardinality(Outstanding) - 1
  BY <1>2, <1>4, FS_RemoveElement
<1>6. Cardinality(Outstanding) \in Nat /\ Cardinality(Outstanding \ {f}) \in Nat
  BY <1>4, <1>5, FS_CardinalityType
<1> QED
  BY <1>2, <1>5, <1>6

LEMMA CollectAccounts ==
    ASSUME Inv, AccountInv, NEW f \in Slots, Collect(f)
    PROVE  AccountInv'
<1>1. /\ phase = "running" /\ status[f] = "finished"
      /\ status' = [status EXCEPT ![f] = "collected"]
  BY DEF Collect, CollectRejected, CollectAccepted, CollectRaises, Collecting
<1>2. /\ Cardinality(Outstanding) \in Nat /\ Cardinality(Outstanding') \in Nat
      /\ Cardinality(Outstanding) = Cardinality(Outstanding') + 1
  BY <1>1, CollectedLeavesThePool
<1>3. /\ accepted \in Seq(Row) /\ rejected \in Nat /\ partial \in FilesOf(Row)
      /\ partial.rows \in Seq(Row) /\ Len(accepted) \in Nat
  BY LenProperties DEF Inv, TypeOK, FilesOf
<1>4. /\ NamesSeeds(accepted) /\ NamesSeeds(partial.rows)
      /\ Len(accepted) + rejected + Cardinality(Outstanding) = SeedCount * ExpansionsPerSeed
  BY <1>1 DEF AccountInv, EveryExpansionAccounted
<1>5. CASE CollectRejected(f)
  <2>1. accepted' = accepted /\ partial' = partial /\ rejected' = rejected + 1
    BY <1>5 DEF CollectRejected
  <2>2. Len(accepted) + (rejected + 1) + Cardinality(Outstanding') = SeedCount * ExpansionsPerSeed
    BY <1>2, <1>3, <1>4
  <2> QED
    BY <1>4, <2>1, <2>2 DEF AccountInv, EveryExpansionAccounted
<1>6. CASE CollectRaises(f)
  BY <1>4, <1>6 DEF CollectRaises, AccountInv, EveryExpansionAccounted
<1>7. CASE CollectAccepted(f)
  <2>1. /\ accepted' = Append(accepted, AdmittedRow(f)) /\ rejected' = rejected
        /\ partial' = AppendLines(partial, <<AdmittedRow(f)>>) /\ reply[f] # NoReply
    BY <1>7 DEF CollectAccepted
  <2>2. AdmittedRow(f) \in Row
    BY <2>1, AdmittedRowIsNew DEF Inv
  <2>3. NamesSeeds(accepted') /\ Len(accepted') = Len(accepted) + 1
    BY <1>3, <1>4, <2>1, <2>2, NamesSeedsKept, AppendProperties
  <2>4. NamesSeeds(partial'.rows)
    BY <1>3, <1>4, <2>1, <2>2, AppendOneLine, NamesSeedsKept
  <2>5. Len(accepted') + rejected + Cardinality(Outstanding') = SeedCount * ExpansionsPerSeed
    BY <1>2, <1>3, <1>4, <2>3
  <2> QED
    BY <2>1, <2>3, <2>4, <2>5 DEF AccountInv, EveryExpansionAccounted
<1> QED
  BY <1>5, <1>6, <1>7 DEF Collect

LEMMA AccountStep ==
    ASSUME Inv, QuotaInv, AccountInv, SeedsAreDistinct, [Next]_vars
    PROVE  AccountInv'
<1>1. TypeOK /\ accepted \in Seq(Row) /\ partial \in FilesOf(Row) /\ partial.rows \in Seq(Row)
  BY DEF Inv, TypeOK, FilesOf
<1>2. CASE \E resume \in BOOLEAN : Start(resume)
  BY <1>2, StartAccounts
<1>3. CASE \E f \in Slots : Worker(f)
  <2>1. PICK f \in Slots : Worker(f)
    BY <1>3
  <2>2. UNCHANGED <<phase, accepted, partial, rejected>>
    BY <2>1 DEF Worker, Begin, AttemptRejected, AttemptVerified, memory
  <2>3. /\ status[f] \in {"queued", "running"} /\ status \in [Slots -> Statuses]
        /\ \E s \in {"running", "finished"} : status' = [status EXCEPT ![f] = s]
    BY <1>1, <2>1 DEF Worker, Begin, AttemptRejected, AttemptVerified, TypeOK
  <2>4. Outstanding' = Outstanding
    BY <2>3 DEF Outstanding
  <2> QED
    BY <2>2, <2>4 DEF AccountInv, EveryExpansionAccounted
<1>4. CASE \E f \in Slots : Collect(f)
  BY <1>4, CollectAccounts
<1>5. CASE PoolDone
  <2>1. /\ phase = "running" /\ accepted' \in Shuffles(accepted)
        /\ UNCHANGED <<partial, rejected, status>>
    BY <1>5 DEF PoolDone, pool
  <2>2. NamesSeeds(accepted') /\ Len(accepted') = Len(accepted)
    BY <1>1, <2>1, NamesSeedsKept, ShuffleKeepsRows DEF AccountInv
  <2>3. Outstanding' = Outstanding
    BY <2>1 DEF Outstanding
  <2>4. /\ NamesSeeds(partial.rows)
        /\ Len(accepted) + rejected + Cardinality(Outstanding) = SeedCount * ExpansionsPerSeed
    BY <2>1 DEF AccountInv, EveryExpansionAccounted
  <2>5. Len(accepted') + rejected' + Cardinality(Outstanding') = SeedCount * ExpansionsPerSeed
    BY <2>1, <2>2, <2>3, <2>4
  <2> QED
    BY <2>1, <2>2, <2>4, <2>5 DEF AccountInv, EveryExpansionAccounted
<1>6. CASE PoolFailed
  BY <1>6 DEF PoolFailed, AccountInv, EveryExpansionAccounted
<1>7. CASE WriteTrain \/ WriteDev \/ WriteTest \/ UnlinkPartial
  <2>1. /\ phase \in {"train", "dev", "test", "unlink"}
        /\ UNCHANGED <<accepted, rejected, status>>
        /\ partial' \in {partial, EmptyFile}
    BY <1>7 DEF WriteTrain, WriteDev, WriteTest, UnlinkPartial, memory, pool
  <2>2. NamesSeeds(partial'.rows)
    BY <2>1 DEF AccountInv, NamesSeeds, EmptyFile
  <2>3. Outstanding' = Outstanding
    BY <2>1 DEF Outstanding
  <2> QED
    BY <2>1, <2>2, <2>3 DEF AccountInv, EveryExpansionAccounted
<1>8. CASE Crash \/ CrashInSplit
  BY <1>8 DEF Crash, CrashInSplit, memory, AccountInv, EveryExpansionAccounted
<1>9. CASE \E f \in Slots : CrashInAppend(f)
  <2>1. PICK f \in Slots : CrashInAppend(f)
    BY <1>9
  <2>2. /\ phase' = "dead" /\ reply[f] # NoReply /\ accepted' = accepted
        /\ partial' \in CutAppends(partial, <<AdmittedRow(f)>>, TornWrites)
    BY <2>1 DEF CrashInAppend
  <2>3. AdmittedRow(f) \in Row
    BY <2>2, AdmittedRowIsNew DEF Inv
  <2>4. \/ partial'.rows = Append(partial.rows, AdmittedRow(f))
        \/ \E n \in 0..Len(partial.rows) : partial'.rows = SubSeq(partial.rows, 1, n)
    BY <1>1, <2>2, <2>3, CutAppendOfOneLine
  <2>5. NamesSeeds(partial'.rows)
    BY <1>1, <2>3, <2>4, NamesSeedsKept DEF AccountInv
  <2> QED
    BY <2>2, <2>5 DEF AccountInv, EveryExpansionAccounted
<1>10. CASE UNCHANGED vars
  BY <1>10 DEF vars, memory, pool, AccountInv, EveryExpansionAccounted, Outstanding
<1> QED
  BY <1>2, <1>3, <1>4, <1>5, <1>6, <1>7, <1>8, <1>9, <1>10 DEF Next, Finish, Crashes

\* Accepted, given up or still in the pool: in every state of a run, resumed or not,
\* the expansions add up to what was asked for, if no two seeds share an id.
THEOREM ExpansionsAddUp ==
    ASSUME SeedsAreDistinct
    PROVE  Spec => []EveryExpansionAccounted
<1>1. Init => AccountInv
  BY DEF Init, EmptyFile, AccountInv, NamesSeeds, EveryExpansionAccounted
<1>2. Inv /\ QuotaInv /\ AccountInv /\ [Next]_vars => AccountInv'
  BY AccountStep
<1>3. AccountInv => EveryExpansionAccounted
  BY DEF AccountInv
<1> QED
  BY <1>1, <1>2, <1>3, InvHolds, QuotaInvHolds, PTL DEF Spec

-----------------------------------------------------------------------------
(* The refinement.                                                          *)

\* What WriteTest wrote is still there when the partial file is unlinked.
TestIsWritten == phase = "unlink" => test = TestRows

\* All that makes a step of the code a step of the ledger.
RefinementInv == Inv /\ Whole /\ QuotaInv /\ SplitsAreParts /\ TestIsWritten

LEMMA TestIsWrittenStep == TestIsWritten /\ [Next]_vars => TestIsWritten'
BY DEF TestIsWritten, Next, vars, Start, Worker, Begin, AttemptRejected, AttemptVerified,
    Collect, CollectRejected, CollectAccepted, CollectRaises, Collecting, Finish, PoolDone,
    PoolFailed, WriteTrain, WriteDev, WriteTest, UnlinkPartial, Crashes, Crash,
    CrashInAppend, CrashInSplit, splits

LEMMA RefinementInvHolds ==
    ASSUME TornWrites = FALSE, SeedsAreDistinct
    PROVE  Spec => []RefinementInv
<1>1. Init => Whole /\ SplitsAreParts /\ TestIsWritten
  BY DEF Init, EmptyFile, Whole, AcceptedIsRecoverable, SplitsAreParts, TestIsWritten
<1>2. Inv /\ Whole /\ [Next]_vars => Whole'
  BY WholeStep
<1> QED
  BY <1>1, <1>2, SplitsArePartsStep, TestIsWrittenStep, InvHolds, QuotaInvHolds, PTL
  DEF Spec, RefinementInv

\* The two modules mean the same by a shuffle, a part and a beginning.
LEMMA SameSplit ==
    ASSUME NEW rows
    PROVE  /\ Log!Shuffles(rows) = Shuffles(rows)
           /\ Log!TrainPart(rows) = TrainPart(rows)
           /\ Log!DevPart(rows) = DevPart(rows)
           /\ Log!Prefixes(rows) = Prefixes(rows)
           /\ Log!IdsOf(rows) = IdsOf(rows)
BY DEF Log!Shuffles, Log!TrainPart, Log!DevPart, Log!Prefixes, Log!IdsOf,
    Log!Permutations, Log!NTrain, Log!NDev,
    Shuffles, TrainPart, DevPart, Prefixes, IdsOf, Permutations, NTrain, NDev

LEMMA SameCardinality == ASSUME NEW S PROVE Log!Cardinality(S) = Cardinality(S)
BY DEF Log!Cardinality, Cardinality

\* All rows are a beginning of the rows.
LEMMA WholeIsPrefix == ASSUME NEW S, NEW rows \in Seq(S) PROVE rows \in Prefixes(rows)
<1>1. Len(rows) \in 0..Len(rows) /\ SubSeq(rows, 1, Len(rows)) = rows
  BY LenProperties, SubSeqFull
<1> QED
  BY <1>1 DEF Prefixes

\* An admitted row on disk is an acknowledged row.
LEMMA AdmittedIsAcknowledged ==
    ASSUME RefinementInv, NEW f \in Slots, Collecting(f), reply[f] # NoReply,
           partial'.rows = Append(partial.rows, AdmittedRow(f)),
           UNCHANGED <<run, train, dev, test>>
    PROVE  Log!Acknowledge
<1> DEFINE row == AdmittedRow(f)
           s == SeedList[f[1]]
<1>1. TypeOK /\ IsFiniteSet(seen) /\ phase = "running" /\ status[f] = "finished"
  BY DEF RefinementInv, Inv, Collecting
<1>2. row \in Row /\ row = [id |-> row.id, seed |-> s] /\ row.id \notin seen
  <2>1. row \in Row /\ row.id \notin seen
    BY <1>1, AdmittedRowIsNew
  <2>2. row = [id |-> row.id, seed |-> s]
    BY DEF AdmittedRow, SeedOf
  <2> QED
    BY <2>1, <2>2
<1>3. partial.rows \in Seq(Row) /\ partial.rows = accepted
  BY <1>1 DEF TypeOK, FilesOf, RefinementInv, Whole, AcceptedIsRecoverable
<1>4. row.id \in IdsOf(partial'.rows) /\ row.id \notin IdsOf(partial.rows)
  <2>1. IdsOf(partial.rows) \subseteq seen
    BY <1>3 DEF RefinementInv, Inv
  <2> QED
    BY <1>2, <1>3, <2>1, AppendIsDistinct
<1>5. f[1] \in 1..SeedCount /\ s \in {SeedList[k] : k \in 1..SeedCount}
  BY DEF Slots
<1>6. RowsOfSeed(partial.rows, s) < ExpansionsPerSeed
  <2>1. f[2] \in Asked(f[1])
    BY <1>1, <1>5, CollectedIsNotAsked DEF RefinementInv
  <2>2. IsFiniteSet(Asked(f[1])) /\ Cardinality(Asked(f[1])) \in Nat
    BY AskedIsFinite
  <2>3. Cardinality(Asked(f[1])) # 0
    BY <2>1, <2>2, FS_EmptySet
  <2>4. RowsOfSeed(accepted, s) + Cardinality(Asked(f[1])) <= ExpansionsPerSeed
    BY <1>1, <1>5 DEF RefinementInv, QuotaInv
  <2>5. RowsOfSeed(accepted, s) \in Nat /\ ExpansionsPerSeed \in Nat
    BY <1>1, <1>5, CountsAreNat
  <2> QED
    BY <1>3, <2>2, <2>3, <2>4, <2>5
<1> HIDE DEF row, s
<1>7. partial'.rows = Append(partial.rows, [id |-> row.id, seed |-> s])
  BY <1>2 DEF row
<1>8. Log!Cardinality({i \in DOMAIN partial.rows : partial.rows[i].seed = s})
            < ExpansionsPerSeed
  BY <1>6, SameCardinality DEF RowsOfSeed
<1>9. row.id \in Log!IdsOf(partial'.rows) /\ row.id \notin Log!IdsOf(partial.rows)
  BY <1>4 DEF Log!IdsOf, IdsOf
<1> QED
  BY <1>5, <1>7, <1>8, <1>9 DEF Log!Acknowledge

\* Writing a split, wholly or in part, is writing a split of the ledger.
LEMMA SplitIsWritten ==
    ASSUME RefinementInv, WriteTrain \/ WriteDev \/ WriteTest \/ CrashInSplit
    PROVE  Log!WriteSplit
<1>1. phase \in {"train", "dev", "test"} /\ UNCHANGED <<partial, accepted, run>>
  BY DEF WriteTrain, WriteDev, WriteTest, CrashInSplit, memory
<1>2. accepted \in Shuffles(partial.rows) /\ accepted \in Seq(Row)
  BY <1>1 DEF RefinementInv, Whole, AcceptedIsRecoverable, Inv, TypeOK
<1>3. /\ TrainPart(accepted) \in Prefixes(TrainPart(accepted))
      /\ DevPart(accepted) \in Prefixes(DevPart(accepted))
      /\ TestRows \in Prefixes(TestRows)
  BY <1>2, SplitsType, TestRowsType, WholeIsPrefix
<1>4. \/ train' \in Prefixes(TrainPart(accepted)) /\ UNCHANGED <<dev, test>>
      \/ dev' \in Prefixes(DevPart(accepted)) /\ UNCHANGED <<train, test>>
      \/ test' \in Prefixes(TestRows) /\ UNCHANGED <<train, dev>>
  BY <1>3 DEF WriteTrain, WriteDev, WriteTest, CrashInSplit
<1> QED
  BY <1>1, <1>2, <1>4, SameSplit DEF Log!WriteSplit

\* Every step of expand_seeds is a step of the ledger or changes nothing of it.
LEMMA LedgerStep ==
    ASSUME TornWrites = FALSE, RefinementInv, [Next]_vars
    PROVE  [Log!Next]_Log!vars
<1> USE DEF Log!vars
<1>1. CASE \E resume \in BOOLEAN : Start(resume)
  <2>1. PICK resume \in BOOLEAN : Start(resume)
    BY <1>1
  <2>2. Log!Open(resume)
    BY <2>1 DEF Start, Log!Open, EmptyFile, splits
  <2> QED
    BY <2>2 DEF Log!Next
<1>2. CASE \E f \in Slots : Worker(f) \/ CollectRejected(f) \/ CollectRaises(f)
  BY <1>2 DEF Worker, Begin, AttemptRejected, AttemptVerified, CollectRejected,
              CollectRaises, splits
<1>3. CASE \E f \in Slots : CollectAccepted(f)
  <2>1. PICK f \in Slots : CollectAccepted(f)
    BY <1>3
  <2>2. /\ Collecting(f) /\ reply[f] # NoReply
        /\ partial' = AppendLines(partial, <<AdmittedRow(f)>>)
        /\ UNCHANGED <<run, train, dev, test>>
    BY <2>1 DEF CollectAccepted, splits
  <2>3. partial \in FilesOf(Row) /\ AdmittedRow(f) \in Row /\ partial.tail = "clean"
    BY <2>2, AdmittedRowIsNew DEF RefinementInv, Inv, TypeOK, Whole
  <2>4. partial'.rows = Append(partial.rows, AdmittedRow(f))
    BY <2>2, <2>3, AppendOneLine
  <2> QED
    BY <2>2, <2>4, AdmittedIsAcknowledged DEF Log!Next
<1>4. CASE PoolDone \/ PoolFailed \/ Crash
  BY <1>4 DEF PoolDone, PoolFailed, Crash, splits
<1>5. CASE WriteTrain \/ WriteDev \/ WriteTest \/ CrashInSplit
  BY <1>5, SplitIsWritten DEF Log!Next
<1>6. CASE UnlinkPartial
  <2>1. accepted \in Shuffles(partial.rows) /\ train = TrainPart(accepted)
        /\ dev = DevPart(accepted) /\ test = TestRows
    BY <1>6 DEF UnlinkPartial, RefinementInv, Whole, AcceptedIsRecoverable, SplitsAreParts,
                TestIsWritten
  <2>2. Log!Clear
    BY <1>6, <2>1, SameSplit DEF Log!Clear, UnlinkPartial, EmptyFile, splits
  <2> QED
    BY <2>2 DEF Log!Next
<1>7. CASE \E f \in Slots : CrashInAppend(f)
  <2>1. PICK f \in Slots : CrashInAppend(f)
    BY <1>7
  <2>2. /\ Collecting(f) /\ reply[f] # NoReply
        /\ partial' \in CutAppends(partial, <<AdmittedRow(f)>>, FALSE)
        /\ UNCHANGED <<run, train, dev, test>>
    BY <2>1 DEF CrashInAppend, splits
  <2>3. partial \in FilesOf(Row) /\ AdmittedRow(f) \in Row /\ partial.tail = "clean"
    BY <2>2, AdmittedRowIsNew DEF RefinementInv, Inv, TypeOK, Whole
  <2>4. partial' = partial \/ partial'.rows = Append(partial.rows, AdmittedRow(f))
    BY <2>2, <2>3, WholeCutIsWhole
  <2>5. CASE partial' = partial
    BY <2>2, <2>5
  <2>6. CASE partial'.rows = Append(partial.rows, AdmittedRow(f))
    BY <2>2, <2>6, AdmittedIsAcknowledged DEF Log!Next
  <2> QED
    BY <2>4, <2>5, <2>6
<1>8. CASE UNCHANGED vars
  BY <1>8 DEF vars, splits
<1> QED
  BY <1>1, <1>2, <1>3, <1>4, <1>5, <1>6, <1>7, <1>8
  DEF Next, Collect, Finish, Crashes

\* When lines are written whole and no two seeds share an id, expand_seeds is a
\* write-ahead log: an accepted row is acknowledged once, under an id of its own and
\* within its seed's quota, and survives crashes and resumed runs until all three
\* splits are written from exactly the acknowledged rows.
THEOREM ImplementsLedger ==
    ASSUME TornWrites = FALSE, SeedsAreDistinct
    PROVE  Spec => IsWriteAheadLog
<1>1. Init => Log!Init
  BY DEF Init, Log!Init, EmptyFile
<1>2. RefinementInv /\ [Next]_vars => [Log!Next]_Log!vars
  BY LedgerStep
<1> QED
  BY <1>1, <1>2, RefinementInvHolds, PTL DEF Spec, IsWriteAheadLog, Log!Spec
=============================================================================
