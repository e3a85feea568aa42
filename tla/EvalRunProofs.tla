---------------------------- MODULE EvalRunProofs ----------------------------
(***************************************************************************)
(* run_eval over any number of runs under one name, each killed or failing *)
(* anywhere and resumed or not, for any test file whose rows share no id:  *)
(* a report's lines line up with the test rows, no id has two readable     *)
(* results, and a streamed result is lost only to a run told to start over *)
(* or one that has written both reports, or to a line a kill cut.          *)
(***************************************************************************)
EXTENDS EvalRun, FileProofs

\* run_eval looks a result up by its trajectory_id and nothing refuses two rows
\* with one id: what follows holds of a test file that has none.
TestIdsAreDistinct ==
    \A m, n \in Rows : (TestIds[m] = TestIds[n] /\ TestIds[m] # NoId) => m = n

Entries == [id : Ids, result : Results]
InReports == phase \in {"md", "unlink", "done"}

Typed ==
    /\ partial \in FilesOf(Entries)
    /\ results \in Seq(Results)
    /\ run \in Nat
    /\ phase # "idle" => settings \in Settings
EntriesNameTheirRow ==
    \A j \in DOMAIN partial.rows : TestIds[partial.rows[j].result.row] = partial.rows[j].id
CompletedNamesItsRow ==
    \A id \in DOMAIN completed :
        completed[id] \in Results /\ id # NoId /\ TestIds[completed[id].row] = id
ResultsLineUp ==
    /\ Len(results) <= Len(TestIds)
    /\ \A n \in 1..Len(results) : results[n].row = n
    /\ InReports => Len(results) = Len(TestIds)
\* What a running process finds on the disk it has loaded or written itself.
EntriesAreKnown ==
    phase = "running" =>
        \A j \in DOMAIN partial.rows : LET id == partial.rows[j].id IN
            \/ id = NoId
            \/ id \in DOMAIN completed
            \/ \E n \in 1..Len(results) : TestIds[n] = id
\* A finished run leaves the two reports of its own results, and they agree.
ReportsAgreeWhenDone ==
    phase \in {"unlink", "done"} => json = Report /\ md = Report
ReportsAreOfResults ==
    /\ phase = "md" => json = Report
    /\ ReportsAgreeWhenDone

Inv == /\ Typed /\ EntriesNameTheirRow /\ CompletedNamesItsRow /\ ResultsLineUp
       /\ ReportGradesItsRows /\ NoRowIsGeneratedTwice /\ EntriesAreKnown
       /\ ReportsAreOfResults

-----------------------------------------------------------------------------
\* The test file is a sequence.
LEMMA TestFile == Len(TestIds) \in Nat /\ DOMAIN TestIds = Rows
BY EvalAssumption, LenProperties DEF Rows

\* A file of the invariant, cut short or not, keeps its entries where they were.
LEMMA FileRows ==
    ASSUME Typed
    PROVE  /\ partial.rows \in Seq(Entries) /\ Len(partial.rows) \in Nat
           /\ DOMAIN partial.rows = 1..Len(partial.rows)
           /\ \A j \in DOMAIN partial.rows : partial.rows[j] \in Entries
<1>1. partial.rows \in Seq(Entries)
  BY DEF Typed, FilesOf
<1> QED
  BY <1>1, LenProperties, ElementOfSeq

\* With the empty file nothing is on the disk.
LEMMA EmptyHolds ==
    /\ EmptyFile \in FilesOf(Entries)
    /\ DOMAIN EmptyFile.rows = {} /\ Len(EmptyFile.rows) = 0
BY EmptyFileType DEF EmptyFile

LEMMA InitInv == Init => Inv
<1> SUFFICES ASSUME Init
             PROVE  Inv
  OBVIOUS
<1>1. Typed
  BY EmptyHolds DEF Init, Typed
<1>2. EntriesNameTheirRow /\ NoRowIsGeneratedTwice /\ EntriesAreKnown
  BY EmptyHolds DEF Init, EntriesNameTheirRow, NoRowIsGeneratedTwice, EntriesAreKnown
<1>3. CompletedNamesItsRow
  BY DEF Init, CompletedNamesItsRow
<1>4. ResultsLineUp
  BY TestFile DEF Init, ResultsLineUp, InReports
<1>5. ReportGradesItsRows /\ ReportsAreOfResults
  BY DEF Init, ReportGradesItsRows, IsReport, ReportsAreOfResults, ReportsAgreeWhenDone
<1> QED
  BY <1>1, <1>2, <1>3, <1>4, <1>5 DEF Inv

-----------------------------------------------------------------------------
\* Where no two entries share an id, completed_by_id gives each its own result.
LEMMA CompletedByIsOwn ==
    ASSUME NEW rows \in Seq(Entries),
           \A j \in DOMAIN rows : TestIds[rows[j].result.row] = rows[j].id,
           \A j, l \in DOMAIN rows : (j # l /\ rows[j].id # NoId) => rows[j].id # rows[l].id
    PROVE  /\ \A j \in DOMAIN rows : rows[j].id = NoId \/ rows[j].id \in DOMAIN CompletedBy(rows)
           /\ \A id \in DOMAIN CompletedBy(rows) :
                /\ CompletedBy(rows)[id] \in Results
                /\ id # NoId /\ TestIds[CompletedBy(rows)[id].row] = id
<1>1. DOMAIN CompletedBy(rows) = {rows[j].id : j \in DOMAIN rows} \ {NoId}
  BY DEF CompletedBy
<1>2. ASSUME NEW id \in DOMAIN CompletedBy(rows)
      PROVE  /\ CompletedBy(rows)[id] \in Results
             /\ id # NoId /\ TestIds[CompletedBy(rows)[id].row] = id
  <2> DEFINE Last(j) == /\ rows[j].id = id
                        /\ \A l \in DOMAIN rows : rows[l].id = id => l <= j
  <2>1. PICK j \in DOMAIN rows : rows[j].id = id /\ id # NoId
    BY <1>1, <1>2
  <2>2. DOMAIN rows = 1..Len(rows) /\ Len(rows) \in Nat
    BY LenProperties
  <2>3. \A l \in DOMAIN rows : rows[l].id = id => l <= j
    BY <2>1, <2>2
  <2>4. \E l \in DOMAIN rows : Last(l)
    BY <2>1, <2>3
  <2> DEFINE latest == CHOOSE l \in DOMAIN rows : Last(l)
  <2>5. latest \in DOMAIN rows /\ rows[latest].id = id
    BY <2>4
  <2>6. CompletedBy(rows)[id] = rows[latest].result
    BY <1>1, <1>2 DEF CompletedBy
  <2>7. rows[latest] \in Entries
    BY <2>5, ElementOfSeq, <2>2
  <2> QED
    BY <2>1, <2>5, <2>6, <2>7 DEF Entries
<1> QED
  BY <1>1, <1>2

\* A run starts from what its file says, or from nothing.
LEMMA StartInv ==
    ASSUME Inv, NEW resume \in BOOLEAN, NEW chosen \in Settings, Start(resume, chosen)
    PROVE  Inv'
<1>1. /\ partial' \in {partial, EmptyFile} /\ completed' = CompletedBy(partial'.rows)
      /\ results' = << >> /\ phase' = "running" /\ settings' = chosen /\ run' = run + 1
      /\ UNCHANGED <<json, md>>
  BY DEF Start
<1>2. Typed'
  BY <1>1, EmptyHolds DEF Inv, Typed
<1>3. EntriesNameTheirRow' /\ NoRowIsGeneratedTwice'
  BY <1>1, EmptyHolds DEF Inv, EntriesNameTheirRow, NoRowIsGeneratedTwice
<1>4. partial'.rows \in Seq(Entries)
  BY <1>2 DEF Typed, FilesOf
<1>5. CompletedNamesItsRow' /\ EntriesAreKnown'
  BY <1>1, <1>3, <1>4, CompletedByIsOwn
     DEF EntriesNameTheirRow, NoRowIsGeneratedTwice, CompletedNamesItsRow, EntriesAreKnown
<1>6. ResultsLineUp'
  BY <1>1, TestFile DEF ResultsLineUp, InReports
<1>7. ReportGradesItsRows' /\ ReportsAreOfResults'
  BY <1>1 DEF Inv, ReportGradesItsRows, ReportsAreOfResults, ReportsAgreeWhenDone
<1> QED
  BY <1>2, <1>3, <1>5, <1>6, <1>7 DEF Inv

-----------------------------------------------------------------------------
\* The row being evaluated is a row of the test file.
LEMMA CurrentRow ==
    ASSUME Typed, Evaluating
    PROVE  /\ Current \in Rows /\ Current = Len(results) + 1 /\ Len(results) \in Nat
           /\ Id \in Ids /\ NewResult \in Results /\ NewEntry \in Entries
           /\ NewEntry.id = TestIds[Current] /\ NewEntry.result.row = Current
<1>1. Current \in Rows /\ Current = Len(results) + 1 /\ Len(results) \in Nat
  BY LenProperties DEF Typed, Evaluating, Current
<1>2. Id \in Ids
  BY <1>1 DEF Id, Ids
<1>3. NewResult \in Results
  BY <1>1 DEF NewResult, Results, Typed, Evaluating
<1> QED
  BY <1>1, <1>2, <1>3 DEF NewEntry, NewResult, Entries, Id

\* One more result, of the row it stands for, keeps the results lined up.
LEMMA OneMoreResult ==
    ASSUME Inv, Evaluating, NEW result \in Results, result.row = Current,
           results' = Append(results, result), phase' = "running"
    PROVE  /\ results' \in Seq(Results) /\ ResultsLineUp'
           /\ Len(results') = Len(results) + 1
<1>1. /\ results \in Seq(Results) /\ Len(results) \in Nat
      /\ Current = Len(results) + 1 /\ Current \in Rows
  BY CurrentRow DEF Inv, Typed
<1>2. /\ results' \in Seq(Results) /\ Len(results') = Len(results) + 1
      /\ \A n \in 1..Len(results) : results'[n] = results[n]
      /\ results'[Len(results) + 1] = result
  BY <1>1, AppendProperties
<1>3. \A n \in 1..Len(results') : results'[n].row = n
  <2> SUFFICES ASSUME NEW n \in 1..Len(results')
               PROVE  results'[n].row = n
    OBVIOUS
  <2>1. CASE n = Len(results) + 1
    BY <1>1, <1>2, <2>1
  <2>2. CASE n # Len(results) + 1
    <3>1. n \in 1..Len(results)
      BY <1>1, <1>2, <2>2
    <3> QED
      BY <1>2, <3>1 DEF Inv, ResultsLineUp
  <2> QED
    BY <2>1, <2>2
<1>4. Len(results') <= Len(TestIds)
  BY <1>1, <1>2, TestFile DEF Rows
<1> QED
  BY <1>2, <1>3, <1>4 DEF ResultsLineUp, InReports

\* A completed row is reported on its own line: its id names one row.
LEMMA ReuseInv ==
    ASSUME TestIdsAreDistinct, Inv, Reuse
    PROVE  Inv'
<1>1. /\ Evaluating /\ Id \in DOMAIN completed /\ results' = Append(results, completed[Id])
      /\ UNCHANGED <<partial, json, md, phase, settings, completed, run>>
      /\ phase = "running"
  BY DEF Reuse, Evaluating
<1>2. completed[Id] \in Results /\ Id # NoId /\ TestIds[completed[Id].row] = TestIds[Current]
  BY <1>1 DEF Inv, CompletedNamesItsRow, Id
<1>3. completed[Id].row = Current
  BY <1>1, <1>2, CurrentRow DEF Inv, TestIdsAreDistinct, Results, Id
<1>4. results' \in Seq(Results) /\ ResultsLineUp' /\ Len(results') = Len(results) + 1
  BY <1>1, <1>2, <1>3, OneMoreResult
<1>5. Typed' /\ EntriesNameTheirRow' /\ CompletedNamesItsRow' /\ NoRowIsGeneratedTwice'
  BY <1>1, <1>4 DEF Inv, Typed, EntriesNameTheirRow, CompletedNamesItsRow,
                    NoRowIsGeneratedTwice
<1>6. EntriesAreKnown'
  <2>1. 1..Len(results) \subseteq 1..Len(results')
    BY <1>1, <1>4, CurrentRow DEF Inv
  <2> QED
    BY <1>1, <2>1 DEF Inv, EntriesAreKnown
<1>7. ReportGradesItsRows' /\ ReportsAreOfResults'
  BY <1>1 DEF Inv, ReportGradesItsRows, ReportsAreOfResults, ReportsAgreeWhenDone
<1> QED
  BY <1>4, <1>5, <1>6, <1>7 DEF Inv

-----------------------------------------------------------------------------
\* What a file may hold after one entry was written, whole or in part.
After(rows, entry) ==
    {Append(rows, entry)} \union {SubSeq(rows, 1, n) : n \in 0..Len(rows)}

\* Its entries are those that were there, and the new one behind them all.
LEMMA AfterEntries ==
    ASSUME Typed, NEW entry \in Entries, NEW rows \in After(partial.rows, entry)
    PROVE  /\ rows \in Seq(Entries)
           /\ \A j \in DOMAIN rows :
                \/ j \in DOMAIN partial.rows /\ rows[j] = partial.rows[j]
                \/ j = Len(partial.rows) + 1 /\ rows[j] = entry
<1>1. /\ partial.rows \in Seq(Entries) /\ Len(partial.rows) \in Nat
      /\ DOMAIN partial.rows = 1..Len(partial.rows)
  BY FileRows
<1>2. CASE rows = Append(partial.rows, entry)
  <2>1. /\ rows \in Seq(Entries) /\ DOMAIN rows = 1..(Len(partial.rows) + 1)
        /\ \A j \in 1..Len(partial.rows) : rows[j] = partial.rows[j]
        /\ rows[Len(partial.rows) + 1] = entry
    BY <1>1, <1>2, AppendProperties, LenProperties
  <2> QED
    BY <1>1, <2>1
<1>3. CASE \E n \in 0..Len(partial.rows) : rows = SubSeq(partial.rows, 1, n)
  <2>1. PICK n \in 0..Len(partial.rows) : rows = SubSeq(partial.rows, 1, n)
    BY <1>3
  <2>2. /\ rows \in Seq(Entries) /\ Len(rows) = n
        /\ \A j \in 1..n : rows[j] = partial.rows[j]
    BY <1>1, <2>1, BeginningIsSeq
  <2>3. DOMAIN rows = 1..n
    BY <2>2, LenProperties
  <2> QED
    BY <1>1, <2>2, <2>3
<1> QED
  BY <1>2, <1>3 DEF After

\* Writing the entry of a row that is not there leaves no id twice.
LEMMA EntriesAfterWrite ==
    ASSUME TestIdsAreDistinct, Inv, Evaluating, Id \notin DOMAIN completed,
           partial' \in FilesOf(Entries), partial'.rows \in After(partial.rows, NewEntry)
    PROVE  EntriesNameTheirRow' /\ NoRowIsGeneratedTwice'
<1>1. /\ NewEntry.id = TestIds[Current] /\ NewEntry.result.row = Current /\ Current \in Rows
      /\ NewEntry \in Entries /\ Current = Len(results) + 1 /\ Len(results) \in Nat
      /\ NewEntry.id = Id
  BY CurrentRow DEF Inv, Id
<1>2. /\ DOMAIN partial.rows = 1..Len(partial.rows) /\ Len(partial.rows) \in Nat
      /\ \A j \in DOMAIN partial'.rows :
            \/ j \in DOMAIN partial.rows /\ partial'.rows[j] = partial.rows[j]
            \/ j = Len(partial.rows) + 1 /\ partial'.rows[j] = NewEntry
  BY <1>1, FileRows, AfterEntries DEF Inv
<1>3. \A j \in DOMAIN partial.rows : partial.rows[j].id # NoId => partial.rows[j].id # NewEntry.id
  <2> SUFFICES ASSUME NEW j \in DOMAIN partial.rows, partial.rows[j].id # NoId,
                      partial.rows[j].id = Id
               PROVE  FALSE
    BY <1>1
  <2>1. PICK n \in 1..Len(results) : TestIds[n] = Id
    BY DEF Inv, EntriesAreKnown, Evaluating
  <2>2. n \in Rows /\ n # Current
    BY <1>1, TestFile DEF Inv, ResultsLineUp, Rows
  <2> QED
    BY <1>1, <2>1, <2>2 DEF TestIdsAreDistinct
<1>4. EntriesNameTheirRow'
  BY <1>1, <1>2 DEF Inv, EntriesNameTheirRow
<1>5. NoRowIsGeneratedTwice'
  <2> SUFFICES ASSUME NEW j \in DOMAIN partial'.rows, NEW l \in DOMAIN partial'.rows,
                      j # l, partial'.rows[j].id # NoId
               PROVE  partial'.rows[j].id # partial'.rows[l].id
    BY DEF NoRowIsGeneratedTwice
  <2>1. CASE j \in DOMAIN partial.rows /\ l \in DOMAIN partial.rows
    <3>1. partial'.rows[j] = partial.rows[j] /\ partial'.rows[l] = partial.rows[l]
      BY <1>2, <2>1
    <3> QED
      BY <2>1, <3>1 DEF Inv, NoRowIsGeneratedTwice
  <2>2. CASE j \in DOMAIN partial.rows /\ l \notin DOMAIN partial.rows
    BY <1>2, <1>3, <2>2
  <2>3. CASE j \notin DOMAIN partial.rows /\ l \in DOMAIN partial.rows
    <3>1. partial'.rows[j] = NewEntry /\ partial'.rows[l] = partial.rows[l]
      BY <1>2, <2>3
    <3> QED
      BY <1>3, <2>3, <3>1
  <2>4. CASE j \notin DOMAIN partial.rows /\ l \notin DOMAIN partial.rows
    BY <1>2, <2>4
  <2> QED
    BY <2>1, <2>2, <2>3, <2>4
<1> QED
  BY <1>4, <1>5

\* The rest of the invariant is of no concern to the write of an entry.
LEMMA GenerateInv ==
    ASSUME TestIdsAreDistinct, Inv, Generate
    PROVE  Inv'
<1>1. /\ Evaluating /\ Id \notin DOMAIN completed /\ results' = Append(results, NewResult)
      /\ partial' = AppendLines(partial, <<NewEntry>>)
      /\ UNCHANGED <<json, md, phase, settings, completed, run>> /\ phase = "running"
  BY DEF Generate, Evaluating
<1>2. /\ NewEntry \in Entries /\ NewResult \in Results /\ NewResult.row = Current
      /\ NewEntry.id = TestIds[Current] /\ Current = Len(results) + 1 /\ Len(results) \in Nat
  BY <1>1, CurrentRow DEF Inv, NewEntry
<1>3. partial' \in FilesOf(Entries) /\ partial'.rows \in After(partial.rows, NewEntry)
  <2>1. partial \in FilesOf(Entries) /\ <<NewEntry>> \in Seq(Entries)
    BY <1>2 DEF Inv, Typed
  <2> QED
    BY <1>1, <1>2, <2>1, AppendLinesType, AppendOneLine, ZenonT(60) DEF After
<1>4. results' \in Seq(Results) /\ ResultsLineUp' /\ Len(results') = Len(results) + 1
  BY <1>1, <1>2, OneMoreResult
<1>5. EntriesNameTheirRow' /\ NoRowIsGeneratedTwice'
  BY <1>1, <1>3, EntriesAfterWrite
<1>6. Typed' /\ CompletedNamesItsRow'
  BY <1>1, <1>3, <1>4 DEF Inv, Typed, CompletedNamesItsRow
<1>7. EntriesAreKnown'
  <2> SUFFICES ASSUME NEW j \in DOMAIN partial'.rows
               PROVE  \/ partial'.rows[j].id = NoId
                      \/ partial'.rows[j].id \in DOMAIN completed'
                      \/ \E n \in 1..Len(results') : TestIds[n] = partial'.rows[j].id
    BY DEF EntriesAreKnown
  <2>1. CASE j \in DOMAIN partial.rows /\ partial'.rows[j] = partial.rows[j]
    <3>1. 1..Len(results) \subseteq 1..Len(results')
      BY <1>2, <1>4
    <3> QED
      BY <1>1, <2>1, <3>1 DEF Inv, EntriesAreKnown
  <2>2. CASE partial'.rows[j] = NewEntry
    <3>1. Current \in 1..Len(results')
      BY <1>2, <1>4
    <3> QED
      BY <1>2, <2>2, <3>1
  <2> QED
    BY <1>2, <1>3, <2>1, <2>2, AfterEntries DEF Inv
<1>8. ReportGradesItsRows' /\ ReportsAreOfResults'
  BY <1>1 DEF Inv, ReportGradesItsRows, ReportsAreOfResults, ReportsAgreeWhenDone
<1> QED
  BY <1>4, <1>5, <1>6, <1>7, <1>8 DEF Inv

-----------------------------------------------------------------------------
\* A process that is killed leaves what its files held, and nothing more is asked.
LEMMA KilledInv ==
    ASSUME TestIdsAreDistinct, Inv, GenerateRaises \/ Crash \/ CrashInAppend
    PROVE  Inv'
<1>1. /\ phase' = "dead" /\ phase # "idle"
      /\ UNCHANGED <<json, md, settings, completed, results, run>>
  BY DEF GenerateRaises, Crash, CrashInAppend, Killed, Evaluating
<1>2. /\ partial' \in FilesOf(Entries)
      /\ EntriesNameTheirRow' /\ NoRowIsGeneratedTwice'
  <2>1. CASE GenerateRaises \/ Crash
    <3>1. partial' = partial
      BY <2>1 DEF GenerateRaises, Crash
    <3> QED
      BY <3>1 DEF Inv, Typed, EntriesNameTheirRow, NoRowIsGeneratedTwice
  <2>2. CASE CrashInAppend
    <3>1. /\ Evaluating /\ Id \notin DOMAIN completed
          /\ partial' \in CutAppends(partial, <<NewEntry>>, TornWrites)
      BY <2>2 DEF CrashInAppend
    <3>2. NewEntry \in Entries /\ <<NewEntry>> \in Seq(Entries) /\ partial \in FilesOf(Entries)
      <4>1. NewEntry \in Entries
        BY <3>1, CurrentRow DEF Inv
      <4> QED
        BY <4>1 DEF Inv, Typed
    <3>3. partial' \in FilesOf(Entries) /\ partial'.rows \in After(partial.rows, NewEntry)
      <4>1. partial' \in FilesOf(Entries)
        BY <3>1, <3>2, CutAppendsType
      <4>2. \/ partial'.rows = Append(partial.rows, NewEntry)
            \/ \E n \in 0..Len(partial.rows) : partial'.rows = SubSeq(partial.rows, 1, n)
        BY <3>1, <3>2, CutAppendOfOneLine
      <4> QED
        BY <4>1, <4>2 DEF After
    <3> QED
      BY <3>1, <3>3, EntriesAfterWrite
  <2> QED
    BY <2>1, <2>2
<1>3. Typed' /\ CompletedNamesItsRow' /\ EntriesAreKnown'
  BY <1>1, <1>2 DEF Inv, Typed, CompletedNamesItsRow, EntriesAreKnown
<1>4. ResultsLineUp' /\ ReportGradesItsRows' /\ ReportsAreOfResults'
  BY <1>1 DEF Inv, ResultsLineUp, InReports, ReportGradesItsRows, ReportsAreOfResults,
              ReportsAgreeWhenDone
<1> QED
  BY <1>2, <1>3, <1>4 DEF Inv

\* A report is written when there is a result for every row.
LEMMA ReportInv ==
    ASSUME Inv, WriteJson \/ WriteMd \/ CrashInReport
    PROVE  Inv'
<1>1. /\ UNCHANGED <<partial, settings, completed, results, run>>
      /\ phase # "idle" /\ phase' # "running"
  BY DEF WriteJson, WriteMd, CrashInReport, Killed
<1>2. Len(results) = Len(TestIds)
  <2>1. CASE phase = "md"
    BY <2>1 DEF Inv, ResultsLineUp, InReports
  <2>2. CASE phase # "md"
    <3>1. Current \notin Rows
      BY <2>2 DEF WriteJson, WriteMd, CrashInReport
    <3>2. Len(results) \in Nat
      BY LenProperties DEF Inv, Typed
    <3> QED
      BY <3>1, <3>2, TestFile DEF Current, Rows, Inv, ResultsLineUp
  <2> QED
    BY <2>1, <2>2
<1>3. ResultsLineUp'
  BY <1>1, <1>2 DEF Inv, ResultsLineUp
<1>4. /\ Len(Report.results) = Len(TestIds)
      /\ \A n \in Rows : Report.results[n].row = n
  BY <1>2 DEF Inv, ResultsLineUp, Report, Rows
<1>5. json' \in {json, Report, Cut} /\ md' \in {md, Report, Cut}
  BY DEF WriteJson, WriteMd, CrashInReport
<1>6. ReportGradesItsRows'
  BY <1>4, <1>5 DEF Inv, ReportGradesItsRows, IsReport
<1>7. ReportsAreOfResults'
  <2>1. Report' = Report
    BY <1>1 DEF Report
  <2> QED
    BY <2>1 DEF Inv, ReportsAreOfResults, ReportsAgreeWhenDone, WriteJson, WriteMd,
                CrashInReport, Killed
<1>8. /\ Typed' /\ EntriesNameTheirRow' /\ CompletedNamesItsRow' /\ NoRowIsGeneratedTwice'
      /\ EntriesAreKnown'
  BY <1>1 DEF Inv, Typed, EntriesNameTheirRow, CompletedNamesItsRow, NoRowIsGeneratedTwice,
              EntriesAreKnown
<1> QED
  BY <1>3, <1>6, <1>7, <1>8 DEF Inv

\* The partial file is removed after both reports are written.
LEMMA UnlinkInv ==
    ASSUME Inv, UnlinkPartial
    PROVE  Inv'
<1>1. /\ partial' = EmptyFile /\ phase = "unlink" /\ phase' = "done"
      /\ UNCHANGED <<json, md, settings, completed, results, run>>
  BY DEF UnlinkPartial
<1>2. Typed' /\ EntriesNameTheirRow' /\ NoRowIsGeneratedTwice' /\ EntriesAreKnown'
  BY <1>1, EmptyHolds DEF Inv, Typed, EntriesNameTheirRow, NoRowIsGeneratedTwice,
                          EntriesAreKnown
<1>3. CompletedNamesItsRow' /\ ResultsLineUp' /\ ReportGradesItsRows'
  BY <1>1 DEF Inv, CompletedNamesItsRow, ResultsLineUp, InReports, ReportGradesItsRows
<1>4. ReportsAreOfResults'
  BY <1>1 DEF Inv, ReportsAreOfResults, ReportsAgreeWhenDone, Report
<1> QED
  BY <1>2, <1>3, <1>4 DEF Inv

LEMMA StepInv == TestIdsAreDistinct /\ Inv /\ [Next]_vars => Inv'
<1> SUFFICES ASSUME TestIdsAreDistinct, Inv, [Next]_vars
             PROVE  Inv'
  OBVIOUS
<1>1. CASE \E resume \in BOOLEAN, chosen \in Settings : Start(resume, chosen)
  BY <1>1, StartInv
<1>2. CASE Reuse
  BY <1>2, ReuseInv
<1>3. CASE Generate
  BY <1>3, GenerateInv
<1>4. CASE GenerateRaises \/ Crash \/ CrashInAppend
  BY <1>4, KilledInv
<1>5. CASE WriteJson \/ WriteMd \/ CrashInReport
  BY <1>5, ReportInv
<1>6. CASE UnlinkPartial
  BY <1>6, UnlinkInv
<1>7. CASE UNCHANGED vars
  BY <1>7 DEF vars, Inv, Typed, EntriesNameTheirRow, CompletedNamesItsRow, ResultsLineUp,
              InReports, ReportGradesItsRows, NoRowIsGeneratedTwice, EntriesAreKnown,
              ReportsAreOfResults, ReportsAgreeWhenDone, Report
<1> QED
  BY <1>1, <1>2, <1>3, <1>4, <1>5, <1>6, <1>7 DEF Next, Progress

\* The invariant holds in every state of every run.
THEOREM InvHolds == ASSUME TestIdsAreDistinct PROVE Spec => []Inv
<1>1. Init => Inv
  BY InitInv
<1>2. Inv /\ [Next]_vars => Inv'
  BY StepInv
<1> QED
  BY <1>1, <1>2, PTL DEF Spec

-----------------------------------------------------------------------------
\* Over any number of killed, failed and resumed runs, line n of either report grades
\* row n of the test file (runner.py:158-352).
THEOREM ReportsLineUp == ASSUME TestIdsAreDistinct PROVE Spec => []ReportGradesItsRows
<1>1. Inv => ReportGradesItsRows
  BY DEF Inv
<1> QED
  BY <1>1, InvHolds, PTL

\* A resumed run generates no row of which it can read a result of an earlier one
\* (runner.py:162-174, :242-246).
THEOREM NoRowIsPaidTwice == ASSUME TestIdsAreDistinct PROVE Spec => []NoRowIsGeneratedTwice
<1>1. Inv => NoRowIsGeneratedTwice
  BY DEF Inv
<1> QED
  BY <1>1, InvHolds, PTL

\* What a finished run leaves are two reports of its own results (runner.py:299-356).
THEOREM ReportsAgree == ASSUME TestIdsAreDistinct PROVE Spec => []ReportsAgreeWhenDone
<1>1. Inv => ReportsAgreeWhenDone
  BY DEF Inv, ReportsAreOfResults
<1> QED
  BY <1>1, InvHolds, PTL

-----------------------------------------------------------------------------
\* One line appended is behind the others, or glued to the last of them.
LEMMA OneLineOrGlue ==
    ASSUME NEW S, NEW f \in FilesOf(S), NEW entry \in S
    PROVE  AppendLines(f, <<entry>>).rows \in {Append(f.rows, entry), RowsUnderGlue(f)}
<1>1. f.rows \in Seq(S) /\ RowsUnderGlue(f) \in Seq(S)
  BY RowsUnderGlueType DEF FilesOf
<1>2. <<entry>> # << >> /\ Tail(<<entry>>) = << >>
  OBVIOUS
<1>3. RowsUnderGlue(f) \o Tail(<<entry>>) = RowsUnderGlue(f)
  BY <1>1, <1>2, ConcatEmptySeq
<1>4. f.rows \o <<entry>> = Append(f.rows, entry)
  BY <1>1
<1> QED
  BY <1>2, <1>3, <1>4 DEF AppendLines

\* Entries appended are behind those that were there.
LEMMA AppendOnDisk ==
    ASSUME NEW S, NEW f \in FilesOf(S), NEW g, NEW entry \in S,
           g.rows = Append(f.rows, entry)
    PROVE  OnDisk(f) \union {entry} \subseteq OnDisk(g)
<1>1. f.rows \in Seq(S) /\ Len(f.rows) \in Nat /\ DOMAIN f.rows = 1..Len(f.rows)
  BY LenProperties DEF FilesOf
<1>2. /\ DOMAIN g.rows = 1..(Len(f.rows) + 1)
      /\ \A i \in 1..Len(f.rows) : g.rows[i] = f.rows[i]
      /\ g.rows[Len(f.rows) + 1] = entry
  BY <1>1, AppendProperties, LenProperties
<1> QED
  BY <1>1, <1>2 DEF OnDisk

\* A line glued to the last one takes its entry with it, and no other.
LEMMA GlueOnDisk ==
    ASSUME NEW S, NEW f \in FilesOf(S), NEW g, g.rows = RowsUnderGlue(f)
    PROVE  OnDisk(f) \ OnDisk(g) \subseteq Unterminated(f)
<1>1. PICK n \in 0..Len(f.rows) : RowsUnderGlue(f) = SubSeq(f.rows, 1, n)
  BY RowsUnderGlueIsBeginning
<1>2. /\ g.rows \in Seq(S) /\ Len(g.rows) = n
      /\ \A i \in 1..n : g.rows[i] = f.rows[i]
  BY <1>1, BeginningIsSeq DEF FilesOf
<1>3. DOMAIN g.rows = 1..n
  BY <1>2, LenProperties
<1>4. \A j \in DOMAIN f.rows : j \in DOMAIN g.rows => f.rows[j] \in OnDisk(g)
  BY <1>2, <1>3 DEF OnDisk
<1> QED
  BY <1>4 DEF OnDisk, Unterminated

\* One entry written behind a file: everything is kept when the file was whole, and
\* otherwise the entry and the one it is glued to are what can be lost.
LEMMA WrittenEntryLost ==
    ASSUME NEW S, NEW f \in FilesOf(S), NEW g, NEW entry \in S,
           g = AppendLines(f, <<entry>>)
    PROVE  /\ g.tail = "clean"
           /\ f.tail = "clean" => (OnDisk(f) \union {entry}) \ OnDisk(g) = {}
           /\ OnDisk(f) \ OnDisk(g) \subseteq Unterminated(f)
<1>1. g.tail = "clean" /\ (f.tail = "clean" => g.rows = Append(f.rows, entry))
  BY AppendOneLine
<1>2. CASE g.rows = Append(f.rows, entry)
  BY <1>1, <1>2, AppendOnDisk
<1>3. CASE g.rows # Append(f.rows, entry)
  <2>1. g.rows = RowsUnderGlue(f) /\ f.tail # "clean"
    BY <1>1, <1>3, OneLineOrGlue
  <2> QED
    BY <1>1, <2>1, GlueOnDisk
<1> QED
  BY <1>2, <1>3

\* A process killed inside the write of an entry glues at most its piece.
LEMMA CutEntryLost ==
    ASSUME NEW S, NEW f \in FilesOf(S), NEW entry \in S, NEW torn,
           NEW g \in CutAppends(f, <<entry>>, torn)
    PROVE  /\ f.tail = "clean" => OnDisk(f) \ OnDisk(g) = {}
           /\ OnDisk(f) \ OnDisk(g) \subseteq Unterminated(f)
<1>1. g = f \/ g = AppendLines(f, <<entry>>) \/ g \in CutLine(f, entry)
  BY OneLineCut
<1>2. CASE g = f
  BY <1>2
<1>3. CASE g = AppendLines(f, <<entry>>)
  BY <1>3, WrittenEntryLost
<1>4. CASE g \in CutLine(f, entry)
  <2>1. g.rows \in {RowsUnderGlue(f), Append(f.rows, entry)}
    BY <1>4, CutLineIsFile
  <2>2. f.tail = "clean" => RowsUnderGlue(f) = f.rows
    BY DEF RowsUnderGlue
  <2>3. CASE g.rows = Append(f.rows, entry)
    BY <2>3, AppendOnDisk
  <2>4. CASE g.rows = RowsUnderGlue(f)
    <3>1. f.tail = "clean" => OnDisk(g) = OnDisk(f)
      BY <2>2, <2>4 DEF OnDisk
    <3> QED
      BY <2>4, <3>1, GlueOnDisk
  <2> QED
    BY <2>1, <2>3, <2>4
<1> QED
  BY <1>1, <1>2, <1>3, <1>4

Kept ==
    /\ Lost # {} =>
        \/ run' = run + 1 /\ partial' = EmptyFile
        \/ phase = "unlink" /\ json = Report /\ md = Report
        \/ /\ partial.tail # "clean"
           /\ Lost \subseteq Unterminated(partial) \union Streamed
           /\ partial'.tail = "clean" \/ phase' = "dead"
    /\ partial'.tail # "clean" => partial' = partial \/ phase' = "dead"

\* Every step keeps what was streamed, but for the three losses.
LEMMA KeptStep ==
    ASSUME Inv, [Next]_vars
    PROVE  Kept
<1>1. partial \in FilesOf(Entries)
  BY DEF Inv, Typed
<1>2. CASE \E resume \in BOOLEAN, chosen \in Settings : Start(resume, chosen)
  <2>1. PICK resume \in BOOLEAN, chosen \in Settings : Start(resume, chosen)
    BY <1>2
  <2>2. /\ phase # "running" /\ run' = run + 1
        /\ partial' \in {partial, EmptyFile}
    BY <2>1 DEF Start
  <2>3. Streamed = {}
    BY <2>2 DEF Streamed, Evaluating
  <2>4. EmptyFile.tail = "clean"
    BY DEF EmptyFile
  <2> QED
    BY <2>2, <2>3, <2>4 DEF Kept, Lost
<1>3. CASE Reuse
  <2>1. UNCHANGED partial /\ Id \in DOMAIN completed
    BY <1>3 DEF Reuse
  <2>2. Streamed = {}
    BY <2>1 DEF Streamed
  <2> QED
    BY <2>1, <2>2 DEF Kept, Lost
<1>4. CASE Generate
  <2>1. /\ Evaluating /\ Id \notin DOMAIN completed
        /\ partial' = AppendLines(partial, <<NewEntry>>)
        /\ results' = Append(results, NewResult)
    BY <1>4 DEF Generate
  <2>2. NewEntry \in Entries
    BY <2>1, CurrentRow DEF Inv
  <2>3. Streamed = {NewEntry}
    BY <2>1 DEF Streamed
  <2>4. /\ partial'.tail = "clean"
        /\ partial.tail = "clean" => Lost = {}
        /\ Lost \subseteq Unterminated(partial) \union Streamed
    BY <1>1, <2>1, <2>2, <2>3, WrittenEntryLost DEF Lost
  <2> QED
    BY <2>4 DEF Kept
<1>5. CASE CrashInAppend
  <2>1. /\ Evaluating /\ partial' \in CutAppends(partial, <<NewEntry>>, TornWrites)
        /\ phase' = "dead" /\ results' = results
    BY <1>5 DEF CrashInAppend, Killed
  <2>2. NewEntry \in Entries /\ results \in Seq(Results) /\ NewResult \in Results
    BY <2>1, CurrentRow DEF Inv, Typed
  <2>3. Streamed = {}
    <3>1. Len(Append(results, NewResult)) = Len(results) + 1 /\ Len(results) \in Nat
      BY <2>2, AppendProperties, LenProperties
    <3> QED
      BY <2>1, <3>1 DEF Streamed
  <2>4. /\ partial.tail = "clean" => Lost = {}
        /\ Lost \subseteq Unterminated(partial)
    BY <1>1, <2>1, <2>2, <2>3, CutEntryLost DEF Lost
  <2> QED
    BY <2>1, <2>4 DEF Kept
<1>6. CASE UnlinkPartial
  <2>1. /\ phase = "unlink" /\ json = Report /\ md = Report /\ partial' = EmptyFile
    BY <1>6 DEF UnlinkPartial, Inv, ReportsAreOfResults, ReportsAgreeWhenDone
  <2>2. EmptyFile.tail = "clean"
    BY DEF EmptyFile
  <2> QED
    BY <2>1, <2>2 DEF Kept
<1>7. CASE UNCHANGED <<partial, results>>
  <2>1. Streamed = {}
    <3>1. ASSUME Evaluating
          PROVE  results # Append(results, NewResult)
      <4>1. results \in Seq(Results) /\ NewResult \in Results
        BY <3>1, CurrentRow DEF Inv, Typed
      <4>2. Len(Append(results, NewResult)) = Len(results) + 1 /\ Len(results) \in Nat
        BY <4>1, AppendProperties, LenProperties
      <4> QED
        BY <4>2
    <3> QED
      BY <1>7, <3>1 DEF Streamed
  <2> QED
    BY <1>7, <2>1 DEF Kept, Lost
<1> QED
  BY <1>2, <1>3, <1>4, <1>5, <1>6, <1>7
     DEF Next, Progress, GenerateRaises, WriteJson, WriteMd, Crash, CrashInReport, Killed, vars

\* A streamed result stays readable but for a run told to start over, one whose reports
\* are both written, and a line a kill cut, which costs at most the entry it cut short
\* and the one appended to it (runner.py:223-229, :289-290, :354-356).
THEOREM StreamedStays == ASSUME TestIdsAreDistinct PROVE Spec => ResultsAreKept
<1>1. Inv /\ [Next]_vars => [Kept]_vars
  BY KeptStep
<1>2. ASSUME TestIdsAreDistinct PROVE Spec => [][Kept]_vars
  BY <1>1, InvHolds, PTL DEF Spec
<1> QED
  BY <1>2, PTL DEF ResultsAreKept, Kept
=============================================================================
