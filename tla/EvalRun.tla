------------------------------- MODULE EvalRun -------------------------------
(***************************************************************************)
(* run_eval of src/toyforge/eval/runner.py: every test row is generated    *)
(* for, graded, and streamed to {run_name}_partial.jsonl; the results are  *)
(* aggregated into reports/{run_name}.json and .md, and the partial file   *)
(* is removed.  A run may fail or be killed at any point and be started    *)
(* again under the same run name, with or without --resume, perhaps with   *)
(* other settings.                                                         *)
(*                                                                         *)
(* A result is reduced to its provenance: the test row it was generated    *)
(* for, the settings (adapter, model, k, temperature...) it was generated  *)
(* under, and the run that did it.  Jsonl says what a crash does to the    *)
(* partial file.                                                           *)
(***************************************************************************)
EXTENDS Naturals, Sequences, FiniteSets, Jsonl

CONSTANTS
    TestIds,    \* the trajectory_id of each row of the test file, in order
    NoId,       \* "", the id of a row that has none
    Settings,   \* settings the command may be started with
    None,       \* no report
    Cut,        \* a report whose write was cut
    TornWrites, \* may a crash leave an unterminated last line?
    MaxRuns     \* bound: runs of the command under one run name

ASSUME EvalAssumption ==
    /\ TestIds \in Seq({TestIds[n] : n \in DOMAIN TestIds})
    /\ None \notin Settings /\ Cut # None
    /\ TornWrites \in BOOLEAN
    /\ MaxRuns \in Nat

VARIABLES
    partial,   \* the partial file: a row is [id, result]
    json,      \* reports/{run_name}.json: None, Cut or [settings, results]
    md,        \* reports/{run_name}.md: the same
    phase,     \* where the process is
    settings,  \* the settings of this run
    completed, \* completed_by_id
    results,   \* greedy, sampled and sampled_finals, row by row
    run        \* number of runs started

vars == <<partial, json, md, phase, settings, completed, results, run>>

Rows == 1..Len(TestIds)
Ids == {TestIds[n] : n \in Rows}
Results == [row : Rows, settings : Settings, run : Nat]

\* Mutant: an entry without an id is kept under "".
CompletedByKeepsBlank(rows) ==
    [id \in {rows[j].id : j \in DOMAIN rows} |->
        LET Latest == CHOOSE j \in DOMAIN rows :
                        /\ rows[j].id = id
                        /\ \A l \in DOMAIN rows : rows[l].id = id => l <= j
        IN  rows[Latest].result]

\* The id, with a result, that the partial file's rows give it: the last wins, and
\* an entry without an id is not kept.
CompletedBy(rows) ==
    [id \in {rows[j].id : j \in DOMAIN rows} \ {NoId} |->
        LET Latest == CHOOSE j \in DOMAIN rows :
                        /\ rows[j].id = id
                        /\ \A l \in DOMAIN rows : rows[l].id = id => l <= j
        IN  rows[Latest].result]

Init ==
    /\ partial = EmptyFile
    /\ json = None /\ md = None
    /\ phase = "idle"
    /\ settings = None
    /\ completed = << >>
    /\ results = << >>
    /\ run = 0

\* Mutant: the partial file is appended to and not loaded.
StartForgetsCompleted(resume, chosen) ==
    /\ phase \in {"idle", "done", "dead"}
    /\ run < MaxRuns
    /\ run' = run + 1
    /\ settings' = chosen
    /\ partial' = IF resume THEN partial ELSE EmptyFile
    /\ completed' = << >>
    /\ results' = << >>
    /\ phase' = "running"
    /\ UNCHANGED <<json, md>>

Start(resume, chosen) ==
    /\ phase \in {"idle", "done", "dead"}
    /\ run < MaxRuns
    /\ run' = run + 1
    /\ settings' = chosen
    /\ partial' = IF resume THEN partial ELSE EmptyFile
    /\ completed' = CompletedBy(partial'.rows)
    /\ results' = << >>
    /\ phase' = "running"
    /\ UNCHANGED <<json, md>>

-----------------------------------------------------------------------------
Current == Len(results) + 1
Id == TestIds[Current]

Evaluating ==
    /\ phase = "running"
    /\ Current \in Rows

\* A row of an earlier run is taken from the partial file.
Reuse ==
    /\ Evaluating
    /\ Id \in DOMAIN completed
    /\ results' = Append(results, completed[Id])
    /\ UNCHANGED <<partial, json, md, phase, settings, completed, run>>

NewResult == [row |-> Current, settings |-> settings, run |-> run]
NewEntry == [id |-> Id, result |-> NewResult]

\* completed_by_id is not updated: a later row with the same id is generated too.
Generate ==
    /\ Evaluating
    /\ Id \notin DOMAIN completed
    /\ results' = Append(results, NewResult)
    /\ partial' = AppendLines(partial, <<NewEntry>>)
    /\ UNCHANGED <<json, md, phase, settings, completed, run>>

\* Mutant: a failed run cleans up its partial file.
GenerateRaisesUnlinks ==
    /\ Evaluating
    /\ Id \notin DOMAIN completed
    /\ phase' = "dead"
    /\ partial' = EmptyFile
    /\ UNCHANGED <<json, md, settings, completed, results, run>>

\* The model, the server or the verifier raises; the finally block closes the log.
GenerateRaises ==
    /\ Evaluating
    /\ Id \notin DOMAIN completed
    /\ phase' = "dead"
    /\ UNCHANGED <<partial, json, md, settings, completed, results, run>>

-----------------------------------------------------------------------------
Report == [settings |-> settings, results |-> results]

\* Mutant: the report waits for as many distinct ids as there are rows.
WriteJsonOnceAllIds ==
    /\ phase = "running"
    /\ Cardinality({TestIds[n] : n \in DOMAIN results}) = Len(TestIds)
    /\ json' = Report
    /\ phase' = "md"
    /\ UNCHANGED <<partial, md, settings, completed, results, run>>

WriteJson ==
    /\ phase = "running"
    /\ Current \notin Rows
    /\ json' = Report
    /\ phase' = "md"
    /\ UNCHANGED <<partial, md, settings, completed, results, run>>

WriteMd ==
    /\ phase = "md"
    /\ md' = Report
    /\ phase' = "unlink"
    /\ UNCHANGED <<partial, json, settings, completed, results, run>>

UnlinkPartial ==
    /\ phase = "unlink"
    /\ partial' = EmptyFile
    /\ phase' = "done"
    /\ UNCHANGED <<json, md, settings, completed, results, run>>

-----------------------------------------------------------------------------
(* The process is killed: between two steps, inside the write of an entry,   *)
(* or inside the write of a report, which has been truncated.                *)

Killed ==
    /\ phase' = "dead"
    /\ UNCHANGED <<settings, completed, results, run>>

Crash ==
    /\ phase \in {"running", "md", "unlink"}
    /\ Killed
    /\ UNCHANGED <<partial, json, md>>

CrashInAppend ==
    /\ Evaluating
    /\ Id \notin DOMAIN completed
    /\ partial' \in CutAppends(partial, <<NewEntry>>, TornWrites)
    /\ Killed
    /\ UNCHANGED <<json, md>>

CrashInReport ==
    /\ \/ /\ phase = "running" /\ Current \notin Rows
          /\ json' = Cut
          /\ UNCHANGED md
       \/ /\ phase = "md"
          /\ md' = Cut
          /\ UNCHANGED json
    /\ Killed
    /\ UNCHANGED partial

-----------------------------------------------------------------------------
Progress ==
    \/ Reuse \/ Generate \/ GenerateRaises
    \/ WriteJson \/ WriteMd \/ UnlinkPartial

Next ==
    \/ \E resume \in BOOLEAN, chosen \in Settings : Start(resume, chosen)
    \/ Progress
    \/ Crash \/ CrashInAppend \/ CrashInReport

Spec == Init /\ [][Next]_vars

\* One thread; a generation ends: it is bounded by max_new_tokens, and a request to
\* the server by the client's timeout.
FairSpec == Spec /\ WF_vars(Progress)

-----------------------------------------------------------------------------
IsReport(file) == file \notin {None, Cut}

\* Each line of a report grades the test row it stands for, whichever run, killed
\* anywhere, produced the result.
ReportGradesItsRows ==
    \A file \in {json, md} : IsReport(file) =>
        /\ Len(file.results) = Len(TestIds)
        /\ \A n \in Rows : file.results[n].row = n

\* The entries a reader of the file finds.
OnDisk(file) == {file.rows[j] : j \in DOMAIN file.rows}

\* The entry of a whole line that lacks its newline: the next write makes it unreadable.
Unterminated(file) ==
    {file.rows[j] : j \in DOMAIN file.rows \ DOMAIN RowsUnderGlue(file)}

\* What a step grades, writes and flushes.
Streamed ==
    IF Evaluating /\ Id \notin DOMAIN completed /\ results' = Append(results, NewResult)
    THEN {NewEntry}
    ELSE {}

\* What was streamed before this step, or in it, and is not on the disk after it.
Lost == (OnDisk(partial) \union Streamed) \ OnDisk(partial')

\* A result that was graded and streamed is readable from then on, unless a run is
\* told to start over or both reports are written - or a kill cut a line: the result
\* appended to the cut line is lost with its newline written, and so is the whole
\* entry the cut left without one; after them the file is whole again.  Only a kill
\* cuts a line, so each costs at most those two (runner.py:229, :289-290).
ResultsAreKept ==
    [][/\ Lost # {} =>
            \/ run' = run + 1 /\ partial' = EmptyFile
            \/ phase = "unlink" /\ json = Report /\ md = Report
            \/ /\ partial.tail # "clean"
               /\ Lost \subseteq Unterminated(partial) \union Streamed
               /\ partial'.tail = "clean" \/ phase' = "dead"
       /\ partial'.tail # "clean" => partial' = partial \/ phase' = "dead"]_vars

\* No two results a resumed run can read are of one id: it generates again only a row
\* whose result is not readable, because its line was cut or glued, or that has no id.
NoRowIsGeneratedTwice ==
    \A j, l \in DOMAIN partial.rows :
        (j # l /\ partial.rows[j].id # NoId) => partial.rows[j].id # partial.rows[l].id

\* A run that is not killed ends, in its report or in the exception of a generation.
RunEnds == (phase = "running") ~> (phase \in {"done", "dead"})
=============================================================================
