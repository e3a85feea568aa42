------------------------------ MODULE LlamaEval ------------------------------
(***************************************************************************)
(* run_llamacpp_eval of c/src/cli.c: every row of a test file is generated *)
(* step by step through a llama.cpp server and graded as it goes, once     *)
(* greedily and K times sampled; the command then reports pass@1, pass@k,  *)
(* pass@maj and the failures.                                              *)
(*                                                                         *)
(* A step takes two requests, one for the thinking and one for the call;   *)
(* its output is what both gave, and the run ends when one of them fails   *)
(* (server down, bad status, timeout, malformed or oversized reply).  Two  *)
(* calls are the same vote when the outputs are the same.                  *)
(*                                                                         *)
(* The row is not validated: a line that is JSON but no object with an     *)
(* initial_state and an array of steps has no initial, and a step need not *)
(* be one a prompt can be made of.                                         *)
(***************************************************************************)
EXTENDS Graders

CONSTANTS
    Files,      \* test files to evaluate, sequences of lines
    Unreadable, \* a line that is no JSON
    Replies,    \* what the server may answer for a step
    K,          \* --k, sampled runs per row
    MaxListed   \* distinct initial states the Markdown report has room for

Modes == {SubscoreNames[k] : k \in 1..6}
\* prompt: has the step a prompt_context whose prompt fits the buffer?  safe: may the
\* row's trajectory_id stand in a path?
Steps == [trigger : Fields, after : Fields, prompt : BOOLEAN]
Lines == [initial : Texts \union {None}, steps : Seq(Steps), final : Fields,
          rest : BOOLEAN, safe : BOOLEAN]

ASSUME LlamaEvalAssumption ==
    /\ Files \subseteq Seq(Lines \union {Unreadable})
    /\ Replies \subseteq Outputs
    /\ None \notin Modes
    /\ K \in Nat /\ MaxListed \in Nat
    /\ Lost \notin Outputs

VARIABLES
    file,     \* the test file
    phase,    \* "rows", "md", "done" or "failed"
    line,     \* line being evaluated
    sample,   \* 0 in the greedy run of a row, then 1..K
    at,       \* the walk of this run: state and first failure
    outs,     \* the outputs of this run; the last is final_call_out
    samples,  \* finished samples of the row: the vote and the verdict
    ended,    \* the run that ended last: its row, outputs and summary
    entries,  \* summary of each finished row
    modes,    \* failure_modes
    passK, passMaj,  \* rows counted
    json, md  \* the reports, once written

counters == <<modes, passK, passMaj>>
vars == <<file, phase, line, sample, at, outs, samples, ended, entries, counters, json, md>>

NoReport == [n |-> 0]
NoRun == [row |-> Unreadable]
Row == file[line]
InRows == phase = "rows" /\ line <= Len(file)
StartOf(k) ==
    IF k > Len(file) \/ file[k] = Unreadable THEN [state |-> None, failed |-> 0, mode |-> NoMode]
    ELSE Start(file[k])

-----------------------------------------------------------------------------
Init ==
    /\ file \in Files
    /\ phase = "rows"
    /\ line = 1 /\ sample = 0
    /\ at = StartOf(1)
    /\ outs = << >> /\ samples = << >> /\ entries = << >>
    /\ ended = NoRun
    /\ modes = [m \in Modes |-> 0]
    /\ passK = 0 /\ passMaj = 0
    /\ json = NoReport /\ md = NoReport

Count(summary) ==
    modes' = IF summary.passed \/ summary.mode = NoMode THEN modes
             ELSE [modes EXCEPT ![summary.mode] = @ + 1]

\* The greedy run has a summary: it is the row's entry, and the samples begin.
EndGreedy(summary, parsed) ==
    /\ entries' = Append(entries, [summary |-> summary,
                                   initial |-> IF parsed THEN Row.initial ELSE None])
    /\ Count(summary)
    /\ IF parsed /\ K > 0 THEN sample' = 1 /\ UNCHANGED line
                          ELSE sample' = 0 /\ line' = line + 1
    /\ UNCHANGED <<samples, passK, passMaj>>

\* The most common final call, the first seen among equals, and whether a sample
\* that ends in it has passed.
Votes(all, a) == Cardinality({b \in DOMAIN all : all[b].call = all[a].call})
Majority(all) ==
    CHOOSE a \in DOMAIN all : \A b \in DOMAIN all :
        Votes(all, b) < Votes(all, a) \/ (Votes(all, b) = Votes(all, a) /\ a <= b)
\* Mutant: nobody asks whether a run with the winning call passed.
MajorityExists(all) == \E a \in DOMAIN all : all[a].call = all[Majority(all)].call

MajorityPassed(all) ==
    \E a \in DOMAIN all : all[a].call = all[Majority(all)].call /\ all[a].passed

\* The last call of a run; "" when none was generated.
FinalCall(outputs) == IF outputs = << >> THEN None ELSE outputs[Len(outputs)]

EndSample(summary, call) ==
    LET all == Append(samples, [call |-> call, passed |-> summary.passed])
    IN  /\ IF sample < K
           THEN /\ sample' = sample + 1
                /\ samples' = all
                /\ UNCHANGED <<line, passK, passMaj>>
           ELSE /\ sample' = 0
                /\ samples' = << >>
                /\ line' = line + 1
                /\ passK' = IF \E a \in DOMAIN all : all[a].passed THEN passK + 1 ELSE passK
                /\ passMaj' = IF MajorityPassed(all) THEN passMaj + 1 ELSE passMaj
        /\ UNCHANGED <<entries, modes>>

\* A run of the row is over, with a summary and the call it votes with.
EndRun(summary, call) ==
    /\ IF sample = 0 THEN EndGreedy(summary, Row # Unreadable) ELSE EndSample(summary, call)
    /\ ended' = [row |-> Row, outs |-> outs, summary |-> summary]
    /\ outs' = << >>
    /\ at' = StartOf(line')
    /\ UNCHANGED <<file, phase, json, md>>

\* "invalid JSON": no generation, no samples.
BadLine ==
    /\ InRows
    /\ Row = Unreadable
    /\ EndRun(FailedRow(0, "parse"), None)

\* "initial_state is required" or "steps is required", in every run of the row.
NoWalk ==
    /\ InRows
    /\ Row # Unreadable
    /\ Row.initial = None
    /\ EndRun(FailedRow(0, "schema"), None)

Walking == InRows /\ Row # Unreadable /\ Row.initial # None
AtStep == Walking /\ Len(outs) < Len(Row.steps)
Prompted == AtStep /\ Row.steps[Len(outs) + 1].prompt

\* Mutant: the last failure is reported, not the first.
GenerateReportsLast(output) ==
    LET k == Len(outs) + 1
        result == CVerifyStep(CCtx(at.state, Row.steps[k]), output, FALSE)
    IN  /\ Prompted
        /\ outs' = Append(outs, output)
        /\ at' = [After(at, k, result) EXCEPT !.failed = IF result.passed THEN @ ELSE k]
        /\ UNCHANGED <<file, phase, line, sample, samples, ended, entries, counters, json, md>>

\* The server answers both requests of the next step; the call is verified at once.
Generate(output) ==
    LET k == Len(outs) + 1
        result == CVerifyStep(CCtx(at.state, Row.steps[k]), output, FALSE)
    IN  /\ Prompted
        /\ outs' = Append(outs, output)
        /\ at' = After(at, k, result)
        /\ UNCHANGED <<file, phase, line, sample, samples, ended, entries, counters, json, md>>

\* The step is malformed or no prompt can be made of it: the run ends there, with mode
\* "schema" over whatever failure an earlier step had.
NoPrompt ==
    /\ AtStep
    /\ ~Prompted
    /\ EndRun(FailedRow(Len(outs) + 1, "schema"), FinalCall(outs))

\* Mutant: what was generated before the lost request is graded.
LoseGradesTheRest ==
    /\ Prompted
    /\ EndRun(Verdict(at, Readable(Row.final)), FinalCall(outs))

\* One of the two requests fails: the run ends with mode "parse", and counts like any
\* other failure.
Lose ==
    /\ Prompted
    /\ EndRun(FailedRow(Len(outs) + 1, "parse"), FinalCall(outs))

\* Both were answered, and there is no memory for the output: the run ends the same
\* way, but the call has become its vote.
LoseOutput(output) ==
    /\ Prompted
    /\ EndRun(FailedRow(Len(outs) + 1, "parse"), output)

\* Mutant: a row without steps waits for its first answer.
EndWalkAfterAnAnswer ==
    /\ Walking
    /\ outs # << >>
    /\ Len(outs) = Len(Row.steps)
    /\ EndRun(Verdict(at, Readable(Row.final)), FinalCall(outs))

\* All steps are generated: final_state decides.
EndWalk ==
    /\ Walking
    /\ Len(outs) = Len(Row.steps)
    /\ EndRun(Verdict(at, Readable(Row.final)), FinalCall(outs))

-----------------------------------------------------------------------------
(* The two reports.                                                         *)

Failed == {e \in DOMAIN entries : ~entries[e].summary.passed}
Passed == DOMAIN entries \ Failed

\* Mutant: rows that fail at the end of the walk are counted under "parse".
ModesOfDefaultsToParse(which) ==
    [m \in Modes |-> Cardinality({e \in which :
        entries[e].summary.mode = m \/ (m = "parse" /\ entries[e].summary.mode = NoMode)})]

\* The Markdown report counts the entries again.
ModesOf(which) == [m \in Modes |-> Cardinality({e \in which : entries[e].summary.mode = m})]

\* Mutant: the table of states is full one state early.
RoomForOneLess(e) ==
    Cardinality({entries[d].initial : d \in {d \in Failed : d < e}}) < MaxListed - 1

\* The failed rows, by initial state; a state no room is left for is dropped.
RoomFor(e) ==
    Cardinality({entries[d].initial : d \in {d \in Failed : d < e}}) < MaxListed
Listed ==
    {e \in Failed : \E d \in Failed : entries[d].initial = entries[e].initial /\ RoomFor(d)}

Rates == [n |-> Len(entries), pass1 |-> Cardinality(Passed), passK |-> passK,
          passMaj |-> passMaj]

WriteJson ==
    /\ phase = "rows"
    /\ line > Len(file)
    /\ json' = [rates |-> Rates, modes |-> modes]
    /\ phase' = "md"
    /\ UNCHANGED <<file, line, sample, at, outs, samples, ended, entries, counters, md>>

WriteMd ==
    /\ phase = "md"
    /\ md' = [rates |-> Rates, modes |-> ModesOf(Failed), listed |-> Listed]
    /\ phase' = "done"
    /\ UNCHANGED <<file, line, sample, at, outs, samples, ended, entries, counters, json>>

\* fopen or a write fails: exit status 2, with the other report left on disk.
CannotWrite ==
    /\ phase = "md" \/ (phase = "rows" /\ line > Len(file))
    /\ phase' = "failed"
    /\ UNCHANGED <<file, line, sample, at, outs, samples, ended, entries, counters, json, md>>

Next ==
    \/ BadLine \/ NoWalk
    \/ \E output \in Replies : Generate(output) \/ LoseOutput(output)
    \/ NoPrompt \/ Lose \/ EndWalk
    \/ WriteJson \/ WriteMd \/ CannotWrite

\* One thread, and every request ends within its 120 seconds.
Spec == Init /\ [][Next]_vars /\ WF_vars(Next)

-----------------------------------------------------------------------------
\* The run that ended last, when no request of it was lost.
Whole == /\ ended # NoRun
         /\ ended.row # Unreadable
         /\ ended.row.initial # None
         /\ Len(ended.outs) = Len(ended.row.steps)

\* "like Python verify_trajectory" (cli.c:3176): a run whose requests were all
\* answered has the verdict Python gives the same outputs on the row without what C
\* cannot read of it, and never passes what raises an exception there; and where the
\* row is one score-responses grades, its verdict too.
LiveGradesLikeVerifyTrajectory ==
    LET row == ended.row
    IN  (Whole /\ row.steps # << >>) =>
            /\ IF PyRaises(row, ended.outs)
               THEN ~ended.summary.passed
               ELSE ended.summary = PyVerdict(Legible(row), ended.outs)
            /\ (SchemaAccepts(row) /\ row.safe /\ Fits(row)) =>
                    ended.summary = Responses(row, ended.outs)

\* A row that passes was generated to its last step; a run that lost a request, or
\* ended elsewhere, is never a pass: passes need K answers for K steps.
PassNeedsEveryStep ==
    (ended # NoRun /\ ended.summary.passed) =>
        /\ Whole
        /\ Walk(ended.row, ended.outs, FALSE).failed = 0

\* pass@maj never counts a row that pass@k does not, over all rows so far, and
\* neither counts more rows than there are.
MajorityIsWithinK == passMaj <= passK /\ passK <= Len(entries)

\* Each failed row is under one failure mode, except those that only miss their
\* final_state, and both reports agree (cli.c:939 "are not counted").
ModesAccountForFailures ==
    phase = "done" =>
        /\ json.modes = md.modes
        /\ json.rates = md.rates
        /\ \A e \in Failed :
              entries[e].summary.mode \in {m \in Modes : md.modes[m] > 0} \/
              (entries[e].summary.mode = NoMode /\ entries[e].summary.failed = 0)

\* As long as the failed rows start in no more states than the table has room for,
\* the report lists each of them.
EveryFailureIsListed ==
    (phase = "done" /\ Cardinality({entries[e].initial : e \in Failed}) <= MaxListed) =>
        md.listed = Failed

\* Whatever the server does, the command ends.
EvalEnds == <>(phase \in {"done", "failed"})
=============================================================================
