---------------------------- MODULE TeacherExpand ----------------------------
(***************************************************************************)
(* run_teacher_expand of c/src/cli.c, the C port of expand_seeds: one      *)
(* thread asks the teacher for every expansion of every seed in turn, up   *)
(* to MaxRetries times each, admits the replies that pass the gate and     *)
(* streams them to accepted_partial.jsonl; then it copies the lines of     *)
(* that file, shuffled, to the splits.  There is no resume: each start     *)
(* truncates the partial file.                                             *)
(*                                                                         *)
(* What may fail is chosen: a request, opening or writing a log, writing   *)
(* or flushing a row, reading the rows back, writing or closing a split,   *)
(* the process itself.  An allocation that fails takes the path of the     *)
(* write next to it.                                                       *)
(***************************************************************************)
EXTENDS Jsonl, Split, Graders

CONSTANTS
    SeedList,          \* trajectory_ids of the seeds, in file order
    ExpansionsPerSeed, \* --expansions-per-seed
    MaxRetries,        \* --max-retries
    Answers,           \* what may come of a request to the teacher
    Bases,             \* the strings ids are made of
    Unknown,           \* of them, the fallback "unknown"
    NoId,              \* the id of a row that has no trajectory_id
    LongId,            \* the id of a row whose trajectory_id is no string or too long
    Prose,             \* a reply that is no JSON
    Stepless,          \* one that is JSON, but no object with an array of steps
    Scrap,             \* a line that is a piece of a row
    Faults,            \* may the disk fail and the process be killed?
    OneUnseen,         \* bound: does at most one failure of a run go unnoticed?
    Leftovers          \* bound: the partial files that killed runs left in out_dir

Ids == Seq(Nat \union Bases)
Docs == [id : Ids \union {NoId, LongId}, keysFit : BOOLEAN,
         initial : Texts \union {None}, steps : Seq(StepsOf(Outputs)), final : Fields]
Row == [id : Ids \union {NoId}, seed : Bases, doc : Docs]

ASSUME TeacherAssumption ==
    /\ SeedList \in Seq(Bases)
    /\ ExpansionsPerSeed \in Nat
    /\ MaxRetries \in Nat
    /\ Unknown \in Bases
    /\ NoId \notin Ids /\ LongId \notin Ids /\ NoId # LongId
    /\ Answers \subseteq [http : {"down", "refused", "ok"},
                          content : {"missing", "oversized", "text"},
                          wrap : {"none", "fence", "chat"},
                          doc : Docs \union {Prose, Stepless}]
    /\ Prose \notin Docs \union {Stepless} /\ Stepless \notin Docs
    /\ Scrap \notin Row \union Bases
    /\ Faults \in BOOLEAN /\ OneUnseen \in BOOLEAN
    /\ Leftovers \subseteq FilesOf(Row)

VARIABLES
    \* on disk
    partial,   \* accepted_partial.jsonl
    train, dev, test,
    \* in the memory of the running process
    phase,     \* "idle", "asking", "reading", "train", "dev", "test", "removing",
               \* "done" (exit status 0), "failed" (2) or "dead" (killed)
    slot,      \* expansions given up or accepted so far
    attempt,   \* attempts at the current one
    accepted, rejected,  \* the two counters
    seen,      \* ids given out
    sticky,    \* the partial stream has its error flag set
    log,       \* the attempts refused so far, and whether rejections.jsonl has them
    rows,      \* the lines of the partial file, read back and shuffled
    faulted    \* has a read or a write failed without ending the run?

splits == <<train, dev, test>>
loop == <<slot, attempt, accepted, rejected, seen>>
vars == <<partial, splits, phase, loop, sticky, log, rows, faulted>>

\* A failure that nobody looks at may happen, within the bound.
Unseen == Faults /\ (OneUnseen => ~faulted)

Total == Len(SeedList) * ExpansionsPerSeed
SeedOf(n) == SeedList[(n \div ExpansionsPerSeed) + 1]

-----------------------------------------------------------------------------
(* From a request to a verdict.                                             *)

\* http_post: curl's error (120 seconds without an answer among them) and a status
\* outside 200..299 both end the attempt, as does a body the provider's extraction
\* finds no text in, or more than 65535 bytes of it.
Answered(answer) == answer.http = "ok" /\ answer.content = "text"

\* The text inside a Markdown fence; prose around the fence stays, and is no JSON.
Unfenced(answer) == IF answer.wrap = "chat" THEN Prose ELSE answer.doc

\* Mutant: the verdict of the walk is not asked for.
VerdictOnShape(answer) ==
    IF ~Answered(answer) THEN "teacher_error"
    ELSE IF Unfenced(answer) = Prose THEN "json_decode"
    ELSE IF answer.doc = Stepless \/ ~IsShaped(answer.doc) THEN "malformed_structure"
    ELSE "accept"

VerdictOn(answer) ==
    IF ~Answered(answer) THEN "teacher_error"
    ELSE IF Unfenced(answer) = Prose THEN "json_decode"
    ELSE IF answer.doc = Stepless THEN "malformed_structure"
    ELSE GateClass(answer.doc)

\* Mutant: the first free-looking suffix is taken without looking.
FreshSuffixUnchecked(id) == accepted

\* The first suffix from accepted_count on that gives an id not seen.
FreshSuffix(id) ==
    CHOOSE n \in accepted..(accepted + Cardinality(seen)) :
        /\ Append(id, n) \notin seen
        /\ \A m \in accepted..(n - 1) : Append(id, m) \in seen

OriginalId(doc) == IF doc.id \in {NoId, LongId} THEN <<Unknown>> ELSE doc.id
AdmittedId(doc) ==
    IF OriginalId(doc) \in seen
    THEN Append(OriginalId(doc), FreshSuffix(OriginalId(doc)))
    ELSE OriginalId(doc)

\* write_accepted_row replaces a trajectory_id; it does not add one.
AdmittedRow(doc) ==
    [id |-> IF doc.id = NoId THEN NoId ELSE AdmittedId(doc),
     seed |-> SeedOf(slot), doc |-> doc]

\* An entry of rejections.jsonl; the reason it also names decides nothing.
Rejection(written) == [slot |-> slot, attempt |-> attempt, written |-> written]

-----------------------------------------------------------------------------
Init ==
    /\ partial \in Leftovers
    /\ train = << >> /\ dev = << >> /\ test = << >>
    /\ phase = "idle"
    /\ slot = 0 /\ attempt = 0 /\ accepted = 0 /\ rejected = 0 /\ seen = {}
    /\ sticky = FALSE
    /\ log = << >> /\ rows = << >>
    /\ faulted = FALSE

\* Mutant: the partial file is opened for appending.
StartKeepsPartial ==
    /\ phase = "idle"
    /\ phase' = "asking"
    /\ UNCHANGED <<partial, splits, loop, sticky, log, rows, faulted>>

\* Both logs are opened, the partial file for writing.
StartRun ==
    /\ phase = "idle"
    /\ partial' = EmptyFile
    /\ phase' = "asking"
    /\ UNCHANGED <<splits, loop, sticky, log, rows, faulted>>

\* The rejection log cannot be opened; the partial file was truncated all the same.
StartFails ==
    /\ Faults
    /\ phase = "idle"
    /\ partial' = EmptyFile
    /\ phase' = "failed"
    /\ UNCHANGED <<splits, loop, sticky, log, rows, faulted>>

Asking == phase = "asking" /\ slot < Total
Trying == Asking /\ attempt < MaxRetries

\* Mutant: an expansion is given up at its first rejection.
RejectGivesUp(answer) ==
    /\ Trying
    /\ VerdictOn(answer) # "accept"
    /\ log' = Append(log, Rejection(TRUE))
    /\ attempt' = MaxRetries
    /\ UNCHANGED <<partial, splits, phase, slot, accepted, rejected, seen, sticky,
                   rows, faulted>>

\* No answer, or one the gate refuses: the attempt is logged and the next one made.
\* Nobody asks whether write_rejection could write.
Reject(answer) ==
    \E written \in {TRUE, ~Unseen} :
        /\ Trying
        /\ VerdictOn(answer) # "accept"
        /\ log' = Append(log, Rejection(written))
        /\ faulted' = (faulted \/ ~written)
        /\ attempt' = attempt + 1
        /\ UNCHANGED <<partial, splits, phase, slot, accepted, rejected, seen, sticky, rows>>

\* All attempts are used up.
GiveUp ==
    /\ Asking
    /\ attempt = MaxRetries
    /\ rejected' = rejected + 1
    /\ slot' = slot + 1 /\ attempt' = 0
    /\ UNCHANGED <<partial, splits, phase, accepted, seen, sticky, log, rows,
                   faulted>>

Admissible(answer) == Trying /\ VerdictOn(answer) = "accept"
Admit(doc) ==
    /\ seen' = seen \union {AdmittedId(doc)}
    /\ accepted' = accepted + 1
    /\ slot' = slot + 1 /\ attempt' = 0

\* An accepted row is written and flushed.
Accept(answer) ==
    /\ Admissible(answer)
    /\ answer.doc.keysFit
    /\ ~sticky
    /\ Admit(answer.doc)
    /\ partial' = AppendLines(partial, <<AdmittedRow(answer.doc)>>)
    /\ UNCHANGED <<splits, phase, rejected, sticky, log, rows, faulted>>

\* fflush fails and nobody looks: the row counts as accepted, and less than all of it
\* is on disk.
AcceptUnflushed(answer) ==
    /\ Unseen
    /\ Admissible(answer)
    /\ answer.doc.keysFit
    /\ ~sticky
    /\ Admit(answer.doc)
    /\ partial' \in CutAppends(partial, <<AdmittedRow(answer.doc)>>, TRUE)
    /\ sticky' = TRUE /\ faulted' = TRUE
    /\ UNCHANGED <<splits, phase, rejected, log, rows>>

\* The row cannot be written: its keys do not fit the fixed arrays, or the stream
\* fails or has failed.  The loop ends and with it the command.
AcceptFails(answer) ==
    /\ Admissible(answer)
    /\ ~answer.doc.keysFit \/ sticky \/ Faults
    /\ seen' = seen \union {AdmittedId(answer.doc)}
    /\ partial' \in CutAppends(partial, <<AdmittedRow(answer.doc)>>, TRUE)
    /\ phase' = "failed"
    /\ UNCHANGED <<splits, slot, attempt, accepted, rejected, sticky, log, rows,
                   faulted>>

\* The request file cannot be written.
RequestFails ==
    /\ Faults
    /\ Trying
    /\ phase' = "failed"
    /\ UNCHANGED <<partial, splits, loop, sticky, log, rows, faulted>>

\* Mutant: the loop waits until every expansion is accepted.
LoopDoneWhenFull ==
    /\ phase = "asking"
    /\ slot = Total /\ accepted = Total
    /\ phase' = "reading"
    /\ UNCHANGED <<partial, splits, loop, sticky, log, rows, faulted>>

\* Every expansion is accepted or given up.
LoopDone ==
    /\ phase = "asking"
    /\ slot = Total
    /\ phase' = "reading"
    /\ UNCHANGED <<partial, splits, loop, sticky, log, rows, faulted>>

\* The lines of a file, an unterminated last one with them.
LinesOf(file) == file.rows \o (IF file.tail = "torn" THEN <<Scrap>> ELSE << >>)

\* Every line that is not blank is read back, unparsed, and the lines are shuffled.
ReadBack ==
    /\ phase = "reading"
    /\ rows' \in Shuffles(LinesOf(partial))
    /\ phase' = "train"
    /\ UNCHANGED <<partial, splits, loop, sticky, log, faulted>>

\* The file cannot be opened, or memory ends while it is read: the command goes on
\* with the lines it has.
ReadBackShort ==
    /\ Unseen
    /\ phase = "reading"
    /\ rows' \in UNION {Shuffles(lines) : lines \in Prefixes(LinesOf(partial))}
    /\ faulted' = TRUE
    /\ phase' = "train"
    /\ UNCHANGED <<partial, splits, loop, sticky, log>>

WriteTrain ==
    /\ phase = "train"
    /\ train' = TrainPart(rows)
    /\ phase' = "dev"
    /\ UNCHANGED <<partial, dev, test, loop, sticky, log, rows, faulted>>

WriteDev ==
    /\ phase = "dev"
    /\ dev' = DevPart(rows)
    /\ phase' = "test"
    /\ UNCHANGED <<partial, train, test, loop, sticky, log, rows, faulted>>

\* The seeds themselves, with their provenance.
WriteTest ==
    /\ phase = "test"
    /\ test' = SeedList
    /\ phase' = "removing"
    /\ UNCHANGED <<partial, train, dev, loop, sticky, log, rows, faulted>>

\* What a writer that fails leaves of a split: its lines up to one, and a piece of the
\* next.
Pieces(lines) ==
    Prefixes(lines) \union {Append(part, Scrap) : part \in Prefixes(lines) \ {lines}}

\* A split cannot be written, or not to its end.  The later ones are not attempted,
\* the partial file is removed all the same, and the exit status is 2.
WriteFails ==
    /\ Faults
    /\ phase \in {"train", "dev", "test"}
    /\ train' \in IF phase = "train" THEN Pieces(TrainPart(rows)) \union {train} ELSE {train}
    /\ dev' \in IF phase = "dev" THEN Pieces(DevPart(rows)) \union {dev} ELSE {dev}
    /\ test' \in IF phase = "test" THEN Pieces(SeedList) \union {test} ELSE {test}
    /\ partial' = EmptyFile
    /\ phase' = "failed"
    /\ UNCHANGED <<loop, sticky, log, rows, faulted>>

\* fclose cannot write what the stream still holds of a split, and nobody asks it: the
\* command goes on as if the split were whole.
CloseFails ==
    /\ Unseen
    /\ \/ phase = "train" /\ train' \in Pieces(TrainPart(rows)) /\ phase' = "dev"
          /\ UNCHANGED <<dev, test>>
       \/ phase = "dev" /\ dev' \in Pieces(DevPart(rows)) /\ phase' = "test"
          /\ UNCHANGED <<train, test>>
       \/ phase = "test" /\ test' \in Pieces(SeedList) /\ phase' = "removing"
          /\ UNCHANGED <<train, dev>>
    /\ faulted' = TRUE
    /\ UNCHANGED <<partial, loop, sticky, log, rows>>

Remove ==
    /\ phase = "removing"
    /\ partial' = EmptyFile
    /\ phase' = "done"
    /\ UNCHANGED <<splits, loop, sticky, log, rows, faulted>>

Running == phase \notin {"idle", "done", "failed", "dead"}

\* The process is killed; what it had buffered of the rejection log is lost with it.
Crash ==
    /\ Faults
    /\ Running
    /\ phase' = "dead"
    /\ UNCHANGED <<partial, splits, loop, sticky, log, rows, faulted>>

Ask == \E answer \in Answers :
          Reject(answer) \/ Accept(answer) \/ AcceptUnflushed(answer) \/ AcceptFails(answer)

Proceed ==
    \/ Ask \/ GiveUp \/ RequestFails
    \/ LoopDone \/ ReadBack \/ ReadBackShort
    \/ WriteTrain \/ WriteDev \/ WriteTest \/ WriteFails \/ CloseFails \/ Remove

Next == StartRun \/ StartFails \/ Proceed \/ Crash

\* Requests time out, so a run goes on until it ends; nothing makes anyone start one.
Spec == Init /\ [][Next]_vars /\ WF_vars(Proceed)

-----------------------------------------------------------------------------
\* Every variable holds a value of its kind.
TypeOK ==
    /\ partial \in FilesOf(Row)
    /\ phase \in {"idle", "asking", "reading", "train", "dev", "test", "removing",
                  "done", "failed", "dead"}
    /\ slot \in 0..Total
    /\ attempt \in 0..MaxRetries
    /\ accepted \in Nat
    /\ seen \subseteq Ids /\ IsFiniteSet(seen)
    /\ rows \in Seq(Row \union {Scrap})
    /\ sticky \in BOOLEAN /\ faulted \in BOOLEAN

\* No two rows of a run's partial file, and none of those read back from it, have one
\* trajectory_id, whatever ids the teacher repeats or guesses (cli.c:5153-5165).
IdsAreUnique(list) ==
    \A i, j \in {k \in DOMAIN list : list[k] # Scrap} :
        (list[i].id = list[j].id /\ list[i].id # NoId) => i = j
UniqueIds == phase # "idle" => IdsAreUnique(partial.rows) /\ IdsAreUnique(rows)

\* README.md:27, "Every variant is verified before admission": each row of the partial
\* file and of the splits is one that Python's verify_trajectory passes, but for the
\* expectations C cannot read, which the gate ignores.  A line of a split that is no row
\* at all is a piece of one, and there for a write that failed: unnoticed, or with the
\* exit status 2.
AdmittedRowsVerify ==
    \A list \in {partial.rows, train, dev} : \A i \in DOMAIN list :
        IF list[i] = Scrap
        THEN faulted \/ phase = "failed"
        ELSE /\ IsShaped(list[i].doc)
             /\ PyVerdict(Legible(list[i].doc), OwnOutputs(list[i].doc)).passed

\* Every expansion is accepted, rejected or still to come; one is rejected after
\* MaxRetries attempts and never before, and each attempt is logged under the
\* expansion and the number that were asked, if the log could be written.
EveryExpansionAccounted ==
    phase = "asking" =>
        LET Tries(n, entries) == Cardinality({i \in entries : log[i].slot = n})
        IN  /\ accepted + rejected = slot
            /\ Tries(slot, DOMAIN log) = attempt
            /\ rejected = Cardinality({n \in 0..(slot - 1) : Tries(n, DOMAIN log) = MaxRetries})
            /\ \A i \in DOMAIN log : log[i].attempt = Tries(log[i].slot, 1..(i - 1))
            /\ ~faulted => \A i \in DOMAIN log : log[i].written

\* When the command reports success and no read or write failed under it, the accepted
\* rows it counts are the rows it split, none of them in both parts.
SuccessKeepsRows ==
    (phase = "done" /\ ~faulted) =>
        /\ Len(rows) = accepted
        /\ Len(train) = NTrain(accepted) /\ Len(dev) = NDev(accepted)
        /\ IdsAreUnique(train \o dev)
        /\ test = SeedList

\* A run, once started, ends.
RunEnds == Running ~> ~Running
=============================================================================
