------------------------------- MODULE Expand -------------------------------
(***************************************************************************)
(* expand_seeds of src/toyforge/scenario_gen/expand.py: a thread pool asks *)
(* a teacher model for variants of the hand seeds, the main thread admits  *)
(* the verified ones, streams them to accepted_partial.jsonl, and at the   *)
(* end shuffles and splits them into train / dev; the seeds are the test   *)
(* split.  A run may crash at any point and be started again, with or      *)
(* without --resume.                                                       *)
(*                                                                         *)
(* Abstractions.  A trajectory_id is a sequence <<base, n1, n2...>>, the   *)
(* string base_n1_n2...; a row keeps only its id and the seed its          *)
(* provenance names.  The verifier's verdict on a reply is a choice (module*)
(* Verifier decides it), so a reply is a rejection reason or the id of a   *)
(* verified trajectory.  Jsonl says what a crash does to the two logs.     *)
(* An exception outside the caught classes takes the path of the KeyError  *)
(* of Collect.                                                             *)
(***************************************************************************)
EXTENDS Naturals, Sequences, FiniteSets, Jsonl, Split

CONSTANTS
    SeedList,          \* trajectory_ids of the hand seeds, in file order
    ExpansionsPerSeed, \* expansions_per_seed
    MaxRetries,        \* max_retries
    NumWorkers,        \* size of the thread pool
    Reasons,           \* rejection reasons the teacher's replies may meet
    Bases,             \* the strings ids are made of
    Unknown,           \* of them, the fallback "unknown"
    Replies,           \* the trajectory_ids of verified replies
    NoId,              \* among them, when the key is missing
    NoReply,           \* a future that has produced nothing
    TornWrites,        \* may a crash leave an unterminated last line?
    MaxRuns            \* bound: runs of the command over the same out_dir

SeedCount == Len(SeedList)
Slots == (1..SeedCount) \X (1..ExpansionsPerSeed)
SeedOf(f) == SeedList[f[1]]
IdOfSeed(s) == <<s>>
Ids == Seq(Nat \union Bases)
Row == [id : Ids, seed : Bases]

ASSUME ExpandAssumption ==
    /\ SeedList \in Seq(Bases)
    /\ ExpansionsPerSeed \in Nat
    /\ MaxRetries \in Nat \ {0}
    /\ NumWorkers \in Nat \ {0}
    /\ "_run_start" \notin Reasons
    /\ Unknown \in Bases
    /\ Replies \subseteq Ids \union {NoId}
    /\ NoId \notin Ids
    /\ NoReply \notin Ids \union {NoId}
    /\ TornWrites \in BOOLEAN
    /\ MaxRuns \in Nat

VARIABLES
    \* on disk
    partial,   \* accepted_partial.jsonl
    rejLog,    \* rejected/rejections.jsonl
    train, dev, test,
    \* in the memory of the running process
    phase,     \* where the main thread is
    accepted, seen, rejected,
    rejBuf,    \* entries written to rejections.jsonl and not yet flushed
    status,    \* status[f] of each future
    reply,     \* reply[f]: the verified reply of a finished future
    rejs,      \* rejs[f]: the reasons of its failed attempts
    run        \* number of runs started

splits == <<train, dev, test>>
memory == <<accepted, seen, rejected, rejBuf>>
pool == <<status, reply, rejs>>
vars == <<partial, rejLog, splits, phase, memory, pool, run>>

RowsOfSeed(rows, s) == Cardinality({i \in DOMAIN rows : rows[i].seed = s})

\* Mutant: --resume submits the whole quota again.
RemainingIgnoresSkip(k, rows) == ExpansionsPerSeed

\* existing_by_seed is a natural subtraction: max(0, expansions_per_seed - skip)
Remaining(k, rows) ==
    LET skip == RowsOfSeed(rows, SeedList[k])
    IN  IF skip >= ExpansionsPerSeed THEN 0 ELSE ExpansionsPerSeed - skip

Header == [run |-> run, reason |-> "_run_start", seed |-> NoId, attempt |-> 0]

\* rej_log.close()
CloseRejLog ==
    /\ rejLog' = AppendLines(rejLog, rejBuf)
    /\ rejBuf' = << >>

TestRows == [k \in 1..SeedCount |-> [id |-> IdOfSeed(SeedList[k]), seed |-> SeedList[k]]]

-----------------------------------------------------------------------------
Init ==
    /\ partial = EmptyFile /\ rejLog = EmptyFile
    /\ train = << >> /\ dev = << >> /\ test = << >>
    /\ phase = "idle"
    /\ accepted = << >> /\ seen = {} /\ rejected = 0
    /\ rejBuf = << >>
    /\ status = [f \in Slots |-> "unused"]
    /\ reply = [f \in Slots |-> NoReply]
    /\ rejs = [f \in Slots |-> << >>]
    /\ run = 0

\* Mutant: a stale partial file is left in place by a run that does not resume.
StartKeepsStale(resume) ==
    /\ phase \in {"idle", "done", "dead"}
    /\ run < MaxRuns
    /\ run' = run + 1
    /\ accepted' = IF resume THEN partial.rows ELSE << >>
    /\ seen' = IdsOf(accepted')
    /\ rejected' = 0
    /\ rejBuf' = <<Header'>>
    /\ status' = [f \in Slots |->
                    IF f[2] <= Remaining(f[1], accepted') THEN "queued" ELSE "unused"]
    /\ reply' = [f \in Slots |-> NoReply]
    /\ rejs' = [f \in Slots |-> << >>]
    /\ phase' = "running"
    /\ UNCHANGED <<partial, rejLog, splits>>

\* Mutant: the rows of the partial file are counted and not loaded.
StartForgetsRows(resume) ==
    /\ phase \in {"idle", "done", "dead"}
    /\ run < MaxRuns
    /\ run' = run + 1
    /\ partial' = IF resume THEN partial ELSE EmptyFile
    /\ accepted' = << >>
    /\ seen' = IdsOf(partial'.rows)
    /\ rejected' = 0
    /\ rejBuf' = <<Header'>>
    /\ status' = [f \in Slots |->
                    IF f[2] <= Remaining(f[1], partial'.rows) THEN "queued" ELSE "unused"]
    /\ reply' = [f \in Slots |-> NoReply]
    /\ rejs' = [f \in Slots |-> << >>]
    /\ phase' = "running"
    /\ UNCHANGED <<rejLog, splits>>

\* The command is started: it loads the partial file (or unlinks a stale one),
\* opens both logs, writes the run header and submits every missing expansion.
Start(resume) ==
    /\ phase \in {"idle", "done", "dead"}
    /\ run < MaxRuns
    /\ run' = run + 1
    /\ partial' = IF resume THEN partial ELSE EmptyFile
    /\ accepted' = partial'.rows
    /\ seen' = IdsOf(accepted')
    /\ rejected' = 0
    /\ rejBuf' = <<Header'>>
    /\ status' = [f \in Slots |->
                    IF f[2] <= Remaining(f[1], accepted') THEN "queued" ELSE "unused"]
    /\ reply' = [f \in Slots |-> NoReply]
    /\ rejs' = [f \in Slots |-> << >>]
    /\ phase' = "running"
    /\ UNCHANGED <<rejLog, splits>>

-----------------------------------------------------------------------------
(* Worker threads.  They keep running while the executor's __exit__ waits   *)
(* for them, which is what "failing" is.                                    *)

Pooling == phase \in {"running", "failing"}

SubmittedBefore(f, g) == f[1] < g[1] \/ (f[1] = g[1] /\ f[2] < g[2])

\* An idle worker takes the oldest queued future.
Begin(f) ==
    /\ Pooling
    /\ status[f] = "queued"
    /\ \A g \in Slots : status[g] = "queued" => ~SubmittedBefore(g, f)
    /\ Cardinality({g \in Slots : status[g] = "running"}) < NumWorkers
    /\ status' = [status EXCEPT ![f] = "running"]
    /\ UNCHANGED <<partial, rejLog, splits, phase, memory, reply, rejs, run>>

\* Mutant: one attempt more than max_retries.
AttemptRejectedOnceMore(f, reason) ==
    /\ Pooling
    /\ status[f] = "running"
    /\ rejs' = [rejs EXCEPT ![f] = Append(@, reason)]
    /\ status' = [status EXCEPT ![f] =
                    IF Len(rejs[f]) < MaxRetries THEN "running" ELSE "finished"]
    /\ UNCHANGED <<partial, rejLog, splits, phase, memory, reply, run>>

\* One attempt fails: its rejection is kept in the future's own list.
AttemptRejected(f, reason) ==
    /\ Pooling
    /\ status[f] = "running"
    /\ rejs' = [rejs EXCEPT ![f] = Append(@, reason)]
    /\ status' = [status EXCEPT ![f] =
                    IF Len(rejs[f]) + 1 < MaxRetries THEN "running" ELSE "finished"]
    /\ UNCHANGED <<partial, rejLog, splits, phase, memory, reply, run>>

\* One attempt yields a trajectory that passes the verifier.
AttemptVerified(f, id) ==
    /\ Pooling
    /\ status[f] = "running"
    /\ reply' = [reply EXCEPT ![f] = id]
    /\ status' = [status EXCEPT ![f] = "finished"]
    /\ UNCHANGED <<partial, rejLog, splits, phase, memory, rejs, run>>

-----------------------------------------------------------------------------
(* The main thread: as_completed yields a finished future.                  *)

LogEntries(f) ==
    [a \in DOMAIN rejs[f] |->
        [run |-> run, reason |-> rejs[f][a], seed |-> SeedOf(f), attempt |-> a - 1]]

OriginalId(f) == IF reply[f] = NoId THEN <<Unknown>> ELSE reply[f]

\* Mutant: the first suffix is taken without looking whether the id is free.
FirstSuffix(id) == Len(accepted)

\* "while candidate in seen_ids: suffix += 1", from suffix = len(accepted).
FreshSuffix(id) ==
    CHOOSE s \in Len(accepted)..(Len(accepted) + Cardinality(seen)) :
        /\ Append(id, s) \notin seen
        /\ \A t \in Len(accepted)..(s - 1) : Append(id, t) \in seen

AdmittedId(f) ==
    LET id == OriginalId(f)
    IN  IF id \in seen THEN Append(id, FreshSuffix(id)) ELSE id

\* Mutant: the provenance does not name the seed.
AdmittedRowWithoutSeed(f) == [id |-> AdmittedId(f), seed |-> NoId]

AdmittedRow(f) == [id |-> AdmittedId(f), seed |-> SeedOf(f)]

\* produced["trajectory_id"] is read although only .get() supplied a default.
MissingKey(f) == reply[f] = NoId /\ <<Unknown>> \notin seen

Collecting(f) ==
    /\ phase = "running"
    /\ status[f] = "finished"

CollectRejected(f) ==
    /\ Collecting(f)
    /\ reply[f] = NoReply
    /\ rejBuf' = rejBuf \o LogEntries(f)
    /\ rejected' = rejected + 1
    /\ status' = [status EXCEPT ![f] = "collected"]
    /\ UNCHANGED <<partial, rejLog, splits, phase, accepted, seen, reply, rejs, run>>

\* Mutant: a renamed row is kept in memory and not streamed.
CollectAcceptedUnlessRenamed(f) ==
    /\ Collecting(f)
    /\ reply[f] # NoReply
    /\ ~MissingKey(f)
    /\ rejBuf' = rejBuf \o LogEntries(f)
    /\ seen' = seen \union {AdmittedId(f)}
    /\ accepted' = Append(accepted, AdmittedRow(f))
    /\ partial' = IF OriginalId(f) \in seen THEN partial
                  ELSE AppendLines(partial, <<AdmittedRow(f)>>)
    /\ status' = [status EXCEPT ![f] = "collected"]
    /\ UNCHANGED <<rejLog, splits, phase, rejected, reply, rejs, run>>

CollectAccepted(f) ==
    /\ Collecting(f)
    /\ reply[f] # NoReply
    /\ ~MissingKey(f)
    /\ rejBuf' = rejBuf \o LogEntries(f)
    /\ seen' = seen \union {AdmittedId(f)}
    /\ accepted' = Append(accepted, AdmittedRow(f))
    /\ partial' = AppendLines(partial, <<AdmittedRow(f)>>)
    /\ status' = [status EXCEPT ![f] = "collected"]
    /\ UNCHANGED <<rejLog, splits, phase, rejected, reply, rejs, run>>

\* The KeyError leaves the as_completed loop; nothing is collected any more.
CollectRaises(f) ==
    /\ Collecting(f)
    /\ reply[f] # NoReply
    /\ MissingKey(f)
    /\ rejBuf' = rejBuf \o LogEntries(f)
    /\ status' = [status EXCEPT ![f] = "collected"]
    /\ phase' = "failing"
    /\ UNCHANGED <<partial, rejLog, splits, accepted, seen, rejected, reply, rejs, run>>

\* Mutant: the partial file is removed before the splits are written.
PoolDoneUnlinks ==
    /\ phase = "running"
    /\ \A f \in Slots : status[f] \in {"unused", "collected"}
    /\ CloseRejLog
    /\ accepted' \in Shuffles(accepted)
    /\ partial' = EmptyFile
    /\ phase' = "train"
    /\ UNCHANGED <<splits, seen, rejected, pool, run>>

\* Mutant: the futures a resumed run does not submit are waited for as well.
PoolDoneAwaitsAll ==
    /\ phase = "running"
    /\ \A f \in Slots : status[f] = "collected"
    /\ CloseRejLog
    /\ accepted' \in Shuffles(accepted)
    /\ phase' = "train"
    /\ UNCHANGED <<partial, splits, seen, rejected, pool, run>>

\* After the last future: both logs are closed and accepted is shuffled.
PoolDone ==
    /\ phase = "running"
    /\ \A f \in Slots : status[f] \in {"unused", "collected"}
    /\ CloseRejLog
    /\ accepted' \in Shuffles(accepted)
    /\ phase' = "train"
    /\ UNCHANGED <<partial, splits, seen, rejected, pool, run>>

\* The executor's shutdown(wait=True) returns, the finally blocks close the
\* logs and the exception ends the process.
PoolFailed ==
    /\ phase = "failing"
    /\ \A f \in Slots : status[f] \notin {"queued", "running"}
    /\ CloseRejLog
    /\ phase' = "dead"
    /\ UNCHANGED <<partial, splits, accepted, seen, rejected, pool, run>>

WriteTrain ==
    /\ phase = "train"
    /\ train' = TrainPart(accepted)
    /\ phase' = "dev"
    /\ UNCHANGED <<partial, rejLog, dev, test, memory, pool, run>>

WriteDev ==
    /\ phase = "dev"
    /\ dev' = DevPart(accepted)
    /\ phase' = "test"
    /\ UNCHANGED <<partial, rejLog, train, test, memory, pool, run>>

WriteTest ==
    /\ phase = "test"
    /\ test' = TestRows
    /\ phase' = "unlink"
    /\ UNCHANGED <<partial, rejLog, train, dev, memory, pool, run>>

UnlinkPartial ==
    /\ phase = "unlink"
    /\ partial' = EmptyFile
    /\ phase' = "done"
    /\ UNCHANGED <<rejLog, splits, memory, pool, run>>

-----------------------------------------------------------------------------
(* The process is killed: what it had flushed stays, what it had buffered   *)
(* may be on disk up to any point.                                          *)

LoseRejections ==
    /\ rejLog' \in CutAppends(rejLog, rejBuf, TornWrites)
    /\ rejBuf' = << >>

Crash ==
    /\ phase \notin {"idle", "done", "dead"}
    /\ LoseRejections
    /\ phase' = "dead"
    /\ UNCHANGED <<partial, splits, accepted, seen, rejected, pool, run>>

\* ... inside the write of an accepted row
CrashInAppend(f) ==
    /\ Collecting(f)
    /\ reply[f] # NoReply
    /\ ~MissingKey(f)
    /\ partial' \in CutAppends(partial, <<AdmittedRow(f)>>, TornWrites)
    /\ LoseRejections
    /\ phase' = "dead"
    /\ UNCHANGED <<splits, accepted, seen, rejected, pool, run>>

\* ... inside the write of a split, which open("w") has already truncated.
CrashInSplit ==
    /\ \/ /\ phase = "train"
          /\ train' \in Prefixes(TrainPart(accepted))
          /\ UNCHANGED <<dev, test>>
       \/ /\ phase = "dev"
          /\ dev' \in Prefixes(DevPart(accepted))
          /\ UNCHANGED <<train, test>>
       \/ /\ phase = "test"
          /\ test' \in Prefixes(TestRows)
          /\ UNCHANGED <<train, dev>>
    /\ phase' = "dead"
    /\ UNCHANGED <<partial, rejLog, memory, pool, run>>

-----------------------------------------------------------------------------
Worker(f) ==
    \/ Begin(f)
    \/ \E reason \in Reasons : AttemptRejected(f, reason)
    \/ \E id \in Replies : AttemptVerified(f, id)

Collect(f) == CollectRejected(f) \/ CollectAccepted(f) \/ CollectRaises(f)

Finish ==
    \/ PoolDone \/ PoolFailed
    \/ WriteTrain \/ WriteDev \/ WriteTest \/ UnlinkPartial

Crashes ==
    \/ Crash
    \/ \E f \in Slots : CrashInAppend(f)
    \/ CrashInSplit

Next ==
    \/ \E resume \in BOOLEAN : Start(resume)
    \/ \E f \in Slots : Worker(f) \/ Collect(f)
    \/ Finish
    \/ Crashes

Spec == Init /\ [][Next]_vars

\* Threads are scheduled, and a teacher's call returns: every provider client
\* has a timeout, which is a teacher_error like any other.
Fairness ==
    /\ \A f \in Slots : WF_vars(Worker(f)) /\ WF_vars(Collect(f))
    /\ WF_vars(Finish)

FairSpec == Spec /\ Fairness

-----------------------------------------------------------------------------
Statuses == {"unused", "queued", "running", "finished", "collected"}
Phases == {"idle", "running", "failing", "train", "dev", "test", "unlink",
           "done", "dead"}
Entry == [run : Nat, reason : Reasons \union {"_run_start"},
          seed : Bases \union {NoId}, attempt : Nat]

\* Every variable holds a value of its kind.
TypeOK ==
    /\ partial \in FilesOf(Row)
    /\ rejLog \in FilesOf(Entry)
    /\ train \in Seq(Row) /\ dev \in Seq(Row) /\ test \in Seq(Row)
    /\ phase \in Phases
    /\ accepted \in Seq(Row)
    /\ seen \subseteq Ids
    /\ rejected \in Nat
    /\ rejBuf \in Seq(Entry)
    /\ status \in [Slots -> Statuses]
    /\ reply \in [Slots -> Replies \union {NoReply}]
    /\ rejs \in [Slots -> Seq(Reasons)]
    /\ run \in Nat

\* No two accepted rows carry one trajectory_id, in memory or in the partial
\* file, whatever ids the teacher repeats and however often the run is resumed
\* (the renaming of expand.py:390-401).
UniqueIds == DistinctIds(accepted) /\ DistinctIds(partial.rows)

\* As long as its run has not finished, every accepted row can be read back from
\* the partial file ("Stream to partial file immediately for crash recovery").
AcceptedIsRecoverable ==
    /\ phase \in {"running", "failing"} => partial.rows = accepted
    /\ phase \in {"train", "dev", "test", "unlink"} =>
            accepted \in Shuffles(partial.rows)

\* The expansions of a run add up, resumed or not: those accepted (now or before
\* the crash), those given up, and those still in the pool are what was asked for.
Outstanding == {f \in Slots : status[f] \in {"queued", "running", "finished"}}
EveryExpansionAccounted ==
    phase \in {"running", "train", "dev", "test", "unlink", "done"} =>
        Len(accepted) + rejected + Cardinality(Outstanding) =
            SeedCount * ExpansionsPerSeed

\* No seed gets more variants than expansions_per_seed, over all the runs that
\* built the partial file.
QuotaPerSeed ==
    \A k \in 1..SeedCount :
        RowsOfSeed(accepted, SeedList[k]) <= ExpansionsPerSeed

\* A finished run leaves a train and a dev split of its own accepted rows, which
\* share no row and no id.
PublishedSplitsAreDisjoint ==
    phase \in {"unlink", "done"} =>
        /\ IdsOf(train) \intersect IdsOf(dev) = {}
        /\ DistinctIds(train) /\ DistinctIds(dev)
        /\ IdsOf(train) \union IdsOf(dev) \subseteq seen
        /\ Len(train) + Len(dev) <= Len(accepted)

\* When a run is done, rejections.jsonl tells how many expansions it gave up: one
\* last attempt for each of them, even below an older log cut by a crash.
RejectionsTally ==
    phase \in {"train", "done"} =>
        rejected = Cardinality({i \in DOMAIN rejLog.rows :
                        /\ rejLog.rows[i].run = run
                        /\ rejLog.rows[i].attempt = MaxRetries - 1
                        /\ rejLog.rows[i].reason # "_run_start"})

\* A crash in the middle of a line costs the partial file at most two rows, which were
\* accepted one after the other: the row that lacked its newline and the one glued to
\* it.  The rest of what was accepted is there, in the order it was accepted.
LossIsBounded ==
    phase = "running" =>
        \E lost \in 0..2, n \in 0..Len(accepted) :
            /\ n + lost <= Len(accepted)
            /\ partial.rows = SubSeq(accepted, 1, n)
                                \o SubSeq(accepted, n + lost + 1, Len(accepted))

\* When lines are written whole, expand_seeds is a write-ahead log: the partial
\* file holds every acknowledged row, over crashes and resumed runs, until all
\* three splits are written from exactly these rows.
Log == INSTANCE Ledger WITH
    acked <- partial.rows, session <- run, TestSet <- TestRows,
    Seeds <- {SeedList[k] : k \in 1..SeedCount}, Quota <- ExpansionsPerSeed
IsWriteAheadLog == Log!Spec

\* A run that is not killed ends, and the pool never waits for itself.
RunEnds == (phase = "running") ~> (phase \in {"done", "dead"})

\* No reply of the teacher ends the run: at worst it is rejected
\* (test_expand_handles_structurally_incomplete_teacher_output).
NoReplyEndsTheRun == phase # "failing"
=============================================================================
