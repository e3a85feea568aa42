----------------------------- MODULE LlamaProofs -----------------------------
(***************************************************************************)
(* The reports of run_llamacpp_eval, for any test file, any answers of the *)
(* server and any K: pass@maj never exceeds pass@k, both reports count the *)
(* same failures under the same modes and leave out only rows that miss    *)
(* their final_state, and a failed row is dropped from the list only when  *)
(* more initial states fail than it has room for.                          *)
(*                                                                         *)
(* And what it grades: a row that passes has met every one of its steps;   *)
(* and where no row gives an expected state as an empty string, its live   *)
(* loop, Python's verify_trajectory over what C can read of the row and,   *)
(* on a row it takes, score-responses have one verdict on the same outputs.*)
(***************************************************************************)
EXTENDS LlamaEval, GraderProofs, FiniteSetTheorems, SequenceTheorems, WellFoundedInduction, TLAPS

Summaries == [failed : Nat, mode : Modes \union {NoMode}, passed : BOOLEAN]
Entries == [summary : Summaries, initial : Texts \union {None}]
\* A failure that no subscore explains is one of no step.
IsExplained(summary) == summary.mode = NoMode => summary.failed = 0

Typed ==
    /\ file \in Seq(Lines \union {Unreadable})
    /\ line \in 1..(Len(file) + 1)
    /\ outs \in Seq(Outputs)
    /\ entries \in Seq(Entries)
    /\ modes \in [Modes -> Nat]
    /\ passK \in Nat /\ passMaj \in Nat
WalkIsExplained ==
    /\ at.failed \in Nat /\ at.mode \in Modes \union {NoMode}
    /\ IsExplained(at)
\* While a row's samples run, its entry is there and its samples are not counted yet.
CountsFit ==
    /\ passMaj <= passK
    /\ passK <= Len(entries)
    /\ sample # 0 => passK < Len(entries)
ModesAreCounted ==
    /\ modes = ModesOf(Failed)
    /\ \A e \in DOMAIN entries : IsExplained(entries[e].summary)
ReportsAreOfEntries ==
    /\ phase \in {"md", "done"} => json = [rates |-> Rates, modes |-> modes]
    /\ phase = "done" => md = [rates |-> Rates, modes |-> ModesOf(Failed), listed |-> Listed]
Inv == Typed /\ WalkIsExplained /\ CountsFit /\ ModesAreCounted /\ ReportsAreOfEntries

-----------------------------------------------------------------------------
\* A nonempty set of naturals has a least element.
LEMMA LeastNumber ==
    ASSUME NEW T \in SUBSET Nat, T # {}
    PROVE  \E m \in T : \A n \in T : m <= n
<1>1. PICK m \in T : \A n \in T : ~(<<n, m>> \in OpToRel(<, Nat))
  BY NatLessThanWellFounded, WFMin
<1>2. \A n \in T : ~(n < m)
  BY <1>1 DEF OpToRel
<1> QED
  BY <1>2

\* A mode is the name of a subscore, and there is one when a subscore is below 1.
LEMMA FailureHasMode ==
    ASSUME NEW scores
    PROVE  /\ FirstFailing(scores) \in Modes \union {NoMode}
           /\ (\E k \in 1..6 : scores[SubscoreNames[k]] < 1) =>
                FirstFailing(scores) \in Modes
<1> DEFINE failing == {k \in 1..6 : scores[SubscoreNames[k]] < 1}
<1>1. failing \in SUBSET Nat
  OBVIOUS
<1>2. CASE failing # {}
  <2>1. PICK m \in failing : \A n \in failing : m <= n
    BY <1>1, <1>2, LeastNumber
  <2> HIDE DEF failing
  <2>2. First(failing) \in failing
    BY <2>1 DEF First
  <2>3. First(failing) \in 1..6
    BY <2>2 DEF failing
  <2>4. FirstFailing(scores) = SubscoreNames[First(failing)]
    BY <1>2 DEF FirstFailing, failing
  <2> QED
    BY <2>3, <2>4 DEF Modes
<1>3. CASE failing = {}
  BY <1>3 DEF FirstFailing, NoMode
<1> QED
  BY <1>2, <1>3

\* A step that does not pass has a subscore below 1.
LEMMA ResultFails ==
    ASSUME NEW ctx, NEW output, NEW infer, ~CVerifyStep(ctx, output, infer).passed
    PROVE  \E k \in 1..6 :
              CVerifyStep(ctx, output, infer).subscores[SubscoreNames[k]] < 1
<1> DEFINE result == CVerifyStep(ctx, output, infer)
           schema == Score(output.paramsValid)
           met == Score(IsQuery(output.method) \/ Plausible(output.method, ctx.prior) # {})
           new == CNewState(ctx, output.method, infer)
<1>1. result \in {Fail, UnknownMethod, Grade(schema, met, new)}
  BY DEF CVerifyStep
<1>2. schema \in 0..1 /\ met \in 0..1
  BY DEF Score
<1> HIDE DEF result, schema, met, new
<1>3. /\ SubscoreNames[1] = "parse" /\ SubscoreNames[2] = "schema"
      /\ SubscoreNames[4] = "precondition_met" /\ SubscoreNames[5] = "transition_valid"
  BY DEF SubscoreNames
<1>4. CASE result = Fail
  <2>1. result.subscores["parse"] = 0
    BY <1>4 DEF Fail, Result, NoScores
  <2> QED
    BY <1>3, <2>1 DEF result
<1>5. CASE result = UnknownMethod
  <2>1. result.subscores["schema"] = 0
    BY <1>5 DEF UnknownMethod, Result, NoScores
  <2> QED
    BY <1>3, <2>1 DEF result
<1>6. CASE result = Grade(schema, met, new)
  <2>1. /\ result.subscores["schema"] = schema
        /\ result.subscores["precondition_met"] = met
        /\ result.subscores["transition_valid"] = Score(new # None)
        /\ result.passed <=> (schema = 1 /\ met = 1 /\ new # None)
    BY <1>6 DEF Grade, Result
  <2>2. schema = 0 \/ met = 0 \/ Score(new # None) = 0
    BY <1>2, <2>1 DEF Score, result
  <2> QED
    BY <1>3, <2>1, <2>2 DEF result
<1> QED
  BY <1>1, <1>4, <1>5, <1>6

\* A step keeps the failure of a walk explained, whatever the server answered.
LEMMA StepIsExplained ==
    ASSUME WalkIsExplained, NEW k \in Nat \ {0}, NEW ctx, NEW output, NEW infer
    PROVE  LET next == After(at, k, CVerifyStep(ctx, output, infer))
           IN  /\ next.failed \in Nat /\ next.mode \in Modes \union {NoMode}
               /\ IsExplained(next)
<1> DEFINE result == CVerifyStep(ctx, output, infer)
           next == After(at, k, result)
<1>1. FirstFailing(result.subscores) \in Modes \union {NoMode}
  BY FailureHasMode
<1>2. ~result.passed => FirstFailing(result.subscores) \in Modes
  BY ResultFails, FailureHasMode
<1>3. NoMode \notin Modes
  BY LlamaEvalAssumption DEF NoMode
<1>4. /\ next.failed = IF at.failed = 0 /\ ~result.passed THEN k ELSE at.failed
      /\ next.mode = IF at.failed = 0 /\ ~result.passed
                     THEN FirstFailing(result.subscores) ELSE at.mode
  BY DEF After
<1> HIDE DEF result, next
<1>5. CASE at.failed = 0 /\ ~result.passed
  <2>1. next.failed = k /\ next.mode \in Modes
    BY <1>2, <1>4, <1>5
  <2> QED
    BY <1>3, <2>1 DEF IsExplained, next, result
<1>6. CASE ~(at.failed = 0 /\ ~result.passed)
  <2>1. next.failed = at.failed /\ next.mode = at.mode
    BY <1>4, <1>6
  <2> QED
    BY <2>1 DEF WalkIsExplained, IsExplained, next, result
<1> QED
  BY <1>5, <1>6

\* The verdict on a walk, and the summary of a run that ends elsewhere, are explained.
LEMMA SummaryIsExplained ==
    ASSUME WalkIsExplained
    PROVE  /\ \A final : Verdict(at, final) \in Summaries /\ IsExplained(Verdict(at, final))
           /\ \A k \in Nat, mode \in Modes :
                 FailedRow(k, mode) \in Summaries /\ IsExplained(FailedRow(k, mode))
<1>1. NoMode \notin Modes
  BY LlamaEvalAssumption DEF NoMode
<1>2. ASSUME NEW final
      PROVE  Verdict(at, final) \in Summaries /\ IsExplained(Verdict(at, final))
  <2>1. (at.failed = 0 /\ (final = None \/ final = at.state)) \in BOOLEAN
    OBVIOUS
  <2> QED
    BY <2>1 DEF WalkIsExplained, Verdict, Summaries, IsExplained
<1> QED
  BY <1>1, <1>2 DEF FailedRow, Summaries, IsExplained

\* A walk begins without a failure.
LEMMA StartIsExplained ==
    ASSUME NEW k
    PROVE  LET start == StartOf(k)
           IN  /\ start.failed \in Nat /\ start.mode \in Modes \union {NoMode}
               /\ IsExplained(start)
BY DEF StartOf, Start, IsExplained

\* One more entry adds one to the count of its mode, if it fails under one.
LEMMA OneMoreEntry ==
    ASSUME Typed, ModesAreCounted, NEW entry \in Entries,
           entries' = Append(entries, entry), Count(entry.summary), IsExplained(entry.summary)
    PROVE  ModesAreCounted' /\ modes' \in [Modes -> Nat] /\ entries' \in Seq(Entries)
<1> DEFINE n == Len(entries)
           summary == entry.summary
           Of(m) == {e \in Failed : entries[e].summary.mode = m}
<1>1. /\ n \in Nat /\ DOMAIN entries = 1..n
      /\ entries' \in Seq(Entries) /\ DOMAIN entries' = 1..(n + 1)
      /\ \A e \in 1..n : entries'[e] = entries[e]
      /\ entries'[n + 1] = entry
  BY LenProperties, AppendProperties DEF Typed
<1> HIDE DEF n
<1>2. 1..(n + 1) = (1..n) \union {n + 1} /\ n + 1 \notin 1..n
  BY <1>1
<1>3. Failed' = IF summary.passed THEN Failed ELSE Failed \union {n + 1}
  BY <1>1, <1>2 DEF Failed
<1>4. Failed \subseteq 1..n
  BY <1>1 DEF Failed
<1>5. \A m \in Modes : /\ IsFiniteSet(Of(m)) /\ n + 1 \notin Of(m)
                       /\ modes[m] = Cardinality(Of(m))
  <2>1. IsFiniteSet(1..n)
    BY <1>1, FS_Interval
  <2>2. \A m \in Modes : IsFiniteSet(Of(m))
    BY <1>4, <2>1, FS_Subset
  <2> QED
    BY <1>2, <1>4, <2>2 DEF ModesAreCounted, ModesOf
<1>6. \A m \in Modes : {e \in Failed' : entries'[e].summary.mode = m} =
          IF ~summary.passed /\ summary.mode = m THEN Of(m) \union {n + 1} ELSE Of(m)
  BY <1>1, <1>2, <1>3, <1>4
<1> HIDE DEF Of
<1>7. \A m \in Modes : Cardinality(Of(m) \union {n + 1}) = Cardinality(Of(m)) + 1
  BY <1>5, FS_AddElement
<1>8. \A m \in Modes : modes[m] \in Nat /\ modes[m] + 1 \in Nat
  BY DEF Typed
<1>9. modes \in [Modes -> Nat] /\ NoMode \notin Modes
  BY LlamaEvalAssumption DEF Typed, NoMode
<1>10. /\ modes' \in [Modes -> Nat]
       /\ \A m \in Modes : modes'[m] =
             IF ~summary.passed /\ summary.mode = m THEN modes[m] + 1 ELSE modes[m]
  <2>1. CASE summary.passed \/ summary.mode = NoMode
    BY <1>9, <2>1 DEF Count
  <2>2. CASE ~summary.passed /\ summary.mode # NoMode
    <3>1. modes' = [modes EXCEPT ![summary.mode] = @ + 1]
      BY <2>2 DEF Count
    <3>2. summary.mode \in Modes
      BY <2>2 DEF Entries, Summaries
    <3> QED
      BY <1>8, <1>9, <2>2, <3>1, <3>2
  <2> QED
    BY <2>1, <2>2
<1>11. \A m \in Modes :
          modes'[m] = Cardinality({e \in Failed' : entries'[e].summary.mode = m})
  BY <1>5, <1>6, <1>7, <1>10
<1>12. modes' = ModesOf(Failed)'
  BY <1>10, <1>11 DEF ModesOf
<1>13. \A e \in DOMAIN entries' : IsExplained(entries'[e].summary)
  BY <1>1, <1>2 DEF ModesAreCounted
<1> QED
  BY <1>1, <1>10, <1>12, <1>13 DEF ModesAreCounted

\* Only the failed entries of the list are listed, and all of them while the states they
\* start in fit.
LEMMA ListHoldsFailures ==
    ASSUME entries \in Seq(Entries), MaxListed \in Nat,
           Cardinality({entries[e].initial : e \in Failed}) <= MaxListed
    PROVE  Listed = Failed
<1> DEFINE n == Len(entries)
           InitialsOf(S) == {entries[e].initial : e \in S}
           Initial == [e \in Failed |-> entries[e].initial]
<1>1. n \in Nat /\ Failed \subseteq 1..n /\ IsFiniteSet(Failed)
  <2>1. n \in Nat /\ DOMAIN entries = 1..n
    BY LenProperties
  <2>2. Failed \subseteq 1..n
    BY <2>1 DEF Failed
  <2>3. IsFiniteSet(1..n)
    BY <2>1, FS_Interval
  <2> QED
    BY <2>1, <2>2, <2>3, FS_Subset
<1>2. IsFiniteSet(InitialsOf(Failed))
  <2>1. Initial \in Surjection(Failed, InitialsOf(Failed))
    BY DEF Surjection
  <2> QED
    BY <1>1, <2>1, FS_Surjection
<1>3. ASSUME NEW e \in Failed
      PROVE  e \in Listed
  <2> DEFINE same == {d \in Failed : entries[d].initial = entries[e].initial}
  <2>1. same \in SUBSET Nat /\ same # {}
    <3>1. e \in same /\ same \subseteq Failed
      BY <1>3
    <3>2. Failed \subseteq Nat
      BY <1>1
    <3> HIDE DEF same
    <3> QED
      BY <3>1, <3>2
  <2>2. PICK d \in same : \A c \in same : d <= c
    BY <2>1, LeastNumber
  <2>3. d \in Failed /\ entries[d].initial = entries[e].initial
    BY <2>2
  <2> DEFINE before == {c \in Failed : c < d}
  <2>4. InitialsOf(before) \subseteq InitialsOf(Failed) \ {entries[e].initial}
    <3>1. \A c \in before : c \in Failed /\ ~(d <= c)
      BY <1>1, <2>1, <2>2
    <3>2. \A c \in before : entries[c].initial # entries[e].initial
      BY <2>2, <3>1
    <3> QED
      BY <3>1, <3>2
  <2>5. entries[e].initial \in InitialsOf(Failed)
    BY <1>3
  <2> HIDE DEF InitialsOf, before, same
  <2>6. /\ IsFiniteSet(InitialsOf(Failed) \ {entries[e].initial})
        /\ Cardinality(InitialsOf(Failed) \ {entries[e].initial}) =
              Cardinality(InitialsOf(Failed)) - 1
    BY <1>2, <2>5, FS_RemoveElement
  <2>7. /\ Cardinality(InitialsOf(before)) <=
              Cardinality(InitialsOf(Failed) \ {entries[e].initial})
        /\ IsFiniteSet(InitialsOf(before))
    BY <2>4, <2>6, FS_Subset
  <2>8. /\ Cardinality(InitialsOf(before)) \in Nat
        /\ Cardinality(InitialsOf(Failed)) \in Nat
    BY <1>2, <2>7, FS_CardinalityType
  <2>9. Cardinality(InitialsOf(Failed)) <= MaxListed
    BY DEF InitialsOf
  <2>10. Cardinality(InitialsOf(before)) < MaxListed
    BY <2>6, <2>7, <2>8, <2>9
  <2>11. RoomFor(d)
    BY <2>10 DEF RoomFor, InitialsOf, before
  <2> QED
    BY <1>3, <2>3, <2>11 DEF Listed
<1> QED
  BY <1>3 DEF Listed

-----------------------------------------------------------------------------
LEMMA InitInv ==
    ASSUME Init
    PROVE  Inv
<1>1. file \in Seq(Lines \union {Unreadable}) /\ Len(file) \in Nat
  BY LlamaEvalAssumption, LenProperties DEF Init
<1>2. << >> \in Seq(Outputs) /\ << >> \in Seq(Entries) /\ Len(<< >>) = 0
  BY EmptySeq
<1>3. Typed
  BY <1>1, <1>2 DEF Init, Typed
<1>4. WalkIsExplained
  BY StartIsExplained DEF Init, WalkIsExplained, IsExplained
<1>5. CountsFit
  BY <1>2 DEF Init, CountsFit
<1>6. ModesAreCounted
  <2>1. DOMAIN entries = {} /\ Failed = {}
    BY DEF Init, Failed
  <2>2. \A m \in Modes : {e \in Failed : entries[e].summary.mode = m} = {}
    BY <2>1
  <2>3. modes = ModesOf(Failed)
    BY <2>2, FS_EmptySet DEF Init, ModesOf
  <2> QED
    BY <2>1, <2>3 DEF ModesAreCounted
<1>7. ReportsAreOfEntries
  BY DEF Init, ReportsAreOfEntries
<1> QED
  BY <1>3, <1>4, <1>5, <1>6, <1>7 DEF Inv

\* A run of a row ends, with a summary that is explained.
LEMMA EndRunInv ==
    ASSUME Inv, InRows, NEW summary \in Summaries, IsExplained(summary), NEW call,
           EndRun(summary, call)
    PROVE  Inv'
<1>1. /\ phase' = "rows" /\ file' = file /\ outs' = << >>
      /\ at' = StartOf(line')
  BY DEF EndRun, InRows
<1>2. Typed /\ CountsFit /\ ModesAreCounted
  BY DEF Inv
<1>3. /\ line \in Nat /\ line <= Len(file) /\ Len(file) \in Nat /\ file \in Seq(Lines \union {Unreadable})
      /\ Len(entries) \in Nat /\ entries \in Seq(Entries)
  BY <1>2, LenProperties DEF Typed, InRows
<1>4. line + 1 \in 1..(Len(file) + 1)
  BY <1>3
<1>5. WalkIsExplained'
  BY <1>1, StartIsExplained DEF WalkIsExplained, IsExplained
<1>6. ReportsAreOfEntries'
  BY <1>1 DEF ReportsAreOfEntries
<1>7. outs' \in Seq(Outputs)
  BY <1>1, EmptySeq
<1>8. CASE sample = 0
  <2>1. EndGreedy(summary, Row # Unreadable)
    BY <1>8 DEF EndRun
  <2> DEFINE entry == [summary |-> summary,
                       initial |-> IF Row # Unreadable THEN Row.initial ELSE None]
  <2>2. /\ entries' = Append(entries, entry) /\ Count(summary)
        /\ UNCHANGED <<passK, passMaj>>
        /\ line' \in {line, line + 1}
    BY <2>1 DEF EndGreedy
  <2>3. entry \in Entries
    <3>1. Row \in Lines \union {Unreadable}
      <4>1. line \in 1..Len(file)
        BY <1>2, <1>3 DEF Typed
      <4> QED
        BY <1>3, <4>1, ElementOfSeq DEF Row
    <3>2. Row # Unreadable => Row.initial \in Texts \union {None}
      BY <3>1 DEF Lines
    <3> QED
      BY <3>2 DEF Entries
  <2> HIDE DEF entry
  <2>4. entry.summary = summary
    BY DEF entry
  <2>5. ModesAreCounted' /\ modes' \in [Modes -> Nat] /\ entries' \in Seq(Entries)
    BY <1>2, <2>2, <2>3, <2>4, OneMoreEntry
  <2>6. Len(entries') = Len(entries) + 1
    BY <1>3, <2>2, <2>3, AppendProperties
  <2>7. CountsFit'
    BY <1>2, <1>3, <2>2, <2>6 DEF CountsFit, Typed
  <2>8. Typed'
    BY <1>1, <1>2, <1>3, <1>4, <1>7, <2>2, <2>5 DEF Typed
  <2> QED
    BY <1>5, <1>6, <2>5, <2>7, <2>8 DEF Inv
<1>9. CASE sample # 0
  <2> DEFINE all == Append(samples, [call |-> call, passed |-> summary.passed])
  <2>1. /\ UNCHANGED <<entries, modes>>
        /\ \/ UNCHANGED <<line, passK, passMaj>>
           \/ /\ sample' = 0 /\ line' = line + 1
              /\ passK' = IF \E a \in DOMAIN all : all[a].passed THEN passK + 1 ELSE passK
              /\ passMaj' = IF MajorityPassed(all) THEN passMaj + 1 ELSE passMaj
    BY <1>9 DEF EndRun, EndSample
  <2>2. MajorityPassed(all) => \E a \in DOMAIN all : all[a].passed
    BY DEF MajorityPassed
  <2>3. /\ passK \in Nat /\ passMaj \in Nat /\ passMaj <= passK /\ passK < Len(entries)
    BY <1>2, <1>9 DEF Typed, CountsFit
  <2>4. /\ passK' \in {passK, passK + 1} /\ passMaj' \in {passMaj, passMaj + 1}
        /\ passMaj' = passMaj + 1 => passK' = passK + 1
    <3>1. CASE UNCHANGED <<line, passK, passMaj>>
      BY <2>3, <3>1
    <3>2. CASE passMaj' = IF MajorityPassed(all) THEN passMaj + 1 ELSE passMaj
      <4> HIDE DEF all
      <4> QED
        BY <2>1, <2>2, <2>3, <3>2
    <3> QED
      BY <2>1, <3>1, <3>2
  <2>5. line' \in {line, line + 1} /\ (sample' # 0 => UNCHANGED <<passK, passMaj>>)
    BY <2>1
  <2>6. CountsFit'
    BY <1>3, <2>1, <2>3, <2>4, <2>5 DEF CountsFit
  <2>7. passK' \in Nat /\ passMaj' \in Nat
    BY <2>3, <2>4
  <2>8. Typed'
    BY <1>1, <1>2, <1>3, <1>4, <1>7, <2>1, <2>5, <2>7 DEF Typed
  <2>9. ModesAreCounted'
    BY <1>2, <2>1 DEF ModesAreCounted, ModesOf, Failed
  <2> QED
    BY <1>5, <1>6, <2>6, <2>8, <2>9 DEF Inv
<1> QED
  BY <1>8, <1>9

\* What is reported depends on the entries and the counters only.
LEMMA ReportedFromEntries ==
    ASSUME UNCHANGED <<entries, counters>>
    PROVE  /\ Rates' = Rates /\ Listed' = Listed /\ Failed' = Failed
           /\ ModesOf(Failed)' = ModesOf(Failed)
           /\ UNCHANGED <<modes, passK, passMaj>>
<1>1. entries' = entries /\ modes' = modes /\ passK' = passK /\ passMaj' = passMaj
  BY DEF counters
<1>2. Failed' = Failed
  BY <1>1 DEF Failed
<1>3. Passed' = Passed
  BY <1>1, <1>2 DEF Passed
<1>4. \A e : RoomFor(e)' = RoomFor(e)
  BY <1>1, <1>2 DEF RoomFor
<1>5. Listed' = Listed
  BY <1>1, <1>2, <1>4 DEF Listed
<1>6. ModesOf(Failed)' = ModesOf(Failed)
  BY <1>1, <1>2 DEF ModesOf
<1> QED
  BY <1>1, <1>2, <1>3, <1>5, <1>6 DEF Rates

\* A walk goes on by one step.
LEMMA GenerateInv ==
    ASSUME Inv, NEW output \in Replies, Generate(output)
    PROVE  Inv'
<1> DEFINE k == Len(outs) + 1
<1>1. /\ UNCHANGED <<file, phase, line, sample, entries, counters, json, md>>
      /\ outs' = Append(outs, output)
      /\ at' = After(at, k, CVerifyStep(CCtx(at.state, Row.steps[k]), output, FALSE))
  BY DEF Generate
<1>2. Typed /\ WalkIsExplained
  BY DEF Inv
<1>3. outs \in Seq(Outputs) /\ output \in Outputs /\ Len(outs) \in Nat
  BY <1>2, LlamaEvalAssumption, LenProperties DEF Typed
<1>4. outs' \in Seq(Outputs) /\ k \in Nat \ {0}
  BY <1>1, <1>3, AppendProperties
<1> HIDE DEF k
<1>5. WalkIsExplained'
  BY <1>1, <1>2, <1>4, StepIsExplained DEF WalkIsExplained, IsExplained
<1>6. Typed'
  BY <1>1, <1>2, <1>4 DEF Typed, counters
<1>7. CountsFit' /\ ModesAreCounted' /\ ReportsAreOfEntries'
  BY <1>1, ReportedFromEntries DEF Inv, CountsFit, ModesAreCounted, ReportsAreOfEntries
<1> QED
  BY <1>5, <1>6, <1>7 DEF Inv

\* The reports are written from the entries, which stay as they are.
LEMMA ReportInv ==
    ASSUME Inv, WriteJson \/ WriteMd \/ CannotWrite
    PROVE  Inv'
<1>1. UNCHANGED <<file, line, sample, at, outs, entries, counters>>
  BY DEF WriteJson, WriteMd, CannotWrite
<1>2. Typed' /\ WalkIsExplained' /\ CountsFit' /\ ModesAreCounted'
  BY <1>1 DEF Inv, Typed, WalkIsExplained, IsExplained, CountsFit, ModesAreCounted, ModesOf,
              Failed, counters
<1>3. /\ Rates' = Rates /\ Listed' = Listed /\ ModesOf(Failed)' = ModesOf(Failed)
      /\ modes' = modes
  BY <1>1, ReportedFromEntries
<1>4. ReportsAreOfEntries'
  <2>1. CASE WriteJson
    BY <1>3, <2>1 DEF WriteJson, ReportsAreOfEntries
  <2>2. CASE WriteMd
    BY <1>3, <2>2 DEF WriteMd, Inv, ReportsAreOfEntries
  <2>3. CASE CannotWrite
    BY <2>3 DEF CannotWrite, ReportsAreOfEntries
  <2> QED
    BY <2>1, <2>2, <2>3
<1> QED
  BY <1>2, <1>4 DEF Inv

LEMMA StepInv == Inv /\ [Next]_vars => Inv'
<1> SUFFICES ASSUME Inv, [Next]_vars
             PROVE  Inv'
  OBVIOUS
<1>1. /\ \A final : Verdict(at, final) \in Summaries /\ IsExplained(Verdict(at, final))
      /\ \A k \in Nat, mode \in Modes :
            FailedRow(k, mode) \in Summaries /\ IsExplained(FailedRow(k, mode))
  BY SummaryIsExplained DEF Inv
<1>2. "parse" \in Modes /\ "schema" \in Modes /\ Len(outs) + 1 \in Nat
  <2>1. SubscoreNames[1] = "parse" /\ SubscoreNames[2] = "schema"
    BY DEF SubscoreNames
  <2>2. Len(outs) \in Nat
    BY LenProperties DEF Inv, Typed
  <2> QED
    BY <2>1, <2>2 DEF Modes
<1>3. CASE BadLine
  BY <1>1, <1>2, <1>3, EndRunInv DEF BadLine
<1>4. CASE NoWalk
  BY <1>1, <1>2, <1>4, EndRunInv DEF NoWalk
<1>5. CASE NoPrompt \/ Lose \/ \E output \in Replies : LoseOutput(output)
  BY <1>1, <1>2, <1>5, EndRunInv DEF NoPrompt, Lose, LoseOutput, Prompted, AtStep, Walking
<1>6. CASE EndWalk
  BY <1>1, <1>6, EndRunInv DEF EndWalk, Walking
<1>7. CASE \E output \in Replies : Generate(output)
  BY <1>7, GenerateInv
<1>8. CASE WriteJson \/ WriteMd \/ CannotWrite
  BY <1>8, ReportInv
<1>9. CASE UNCHANGED vars
  <2>1. /\ UNCHANGED <<file, phase, line, sample, at, outs, entries, counters, json, md>>
    BY <1>9 DEF vars
  <2>2. Typed' /\ WalkIsExplained'
    BY <2>1 DEF Inv, Typed, WalkIsExplained, IsExplained, counters
  <2>3. CountsFit' /\ ModesAreCounted' /\ ReportsAreOfEntries'
    BY <2>1, ReportedFromEntries DEF Inv, CountsFit, ModesAreCounted, ReportsAreOfEntries
  <2> QED
    BY <2>2, <2>3 DEF Inv
<1> QED
  BY <1>3, <1>4, <1>5, <1>6, <1>7, <1>8, <1>9 DEF Next

\* The invariant holds in every state of every evaluation.
THEOREM InvHolds == Spec => []Inv
<1>1. Init => Inv
  BY InitInv
<1> QED
  BY <1>1, StepInv, PTL DEF Spec

\* pass@maj counts no row that pass@k does not, and neither more rows than were graded,
\* for any number of samples and any answers (cli.c:3505-3573).
THEOREM MajorityStaysWithinK == Spec => []MajorityIsWithinK
<1>1. Inv => MajorityIsWithinK
  BY DEF Inv, CountsFit, MajorityIsWithinK
<1> QED
  BY <1>1, InvHolds, PTL

\* The two reports count failures alike though each counts for itself, and a failed row
\* is missing from the modes only if no step of it failed (cli.c:286-300, 922-955).
THEOREM ModesStayAccounted == Spec => []ModesAccountForFailures
<1>1. Inv => ModesAccountForFailures
  <2> SUFFICES ASSUME Inv, phase = "done"
               PROVE  /\ json.modes = md.modes
                      /\ json.rates = md.rates
                      /\ \A e \in Failed :
                            entries[e].summary.mode \in {m \in Modes : md.modes[m] > 0} \/
                            (entries[e].summary.mode = NoMode /\ entries[e].summary.failed = 0)
    BY DEF ModesAccountForFailures
  <2>1. /\ json = [rates |-> Rates, modes |-> modes] /\ modes = ModesOf(Failed)
        /\ md = [rates |-> Rates, modes |-> ModesOf(Failed), listed |-> Listed]
    BY DEF Inv, ReportsAreOfEntries, ModesAreCounted
  <2>2. ASSUME NEW e \in Failed, entries[e].summary.mode # NoMode
        PROVE  /\ entries[e].summary.mode \in Modes
               /\ ModesOf(Failed)[entries[e].summary.mode] > 0
    <3> DEFINE m == entries[e].summary.mode
               same == {d \in Failed : entries[d].summary.mode = m}
    <3>1. entries \in Seq(Entries) /\ DOMAIN entries = 1..Len(entries) /\ Len(entries) \in Nat
      BY LenProperties DEF Inv, Typed
    <3>2. e \in 1..Len(entries) /\ same \subseteq 1..Len(entries) /\ e \in same
      BY <2>2, <3>1 DEF Failed
    <3>3. m \in Modes
      <4>1. entries[e] \in Entries
        BY <3>1, <3>2, ElementOfSeq
      <4> QED
        BY <2>2, <4>1 DEF Entries, Summaries
    <3>4. IsFiniteSet(same)
      <4>1. IsFiniteSet(1..Len(entries))
        BY <3>1, FS_Interval
      <4> QED
        BY <3>2, <4>1, FS_Subset
    <3> HIDE DEF same, m
    <3>5. Cardinality(same) \in Nat /\ Cardinality(same) # 0
      BY <3>2, <3>4, FS_EmptySet, FS_CardinalityType
    <3>6. ModesOf(Failed)[m] = Cardinality(same)
      BY <3>3 DEF ModesOf, same
    <3> QED
      BY <3>3, <3>5, <3>6 DEF m
  <2>3. \A e \in Failed : entries[e].summary.mode = NoMode => entries[e].summary.failed = 0
    BY DEF Inv, ModesAreCounted, IsExplained, Failed
  <2> QED
    BY <2>1, <2>2, <2>3
<1> QED
  BY <1>1, InvHolds, PTL

\* No failed row is dropped from the list while the states they start in fit
\* (cli.c:957-1019).
THEOREM FailuresStayListed == Spec => []EveryFailureIsListed
<1>1. Inv => EveryFailureIsListed
  BY ListHoldsFailures, LlamaEvalAssumption
  DEF Inv, Typed, ReportsAreOfEntries, EveryFailureIsListed
<1> QED
  BY <1>1, InvHolds, PTL

-----------------------------------------------------------------------------
(* The verdicts.  A run walks its row one answer at a time; what it has     *)
(* walked so far is the walk of Graders over the outputs so far.            *)

\* A run has walked its row as far as it has outputs.
WalkInv ==
    Walking =>
        /\ Len(outs) <= Len(Row.steps)
        /\ \E w : IsWholeWalk(w, Len(outs), Row, outs) /\ at = w[Len(outs)]

\* The run that ended last had a row of the file; if it had all its outputs, its
\* summary is the verdict on the whole walk, and if not it did not pass.
EndedInv ==
    ended # NoRun =>
        /\ ended.summary.passed => Whole
        /\ Whole =>
            /\ ended.row \in Lines
            /\ \E k \in DOMAIN file : ended.row = file[k]
            /\ ended.outs \in Seq(Outputs)
            /\ ended.summary = Verdict(Walk(ended.row, ended.outs, FALSE),
                                       Readable(ended.row.final))

GradeInv == file \in Files /\ WalkInv /\ EndedInv

\* No line of a test file gives a state as an empty string.
FilesHaveNoBlanks ==
    \A f \in Files : \A k \in DOMAIN f : f[k] # Unreadable => HasNoBlank(f[k])

LEMMA RowIsALine ==
    ASSUME Typed, Walking
    PROVE  /\ Row \in Lines /\ Row.steps \in Seq(Steps) /\ Len(Row.steps) \in Nat
           /\ line \in DOMAIN file
<1>1. file \in Seq(Lines \union {Unreadable}) /\ line \in Nat /\ 1 <= line /\ line <= Len(file)
  BY LenProperties DEF Typed, Walking, InRows
<1>2. line \in 1..Len(file) /\ Len(file) \in Nat
  BY <1>1, LenProperties
<1>3. file[line] \in Lines \union {Unreadable}
  BY <1>1, <1>2, ElementOfSeq
<1>4. Row \in Lines
  BY <1>3 DEF Row, Walking
<1>5. Row.steps \in Seq(Steps)
  BY <1>4 DEF Lines
<1> QED
  BY <1>1, <1>2, <1>4, <1>5, LenProperties

\* A run ends, and the next one starts where its row does.  What has ended is the walk of
\* a whole row with its verdict, or no pass.
LEMMA EndRunGrades ==
    ASSUME Inv, GradeInv, Typed', InRows, NEW summary, NEW call, EndRun(summary, call),
           \/ ~summary.passed
              /\ (Row = Unreadable \/ Row.initial = None \/ Len(outs) # Len(Row.steps))
           \/ /\ Walking /\ Len(outs) = Len(Row.steps)
              /\ summary = Verdict(at, Readable(Row.final))
    PROVE  GradeInv'
<1>1. /\ phase' = "rows" /\ file' = file /\ outs' = << >>
      /\ at' = StartOf(line')
      /\ ended' = [row |-> Row, outs |-> outs, summary |-> summary]
  BY DEF EndRun, InRows
<1>2. file' \in Files
  BY <1>1 DEF GradeInv
<1>3. WalkInv'
  <2> SUFFICES ASSUME Walking'
               PROVE  /\ Len(outs') <= Len(Row'.steps)
                      /\ \E w : IsWholeWalk(w, Len(outs'), Row', outs') /\ at' = w[Len(outs')]
    BY DEF WalkInv
  <2>1. Len(outs') = 0 /\ Len(Row'.steps) \in Nat
    <3>1. (Len(Row.steps) \in Nat)'
      BY RowIsALine, PTL
    <3> QED
      BY <1>1, <3>1
  <2>2. at' = Start(Row')
    <3>1. line' <= Len(file') /\ file'[line'] # Unreadable /\ Row' = file'[line']
      BY DEF Walking, InRows, Row
    <3>2. line' \in Nat /\ Len(file) \in Nat
      BY <1>1, LenProperties DEF Typed
    <3>3. ~(line' > Len(file)) /\ file[line'] # Unreadable
      BY <1>1, <3>1, <3>2
    <3> QED
      BY <1>1, <3>1, <3>3 DEF StartOf
  <2>3. PICK w : IsWholeWalk(w, 0, Row', outs') /\ w[0] = Start(Row')
    BY WholeWalkStarts
  <2> QED
    BY <2>1, <2>2, <2>3
<1>4. EndedInv'
  <2>1. /\ ended'.row = Row /\ ended'.outs = outs /\ ended'.summary = summary
    BY <1>1
  <2>2. CASE /\ ~summary.passed
             /\ Row = Unreadable \/ Row.initial = None \/ Len(outs) # Len(Row.steps)
    BY <2>1, <2>2 DEF EndedInv, Whole
  <2>3. CASE /\ Walking /\ Len(outs) = Len(Row.steps)
             /\ summary = Verdict(at, Readable(Row.final))
    <3>1. /\ Row \in Lines /\ Len(Row.steps) \in Nat /\ line \in DOMAIN file
          /\ outs \in Seq(Outputs)
      BY <2>3, RowIsALine DEF Inv, Typed
    <3>2. PICK w : IsWholeWalk(w, Len(Row.steps), Row, outs) /\ at = w[Len(Row.steps)]
      BY <2>3 DEF GradeInv, WalkInv
    <3>3. Walk(Row, outs, FALSE) = at
      BY <3>1, <3>2, WholeWalkEndsThere
    <3>4. Row # Unreadable /\ Row.initial # None
      BY <2>3 DEF Walking
    <3>5. \E k \in DOMAIN file' : ended'.row = file'[k]
      BY <1>1, <2>1, <3>1 DEF Row
    <3>6. ended'.summary = Verdict(Walk(ended'.row, ended'.outs, FALSE),
                                   Readable(ended'.row.final))
      BY <2>1, <2>3, <3>3
    <3>7. Whole' <=> ended' # NoRun
      BY <2>1, <2>3, <3>4 DEF Whole
    <3> QED
      BY <2>1, <3>1, <3>5, <3>6, <3>7 DEF EndedInv
  <2> QED
    BY <2>2, <2>3
<1> QED
  BY <1>2, <1>3, <1>4 DEF GradeInv

\* An answer takes the walk one step on.
LEMMA GenerateGrades ==
    ASSUME Inv, GradeInv, NEW output \in Replies, Generate(output)
    PROVE  GradeInv'
<1> DEFINE n == Len(outs)
<1>1. /\ UNCHANGED <<file, phase, line, ended>> /\ Walking /\ n + 1 <= Len(Row.steps)
      /\ outs' = Append(outs, output)
      /\ at' = After(at, n + 1, CVerifyStep(CCtx(at.state, Row.steps[n + 1]), output, FALSE))
  <2>1. Len(outs) \in Nat /\ (Walking => Len(Row.steps) \in Nat)
    BY LenProperties, RowIsALine DEF Inv, Typed
  <2> QED
    BY <2>1 DEF Generate, Prompted, AtStep
<1>2. outs \in Seq(Outputs) /\ output \in Outputs /\ n \in Nat
  BY LlamaEvalAssumption, LenProperties DEF Inv, Typed
<1>3. /\ Len(outs') = n + 1 /\ outs'[n + 1] = output
      /\ SameUpTo(n, outs, outs')
  BY <1>1, <1>2, AppendProperties DEF SameUpTo
<1>4. Row' = Row
  BY <1>1 DEF Row
<1>5. PICK w : IsWholeWalk(w, n, Row, outs) /\ at = w[n]
  BY <1>1 DEF GradeInv, WalkInv
<1> HIDE DEF n
<1>6. PICK v : /\ IsWholeWalk(v, n + 1, Row, outs')
               /\ v[n + 1] = After(w[n], n + 1,
                     CVerifyStep(CCtx(w[n].state, Row.steps[n + 1]), outs'[n + 1], FALSE))
  BY <1>2, <1>3, <1>5, WholeWalkGoesOn, ZenonT(60)
<1>7. at' = v[n + 1]
  BY <1>1, <1>3, <1>5, <1>6
<1>8. WalkInv'
  BY <1>1, <1>3, <1>4, <1>6, <1>7 DEF WalkInv
<1>9. EndedInv'
  BY <1>1 DEF GradeInv, EndedInv, Whole
<1> QED
  BY <1>1, <1>8, <1>9 DEF GradeInv

LEMMA GradeStep ==
    ASSUME Inv, Typed', GradeInv, [Next]_vars
    PROVE  GradeInv'
<1>1. CASE BadLine
  BY <1>1, EndRunGrades DEF BadLine, FailedRow
<1>2. CASE NoWalk
  BY <1>2, EndRunGrades DEF NoWalk, FailedRow
<1>3. CASE NoPrompt \/ Lose \/ \E output \in Replies : LoseOutput(output)
  <2>1. Len(outs) # Len(Row.steps) /\ InRows
    <3>1. AtStep /\ Len(outs) \in Nat
      BY <1>3, LenProperties DEF NoPrompt, Lose, LoseOutput, Prompted, Inv, Typed
    <3> QED
      BY <3>1, RowIsALine DEF AtStep, Walking, Inv
  <2>2. \A mode : ~FailedRow(Len(outs) + 1, mode).passed
    BY DEF FailedRow
  <2> QED
    BY <1>3, <2>1, <2>2, EndRunGrades DEF NoPrompt, Lose, LoseOutput
<1>4. CASE EndWalk
  BY <1>4, EndRunGrades DEF EndWalk, Walking
<1>5. CASE \E output \in Replies : Generate(output)
  BY <1>5, GenerateGrades
<1>6. CASE WriteJson \/ WriteMd \/ CannotWrite
  <2>1. UNCHANGED <<file, line, at, outs, ended>> /\ ~Walking'
    BY <1>6 DEF WriteJson, WriteMd, CannotWrite, Walking, InRows
  <2> QED
    BY <2>1 DEF GradeInv, WalkInv, EndedInv, Whole
<1>7. CASE UNCHANGED vars
  <2>1. UNCHANGED <<file, phase, line, at, outs, ended>>
    BY <1>7 DEF vars
  <2> QED
    BY <2>1 DEF GradeInv, WalkInv, EndedInv, Whole, Walking, InRows, Row
<1> QED
  BY <1>1, <1>2, <1>3, <1>4, <1>5, <1>6, <1>7 DEF Next
LEMMA InitGrades ==
    ASSUME Init, Typed
    PROVE  GradeInv
<1>1. WalkInv
  <2> SUFFICES ASSUME Walking
               PROVE  /\ Len(outs) <= Len(Row.steps)
                      /\ \E w : IsWholeWalk(w, Len(outs), Row, outs) /\ at = w[Len(outs)]
    BY DEF WalkInv
  <2>1. Len(outs) = 0 /\ Len(Row.steps) \in Nat
    BY RowIsALine DEF Init
  <2>2. at = Start(Row)
    <3>1. line <= Len(file) /\ file[line] # Unreadable /\ Row = file[line]
      BY DEF Walking, InRows, Row
    <3>2. line = 1 /\ Len(file) \in Nat /\ at = StartOf(1)
      BY LenProperties DEF Typed, Init
    <3> QED
      BY <3>1, <3>2 DEF StartOf
  <2>3. PICK w : IsWholeWalk(w, 0, Row, outs) /\ w[0] = Start(Row)
    BY WholeWalkStarts
  <2> QED
    BY <2>1, <2>2, <2>3
<1> QED
  BY <1>1 DEF Init, GradeInv, EndedInv

\* When every request was answered, score-responses reads back the whole of a row it takes.
LEMMA ResponsesAreWhole ==
    ASSUME NEW row \in Lines, SchemaAccepts(row), row.safe, Fits(row),
           NEW given \in Seq(Outputs), Len(given) = Len(row.steps)
    PROVE  Responses(row, given) = Verdict(Walk(row, given, TRUE), Readable(row.final))
<1> DEFINE lost == {k \in DOMAIN row.steps : ~StepFits(row.steps[k]) \/ given[k] = Lost}
           read == IF lost = {} THEN Len(row.steps) ELSE First(lost) - 1
           walked == Walk([row EXCEPT !.steps = SubSeq(@, 1, read)], given, TRUE)
<1>1. row.steps \in Seq(Steps) /\ row.final \in Fields
  BY DEF Lines
<1>2. lost = {}
  <2>1. \A k \in DOMAIN given : given[k] \in Outputs
    BY LenProperties, ElementOfSeq
  <2>2. DOMAIN given = DOMAIN row.steps
    BY <1>1, LenProperties
  <2> QED
    BY <2>1, <2>2, LlamaEvalAssumption DEF Fits
<1> HIDE DEF lost
<1>3. SubSeq(row.steps, 1, Len(row.steps)) = row.steps
  BY <1>1, SubSeqFull
<1>4. read = Len(row.steps) /\ [row EXCEPT !.steps = SubSeq(@, 1, read)] = row
  BY <1>2, <1>3 DEF Lines
<1>5. Readable(row.final) = row.final /\ row.final # LongText
  BY <1>1 DEF Readable, CReads, SchemaAccepts, IsString, Fits
<1> HIDE DEF read
<1>6. walked = Walk(row, given, TRUE)
  BY <1>4
<1>7. Responses(row, given) =
        IF walked.failed # 0 THEN FailedRow(walked.failed, walked.mode)
        ELSE IF lost # {}
             THEN FailedRow(read + 1, IF StepFits(row.steps[read + 1]) THEN "parse" ELSE "schema")
        ELSE IF row.final = LongText THEN FailedRow(0, "schema")
        ELSE Verdict(walked, row.final)
  BY DEF Responses, lost, read
<1> HIDE DEF walked
<1>8. walked.failed # 0 => FailedRow(walked.failed, walked.mode) = Verdict(walked, row.final)
  BY DEF FailedRow, Verdict
<1> QED
  BY <1>2, <1>5, <1>6, <1>7, <1>8

\* The verdict of the run that ended last is that of the walk over its outputs.
THEOREM GradesHold == Spec => []GradeInv
<1>1. Init => Inv /\ Typed
  BY InitInv DEF Inv
<1>2. Init => GradeInv
  BY <1>1, InitGrades
<1>3. Inv /\ Inv' /\ GradeInv /\ [Next]_vars => GradeInv'
  BY GradeStep DEF Inv
<1> QED
  BY <1>2, <1>3, InvHolds, PTL DEF Spec

\* A run that passes had all its outputs, and no step of it failed: a lost request is
\* never part of a pass (cli.c:3176-3262).
THEOREM PassesHaveEveryStep == Spec => []PassNeedsEveryStep
<1>1. GradeInv => PassNeedsEveryStep
  <2> SUFFICES ASSUME GradeInv, ended # NoRun, ended.summary.passed
               PROVE  Whole /\ Walk(ended.row, ended.outs, FALSE).failed = 0
    BY DEF PassNeedsEveryStep
  <2> DEFINE end == Walk(ended.row, ended.outs, FALSE)
  <2>1. Whole /\ ended.summary = Verdict(end, Readable(ended.row.final))
    BY DEF GradeInv, EndedInv
  <2> HIDE DEF end
  <2>2. Verdict(end, Readable(ended.row.final)).passed => end.failed = 0
    BY DEF Verdict
  <2> QED
    BY <2>1, <2>2 DEF end
<1> QED
  BY <1>1, GradesHold, PTL

\* A run with all its outputs has the verdict Python's verify_trajectory gives the same
\* outputs on what C can read of the row, is no pass where Python raises an exception, and
\* has the verdict of score-responses on a row that one takes, if no line of the test file
\* gives a state as an empty string (cli.c:3176, trajectory.py:50-74, cli.c:2520).
THEOREM LiveGradesAgreeUnlessBlank ==
    ASSUME FilesHaveNoBlanks
    PROVE  Spec => []LiveGradesLikeVerifyTrajectory
<1>1. GradeInv => LiveGradesLikeVerifyTrajectory
  <2> DEFINE row == ended.row
             given == ended.outs
             whole == Walk(row, given, FALSE)
             stopped == Walk(row, given, TRUE)
  <2> SUFFICES ASSUME GradeInv, Whole, row.steps # << >>
               PROVE  /\ PyRaises(row, given) => ~ended.summary.passed
                      /\ ~PyRaises(row, given) =>
                            ended.summary = PyVerdict(Legible(row), given)
                      /\ (SchemaAccepts(row) /\ row.safe /\ Fits(row)) =>
                            ended.summary = Responses(row, given)
    BY DEF LiveGradesLikeVerifyTrajectory
  <2>1. /\ row \in Lines /\ row # Unreadable /\ row.initial # None
        /\ given \in Seq(Outputs) /\ Len(given) = Len(row.steps)
        /\ ended.summary = Verdict(whole, Readable(row.final))
    BY DEF GradeInv, EndedInv, Whole
  <2>2. HasNoBlank(row)
    <3>1. PICK k \in DOMAIN file : row = file[k]
      BY DEF GradeInv, EndedInv, Whole
    <3> QED
      BY <2>1, <3>1 DEF FilesHaveNoBlanks, GradeInv
  <2>3. row.steps \in Seq(Steps) /\ row.steps # << >>
    BY <2>1 DEF Lines
  <2> HIDE DEF row, given
  <2>4. /\ PyWalk(Legible(row), given) = whole
        /\ \A final : Verdict(stopped, final) = Verdict(whole, final)
    BY <2>2, <2>3, VerdictsAgree
  <2>5. Len(row.steps) # 0 /\ Len(row.steps) \in Nat /\ DOMAIN row.steps = 1..Len(row.steps)
    BY <2>3, EmptySeq, LenProperties
  <2>6. ASSUME PyRaises(row, given)
        PROVE  ~ended.summary.passed
    <3>1. PICK k \in 1..Len(row.steps) :
                given[k].form = "call" /\ given[k].method = Unhashable
      BY <2>5, <2>6, PyRaisesIff
    <3>2. whole.failed # 0
      <4> DEFINE no == FALSE
      <4>1. PICK w : IsWalk(w, Len(row.steps), row, given, no)
        <5> HIDE DEF no
        <5> QED
          BY <2>5, WalkExists
      <4>2. IsWholeWalk(w, Len(row.steps), row, given)
        BY <4>1 DEF IsWholeWalk
      <4>3. w[Len(row.steps)].failed # 0
        BY <2>5, <3>1, <4>2, NoFailureNoException
      <4> QED
        BY <2>5, <4>2, <4>3, WholeWalkEndsThere
    <3> HIDE DEF whole
    <3>3. Verdict(whole, Readable(row.final)).passed => whole.failed = 0
      BY DEF Verdict
    <3> QED
      BY <2>1, <3>2, <3>3
  <2>7. ASSUME ~PyRaises(row, given)
        PROVE  ended.summary = PyVerdict(Legible(row), given)
    <3>1. /\ Len(Legible(row).steps) # 0 /\ PyGet(Legible(row).final) = Readable(row.final)
          /\ ~PyRaises(Legible(row), given)
      BY <2>3, <2>5, <2>7, LegibleFields, PyRaisesIff
    <3> HIDE DEF whole
    <3> QED
      BY <2>1, <2>4, <3>1 DEF PyVerdict
  <2>8. ASSUME SchemaAccepts(row), row.safe, Fits(row)
        PROVE  ended.summary = Responses(row, given)
    BY <2>1, <2>4, <2>8, ResponsesAreWhole
  <2> QED
    BY <2>6, <2>7, <2>8
<1> QED
  BY <1>1, GradesHold, PTL
=============================================================================
