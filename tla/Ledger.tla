-------------------------------- MODULE Ledger --------------------------------
(***************************************************************************)
(* What expand_seeds promises of the data it is given to keep: a write-    *)
(* ahead log.  A row is acknowledged once, under an id no other row has,   *)
(* and stays acknowledged, across crashes and resumed sessions, until the  *)
(* whole log has been split into the data set; only then is the log        *)
(* cleared.  A session that does not resume starts a new log.              *)
(***************************************************************************)
EXTENDS Split, FiniteSets

CONSTANTS Seeds,    \* seed ids, each with an equal quota
          Quota,
          TestSet   \* the rows of the test split

VARIABLES acked,    \* the acknowledged rows
          session,  \* sessions started
          train, dev, test

vars == <<acked, session, train, dev, test>>

Init ==
    /\ acked = << >>
    /\ session = 0
    /\ train = << >> /\ dev = << >> /\ test = << >>

Open(resume) ==
    /\ session' = session + 1
    /\ acked' = IF resume THEN acked ELSE << >>
    /\ UNCHANGED <<train, dev, test>>

Acknowledge ==
    /\ \E id \in IdsOf(acked'), s \in Seeds :
          /\ id \notin IdsOf(acked)
          /\ acked' = Append(acked, [id |-> id, seed |-> s])
          /\ Cardinality({i \in DOMAIN acked : acked[i].seed = s}) < Quota
    /\ UNCHANGED <<session, train, dev, test>>

\* One split is replaced, by all or, in a crash, by the beginning of its rows.
WriteSplit ==
    /\ \E rows \in Shuffles(acked) :
          \/ train' \in Prefixes(TrainPart(rows)) /\ UNCHANGED <<dev, test>>
          \/ dev' \in Prefixes(DevPart(rows)) /\ UNCHANGED <<train, test>>
          \/ test' \in Prefixes(TestSet) /\ UNCHANGED <<train, dev>>
    /\ UNCHANGED <<acked, session>>

Clear ==
    /\ \E rows \in Shuffles(acked) : train = TrainPart(rows) /\ dev = DevPart(rows)
    /\ test = TestSet
    /\ acked' = << >>
    /\ UNCHANGED <<session, train, dev, test>>

Next ==
    \/ \E resume \in BOOLEAN : Open(resume)
    \/ Acknowledge
    \/ WriteSplit
    \/ Clear

Spec == Init /\ [][Next]_vars
=============================================================================
