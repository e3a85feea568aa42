-------------------------------- MODULE Split --------------------------------
(***************************************************************************)
(* How expand_seeds divides the accepted rows: shuffle them, take a train  *)
(* part, take a dev part after it.  Which permutation shuffle_seed selects *)
(* is not modelled: it may be any.                                         *)
(***************************************************************************)
EXTENDS Naturals, Sequences

CONSTANTS
    TrainFrac, DevFrac, \* train_frac and dev_frac, in units of 1/FracUnit
    FracUnit

ASSUME SplitAssumption ==
    /\ FracUnit \in Nat \ {0}
    /\ TrainFrac \in Nat /\ DevFrac \in Nat
    /\ TrainFrac + DevFrac <= FracUnit

NTrain(n) == (n * TrainFrac) \div FracUnit
NDev(n) == (n * DevFrac) \div FracUnit

Permutations(n) ==
    {p \in [1..n -> 1..n] : \A i, j \in 1..n : p[i] = p[j] => i = j}
Shuffles(rows) ==
    {[i \in 1..Len(rows) |-> rows[p[i]]] : p \in Permutations(Len(rows))}

TrainPart(rows) == SubSeq(rows, 1, NTrain(Len(rows)))
\* Mutant: the dev part starts on the last train row.
DevPartOverlaps(rows) ==
    SubSeq(rows, NTrain(Len(rows)), NTrain(Len(rows)) + NDev(Len(rows)))

DevPart(rows) ==
    SubSeq(rows, NTrain(Len(rows)) + 1, NTrain(Len(rows)) + NDev(Len(rows)))

\* What a writer that dies inside a split file may leave of it.
Prefixes(rows) == {SubSeq(rows, 1, n) : n \in 0..Len(rows)}

IdsOf(rows) == {rows[i].id : i \in DOMAIN rows}
DistinctIds(rows) == \A i, j \in DOMAIN rows : rows[i].id = rows[j].id => i = j
=============================================================================
