------------------------------ MODULE MCEvalRun ------------------------------
(* Instances of EvalRun for TLC. *)
EXTENDS EvalRun

CONSTANTS t1, t2, t3

RowsWithoutId == <<t1, NoId, t2, NoId>>
=============================================================================
