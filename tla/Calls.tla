------------------------------- MODULE Calls --------------------------------
(***************************************************************************)
(* A function of the C library called once: which one, on what, and what   *)
(* it answers.                                                             *)
(***************************************************************************)
EXTENDS Integers, Sequences

VARIABLES
    op,    \* the call, none at first
    input,
    answer
vars == <<op, input, answer>>

SeqsUpTo(set, n) == UNION {[1..k -> set] : k \in 0..n}

Call(name, in, out) == op' = name /\ input' = in /\ answer' = out
Init == op = "none" /\ input = << >> /\ answer = << >>
=============================================================================
