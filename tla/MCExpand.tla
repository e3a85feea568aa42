------------------------------ MODULE MCExpand ------------------------------
(* Instances of Expand for TLC. *)
EXTENDS Expand

CONSTANTS s1, s2, own, unknown

OneSeed == <<s1>>
TwoSeeds == <<s1, s2>>
MCBases == {s1, s2, own, unknown}

\* The teacher echoes the seed, or returns the id the renaming would give next.
EchoReplies == {<<s1>>, <<s1, 2>>}
TornReplies == EchoReplies \union {NoId}
AnyReplies == {<<own>>, <<s1>>, NoId}
=============================================================================
