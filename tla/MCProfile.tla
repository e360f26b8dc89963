----------------------------- MODULE MCProfile -----------------------------
(* An instance of Profile for TLC: one process, one request, two behaviors *)
(* that write next to each other.                                          *)
EXTENDS Profile, TLC

CONSTANTS t1, t2, r1, b1, b2, p1, k1, k2, l1, l2

OneProcess == [w \in Readers \cup Requests |-> p1]

Paths == r1 :> <<k2, l1>> @@ b1 :> <<k1, l1>> @@ b2 :> <<k1, l2>>

Symmetry == Permutations(Readers)
=============================================================================
