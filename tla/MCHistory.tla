----------------------------- MODULE MCHistory -----------------------------
(* Instances of History for TLC: all turns in one process.                 *)
EXTENDS History, TLC

CONSTANTS t1, t2, t3, r1, p1

OneProcess == [c \in Callers |-> p1]

Symmetry == Permutations(Turns)
=============================================================================
