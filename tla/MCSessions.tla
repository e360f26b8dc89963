----------------------------- MODULE MCSessions -----------------------------
EXTENDS Sessions, TLC

CONSTANTS s1, s2, t1, t2, e1, e2, p1, p2

Symmetry ==
  Permutations({t1, t2}) \cup Permutations({e1, e2}) \cup Permutations({p1, p2})
=============================================================================
