SPECIFICATION Spec
CONSTANTS
  s1 = s1 s2 = s2 t1 = t1 t2 = t2 e1 = e1 e2 = e2 p1 = p1 p2 = p2
  Sessions = {s1, s2} Sealed = {s1} Turns = {t1, t2}
  Enders = {e1} Patchers = {p1} NoSession = NoSession
INVARIANTS OnlyRacingInserts HistoryStaysInside EndReturnsEnded
PROPERTY EndedForGood
SYMMETRY Symmetry
CHECK_DEADLOCK FALSE
