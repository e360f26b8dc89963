SPECIFICATION Spec
CONSTANTS
  t1 = t1 t2 = t2 t3 = t3 r1 = r1 p1 = p1
  Turns = {t1, t2, t3} Readers = {r1} Processes = {p1} HomeOf <- OneProcess
  TTL = 1 MaxAtOnce = 2 MaxFailures = 1
INVARIANTS ReposKeepUp RecentTurnsAreRemembered DisorderNeedsOverlap
SYMMETRY Symmetry
CHECK_DEADLOCK FALSE
