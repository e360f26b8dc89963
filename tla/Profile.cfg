SPECIFICATION Spec
CONSTANTS
  t1 = t1 t2 = t2 r1 = r1 b1 = b1 b2 = b2 p1 = p1 k1 = k1 k2 = k2 l1 = l1 l2 = l2
  Readers = {t1, t2} Requests = {r1} Behaviors = {b1, b2}
  Processes = {p1} ProcessOf <- OneProcess Keys = {k1, k2} Leaves = {l1, l2} PathOf <- Paths
  TTL = 2 FetchMax = 1 Horizon = 4
INVARIANTS OwnWritesShow OldProfilesFade LeavesSurvive
SYMMETRY Symmetry
CHECK_DEADLOCK FALSE
