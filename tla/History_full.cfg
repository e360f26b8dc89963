SPECIFICATION Spec
CONSTANTS
  t1 = t1 t2 = t2 t3 = t3 r1 = r1 p1 = p1
  Turns = {t1, t2, t3} Readers = {} Processes = {p1} HomeOf <- OneProcess
  TTL = 2 MaxAtOnce = 1 MaxFailures = 0
INVARIANT FullHistory
CHECK_DEADLOCK FALSE
