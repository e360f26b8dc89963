SPECIFICATION FairSpec
CONSTANTS
  j1 = j1 j2 = j2 ann = ann p1 = p1 p2 = p2 x1 = x1 x2 = x2
  Jobs = {j1, j2} Users = {ann} KindOf <- PairKinds
  Pollers = {p1, p2} Containers = {x1, x2} BatchSize = 2 LastEffect = 2
  NoJob = NoJob
INVARIANTS EffectsOnce EffectsInOrder CancelledNeverRuns
PROPERTIES JobsEnd
CHECK_DEADLOCK FALSE
