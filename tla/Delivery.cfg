SPECIFICATION FairSpec
CONSTANTS
  s1 = s1 r1 = r1
  Messages = {1, 2} Background = {2}
  Sockets = {s1} Resuming = {s1} Requests = {r1} BatchLimit = 1
INVARIANTS LossNeedsAFailure
PROPERTIES ImplementsOutbox AcknowledgementsSettle PendingGetsOut
CHECK_DEADLOCK FALSE
