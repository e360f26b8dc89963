SPECIFICATION FairSpec
CONSTANTS
  c1 = c1
  Calls = {c1} Reported = {"ringing"} MaxTries = 2 MaxRestarts = 1 MaxLines = 2
INVARIANTS LeftoversAreKnown KnownCallsAreServed RowIsTheLatest EndFrameOnce
PROPERTIES TheEndIsKept SessionsEnd
CHECK_DEADLOCK FALSE
