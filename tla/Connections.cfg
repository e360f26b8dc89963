SPECIFICATION FairSpec
CONSTANTS
  q1 = q1 t1 = t1 t2 = t2 e1 = e1 c1 = c1 s1 = s1 memory = memory tools = tools
  Plain = {q1} Turns = {} Streams = {e1} Chats = {c1} Sockets = {s1}
  Layers = {memory} PoolSize = 5
INVARIANTS NoStandstillInALargePool NothingLeftBehind GhostsComeOfFailedCloses
PROPERTIES EveryCallEnds
CHECK_DEADLOCK FALSE
