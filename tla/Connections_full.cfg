SPECIFICATION Spec
CONSTANTS
  q1 = q1 t1 = t1 t2 = t2 e1 = e1 c1 = c1 s1 = s1 memory = memory tools = tools
  Plain = {} Turns = {t1, t2} Streams = {} Chats = {} Sockets = {}
  Layers = {memory} PoolSize = 2
INVARIANT SurvivesAFullPool
CHECK_DEADLOCK FALSE
