SPECIFICATION SummariesSpec
CONSTANTS
  t1 = t1 t2 = t2 p1 = p1 r1 = r1 phone = phone laptop = laptop
  Turns = {t1, t2} Pushes = {p1} Askers = {r1} DeviceOf <- OneEach
  MessageLimit = 2 MaxResets = 1
INVARIANTS SummarizedIsKnown PromptMissesOnlyUncounted
PROPERTY KnowledgeGrows
SYMMETRY Mirror
CHECK_DEADLOCK FALSE
