SPECIFICATION MCSpec
CONSTANTS
  t1 = t1 p1 = p1 s1 = s1 s2 = s2 c1 = c1
  Turns = {t1} Pushes = {p1} Clients = {c1} Sockets = {s1, s2} OwnerOf <- OneClient WebClients = {}
  NoSocket = NoSocket SendOnce = TRUE MaxRemovals = 1
INVARIANTS CursorNamesARow LaterWritersNumberHigher OneIntro CountTrailsRows
PROPERTY ConnectionsGetReady
CHECK_DEADLOCK FALSE
