SPECIFICATION Spec
CONSTANTS
  Pids = {p1, p2}
  p1 = p1
  p2 = p2
  LOOP = LOOP
  AgentRoom = 2
  ClientRoom = 1
  MaxList = 2
  MaxDeaths = 1
INVARIANT RegisteredOnce
PROPERTY RegistryKept
PROPERTY HandlerEnds
CHECK_DEADLOCK FALSE
