SPECIFICATION Spec
CONSTANTS
  Client = {p}
  PollLimit = 1
  MaxQueue = 2
INVARIANT IdleIsSent
