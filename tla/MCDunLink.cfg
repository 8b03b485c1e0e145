SPECIFICATION Spec
CONSTANTS
  Client = {p, q}
  PollLimit = 2
  MaxQueue = 3
INVARIANTS JoinsItsEnd QuietIsIdle
PROPERTIES ToldInTurn InProgressEnds DisconnectWorks
