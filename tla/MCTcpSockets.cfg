SPECIFICATION TcpSpec
CONSTANTS
  Clients = {p, q}
  NOBODY = nobody
  LastSock = 1
  DataCap = 2
  MaxCalls = 3
  MaxFaults = 2
  Command <- TcpCommands
  Silent <- NothingToWrite
  InitCmds <- TcpInitCmds
  ClientRuns <- TcpRequests
  LineRuns <- TcpClosings
  ResultRuns <- TcpClosings
  HeadCmds <- TcpHead
  Polls = {}
  AskAgain = {}
  Prompts <- TcpPrompts
  RecoveryTicks = {}
  Uart = TRUE
  ResultWait = 1
  DirectWait = 1
  MissLimit = 2
  LineCap = 1
  MaxPool = 3
  MaxWake = 1
SYMMETRY AnyClient
PROPERTIES SlotKept OwnedKept FilesKept InStepKept PairedKept
CHECK_DEADLOCK FALSE
