SPECIFICATION CallSpec
CONSTANTS
  Clients = {p, q}
  NOBODY = nobody
  Command <- CallCommands
  Silent = {}
  InitCmds <- CallInitCmds
  ClientRuns <- CallRequests
  LineRuns <- NoRuns
  ResultRuns <- NoRuns
  HeadCmds <- EchoAtHead
  Polls = {}
  AskAgain = {}
  Prompts = {}
  RecoveryTicks = {}
  Uart = FALSE
  ResultWait = 1
  DirectWait = 1
  MissLimit = 2
  LineCap = 1
  MaxPool = 3
  MaxWake = 1
SYMMETRY AnyClient
PROPERTIES DialKept CallSeenKept FreeKept
