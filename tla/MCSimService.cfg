SPECIFICATION SimSpec
CONSTANTS
  Command <- ServiceCommands
  Silent = {}
  InitCmds <- InitSequence
  ClientRuns = {}
  LineRuns <- ServiceLines
  ResultRuns <- NoRuns
  HeadCmds <- Echoed
  Polls <- ServicePolls
  AskAgain <- NumberAndPin
  Prompts = {}
  RecoveryTicks = {1}
  Uart = FALSE
  ResultWait = 1
  DirectWait = 1
  MissLimit = 2
  LineCap = 1
  MaxPool = 3
  MaxWake = 1
  ReadyCmds <- ServiceReady
  TimeCmds <- ServiceTime
  FollowUps <- ServiceFollowUps
  StatusPeriod = 1
  SimLimit = 2
  CnumLimit = 2
  ByteRange = 3
INVARIANTS AskedOnce NetworkAgrees
PROPERTY Dispatcher
