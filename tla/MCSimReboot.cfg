SPECIFICATION SimSpec
CONSTANTS
  Command <- RebootCommands
  Silent = {}
  InitCmds <- InitSequence
  ClientRuns <- RebootRuns
  LineRuns <- RebootLines
  ResultRuns <- NoRuns
  HeadCmds <- Echoed
  Polls <- RebootPolls
  AskAgain <- NumberAndPin
  Prompts = {}
  RecoveryTicks = {}
  Uart = TRUE
  ResultWait = 1
  DirectWait = 1
  MissLimit = 2
  LineCap = 1
  MaxPool = 3
  MaxWake = 1
  ReadyCmds <- RebootReady
  TimeCmds <- RebootTime
  FollowUps = {}
  StatusPeriod = 1
  SimLimit = 2
  CnumLimit = 2
  ByteRange = 3
INVARIANT SimAgrees
PROPERTY GivenUpIsAsked
