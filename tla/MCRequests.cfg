SPECIFICATION Spec
CONSTANTS
  Command <- Commands
  Silent <- NothingToWrite
  InitCmds <- InitSequence
  ClientRuns <- Requests
  LineRuns <- StatusRun
  ResultRuns <- StatusOrNothing
  HeadCmds <- StatusAtHead
  Polls <- StatusRun
  AskAgain <- PinAgain
  Prompts <- SendPrompt
  RecoveryTicks = {2}
  Uart = FALSE
  ResultWait = 2
  DirectWait = 1
  MissLimit = 3
  LineCap = 2
  MaxPool = 3
  MaxWake = 2
INVARIANTS DispatchKept CoverKept AnswersKept
PROPERTIES OrderKept SilenceDetected ApnServed
