SPECIFICATION SmsSpec
CONSTANTS
  Clients = {p, q}
  Indexes = {i}
  NOBODY = nobody
  Command <- SmsCommands
  Silent = {}
  InitCmds <- SmsInitCmds
  ClientRuns <- SmsRequests
  LineRuns <- SmsAnnounced
  ResultRuns <- NoRuns
  HeadCmds <- EchoAtHead
  Polls = {}
  AskAgain = {}
  Prompts <- SmsPrompt
  RecoveryTicks = {}
  Uart = FALSE
  ResultWait = 1
  DirectWait = 1
  MissLimit = 2
  LineCap = 2
  MaxPool = 4
  MaxWake = 1
SYMMETRY AnyClient
VIEW StoredOnly
INVARIANT SentIsOwn
PROPERTIES Dispatcher PromptIsOwn StateKept WorkKept DeletedWasRead
