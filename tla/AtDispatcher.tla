---------------------------- MODULE AtDispatcher ----------------------------
(***************************************************************************)
(* The agent's main loop (main in rild/agent.c) as a dispatcher of AT      *)
(* commands: which command is in flight, the one second timer with its     *)
(* retries and the modem reset, the client requests that only queue a      *)
(* command, and the lines of the modem.                                    *)
(*                                                                         *)
(* Every action is one message the loop takes from its queue, handled to   *)
(* the end.  The loop is a single thread and the senders of its messages   *)
(* are not synchronised with each other, so the messages come in any       *)
(* order; only WM_USER_AT_CMD, which the loop posts to itself, is counted. *)
(* WM_USER_RX_CHAR stands for one line of the modem at a time (a read of   *)
(* several lines is several steps).                                        *)
(*                                                                         *)
(* What a line means to the SIM, SMS, call and TCP handlers is left open   *)
(* here: the constants say which commands handlers may queue, and the      *)
(* dispatcher must cope with every choice.  The modules of those handlers  *)
(* implement this one.                                                     *)
(***************************************************************************)
EXTENDS AtChannel

CONSTANTS
  ClientRuns,   \* command sequences a client request may queue
  LineRuns,     \* command sequences a line of the modem may queue at the tail
  ResultRuns,   \* command sequences a final result may queue at the tail
  HeadCmds,     \* commands a line of the modem may queue at the head
  Polls,        \* command sequences the status poll may queue
  AskAgain,     \* tags that a final result may queue once more, at the head
  Prompts,      \* pairs <<tag, data>>: on "> ", tag is continued with data
  RecoveryTicks,\* the values +QIND: "RECOVERY" gives the countdown
  Uart,         \* TRUE if OpenATPort may fail (it waits for a USB port)
  MaxPool,      \* bound: commands in the pool
  MaxWake       \* bound: dispatch messages in the agent's queue

ASSUME RunsAssumption ==
  /\ ClientRuns \subseteq Seq(Command)
  /\ LineRuns \subseteq Seq(Command)
  /\ ResultRuns \subseteq Seq(Command)
  /\ Polls \subseteq Seq(Command)
  /\ HeadCmds \subseteq Command
  /\ \A t \in AskAgain : Cmd(t) \in Command

ASSUME SettingAssumption == RecoveryTicks \subseteq Nat \ {0} /\ Uart \in BOOLEAN

VARIABLES
  at,        \* the AT channel
  recovery,  \* g_nRecoveryCountDown
  stop,      \* a WM_USER_DESTROY message is in the queue
  run        \* the main loop runs

vars == <<at, recovery, stop, run>>

TypeOK == /\ at \in Channel
          /\ recovery \in Nat
          /\ stop \in BOOLEAN
          /\ run \in BOOLEAN

\* The outcomes of OpenATPort.
Opened == IF Uart THEN BOOLEAN ELSE {TRUE}

Init == /\ \E up \in Opened : at = InitChannel(<<>>, up)
        /\ recovery = 0
        /\ stop = FALSE
        /\ run = TRUE

\* A bound: the pool of the code has no limit.  Nothing always has room.
Room(n) == n = 0 \/ Len(at.pool) + n <= MaxPool

-----------------------------------------------------------------------------
(* The loop's own messages.                                                *)

ResetModem == /\ \E up \in Opened : at' = ResetChannel(at, up)
              /\ recovery' = 0
              /\ UNCHANGED <<stop, run>>

\* WM_USER_AT_CMD.
OnPutCommand ==
  /\ run /\ at.wake > 0
  /\ at' = PutHeadCommand([at EXCEPT !.wake = @ - 1])
  /\ UNCHANGED <<recovery, stop, run>>

\* WM_USER_TIMER, when it is not ignored: the port is open and the last tick
\* was at least 600 ms ago.  The recovery countdown comes first.
Ticking == run /\ at.port

RecoveryStep ==
  /\ recovery # 1
  /\ recovery' = IF recovery = 0 THEN 0 ELSE recovery - 1

TickRecoveryOver == Ticking /\ recovery = 1 /\ ResetModem

TickWaiting == /\ Ticking /\ RecoveryStep /\ at.timer > 1
               /\ at' = [at EXCEPT !.timer = @ - 1]
               /\ UNCHANGED <<stop, run>>

TickRetry == /\ Ticking /\ RecoveryStep /\ at.timer = 1
             /\ at.misses + 1 < MissLimit
             /\ at' = Retry(at)
             /\ UNCHANGED <<stop, run>>

TickNoAnswer == /\ Ticking /\ recovery # 1 /\ at.timer = 1
                /\ at.misses + 1 = MissLimit
                /\ ResetModem

\* With nothing in flight every fifth tick polls the modem's status.
TickIdle == /\ Ticking /\ RecoveryStep /\ at.timer = 0
            /\ \/ UNCHANGED at
               \/ \E cs \in Polls : Room(Len(cs)) /\ at' = SendCommands(at, cs)
            /\ UNCHANGED <<stop, run>>

OnTimer == \/ TickRecoveryOver \/ TickWaiting \/ TickRetry
           \/ TickNoAnswer \/ TickIdle

\* WM_USER_RX_ERROR: SerRxThread saw an error on a USB port and its device is
\* gone; OpenATPort waits until it is back.
OnSerialError == run /\ ~Uart /\ ResetModem

Dead == /\ at' = IdleChannel(at.line)
        /\ recovery' = 0 /\ stop' = FALSE /\ run' = FALSE

\* WM_USER_DESTROY ends the loop: DeinitAgent closes the port, clears the pool
\* and removes the queue.
OnDestroy == /\ run /\ stop
             /\ Dead

-----------------------------------------------------------------------------
(* WM_USER_MSG_PROC: client requests (OnReadMsgQue).                       *)

\* OnApnSet, OnBandSet, OnScanSet, OnSetVolume, OnSetMicGain, OnSendDTMF,
\* ProcSysControl with MODEM_PWROFF or MODEM_REBOOT, and what the SMS, call
\* and TCP requests queue.
OnClientCommand ==
  /\ run
  /\ \E cs \in ClientRuns : Room(Len(cs)) /\ at' = SendCommands(at, cs)
  /\ UNCHANGED <<recovery, stop, run>>

\* ProcSysControl with MODEM_RESET.
OnClientReset == run /\ ResetModem

-----------------------------------------------------------------------------
(* WM_USER_RX_CHAR: a line of the modem (ParseCodes).                      *)

Reading == run /\ at.port

\* An unsolicited result or a line of an answer that queues commands.
RxQueueTail ==
  /\ Reading
  /\ \E cs \in LineRuns : Room(Len(cs)) /\ at' = SendCommands(at, cs)
  /\ UNCHANGED <<recovery, stop, run>>

\* FAULT: a command for the head is sent at once, whatever is in flight.
RxQueueHead_AtOnce ==
  /\ Reading /\ Room(1)
  /\ \E c \in HeadCmds : at' = PutHeadCommand(SendCommand(at, c, TRUE))
  /\ UNCHANGED <<recovery, stop, run>>

\* An echoed command line (the modem has lost ATE0) or an unsolicited result
\* that queues a command before all others, maybe after some at the tail (+QIOPEN
\* with error 561).
RxQueueHead ==
  /\ Reading
  /\ \E c \in HeadCmds, cs \in LineRuns \cup {<<>>} :
       /\ Room(Len(cs) + 1)
       /\ at' = SendCommand(SendCommands(at, cs), c, TRUE)
  /\ UNCHANGED <<recovery, stop, run>>

\* A prompt for data, which the modem gives to the command that wants it.
RxPrompt ==
  /\ Reading /\ at.line # <<>>
  /\ \E p \in Prompts :
       /\ at.cur = p[1] /\ Head(at.line).tag = p[1]
       /\ at' = PutDirectCommand(Answered(at), p[2])
  /\ UNCHANGED <<recovery, stop, run>>

\* A final result answers the oldest command the modem holds.  The bound is
\* on the dispatch message that follows.
RxFinal == Reading /\ at.line # <<>> /\ at.wake < MaxWake

\* The handlers of most results leave the channel alone; some queue commands
\* before ParseCodes completes the current one.  Two messages may follow: OK to
\* AT+QPOWD posts WM_USER_DESTROY.
RxResult ==
  /\ RxFinal
  /\ \E cs \in ResultRuns :
       Room(Len(cs)) /\ at' = Complete(SendCommands(Answered(at), cs))
  /\ stop' \in {stop, stop \/ at.cur = "AT_SHDN"}
  /\ UNCHANGED <<recovery, run>>

\* The result of the data that followed a prompt takes the command that asked
\* for it out of the pool as well.
RxDataResult ==
  /\ RxFinal
  /\ \E p \in Prompts :
       at' = Complete([Answered(at) EXCEPT !.pool = CmdPoolDel(@, p[1])])
  /\ UNCHANGED <<recovery, stop, run>>

\* A result after which the current command is asked once more.
RxAskAgain ==
  /\ RxFinal /\ at.cur \in AskAgain
  /\ at' = Complete(SendCommand(Answered(at), Cmd(at.cur), TRUE))
  /\ UNCHANGED <<recovery, stop, run>>

\* OK to AT+CFUN=1,1: the reset starts the bring-up anew, and ParseCodes then
\* completes the command that the reset has just transmitted.
RxRebooted ==
  /\ RxFinal /\ at.cur = "AT_CFUN_1_1"
  /\ \E up \in Opened : at' = Complete(ResetChannel(Answered(at), up))
  /\ recovery' = 0
  /\ UNCHANGED <<stop, run>>

\* +QIND: "RECOVERY","START" or "END".
RxRecovery == /\ Reading
              /\ recovery' \in RecoveryTicks
              /\ UNCHANGED <<at, stop, run>>

RxLine == \/ RxQueueTail \/ RxQueueHead \/ RxPrompt \/ RxResult
          \/ RxDataResult \/ RxAskAgain \/ RxRebooted \/ RxRecovery

-----------------------------------------------------------------------------
(* The environment.                                                        *)

\* The modem, or the line to it, loses a command or its answer.
ModemLoses == /\ at.line # <<>>
              /\ at' = Answered(at)
              /\ UNCHANGED <<recovery, stop, run>>

\* SIGTERM, SIGINT, SIGQUIT, SIGABRT: SigHandler posts WM_USER_DESTROY.
Signal == /\ run /\ ~stop
          /\ stop' = TRUE
          /\ UNCHANGED <<at, recovery, run>>

\* The process dies between two messages or in a handler.
Killed == run /\ Dead

\* The agent is started again while the modem may still hold old commands.
Start == /\ ~run
         /\ \E up \in Opened : at' = InitChannel(at.line, up)
         /\ run' = TRUE
         /\ UNCHANGED <<recovery, stop>>

Next ==
  \/ OnPutCommand \/ OnTimer \/ OnSerialError \/ OnDestroy
  \/ OnClientCommand \/ OnClientReset
  \/ RxLine \/ ModemLoses \/ Signal \/ Killed \/ Start

\* A tick with something to count down.  Without, the loop need not do anything:
\* the status poll queues no command as long as there is no SIM.
Countdown == OnTimer /\ (at.timer > 0 \/ recovery > 0)

\* The loop takes every message of its queue in turn and the timer posts one
\* every second; nothing obliges the modem or a client to do anything.
Fairness == WF_vars(OnPutCommand) /\ WF_vars(Countdown) /\ WF_vars(OnDestroy)

Spec == Init /\ [][Next]_vars /\ Fairness

-----------------------------------------------------------------------------
(* Properties.                                                             *)

\* A command that waits while nothing is in flight will be dispatched, unless the
\* pool holds data of length 0 (SendCommand(NONE) in ParseCodes against the tests in
\* SendCommand and OnPutCommand).
DispatchKept == NoLostWakeup(at)

\* The result timer never waits for a command that is not in the pool, over
\* prompts, stale dispatches, retries, insertions at the head and resets.
CoverKept == TimerCoversCommand(at)

\* m_nNoResultCount is never left behind by a command that is gone, unless the pool
\* holds data of length 0; SendCommand would then hold every command back for good.
MissesKept == MissesAreTimed(at)

\* ParseCodes attributes a final result to m_nATCommandID; until the order has
\* slipped that is the command the modem answers.
AnswersKept == AnswerMatches(at)

\* What makes the order slip: a dispatch message that comes while the timer
\* runs, a retry, a reset with an answer outstanding, and the completion that
\* follows the reset after AT+CFUN=1,1.  No request of a client, no line of the
\* modem and no poll of the status does, whatever it finds in flight and
\* wherever it puts its commands.
Ordered == \/ OnClientCommand \/ TickWaiting \/ TickIdle \/ RxQueueTail
           \/ RxQueueHead \/ RxPrompt \/ RxResult \/ RxDataResult \/ RxAskAgain
OrderKept == [][Ordered /\ at'.slipped => at.slipped]_vars

\* Missing answers are noticed: the count goes back to zero, by an answer or by
\* the reset of the modem, or the agent ends (OnTimer).  Only data of length 0 can
\* stop the timer before that.
SilenceDetected == at.misses > 0 ~> at.misses = 0 \/ ~run \/ Held(at)

\* A command leaves the pool at last, answered or dropped by a reset, or is held up
\* by data of length 0, if from some point on it is not submitted again and nothing
\* jumps the queue.  (frc_ok and frc_cme_error ask AT+CNUM and AT+CPIN again at the
\* head, SIM busy without a limit, and each time all other commands wait.)
Overtaken == RxQueueHead \/ RxAskAgain
Served(c) ==
  <>[][~Overtaken /\ ~(OnClientCommand /\ Last(at'.pool) = c)]_vars
    => (c \in Range(at.pool) ~> c \notin Range(at.pool) \/ Held(at))
=============================================================================
