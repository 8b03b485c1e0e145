----------------------------- MODULE SimBringUp -----------------------------
(***************************************************************************)
(* What the agent knows of the SIM and of the network, and the commands it *)
(* sends to find out: AT+CPIN until the SIM answers, the bring-up sequence *)
(* of InitModem(SIM_READY) once it does, AT+CNUM until the subscriber      *)
(* number is there, and the status poll.                                   *)
(*                                                                         *)
(* The dispatcher's actions that involve no handler are taken over; those  *)
(* that leave a choice to the handlers (RxQueueTail, RxAskAgain, ...) are  *)
(* replaced by the handlers, and the module implements AtDispatcher.       *)
(***************************************************************************)
EXTENDS AtDispatcher

CONSTANTS
  ReadyCmds,    \* what InitModem(SIM_READY) queues, in order
  TimeCmds,     \* what the status poll queues until the time is known
  FollowUps,    \* pairs <<tag, commands>>: a line of tag's answer queues them
  StatusPeriod, \* TIMER_MODEM_STATUS
  SimLimit,     \* COUNT_SIM_NOT_INSERTED
  CnumLimit,    \* COUNT_MSISDN_NOT_FOUND
  ByteRange     \* the counters are bytes: they count modulo this number

ASSUME HandlerAssumption ==
  /\ ReadyCmds \in LineRuns /\ TimeCmds \in Seq(Command)
  /\ <<>> \in ResultRuns
  /\ \A f \in FollowUps : f[2] \in LineRuns
  /\ {Cmd("ATE0"), Cmd("AT_QCDS")} \subseteq HeadCmds
  /\ {"AT_CPIN", "AT_CNUM"} \subseteq AskAgain
  /\ \A a \in {<<>>, <<Cmd("AT_QCDS")>>} : \A b \in {<<>>, TimeCmds} : a \o b \in Polls

\* InitModem, with the two that ask again, is the only place that asks for the
\* SIM, the number and the definition of the data context.
Questions == {"AT_CPIN", "AT_CGDCONT", "AT_CNUM"}
Times(cs, tag) == Cardinality({i \in DOMAIN cs : cs[i].tag = tag})
ASSUME QuestionsAssumption ==
  /\ Times(InitCmds, "AT_CPIN") = 1 /\ Head(InitCmds).tag # "AT_CPIN"
  /\ Times(ReadyCmds, "AT_CPIN") = 0
  /\ \A tag \in Questions \ {"AT_CPIN"} :
       Times(InitCmds, tag) = 0 /\ Times(ReadyCmds, tag) <= 1
  /\ \A cs \in ClientRuns \cup ResultRuns \cup {TimeCmds} \cup {f[2] : f \in FollowUps} :
       PoolTags(cs) \cap Questions = {}

ASSUME CounterAssumption ==
  /\ StatusPeriod \in Nat \ {0}
  /\ ByteRange \in Nat \ {0}
  /\ SimLimit \in 1 .. ByteRange - 1
  /\ CnumLimit \in 1 .. ByteRange - 1

VARIABLES
  sim,       \* g_eSIMStatus
  usim,      \* eSIMState in the shared memory, what clients see
  reg,       \* g_eRegistration
  network,   \* nRegistration in the shared memory
  simMiss,   \* g_nSimNotInsertedCnt
  cnumMiss,  \* g_nCnumEmptyCnt
  number,    \* strPhoneNumber in the shared memory holds a number
  timeSet,   \* g_nTimeUpdated
  status     \* m_nStatusTimer

session == <<sim, usim, reg, network, simMiss, status>>
stored == <<cnumMiss, number, timeSet>>
simVars == <<session, stored>>
allVars == <<vars, simVars>>

Regs == {"UNKNOWN", "REGISTERED", "OTHER"}
UsimStates == {"NONE", "READY", "LOCKED", "NOT_INSERTED", "NONE_MSISDN"}

SimTypeOK ==
  /\ TypeOK
  /\ sim \in {"NOT_INSERTED", "READY"} /\ usim \in UsimStates
  /\ reg \in Regs /\ network \in Regs
  /\ simMiss \in 0 .. ByteRange - 1 /\ cnumMiss \in 0 .. ByteRange - 1
  /\ number \in BOOLEAN /\ timeSet \in BOOLEAN
  /\ status \in 1 .. StatusPeriod

\* The session's variables after InitAgent or ResetModem, both of which end
\* with InitModem(SIM_NOT_INSERTED).
NewSession == [sim |-> "NOT_INSERTED", usim |-> "NONE", reg |-> "UNKNOWN",
               network |-> "UNKNOWN", simMiss |-> 0, status |-> StatusPeriod]

\* FAULT: ResetSharedData is not called.
ResetSession_KeepsShared == /\ sim' = NewSession.sim /\ reg' = NewSession.reg
                            /\ simMiss' = NewSession.simMiss /\ status' = NewSession.status
                            /\ UNCHANGED <<usim, network>>

ResetSession == /\ sim' = NewSession.sim /\ usim' = NewSession.usim
                /\ reg' = NewSession.reg /\ network' = NewSession.network
                /\ simMiss' = NewSession.simMiss /\ status' = NewSession.status

\* Initialize clears the shared memory.
SimInit ==
  /\ Init
  /\ sim = NewSession.sim /\ usim = NewSession.usim
  /\ reg = NewSession.reg /\ network = NewSession.network
  /\ simMiss = NewSession.simMiss /\ status = NewSession.status
  /\ cnumMiss = 0 /\ number = FALSE /\ timeSet = FALSE

SimStart == /\ Start /\ ResetSession
            /\ cnumMiss' = 0 /\ number' = FALSE /\ timeSet' = FALSE

\* ResetModem does not touch the number, its count of empty answers and the time.
SimReset == /\ TickRecoveryOver \/ TickNoAnswer \/ OnSerialError \/ OnClientReset \/ RxRebooted
            /\ ResetSession
            /\ UNCHANGED stored

-----------------------------------------------------------------------------
(* Lines of the modem.                                                     *)

\* FAULT: InitModem does not test g_eSIMStatus.
BringUp_Always == SendCommands(at, ReadyCmds)

\* +CPIN: READY, as an answer or unsolicited: InitModem(SIM_READY), which does
\* nothing for a SIM that is ready already.
BringUp == SendCommands(at, IF sim = "READY" THEN <<>> ELSE ReadyCmds)

RxSimReady ==
  /\ Reading
  /\ sim # "READY" => Room(Len(ReadyCmds))
  /\ at' = BringUp
  /\ sim' = "READY"
  /\ usim' = IF sim = "READY" THEN usim ELSE "READY"
  /\ simMiss' = 0
  /\ UNCHANGED <<recovery, stop, run, reg, network, status, stored>>

\* +CPIN: SIM PIN or SIM PUK while AT+CPIN is current (an unsolicited one is
\* ignored).
RxSimLocked ==
  /\ Reading /\ at.cur = "AT_CPIN"
  /\ usim' = "LOCKED"
  /\ UNCHANGED <<vars, sim, reg, network, simMiss, status, stored>>

\* A line with a comma while AT+CNUM is current: whatever stands behind the
\* comma is stored as the number.  (A line with no comma makes response_cnum
\* follow a null pointer: Killed.)
RxNumber ==
  /\ Reading /\ at.cur = "AT_CNUM"
  /\ number' \in BOOLEAN
  /\ cnumMiss' = 0
  /\ UNCHANGED <<vars, session, timeSet>>

\* +CCLK with a year in range, while AT+CCLK is current.
RxTime == /\ Reading /\ at.cur = "AT_CCLK"
          /\ timeSet' = TRUE
          /\ UNCHANGED <<vars, session, cnumMiss, number>>

\* +QCDS: "SRV" or another service.
RxService ==
  /\ Reading /\ at.cur = "AT_QCDS"
  /\ reg' \in {"REGISTERED", "OTHER"} /\ network' = reg'
  /\ UNCHANGED <<vars, sim, usim, simMiss, status, stored>>

\* FAULT: SetRegistration is not called.
RxRegistration_NotShared ==
  /\ Reading /\ Room(1)
  /\ at' = SendCommand(at, Cmd("AT_QCDS"), TRUE)
  /\ \E stat \in Regs : reg' = (IF stat = "UNKNOWN" THEN reg ELSE stat)
  /\ UNCHANGED <<recovery, stop, run, sim, usim, network, simMiss, status, stored>>

\* +CGREG: 1,<stat>: ask for the service at once, whatever the status is; an
\* unknown status changes nothing.
RxRegistration ==
  /\ Reading /\ Room(1)
  /\ at' = SendCommand(at, Cmd("AT_QCDS"), TRUE)
  /\ \E stat \in Regs :
       IF stat = "UNKNOWN" THEN UNCHANGED <<reg, network>> ELSE reg' = stat /\ network' = stat
  /\ UNCHANGED <<recovery, stop, run, sim, usim, simMiss, status, stored>>

\* A line of an answer that asks for a setting to be corrected.
RxFollowUp ==
  /\ Reading
  /\ \E f \in FollowUps : at.cur = f[1] /\ Room(Len(f[2])) /\ at' = SendCommands(at, f[2])
  /\ UNCHANGED <<recovery, stop, run, simVars>>

\* The modem echoes a command: it has lost ATE0.
RxEcho == /\ Reading /\ Room(1)
          /\ at' = SendCommand(at, Cmd("ATE0"), TRUE)
          /\ UNCHANGED <<recovery, stop, run, simVars>>

\* FAULT: the command is completed before it is queued once more.
Finish_CompletesFirst(again) ==
  /\ RxFinal
  /\ at' = IF again THEN SendCommand(Complete(Answered(at)), Cmd(at.cur), TRUE)
                     ELSE Complete(Answered(at))
  /\ UNCHANGED <<recovery, stop, run>>

Finish(again) ==
  /\ RxFinal
  /\ at' = Complete(IF again THEN SendCommand(Answered(at), Cmd(at.cur), TRUE)
                             ELSE Answered(at))
  /\ UNCHANGED <<recovery, stop, run>>

\* OK to AT+CNUM when no number is stored.
RxOkNoNumber ==
  /\ at.cur = "AT_CNUM" /\ ~number
  /\ cnumMiss' = (cnumMiss + 1) % ByteRange
  /\ Finish(cnumMiss' # CnumLimit)
  /\ usim' = IF cnumMiss' = CnumLimit THEN "NONE_MSISDN" ELSE usim
  /\ UNCHANGED <<sim, reg, network, simMiss, status, number, timeSet>>

\* +CME ERROR: 10, SIM not inserted; only AT+CPIN is asked again.
RxNoSim ==
  /\ simMiss' = (simMiss + 1) % ByteRange
  /\ Finish(simMiss' # SimLimit /\ at.cur = "AT_CPIN")
  /\ usim' = IF simMiss' = SimLimit THEN "NOT_INSERTED" ELSE usim
  /\ UNCHANGED <<sim, reg, network, status, stored>>

\* +CME ERROR: 14, SIM busy: AT+CPIN and AT+CNUM are asked again, without limit.
RxSimBusy == /\ Finish(at.cur \in {"AT_CPIN", "AT_CNUM"})
             /\ UNCHANGED simVars

\* Any other result, of any command.
RxOther == RxResult /\ UNCHANGED simVars

SimRxLine ==
  \/ RxSimReady \/ RxSimLocked \/ RxNumber \/ RxTime \/ RxService \/ RxRegistration
  \/ RxFollowUp \/ RxEcho \/ RxOkNoNumber \/ RxNoSim \/ RxSimBusy \/ RxOther
  \/ RxRecovery /\ UNCHANGED simVars

-----------------------------------------------------------------------------
(* The status poll.                                                        *)

PollCmds ==
  (IF sim = "READY" THEN <<Cmd("AT_QCDS")>> ELSE <<>>)
    \o (IF reg = "REGISTERED" /\ ~timeSet THEN TimeCmds ELSE <<>>)

\* The status timer counts only the ticks at which nothing is in flight.
TickStatus ==
  /\ Ticking /\ RecoveryStep /\ at.timer = 0
  /\ IF status > 1
       THEN at' = at /\ status' = status - 1
       ELSE /\ Room(Len(PollCmds))
            /\ at' = SendCommands(at, PollCmds)
            /\ status' = StatusPeriod
  /\ UNCHANGED <<stop, run, sim, usim, reg, network, simMiss, stored>>

\* The steps of the dispatcher in which the handlers have no part.
DispatchStep == /\ \/ OnPutCommand \/ TickWaiting \/ TickRetry \/ OnDestroy
                   \/ OnClientCommand \/ ModemLoses \/ Signal \/ Killed
                /\ UNCHANGED simVars

SimNext == DispatchStep \/ TickStatus \/ SimReset \/ SimStart \/ SimRxLine

SimSpec == SimInit /\ [][SimNext]_allVars

-----------------------------------------------------------------------------
(* Properties.                                                             *)

\* The dispatcher's promises hold with these handlers: SimSpec implements the
\* dispatcher's specification, apart from its fairness.
Dispatcher == Init /\ [][Next]_vars

\* No two bring-ups overlap and no question to the SIM is queued twice, although
\* +CPIN: READY comes both as an answer and unsolicited, a result may ask again
\* at the head, and the pool is not checked for duplicates (CmdPoolPut).
AskedOnce == \A tag \in Questions : Times(at.pool, tag) <= 1

\* Clients are not told of a ready SIM that the agent does not work with, nor
\* left with the initial state once it does.
SimAgrees == run => /\ usim = "READY" => sim = "READY"
                    /\ usim = "NONE" => sim # "READY"

\* The registration in the shared memory is the one the agent acts on when it
\* accepts or refuses a call or a message.
NetworkAgrees == run => network = reg

\* An agent that gives a ready SIM up asks for it again; nothing else would
\* bring it back (SUPPORT_SIM_HOTSWAP is not defined).
GivenUpIsAsked ==
  [][run' /\ sim = "READY" /\ sim' # "READY" => "AT_CPIN" \in PoolTags(at'.pool)]_allVars
=============================================================================
