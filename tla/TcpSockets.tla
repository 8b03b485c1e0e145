----------------------------- MODULE TcpSockets -----------------------------
(***************************************************************************)
(* TCP connections through the modem.  A client makes a FIFO and asks the  *)
(* agent to open a connection; the agent takes the first free slot of      *)
(* g_tcpArray, whose index is the modem's number of the socket, opens the  *)
(* FIFO, and writes to it what the modem receives.  Data to send travels   *)
(* in a message queue of its own, apart from the request to send it.       *)
(*                                                                         *)
(* Descriptors are numbers, the lowest free one is taken first, and a slot *)
(* keeps its number after it is closed: what the number stands for then is *)
(* part of the state.  What the clients are told is left out.  An open     *)
(* that waits for a reader ends with the next signal of the timer, which   *)
(* is installed without SA_RESTART.                                        *)
(*                                                                         *)
(* Of the modem it is assumed that AT+QIOPEN ends in OK, its outcome being *)
(* reported later, or in an error; that AT+QICLOSE of a socket number ends *)
(* in OK; that AT+QISEND ends in a prompt or an error, one of length 0 in  *)
(* OK or an error, and what follows the prompt in SEND OK or SEND FAIL;    *)
(* that data without a prompt and a socket number that does not exist end  *)
(* in an error, which is ERROR or +CME ERROR with a number that is not the *)
(* SIM's; and that received data come in one piece and do not look like a  *)
(* result.                                                                 *)
(***************************************************************************)
EXTENDS AtDispatcher, FiniteSetsExt

CONSTANTS
  Clients,      \* the processes that make connections
  NOBODY,       \* process 0
  LastSock,     \* the last index of g_tcpArray
  DataCap,      \* the data that the queue of data holds; each takes the same space
  MaxCalls,     \* bound: calls of the library
  MaxFaults     \* bound: deaths of a process, connections and commands that are
                \* lost or refused, answers that take too long, resets, echoes,
                \* data of length 0

Socks == 0 .. LastSock
None == -1                \* GetSockIdByPid of a process without a slot

Open(s) == CmdText("AT_QIOPEN_1", s)
Close(s) == CmdText("AT_QICLOSE", s)
\* Both know the socket and whether there is anything to send: TCPSend and OnTCPSend
\* take a length of 0 like any other.
Length(s, full) == CmdText("AT_QISEND", <<s, full>>)
Data(s, full) == CmdText("AT_QISEND_DATA", <<s, full>>)

\* FAULT: the data come first.
LengthAndData_DataFirst(s, full) == <<Data(s, full), Length(s, full)>>

LengthAndData(s, full) == <<Length(s, full), Data(s, full)>>
Closes(n, s) == [k \in 1 .. n |-> Close(s)]
NewContext == Cmd("AT_QCPS")
Prompt == <<"AT_QISEND", "AT_QISEND_DATA">>

ASSUME TcpAssumption ==
  /\ NOBODY \notin Clients
  /\ LastSock \in Nat /\ MaxCalls \in Nat /\ MaxFaults \in Nat
  /\ DataCap \in Nat \ {0}
  /\ \A s \in Socks : <<Open(s)>> \in ClientRuns
  /\ \A s \in Socks \cup {None} :
       /\ {<<Close(s)>>, LengthAndData(s, TRUE), LengthAndData(s, FALSE)} \subseteq ClientRuns
       /\ \A n \in 0 .. LastSock + 1 : Closes(n, s) \in LineRuns \cap ResultRuns
  /\ {Cmd("ATE0"), NewContext} \subseteq HeadCmds
  /\ Prompt \in Prompts
  /\ Silent = {Data(s, FALSE) : s \in Socks \cup {None}}
  /\ Uart   \* descriptor 0 must not be the port's, which OpenATPort then takes as not opened

\* Nothing else queues the commands of a socket: neither the bring-up nor the polls.
ASSUME TcpSourcesAssumption ==
  \A cs \in Polls \cup {InitCmds} : \A c \in Range(cs) :
    c.tag \notin {"AT_QIOPEN_1", "AT_QICLOSE", "AT_QISEND", "AT_QISEND_DATA"}

VARIABLES
  lib,       \* the library's FIFO of each client
  asked,     \* each client's requests in the agent's queue
  data,      \* each client's data in the queue of data
  sending,   \* clients in TCPSend between the request and the data, with its number
  calls,     \* calls of the library so far, which number the data and the requests to send them
  slot,      \* g_tcpArray, and what each descriptor of the agent stands for
  link,      \* the modem's sockets
  again,     \* those whose AT+QIOPEN was repeated, which is yet to be reported
  prompted,  \* the modem has sent a prompt and waits for data
  faults,    \* what has gone wrong so far
  closing,   \* history: slots whose client has asked to close them
  inherited  \* history: slots that were taken with an AT+QICLOSE for the previous
             \* client still in the pool or unanswered, since the last reset

clientVars == <<lib, asked, data, sending, calls>>
modemVars == <<link, again, prompted>>
histVars == <<closing, inherited>>
tcpVars == <<clientVars, slot, modemVars, histVars>>
allVars == <<vars, tcpVars, faults>>

File(what, who) == [what |-> what, who |-> who]
Free == File("free", NOBODY)
Request(kind, number) == [kind |-> kind, number |-> number]

TcpTypeOK ==
  /\ TypeOK
  /\ lib \in [Clients -> {"none",    \* there is no FIFO
                          "open",    \* the client reads from it
                          "mute",    \* it is there, and s_fifoToClient is closed
                          "dead"}]   \* it is there, and the client has died
  /\ \A c \in Clients :
       /\ asked[c] \in Seq([kind : {"open", "close", "send"}, number : 0 .. MaxCalls])
       /\ data[c] \in Seq(1 .. MaxCalls)
  /\ sending \in [Clients -> 0 .. MaxCalls]
  /\ calls \in 0 .. MaxCalls
  /\ slot.pid \in [Socks -> Clients \cup {NOBODY}]
  /\ slot.fd \in [Socks -> -1 .. LastSock + 1]
  /\ slot.desc \in [0 .. LastSock + 1 ->
                      {File("free", NOBODY), File("other", NOBODY)}
                      \cup {File(w, c) : w \in {"fifo", "broken"}, c \in Clients}]
  /\ link \in [Socks -> {"closed", "opening", "open", "ended"}]
  /\ again \subseteq Socks /\ prompted \in BOOLEAN
  /\ faults \in 0 .. MaxFaults
  /\ closing \subseteq Socks /\ inherited \subseteq Socks

\* Descriptor 0 is the standard input; the others that are open for good are left
\* out, with the port's.
NoSlots == [pid |-> [s \in Socks |-> NOBODY], fd |-> [s \in Socks |-> 0],
            desc |-> [f \in 0 .. LastSock + 1 |->
                        IF f = 0 THEN File("other", NOBODY) ELSE Free]]

NoneOf == [c \in Clients |-> <<>>]

TcpInit ==
  /\ Init /\ at.port
  /\ lib = [c \in Clients |-> "none"]
  /\ asked = NoneOf /\ data = NoneOf
  /\ sending = [c \in Clients |-> 0] /\ calls = 0
  /\ slot = NoSlots
  /\ link = [s \in Socks |-> "closed"] /\ again = {} /\ prompted = FALSE
  /\ faults = 0
  /\ closing = {} /\ inherited = {}

-----------------------------------------------------------------------------
(* The library.                                                            *)

Alive(c) == run /\ lib[c] # "dead" /\ sending[c] = 0
\* Only a request to send has a number.
Ask(c, kind) == /\ calls < MaxCalls /\ calls' = calls + 1
                /\ asked' = [asked EXCEPT ![c] =
                                  Append(@, Request(kind, IF kind = "send" THEN calls' ELSE 0))]

\* The reader of a FIFO goes.
Broken(t, c) ==
  [t EXCEPT !.desc = [f \in DOMAIN @ |->
     IF @[f] = File("fifo", c) THEN File("broken", c) ELSE @[f]]]

TCPOpen(c) ==
  /\ Alive(c) /\ lib[c] = "none"
  /\ lib' = [lib EXCEPT ![c] = "open"] /\ Ask(c, "open")
  /\ UNCHANGED <<vars, data, sending, slot, modemVars, histVars>>

\* Called once more it closes the descriptor and asks to close the connection, but
\* leaves the FIFO and s_fifoToClient as they are.
TCPOpenAgain(c) ==
  /\ Alive(c) /\ lib[c] # "none"
  /\ lib' = [lib EXCEPT ![c] = "mute"] /\ Ask(c, "close")
  /\ slot' = Broken(slot, c)
  /\ UNCHANGED <<vars, data, sending, modemVars, histVars>>

TCPClose(c) ==
  /\ Alive(c) /\ lib[c] # "none"
  /\ lib' = [lib EXCEPT ![c] = "none"] /\ Ask(c, "close")
  /\ slot' = Broken(slot, c)
  /\ UNCHANGED <<vars, data, sending, modemVars, histVars>>

\* The request goes first, its data follow, if the queue has room for them.
TCPSend(c) ==
  /\ Alive(c) /\ Ask(c, "send")
  /\ sending' = [sending EXCEPT ![c] = calls']
  /\ UNCHANGED <<vars, lib, data, slot, modemVars, histVars>>

Waiting == UNION {{c} \X DOMAIN data[c] : c \in Clients}

TCPSendData(c) ==
  /\ sending[c] # 0 /\ run /\ Cardinality(Waiting) < DataCap
  /\ sending' = [sending EXCEPT ![c] = 0]
  /\ data' = [data EXCEPT ![c] = Append(@, sending[c])]
  /\ UNCHANGED <<vars, lib, asked, calls, slot, modemVars, histVars>>

\* The queue is full, with the data of whatever client, or gone with the agent: the
\* client is told, but its request stays.
TCPSendDataFails(c) ==
  /\ sending[c] # 0 /\ ~(run /\ Cardinality(Waiting) < DataCap)
  /\ sending' = [sending EXCEPT ![c] = 0]
  /\ UNCHANGED <<vars, lib, asked, data, calls, slot, modemVars, histVars>>

Die(c) ==
  /\ lib[c] \in {"open", "mute"}
  /\ lib' = [lib EXCEPT ![c] = "dead"] /\ sending' = [sending EXCEPT ![c] = 0]
  /\ slot' = Broken(slot, c)
  /\ UNCHANGED <<vars, asked, data, calls, modemVars, histVars>>

-----------------------------------------------------------------------------
(* The slots.                                                              *)

\* GetSockIdByPid; for process 0 it is the first free slot.
SockOf(t, c) ==
  LET own == {s \in Socks : t.pid[s] = c} IN IF own = {} THEN None ELSE Min(own)

\* GetPidBySockId, with the first digit of the number in the command's text; no
\* slot is printed as 4294967295.
PidOf(s) == LET n == IF s = None THEN 4 ELSE s
            IN  IF n \in Socks THEN slot.pid[n] ELSE NOBODY

ClosedFile(t, f) == IF f \in DOMAIN t.desc THEN [t EXCEPT !.desc[f] = Free] ELSE t

\* FAULT: the slot keeps its process.
ClearSockInfo_KeepsPid(t, c) ==
  LET s == SockOf(t, c) IN IF s = None THEN t ELSE ClosedFile(t, t.fd[s])

\* ClearSockInfo: the first slot of the process, and its descriptor.
ClearSockInfo(t, c) ==
  LET s == SockOf(t, c)
  IN  IF s = None THEN t ELSE ClosedFile([t EXCEPT !.pid[s] = NOBODY], t.fd[s])

FirstFree(t) == Min({f \in DOMAIN t.desc : t.desc[f] = Free})
Taken(t, s, c) ==
  LET f == FirstFree(t) IN [t EXCEPT !.pid[s] = c, !.fd[s] = f, !.desc[f] = File("fifo", c)]

\* FAULT: the slot's process is not compared with 0.
BuildSockInfo_AnySlot(t, c) == Taken(t, 0, c)

\* BuildSockInfo, if the FIFO can be opened.
BuildSockInfo(t, c) == Taken(t, SockOf(t, NOBODY), c)

ClearAllSockInfo(t) ==
  [t EXCEPT !.pid = [s \in Socks |-> NOBODY],
            !.desc = [f \in DOMAIN @ |->
              IF \E s \in Socks : t.pid[s] # NOBODY /\ t.fd[s] = f THEN Free ELSE @[f]]]

\* msgrcv until there is nothing left; process 0 stands for any sender.
Drained(c) == IF c = NOBODY THEN NoneOf ELSE [data EXCEPT ![c] = <<>>]

\* TCPClosed: the commands it queues, and what it leaves of the slots and the data.
\* alone: the error is -1, the connection is closed already.  For process 0 it
\* closes process 0's connection once for every slot in use.
Used == {s \in Socks : slot.pid[s] # NOBODY}

\* FAULT: AT+QICLOSE is left out if the connection has failed, not if it is closed.
TCPClosedCmds_WhenAlone(c, alone) ==
  IF alone /\ c # NOBODY THEN <<Close(SockOf(slot, c))>> ELSE <<>>

TCPClosedCmds(c, alone) ==
  IF c = NOBODY THEN Closes(Cardinality(Used), SockOf(slot, NOBODY))
  ELSE IF alone THEN <<>> ELSE <<Close(SockOf(slot, c))>>

TCPClosed(c, alone) ==
  /\ slot' = IF c = NOBODY /\ Used = {} THEN slot ELSE ClearSockInfo(slot, c)
  /\ data' = IF TCPClosedCmds(c, alone) = <<>> THEN data ELSE Drained(c)
  /\ closing' = closing \ {s \in Socks : slot'.pid[s] = NOBODY}

-----------------------------------------------------------------------------
(* The requests (OnReadMsgQue).                                            *)

Take(c, kind) == /\ run /\ asked[c] # <<>> /\ Head(asked[c]).kind = kind
                 /\ asked' = [asked EXCEPT ![c] = Tail(@)]
                 /\ UNCHANGED <<recovery, stop, run, lib, sending, calls, modemVars>>

Queue(cs) == Room(Len(cs)) /\ at' = SendCommands(at, cs)

Pending(s) == Close(s) \in Range(at.pool) \cup Range(at.line)

OnTCPOpen(c) ==
  LET s == SockOf(slot, NOBODY)
  IN  /\ Take(c, "open") /\ data' = Drained(c)
      /\ s = None \/ lib[c] = "open"
      /\ IF s # None
           THEN /\ slot' = BuildSockInfo(slot, c) /\ Queue(<<Open(s)>>)
                /\ closing' = closing \ {s}
                /\ inherited' = IF Pending(s) THEN inherited \cup {s} ELSE inherited
           ELSE UNCHANGED <<at, slot, closing, inherited>>

\* The FIFO is gone, or nobody reads from it and the timer's signal ends the wait:
\* the slot stays free, but has forgotten its descriptor.
OnTCPOpenFails(c) ==
  /\ Take(c, "open") /\ lib[c] # "open" /\ SockOf(slot, NOBODY) # None
  /\ slot' = [slot EXCEPT !.fd[SockOf(slot, NOBODY)] = -1]
  /\ data' = Drained(c)
  /\ UNCHANGED <<at, histVars>>

OnTCPClose(c) ==
  LET s == SockOf(slot, c)
  IN  /\ Take(c, "close") /\ data' = Drained(c)
      /\ Queue(<<Close(s)>>)
      /\ closing' = closing \cup ({s} \cap Socks)
      /\ UNCHANGED <<slot, inherited>>

\* FAULT: the data are only looked at.
OnTCPSend_Peeks(c) ==
  /\ Take(c, "send")
  /\ IF data[c] # <<>>
       THEN \E full \in BOOLEAN : Queue(LengthAndData(SockOf(slot, c), full))
       ELSE UNCHANGED at
  /\ UNCHANGED <<data, slot, histVars>>

\* The oldest data in the queue are the client's next.  If their length is not the
\* one asked for they are dropped.
OnTCPSend(c) ==
  /\ Take(c, "send")
  /\ IF data[c] = <<>>
       THEN UNCHANGED <<at, data>>
       ELSE /\ data' = [data EXCEPT ![c] = Tail(@)]
            /\ \/ \E full \in BOOLEAN : Queue(LengthAndData(SockOf(slot, c), full))
               \/ Head(data[c]) # Head(asked[c]).number /\ UNCHANGED at
  /\ UNCHANGED <<slot, histVars>>

\* The sockets' part of ResetModem.  The port takes the lowest free descriptor,
\* which is its own if descriptor 0 is still open.
TcpReset ==
  /\ TickRecoveryOver \/ TickNoAnswer \/ OnClientReset
  /\ at'.port = (slot.desc[0] # Free)
  /\ slot' = [ClearAllSockInfo(slot) EXCEPT !.desc[0] = File("other", NOBODY)]
  /\ link' = [s \in Socks |-> "closed"] /\ again' = {} /\ prompted' = FALSE
  /\ closing' = {} /\ inherited' = {}
  /\ UNCHANGED clientVars

\* The next start removes the queues with what is left in them.
TcpKilled == /\ Killed
             /\ slot' = NoSlots /\ asked' = NoneOf /\ data' = NoneOf
             /\ closing' = {} /\ inherited' = {}
             /\ UNCHANGED <<lib, sending, calls, modemVars>>

TcpStart == Start /\ at'.port /\ UNCHANGED tcpVars

-----------------------------------------------------------------------------
(* Lines of the modem.                                                     *)

Report == Reading /\ UNCHANGED <<recovery, stop, run, lib, asked, sending, calls,
                                 prompted, inherited>>

RxOpened(s) == /\ Report /\ link[s] = "opening"
               /\ link' = [link EXCEPT ![s] = "open"]
               /\ UNCHANGED <<at, data, slot, again, closing>>

\* TCPClosed in a line that is no final result.
LineClosed(c) == Queue(TCPClosedCmds(c, FALSE)) /\ TCPClosed(c, FALSE)

\* +QIOPEN with an error, either of the attempt itself or because the number has
\* been in use.  Only socket 0 is looked after.  561 asks for a new context.
RxOpenFailed(s) ==
  /\ Report
  /\ \/ link[s] = "opening" /\ link' = [link EXCEPT ![s] = "closed"] /\ UNCHANGED again
     \/ s \in again /\ again' = again \ {s} /\ UNCHANGED link
  /\ IF s = 0
       THEN LET cs == TCPClosedCmds(PidOf(0), FALSE)
            IN  /\ TCPClosed(PidOf(0), FALSE)
                /\ \/ Queue(cs)
                   \/ /\ link' # link /\ Room(Len(cs) + 1)
                      /\ at' = SendCommand(SendCommands(at, cs), NewContext, TRUE)
       ELSE UNCHANGED <<at, data, slot, closing>>

\* +QIURC: "closed".
RxClosed(s) == /\ Report /\ link[s] = "open"
               /\ link' = [link EXCEPT ![s] = "ended"]
               /\ LineClosed(PidOf(s))
               /\ UNCHANGED again

\* +QIURC: "pdpdeact".
RxPdpDeact ==
  /\ Report /\ \E s \in Socks : link[s] # "closed"
  /\ link' = [s \in Socks |-> IF link[s] = "open" THEN "ended" ELSE link[s]]
  /\ LineClosed(NOBODY)
  /\ UNCHANGED again

\* +QIURC: "recv" and the data, for a FIFO that nobody will read any more: SIGPIPE.
\* Data for a FIFO that is read change nothing here.
RxData(s) == LET t == SockOf(slot, PidOf(s))
             IN  /\ Reading /\ link[s] = "open"
                 /\ t # None /\ slot.fd[t] # -1
                 /\ slot.desc[slot.fd[t]].what = "broken"
                 /\ TcpKilled

Answering(tag) == at.line # <<>> /\ Head(at.line).tag = tag

\* The prompt, which the agent may take for another command's.
RxTcpPrompt ==
  /\ Reading /\ ~prompted /\ Answering("AT_QISEND")
  /\ \E s \in Socks : Head(at.line) = Length(s, TRUE) /\ link[s] = "open"
  /\ at' = IF at.cur = "AT_QISEND" THEN PutDirectCommand(Answered(at), "AT_QISEND_DATA")
                                   ELSE Answered(at)
  /\ prompted' = TRUE
  /\ UNCHANGED <<recovery, stop, run, clientVars, slot, link, again, histVars>>

\* SEND OK and SEND FAIL: the modem has taken for data whatever came next.
RxSendDone ==
  /\ RxFinal /\ prompted
  /\ at' = Complete([Answered(at) EXCEPT !.pool = CmdPoolDel(@, "AT_QISEND")])
  /\ prompted' = FALSE
  /\ UNCHANGED <<recovery, stop, run, clientVars, slot, link, again, histVars>>

\* What the modem makes of the command it answers with OK.
Obey ==
  LET s == Head(at.line).val
  IN  CASE Answering("AT_QIOPEN_1") /\ link[s] = "closed" ->
             link' = [link EXCEPT ![s] = "opening"] /\ UNCHANGED again
        [] Answering("AT_QIOPEN_1") /\ link[s] # "closed" ->
             again' = again \cup {s} /\ UNCHANGED link
        [] Answering("AT_QICLOSE") /\ s \in Socks ->
             link' = [link EXCEPT ![s] = "closed"] /\ again' = again \ {s}
        [] OTHER -> UNCHANGED <<link, again>>

\* The first command of the pool with the current tag, of which the handlers take
\* the socket.
Text(tag) == CmdPoolGet(at.pool, tag).val

Final(cs) == /\ RxFinal /\ ~prompted /\ Room(Len(cs))
             /\ at' = Complete(SendCommands(Answered(at), cs))
             /\ UNCHANGED <<recovery, stop, run, lib, asked, sending, calls, prompted, inherited>>

Result(tag, alone) ==
  IF at.cur = tag /\ tag \in PoolTags(at.pool)
    THEN /\ Final(TCPClosedCmds(PidOf(Text(tag)), alone))
         /\ TCPClosed(PidOf(Text(tag)), alone)
    ELSE Final(<<>>) /\ UNCHANGED <<data, slot, closing>>

\* An AT+QISEND of length 0 only asks what has been sent; the data behind it stay.
RxTcpOk ==
  /\ Answering("AT_QISEND") => \E s \in Socks : Head(at.line) = Length(s, FALSE)
  /\ ~Answering("AT_QISEND_DATA")
  /\ at.line # <<>> /\ Head(at.line) # Close(None)
  /\ Result("AT_QICLOSE", TRUE)
  /\ Obey

Refused == /\ ~(Answering("AT_QICLOSE") /\ Head(at.line) # Close(None))
           /\ UNCHANGED <<link, again>>

RxTcpError == Refused /\ Result("AT_QIOPEN_1", FALSE)

\* +CME ERROR: its handler has no branch for AT+QIOPEN, so the slot stays taken.
RxTcpCmeError == Refused /\ Final(<<>>) /\ UNCHANGED <<data, slot, closing>>

TcpModemLoses ==
  /\ ModemLoses
  /\ IF prompted THEN UNCHANGED <<link, again>> ELSE Obey \/ UNCHANGED <<link, again>>
  /\ prompted' \in {prompted, FALSE}
  /\ UNCHANGED <<clientVars, slot, histVars>>

RxEcho == /\ Reading /\ Room(1)
          /\ at' = SendCommand(at, Cmd("ATE0"), TRUE)
          /\ UNCHANGED <<recovery, stop, run, tcpVars>>

DispatchStep == /\ OnPutCommand \/ TickWaiting \/ TickRetry \/ TickIdle
                /\ UNCHANGED tcpVars

\* The agent has not waited long enough.
Late == at.line # <<>> /\ at'.misses # at.misses

\* A client has sent nothing.
Empty == Held(at') /\ ~Held(at)

Usual == \/ \E c \in Clients : \/ TCPOpen(c) \/ TCPOpenAgain(c) \/ TCPClose(c)
                                \/ TCPSend(c) \/ TCPSendData(c) \/ TCPSendDataFails(c)
                                \/ OnTCPOpen(c) \/ OnTCPOpenFails(c)
                                \/ OnTCPClose(c) \/ (OnTCPSend(c) /\ ~Empty)
         \/ \E s \in Socks : RxOpened(s) \/ RxData(s)
         \/ RxTcpPrompt \/ RxSendDone \/ RxTcpOk \/ TcpStart
         \/ RxTcpError /\ (Answering("AT_QISEND") \/ Answering("AT_QISEND_DATA"))
         \/ RxTcpError /\ Answering("AT_QICLOSE")
         \/ DispatchStep /\ ~Late
         \/ TcpReset /\ TickNoAnswer /\ ~Late

Unusual == \/ \E c \in Clients : Die(c) \/ (OnTCPSend(c) /\ Empty)
           \/ \E s \in Socks : RxOpenFailed(s) \/ RxClosed(s)
           \/ RxPdpDeact \/ RxTcpError \/ RxTcpCmeError \/ RxEcho
           \/ TcpModemLoses \/ TcpReset \/ TcpKilled
           \/ DispatchStep /\ Late

TcpNext == \/ Usual /\ UNCHANGED faults
           \/ Unusual /\ faults < MaxFaults /\ faults' = faults + 1

TcpSpec == TcpInit /\ [][TcpNext]_allVars

-----------------------------------------------------------------------------
(* Properties.                                                             *)

\* The dispatcher's promises hold with these handlers.
Dispatcher == Init /\ [][Next]_vars

Twice == \E s, t \in Socks : s # t /\ slot.pid[s] = slot.pid[t] /\ slot.pid[s] # NOBODY

\* A client keeps its slot until its connection ends or cannot be opened, it has asked
\* to close it, or the modem is reset.  It loses it to an AT+QICLOSE that was sent
\* for its predecessor, to a result that is taken for another's, and if it has two
\* slots, of which the first is always taken for the other.
SlotKept ==
  [][\A s \in Used :
       slot'.pid[s] = slot.pid[s]
         \/ ~run' \/ TcpReset \/ s \in closing
         \/ RxClosed(s) \/ RxOpenFailed(s) \/ RxTcpError
         \/ s \in inherited \/ at.slipped \/ Twice]_allVars

\* A socket of the modem that is in use, or about to be, has an owner or will be closed:
\* otherwise nobody ever closes it, and opening the next connection with its number
\* fails.  What leaves one behind is an inherited AT+QICLOSE, an answer taken for
\* another's, a client with two slots, of which its second AT+QICLOSE frees the first,
\* an AT+QICLOSE that the modem takes for data, a port that is taken as not opened,
\* and a new start of the agent; nothing else does.
Owned == \A s \in Socks :
           link[s] # "closed" \/ Open(s) \in Range(at.pool) \cup Range(at.line) =>
             s \in Used \/ Pending(s)
OwnedKept ==
  [][Owned => Owned' \/ ~run' \/ at'.slipped \/ ~at'.port \/ inherited # {} \/ Twice
                \/ (RxSendDone /\ at.cur = "AT_QICLOSE")]_allVars

\* The descriptor of a slot in use is that of its client's FIFO and of no other, and
\* descriptor 0 stays what it is, so that the port never becomes descriptor 0, which
\* IsPortOpened takes for closed.  Only TCPClosed(0, ...) closes a descriptor that is
\* not its slot's any more.
FilesOwn ==
  /\ slot.desc[0].what = "other"
  /\ \A s \in Used : /\ slot.desc[slot.fd[s]].who = slot.pid[s]
                      /\ \A t \in Used : s # t => slot.fd[s] # slot.fd[t]
ForNobody == \/ RxPdpDeact
             \/ \E s \in Socks : slot.pid[s] = NOBODY /\ (RxClosed(s) \/ RxOpenFailed(s))
             \/ RxTcpOk /\ at.cur = "AT_QICLOSE" /\ PidOf(Text("AT_QICLOSE")) = NOBODY
             \/ RxTcpError /\ at.cur = "AT_QIOPEN_1" /\ PidOf(Text("AT_QIOPEN_1")) = NOBODY
FilesKept == [][FilesOwn => FilesOwn' \/ ForNobody]_allVars

\* A client's data are those of its requests, one for one and in order: OnTCPSend
\* takes whatever comes first.  They come apart only if the queue of data is full,
\* with a request already made that a repeated TCPSend then follows with its own, if
\* the agent finds no data yet, empties the queue of data, for whatever reason, while
\* requests wait behind, if it is started anew, or if the client dies between the two.
Sends(q) == {k \in DOMAIN q : q[k].kind = "send"}
InStep(c) ==
  LET sent == data[c] \o (IF sending[c] = 0 THEN <<>> ELSE <<sending[c]>>)
      nth(k) == Cardinality({j \in Sends(asked[c]) : j <= k})
  IN  /\ Cardinality(Sends(asked[c])) = Len(sent)
      /\ \A k \in Sends(asked[c]) : asked[c][k].number = sent[nth(k)]
InStepKept ==
  [][\A c \in Clients :
       InStep(c) => \/ InStep(c)' \/ ~run' \/ Die(c) \/ TCPSendDataFails(c)
                    \/ data[c] = <<>> /\ OnTCPSend(c)
                    \/ data[c] # <<>> /\ data'[c] = <<>> /\ ~OnTCPSend(c)]_allVars

\* Data in the pool follow the command they belong to; without it they are sent to the
\* modem as a command.  Only an AT+QISEND that ends in an error or, with nothing to
\* send, in OK, and a modem that has taken another command for the data, leave them
\* behind.
Paired == \A k \in DOMAIN at.pool :
            at.pool[k].tag = "AT_QISEND_DATA" =>
               k > 1 /\ at.pool[k - 1].tag = "AT_QISEND" /\ at.pool[k - 1].val = at.pool[k].val
PairedKept ==
  [][Paired => Paired' \/ at.slipped
                 \/ ((RxTcpError \/ RxTcpCmeError \/ RxTcpOk) /\ at.cur = "AT_QISEND")
                 \/ (RxSendDone /\ at.cur # "AT_QISEND_DATA")]_allVars
=============================================================================
