--------------------------- MODULE MCAtDispatcher ---------------------------
(***************************************************************************)
(* An instance of AtDispatcher: a request of one command, one of two (a    *)
(* TCPSend, which waits for a prompt, with data or of length 0), a restart *)
(* of the modem, a poll, a command that jumps the queue, and one that is   *)
(* asked again.  AT+CPIN stands for the whole of the sequence that         *)
(* InitModem queues.                                                       *)
(***************************************************************************)
EXTENDS AtDispatcher

Pin == Cmd("AT_CPIN")
Status == Cmd("AT_QCDS")
Reboot == Cmd("AT_CFUN_1_1")
Apn == CmdText("AT_CGDCONT_1", "apn")
Send == CmdText("AT_QISEND", "length")
Data == CmdText("AT_QISEND_DATA", "data")
NoData == CmdText("AT_QISEND_DATA", "")

Commands == {Pin, Status, Reboot, Apn, Send, Data, NoData}
NothingToWrite == {NoData}
InitSequence == <<Pin>>
Requests == {<<Apn>>, <<Reboot>>, <<Send, Data>>, <<Send, NoData>>}
StatusAtHead == {Status}
StatusRun == {<<Status>>}
StatusOrNothing == {<<>>, <<Status>>}
PinAgain == {"AT_CPIN"}
SendPrompt == {<<"AT_QISEND", "AT_QISEND_DATA">>}

-----------------------------------------------------------------------------
Channels == {ch \in [pool : SeqOf(Command, 2), cur : {NONE, Pin.tag},
                     timer : 0 .. 1, misses : 0 .. 1, wake : {0},
                     port : BOOLEAN, line : {<<>>, <<Pin>>}, slipped : {FALSE}] :
               ch.timer = 0 \/ ch.misses = 0}

\* SendCommands is what its calls one after the other do.
ASSUME SendCommandsAssumption ==
  \A ch \in Channels : \A cs \in SeqOf(Command, 2) :
    SendCommands(ch, cs) = FoldLeft(LAMBDA q, c : SendCommand(q, c, FALSE), ch, cs)

-----------------------------------------------------------------------------
\* The request is answered or dropped at last.
ApnServed == Served(Apn)
=============================================================================
