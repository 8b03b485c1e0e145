-------------------------- MODULE TcpSocketsProofs --------------------------
(***************************************************************************)
(* What is proved of the agent's TCP connections, for all clients, sockets *)
(* and bounds.  The handlers implement the dispatcher, whose invariant     *)
(* therefore holds of their channel.  On top of it stand the invariants of *)
(* the table of slots (TableOK), of the clients' queues (QueuesOK), of the *)
(* channel (Awaits: an answer is given to the command it answers, which is *)
(* the first of its kind) and of the commands that open and close a socket *)
(* (ClosingKnown, OpenFirst); from them follow the five properties of      *)
(* TcpSockets.                                                             *)
(***************************************************************************)
EXTENDS TcpSockets, AtDispatcherProofs

-----------------------------------------------------------------------------
(* The handlers implement the dispatcher.                                  *)

\* The slot of a process is one of the table, which is its own, or there is none.
LEMMA SockOfFacts ==
  ASSUME NEW t, NEW c
  PROVE  LET s == SockOf(t, c)
         IN  /\ s \in Socks \cup {None}
             /\ s # None => t.pid[s] = c /\ \A r \in Socks : t.pid[r] = c => s <= r
             /\ s = None => \A r \in Socks : t.pid[r] # c
<1> DEFINE own == {s \in Socks : t.pid[s] = c}
<1>1. Socks \subseteq Nat /\ None \notin Nat
  BY TcpAssumption DEF Socks, None
<1>2. own # {} => Min(own) \in own /\ \A r \in own : Min(own) <= r
  <2>1. own \subseteq Nat
    BY <1>1
  <2> HIDE DEF own
  <2> QED
    BY <2>1, LeastPosition
<1>3. SockOf(t, c) = IF own = {} THEN None ELSE Min(own)
  BY DEF SockOf
<1>4. \A r : r \in own <=> r \in Socks /\ t.pid[r] = c
  OBVIOUS
<1> HIDE DEF own
<1>5. CASE own = {}
  BY <1>1, <1>3, <1>4, <1>5
<1>6. CASE own # {}
  BY <1>1, <1>2, <1>3, <1>4, <1>6
<1> QED
  BY <1>5, <1>6

\* The slots in use can be counted.
LEMMA UsedCount == IsFiniteSet(Used) /\ Cardinality(Used) \in 0 .. LastSock + 1
<1>1. /\ LastSock \in Nat /\ 0 \in Int
      /\ IsFiniteSet(Socks) /\ Cardinality(Socks) = LastSock + 1
  BY TcpAssumption, FS_Interval DEF Socks
<1>2. Used \subseteq Socks
  BY DEF Used
<1>3. IsFiniteSet(Used) /\ Cardinality(Used) <= Cardinality(Socks)
  BY <1>1, <1>2, FS_Subset
<1>4. Cardinality(Used) \in Nat
  BY <1>3, FS_CardinalityType
<1> QED
  BY <1>1, <1>3, <1>4

\* TCPClosed queues the closing of one slot, as often as there are slots in use.
LEMMA ClosedCmdsFacts ==
  ASSUME NEW c, NEW alone \in BOOLEAN
  PROVE  \E n \in 0 .. LastSock + 1, s \in Socks \cup {None} :
           TCPClosedCmds(c, alone) = Closes(n, s)
<1>1. 0 \in 0 .. LastSock + 1 /\ 1 \in 0 .. LastSock + 1
  BY TcpAssumption
<1>2. SockOf(slot, c) \in Socks \cup {None} /\ SockOf(slot, NOBODY) \in Socks \cup {None}
  BY SockOfFacts
<1>3. CASE c = NOBODY
  <2>1. TCPClosedCmds(c, alone) = Closes(Cardinality(Used), SockOf(slot, NOBODY))
    BY <1>3 DEF TCPClosedCmds
  <2> QED
    BY <1>2, <2>1, UsedCount
<1>4. CASE c # NOBODY /\ alone
  <2>1. TCPClosedCmds(c, alone) = Closes(0, SockOf(slot, c))
    BY <1>4 DEF TCPClosedCmds, Closes
  <2> QED
    BY <1>1, <1>2, <2>1
<1>5. CASE c # NOBODY /\ ~alone
  <2>1. TCPClosedCmds(c, alone) = Closes(1, SockOf(slot, c))
    BY <1>5 DEF TCPClosedCmds, Closes
  <2> QED
    BY <1>1, <1>2, <2>1
<1> QED
  BY <1>3, <1>4, <1>5

\* These the handlers of lines and results may queue.
LEMMA ClosedCmdsRuns ==
  ASSUME NEW c, NEW alone \in BOOLEAN
  PROVE  /\ TCPClosedCmds(c, alone) \in LineRuns \cap ResultRuns
         /\ TCPClosedCmds(c, alone) \in Seq(Command)
<1>1. PICK n \in 0 .. LastSock + 1, s \in Socks \cup {None} :
        TCPClosedCmds(c, alone) = Closes(n, s)
  BY ClosedCmdsFacts
<1>2. Closes(n, s) \in LineRuns \cap ResultRuns
  BY TcpAssumption
<1> QED
  BY <1>1, <1>2, RunsAssumption

\* A final result of the sockets' handlers is one of the dispatcher's.
LEMMA TcpFinalStep ==
  ASSUME at \in Channel, NEW cs \in ResultRuns, Final(cs)
  PROVE  RxResult
<1>1. stop' \in {stop, stop \/ at.cur = "AT_SHDN"}
  BY DEF Final
<1> QED
  BY <1>1 DEF Final, RxResult

\* A handler of a result may queue nothing.
LEMMA NoCmds == <<>> \in ResultRuns
<1>1. Closes(0, None) = <<>> /\ 0 \in 0 .. LastSock + 1
  BY TcpAssumption DEF Closes
<1> QED
  BY <1>1, TcpAssumption

\* Handlers of results queue what TCPClosed queues, or nothing.
LEMMA ResultCmds ==
  ASSUME NEW tag, NEW alone \in BOOLEAN, Result(tag, alone)
  PROVE  \E cs \in ResultRuns : Final(cs)
<1>1. TCPClosedCmds(PidOf(Text(tag)), alone) \in ResultRuns
  BY ClosedCmdsRuns
<1> QED
  BY <1>1, NoCmds DEF Result

\* TCPClosed in a line of the modem queues its commands at the tail.
LEMMA TailStep ==
  ASSUME Reading, UNCHANGED <<recovery, stop, run>>, NEW c, NEW alone \in BOOLEAN,
         Queue(TCPClosedCmds(c, alone))
  PROVE  RxQueueTail
BY ClosedCmdsRuns DEF Queue, RxQueueTail

\* A request of a client.
LEMMA RequestStep ==
  ASSUME NEW c, OnTCPOpen(c) \/ OnTCPOpenFails(c) \/ OnTCPClose(c) \/ OnTCPSend(c)
  PROVE  [Next]_vars
<1>1. \A k : SockOf(slot, k) \in Socks \cup {None}
  BY SockOfFacts
<1>2. ASSUME NEW cs \in ClientRuns, NEW kind, Take(c, kind), Queue(cs)
      PROVE  [Next]_vars
  <2>1. OnClientCommand
    BY <1>2 DEF Take, Queue, OnClientCommand
  <2> QED
    BY <2>1 DEF Next
<1>3. CASE OnTCPOpen(c)
  <2>1. CASE SockOf(slot, NOBODY) # None
    <3>1. Take(c, "open") /\ Queue(<<Open(SockOf(slot, NOBODY))>>)
      BY <1>3, <2>1 DEF OnTCPOpen
    <3>2. <<Open(SockOf(slot, NOBODY))>> \in ClientRuns
      BY <1>1, <2>1, TcpAssumption
    <3> QED
      BY <1>2, <3>1, <3>2
  <2>2. CASE SockOf(slot, NOBODY) = None
    BY <1>3, <2>2 DEF OnTCPOpen, Take, vars
  <2> QED
    BY <2>1, <2>2
<1>4. CASE OnTCPOpenFails(c)
  BY <1>4 DEF OnTCPOpenFails, Take, vars
<1>5. CASE OnTCPClose(c)
  <2>1. Take(c, "close") /\ Queue(<<Close(SockOf(slot, c))>>)
    BY <1>5 DEF OnTCPClose
  <2>2. <<Close(SockOf(slot, c))>> \in ClientRuns
    BY <1>1, TcpAssumption
  <2> QED
    BY <1>2, <2>1, <2>2
<1>6. CASE OnTCPSend(c)
  <2>1. ASSUME NEW full \in BOOLEAN, Queue(LengthAndData(SockOf(slot, c), full))
        PROVE  [Next]_vars
    <3>1. Take(c, "send")
      BY <1>6 DEF OnTCPSend
    <3>2. LengthAndData(SockOf(slot, c), full) \in ClientRuns
      BY <1>1, TcpAssumption
    <3> QED
      BY <1>2, <2>1, <3>1, <3>2
  <2>2. CASE UNCHANGED at
    BY <1>6, <2>2 DEF OnTCPSend, Take, vars
  <2> QED
    BY <1>6, <2>1, <2>2 DEF OnTCPSend
<1> QED
  BY <1>3, <1>4, <1>5, <1>6

\* A line of the modem that is no final result.
LEMMA ReportStep ==
  ASSUME at \in Channel, NEW s,
         RxOpened(s) \/ RxOpenFailed(s) \/ RxClosed(s) \/ RxPdpDeact
  PROVE  [Next]_vars
<1>1. Reading /\ UNCHANGED <<recovery, stop, run>>
  BY DEF RxOpened, RxOpenFailed, RxClosed, RxPdpDeact, Report
<1>2. ASSUME NEW c, Queue(TCPClosedCmds(c, FALSE)) PROVE [Next]_vars
  <2>1. RxQueueTail
    BY <1>1, <1>2, TailStep
  <2> QED
    BY <2>1 DEF Next, RxLine
<1>3. CASE RxOpened(s)
  BY <1>1, <1>3 DEF RxOpened, vars
<1>4. CASE RxOpenFailed(s)
  <2>1. CASE s = 0
    <3> DEFINE cs == TCPClosedCmds(PidOf(0), FALSE)
    <3>1. CASE Queue(cs)
      BY <1>2, <3>1
    <3>2. CASE Room(Len(cs) + 1) /\ at' = SendCommand(SendCommands(at, cs), NewContext, TRUE)
      <4>1. cs \in LineRuns /\ NewContext \in HeadCmds
        BY ClosedCmdsRuns, TcpAssumption
      <4>2. RxQueueHead
        BY <1>1, <3>2, <4>1 DEF RxQueueHead
      <4> QED
        BY <4>2 DEF Next, RxLine
    <3> QED
      BY <1>4, <2>1, <3>1, <3>2 DEF RxOpenFailed
  <2>2. CASE s # 0
    BY <1>1, <1>4, <2>2 DEF RxOpenFailed, vars
  <2> QED
    BY <2>1, <2>2
<1>5. CASE RxClosed(s)
  BY <1>2, <1>5 DEF RxClosed, LineClosed
<1>6. CASE RxPdpDeact
  BY <1>2, <1>6 DEF RxPdpDeact, LineClosed
<1> QED
  BY <1>3, <1>4, <1>5, <1>6

\* A prompt, and a final result.
Ended == RxSendDone \/ RxTcpOk \/ RxTcpError \/ RxTcpCmeError

LEMMA AnswerStep ==
  ASSUME at \in Channel, RxTcpPrompt \/ Ended
  PROVE  [Next]_vars
<1>1. Prompt \in Prompts /\ Prompt[1] = "AT_QISEND" /\ Prompt[2] = "AT_QISEND_DATA"
  BY TcpAssumption DEF Prompt
<1>2. CASE RxTcpPrompt
  <2>1. CASE at.cur = "AT_QISEND"
    <3>1. RxPrompt
      BY <1>1, <1>2, <2>1 DEF RxTcpPrompt, RxPrompt, Answering
    <3> QED
      BY <3>1 DEF Next, RxLine
  <2>2. CASE at.cur # "AT_QISEND"
    <3>1. ModemLoses
      BY <1>2, <2>2 DEF RxTcpPrompt, ModemLoses, Answering
    <3> QED
      BY <3>1 DEF Next
  <2> QED
    BY <2>1, <2>2
<1>3. CASE RxSendDone
  <2>1. RxDataResult
    BY <1>1, <1>3 DEF RxSendDone, RxDataResult
  <2> QED
    BY <2>1 DEF Next, RxLine
<1>4. CASE RxTcpOk \/ RxTcpError
  <2>1. Result("AT_QICLOSE", TRUE) \/ Result("AT_QIOPEN_1", FALSE)
    BY <1>4 DEF RxTcpOk, RxTcpError
  <2>2. RxResult
    BY <2>1, ResultCmds, TcpFinalStep
  <2> QED
    BY <2>2 DEF Next, RxLine
<1>5. CASE RxTcpCmeError
  <2>1. Final(<<>>) /\ <<>> \in ResultRuns
    BY <1>5, NoCmds DEF RxTcpCmeError
  <2>2. RxResult
    BY <2>1, TcpFinalStep
  <2> QED
    BY <2>2 DEF Next, RxLine
<1> QED
  BY <1>2, <1>3, <1>4, <1>5 DEF Ended

\* An echo queues a command at the head, after none at the tail.
LEMMA EchoStep ==
  ASSUME at \in Channel, RxEcho
  PROVE  RxQueueHead
<1>1. at' = SendCommand(SendCommands(at, <<>>), Cmd("ATE0"), TRUE)
  BY SendNothing DEF RxEcho
<1>2. Room(Len(<<>>) + 1) /\ Cmd("ATE0") \in HeadCmds
  BY TcpAssumption DEF RxEcho
<1>3. <<>> \in LineRuns \cup {<<>>}
  OBVIOUS
<1> QED
  BY <1>1, <1>2, <1>3 DEF RxQueueHead, RxEcho

\* The steps of the sockets, by where they come from.
Library(c) == \/ TCPOpen(c) \/ TCPOpenAgain(c) \/ TCPClose(c)
              \/ TCPSend(c) \/ TCPSendData(c) \/ TCPSendDataFails(c) \/ Die(c)
Requested(c) == OnTCPOpen(c) \/ OnTCPOpenFails(c) \/ OnTCPClose(c) \/ OnTCPSend(c)
Reported(s) == RxOpened(s) \/ RxOpenFailed(s) \/ RxClosed(s)

\* There are no others: data for a FIFO that nobody reads kill the agent.
LEMMA TcpCases ==
  ASSUME TcpNext
  PROVE  \/ \E c \in Clients : Library(c)
         \/ \E c \in Clients : Requested(c)
         \/ \E s \in Socks : Reported(s)
         \/ RxPdpDeact \/ RxTcpPrompt \/ Ended \/ RxEcho \/ TcpModemLoses
         \/ TcpReset \/ TcpKilled \/ TcpStart \/ DispatchStep
<1>1. CASE Usual
  <2>1. ASSUME NEW s \in Socks, RxData(s) PROVE TcpKilled
    BY <2>1 DEF RxData
  <2> QED
    BY <1>1, <2>1 DEF Usual, Library, Requested, Reported, Ended
<1>2. CASE Unusual
  BY <1>2 DEF Unusual, Library, Requested, Reported, Ended
<1> QED
  BY <1>1, <1>2 DEF TcpNext

\* Every step of the sockets is one of the dispatcher's, or leaves its variables alone.
LEMMA TcpStep ==
  ASSUME IInv, [TcpNext]_allVars
  PROVE  [Next]_vars
<1>1. at \in Channel
  BY DEF IInv, TypeOK
<1>2. CASE UNCHANGED allVars
  BY <1>2 DEF allVars
<1>3. ASSUME NEW c \in Clients, Library(c) PROVE [Next]_vars
  BY <1>3 DEF Library, TCPOpen, TCPOpenAgain, TCPClose, TCPSend, TCPSendData, TCPSendDataFails, Die
<1>4. ASSUME NEW c \in Clients, Requested(c) PROVE [Next]_vars
  BY <1>4, RequestStep DEF Requested
<1>5. ASSUME NEW s \in Socks, Reported(s) \/ RxPdpDeact PROVE [Next]_vars
  BY <1>1, <1>5, ReportStep DEF Reported
<1>6. CASE RxTcpPrompt \/ Ended
  BY <1>1, <1>6, AnswerStep DEF Ended
<1>7. CASE RxEcho
  BY <1>1, <1>7, EchoStep DEF Next, RxLine
<1>8. CASE TcpModemLoses
  BY <1>8 DEF TcpModemLoses, Next
<1>9. CASE TcpReset
  BY <1>9 DEF TcpReset, Next, OnTimer
<1>10. CASE TcpKilled \/ TcpStart
  BY <1>10 DEF TcpKilled, TcpStart, Next
<1>11. CASE DispatchStep
  BY <1>11 DEF DispatchStep, Next, OnTimer
<1>12. Socks # {}
  BY TcpAssumption DEF Socks
<1> QED
  BY <1>2, <1>3, <1>4, <1>5, <1>6, <1>7, <1>8, <1>9, <1>10, <1>11, <1>12, TcpCases

\* The channel of the sockets' handlers is sound in every reachable state.
THEOREM TcpInvariance == TcpSpec => []IInv
<1>1. TcpInit => IInv
  BY InitIInv DEF TcpInit
<1>2. IInv /\ [TcpNext]_allVars => IInv'
  BY TcpStep, NextIInv
<1> QED
  BY <1>1, <1>2, PTL DEF TcpSpec

\* The sockets' handlers implement the dispatcher (see Dispatcher): whatever is
\* proved of its steps holds of theirs.
THEOREM TcpImplementsDispatcher == TcpSpec => Dispatcher
<1>1. TcpInit => Init
  BY DEF TcpInit
<1>2. IInv /\ [TcpNext]_allVars => [Next]_vars
  BY TcpStep
<1> QED
  BY <1>1, <1>2, TcpInvariance, PTL DEF TcpSpec, Dispatcher

-----------------------------------------------------------------------------
(* The table of slots, and what its descriptors stand for.                 *)

Descriptors == 0 .. LastSock + 1
Holders == Clients \cup {NOBODY}
Files == {Free, File("other", NOBODY)} \cup {File(w, c) : w \in {"fifo", "broken"}, c \in Clients}
Tables == [pid : [Socks -> Holders], fd : [Socks -> -1 .. LastSock + 1], desc : [Descriptors -> Files]]

\* A slot in use has a descriptor, and a descriptor that is not free, other than 0,
\* is that of a slot in use.
TableOK(t) ==
  /\ t \in Tables
  /\ \A s \in Socks : t.pid[s] # NOBODY => t.fd[s] \in Descriptors
  /\ \A f \in Descriptors \ {0} :
       t.desc[f] # Free => \E s \in Socks : t.pid[s] # NOBODY /\ t.fd[s] = f

\* FilesOwn, of any table.
Own(t) ==
  /\ t.desc[0].what = "other"
  /\ \A s \in Socks : t.pid[s] # NOBODY =>
       /\ t.desc[t.fd[s]].who = t.pid[s]
       /\ \A r \in Socks : t.pid[r] # NOBODY /\ s # r => t.fd[s] # t.fd[r]

\* That is what the property says of g_tcpArray.
LEMMA OwnIsFilesOwn == Own(slot) <=> FilesOwn
  BY DEF Own, FilesOwn, Used

\* Sockets and descriptors are numbers, and process 0 is no client.
LEMMA Numbers ==
  /\ LastSock \in Nat /\ 0 \in Socks /\ Socks \subseteq Nat
  /\ 0 \in Descriptors /\ Socks \subseteq Descriptors /\ Descriptors \subseteq Nat
  /\ NOBODY \notin Clients
BY TcpAssumption DEF Socks, Descriptors

\* What a descriptor stands for.
LEMMA FileFacts ==
  /\ Free \in Files /\ Free.who = NOBODY /\ Free.what = "free"
  /\ File("other", NOBODY) \in Files /\ File("other", NOBODY) # Free
  /\ File("other", NOBODY).what = "other" /\ File("other", NOBODY).who = NOBODY
  /\ \A c \in Clients :
       /\ File("fifo", c) \in Files /\ File("broken", c) \in Files
       /\ File("fifo", c).who = c /\ File("broken", c).who = c
       /\ File("fifo", c).what # "other" /\ File("broken", c).what # "other"
       /\ File("fifo", c) # Free /\ File("broken", c) # Free
  /\ \A f \in Files : f.what = "other" => f.who = NOBODY
<1>1. /\ Free.who = NOBODY /\ Free.what = "free"
      /\ \A w, c : File(w, c).what = w /\ File(w, c).who = c
  BY DEF Free, File
<1>2. /\ Free \in Files /\ File("other", NOBODY) \in Files
      /\ \A c \in Clients : File("fifo", c) \in Files /\ File("broken", c) \in Files
  BY DEF Files
<1>3. \A f \in Files : f = Free \/ f = File("other", NOBODY)
                         \/ \E c \in Clients : f = File("fifo", c) \/ f = File("broken", c)
  BY DEF Files
<1> QED
  BY <1>1, <1>2, <1>3

\* The reader of a FIFO goes: the descriptor stays that of its client.
LEMMA BrokenTable ==
  ASSUME NEW t, TableOK(t), NEW c \in Clients
  PROVE  LET u == Broken(t, c)
         IN  TableOK(u) /\ u.pid = t.pid /\ (Own(t) => Own(u))
<1> DEFINE u == Broken(t, c)
           new(f) == IF t.desc[f] = File("fifo", c) THEN File("broken", c) ELSE t.desc[f]
<1>1. t \in Tables
  BY DEF TableOK
<1>2. DOMAIN t.desc = Descriptors
  BY <1>1 DEF Tables
<1>3. u = [t EXCEPT !.desc = [f \in Descriptors |-> new(f)]]
  BY <1>2 DEF Broken
<1> HIDE DEF u
<1>4. u.pid = t.pid /\ u.fd = t.fd /\ \A f \in Descriptors : u.desc[f] = new(f)
  BY <1>1, <1>3 DEF Tables
<1>5. \A f \in Descriptors :
        /\ new(f) \in Files /\ new(f).who = t.desc[f].who
        /\ t.desc[f] = Free => new(f) = Free
        /\ t.desc[f].what = "other" => new(f).what = "other"
  <2> SUFFICES ASSUME NEW f \in Descriptors
               PROVE  /\ new(f) \in Files /\ new(f).who = t.desc[f].who
                      /\ t.desc[f] = Free => new(f) = Free
                      /\ t.desc[f].what = "other" => new(f).what = "other"
    OBVIOUS
  <2>1. t.desc[f] \in Files
    BY <1>1 DEF Tables
  <2>2. CASE t.desc[f] = File("fifo", c)
    BY <2>2, FileFacts
  <2>3. CASE t.desc[f] # File("fifo", c)
    BY <2>1, <2>3
  <2> QED
    BY <2>2, <2>3
<1> HIDE DEF new
<1>6. u \in Tables
  BY <1>1, <1>3, <1>5 DEF Tables
<1>7. TableOK(u)
  BY <1>4, <1>5, <1>6 DEF TableOK
<1>8. ASSUME Own(t) PROVE Own(u)
  <2>1. \A s \in Socks : u.pid[s] # NOBODY =>
          t.fd[s] \in Descriptors /\ u.desc[u.fd[s]].who = t.desc[t.fd[s]].who
    BY <1>4, <1>5 DEF TableOK
  <2>2. u.desc[0].what = "other"
    BY <1>4, <1>5, <1>8, Numbers DEF Own
  <2>3. \A s \in Socks : u.pid[s] # NOBODY =>
          /\ u.desc[u.fd[s]].who = u.pid[s]
          /\ \A r \in Socks : u.pid[r] # NOBODY /\ s # r => u.fd[s] # u.fd[r]
    BY <1>4, <1>8, <2>1 DEF Own
  <2> QED
    BY <2>2, <2>3 DEF Own
<1> QED
  BY <1>4, <1>7, <1>8 DEF u

\* If a slot is free, so is a descriptor: there are more of these than of those.
LEMMA FreeFile ==
  ASSUME NEW t, TableOK(t), NEW s \in Socks, t.pid[s] = NOBODY
  PROVE  FirstFree(t) \in Descriptors /\ t.desc[FirstFree(t)] = Free
<1> DEFINE F == {f \in Descriptors : t.desc[f] = Free}
           U == {r \in Socks : t.pid[r] # NOBODY}
           D == Descriptors \ {0}
<1>1. t \in Tables /\ DOMAIN t.desc = Descriptors
  BY DEF TableOK, Tables
<1>2. FirstFree(t) = Min(F)
  BY <1>1 DEF FirstFree
<1>3. F # {}
  <2> SUFFICES ASSUME F = {} PROVE FALSE
    OBVIOUS
  <2>1. \A f \in D : \E r \in U : t.fd[r] = f
    BY DEF TableOK
  <2>2. IsFiniteSet(Socks) /\ Cardinality(Socks) = LastSock + 1
    BY Numbers, FS_Interval DEF Socks
  <2>3. D = 1 .. LastSock + 1
    BY Numbers DEF Descriptors
  <2>4. IsFiniteSet(D) /\ Cardinality(D) = LastSock + 1
    <3>1. LastSock + 1 \in Int /\ 1 \in Int /\ ~(1 > LastSock + 1)
          /\ (LastSock + 1) - 1 + 1 = LastSock + 1
      BY Numbers
    <3> HIDE DEF D
    <3> QED
      BY <2>3, <3>1, FS_Interval
  <2>5. IsFiniteSet(U) /\ Cardinality(U) < Cardinality(Socks)
    <3>1. U \subseteq Socks /\ U # Socks
      OBVIOUS
    <3> HIDE DEF U
    <3>2. IsFiniteSet(U) /\ Cardinality(U) <= Cardinality(Socks)
      BY <2>2, <3>1, FS_Subset
    <3>3. Cardinality(U) # Cardinality(Socks)
      BY <2>2, <3>1, FS_Subset
    <3>4. Cardinality(U) \in Nat /\ Cardinality(Socks) \in Nat
      BY <2>2, <3>2, FS_CardinalityType
    <3> QED
      BY <3>2, <3>3, <3>4
  <2> DEFINE g == [f \in D |-> CHOOSE r \in U : t.fd[r] = f]
  <2>6. \A f \in D : g[f] \in U /\ t.fd[g[f]] = f
    BY <2>1
  <2> HIDE DEF U, D, g
  <2>7. g \in [D -> U]
    BY <2>6 DEF g
  <2>8. Cardinality(U) < Cardinality(D)
    BY <2>2, <2>4, <2>5
  <2>9. PICK a, b \in D : a # b /\ g[a] = g[b]
    BY <2>4, <2>5, <2>7, <2>8, FS_PigeonHole
  <2> QED
    BY <2>6, <2>9
<1>4. Min(F) \in F
  <2>1. F \subseteq Nat
    BY Numbers
  <2> HIDE DEF F
  <2> QED
    BY <1>3, <2>1, LeastPosition
<1> QED
  BY <1>2, <1>4

\* A free slot is taken, with the descriptor that its FIFO gets.
LEMMA TakenTable ==
  ASSUME NEW t, TableOK(t), NEW s \in Socks, t.pid[s] = NOBODY, NEW c \in Clients
  PROVE  LET u == Taken(t, s, c)
         IN  /\ TableOK(u) /\ (Own(t) => Own(u))
             /\ u.pid = [t.pid EXCEPT ![s] = c]
<1> DEFINE f == FirstFree(t)
           u == Taken(t, s, c)
<1>1. f \in Descriptors /\ t.desc[f] = Free
  BY FreeFile
<1>2. u = [t EXCEPT !.pid[s] = c, !.fd[s] = f, !.desc[f] = File("fifo", c)]
  BY DEF Taken
<1>3. t \in Tables
  BY DEF TableOK
<1> HIDE DEF f, u
<1>4. /\ u.pid = [t.pid EXCEPT ![s] = c] /\ u.fd = [t.fd EXCEPT ![s] = f]
      /\ u.desc = [t.desc EXCEPT ![f] = File("fifo", c)]
  BY <1>2, <1>3 DEF Tables
<1>5. File("fifo", c) \in Files /\ File("fifo", c).who = c /\ f \in -1 .. LastSock + 1
  BY <1>1, FileFacts, Numbers DEF Descriptors
<1>6. u \in Tables
  BY <1>1, <1>2, <1>3, <1>5 DEF Tables, Holders
<1>7. /\ u.pid[s] = c /\ u.fd[s] = f /\ u.desc[f] = File("fifo", c)
      /\ \A r \in Socks : r # s => u.pid[r] = t.pid[r] /\ u.fd[r] = t.fd[r]
      /\ \A e \in Descriptors : e # f => u.desc[e] = t.desc[e]
  BY <1>1, <1>3, <1>4 DEF Tables
<1>8. /\ \A r \in Socks : t.pid[r] # NOBODY => t.fd[r] \in Descriptors
      /\ \A e \in Descriptors \ {0} :
           t.desc[e] # Free => \E r \in Socks : t.pid[r] # NOBODY /\ t.fd[r] = e
  BY DEF TableOK
<1>9. c # NOBODY
  BY Numbers
<1>10. TableOK(u)
  <2>1. \A r \in Socks : u.pid[r] # NOBODY => u.fd[r] \in Descriptors
    BY <1>1, <1>7, <1>8
  <2>2. \A e \in Descriptors \ {0} :
          u.desc[e] # Free => \E r \in Socks : u.pid[r] # NOBODY /\ u.fd[r] = e
    <3> SUFFICES ASSUME NEW e \in Descriptors \ {0}, u.desc[e] # Free
                 PROVE  \E r \in Socks : u.pid[r] # NOBODY /\ u.fd[r] = e
      OBVIOUS
    <3>1. CASE e = f
      BY <1>7, <1>9, <3>1
    <3>2. CASE e # f
      <4>1. PICK r \in Socks : t.pid[r] # NOBODY /\ t.fd[r] = e
        BY <1>7, <1>8, <3>2
      <4> QED
        BY <1>7, <4>1
    <3> QED
      BY <3>1, <3>2
  <2> QED
    BY <1>6, <2>1, <2>2 DEF TableOK
<1>11. ASSUME Own(t) PROVE Own(u)
  <2>1. f # 0
    BY <1>1, <1>11, FileFacts DEF Own
  <2>2. \A r \in Socks : t.pid[r] # NOBODY => t.fd[r] # f
    BY <1>1, <1>11, FileFacts DEF Own
  <2>3. u.desc[0].what = "other"
    BY <1>7, <1>11, <2>1, Numbers DEF Own
  <2>4. ASSUME NEW r \in Socks, u.pid[r] # NOBODY
        PROVE  /\ u.desc[u.fd[r]].who = u.pid[r]
               /\ \A q \in Socks : u.pid[q] # NOBODY /\ r # q => u.fd[r] # u.fd[q]
    <3>1. CASE r = s
      BY <1>5, <1>7, <2>2, <3>1
    <3>2. CASE r # s
      <4>1. t.pid[r] # NOBODY /\ u.fd[r] = t.fd[r] /\ t.fd[r] # f /\ t.fd[r] \in Descriptors
        BY <1>7, <1>8, <2>2, <2>4, <3>2
      <4>2. u.desc[u.fd[r]].who = u.pid[r]
        BY <1>7, <1>11, <3>2, <4>1 DEF Own
      <4>3. \A q \in Socks : u.pid[q] # NOBODY /\ r # q => u.fd[r] # u.fd[q]
        BY <1>7, <1>11, <4>1 DEF Own
      <4> QED
        BY <4>2, <4>3
    <3> QED
      BY <3>1, <3>2
  <2> QED
    BY <2>3, <2>4 DEF Own
<1> QED
  BY <1>4, <1>10, <1>11 DEF u

\* A free slot forgets its descriptor.
LEMMA ForgottenTable ==
  ASSUME NEW t, TableOK(t), NEW s \in Socks, t.pid[s] = NOBODY
  PROVE  LET u == [t EXCEPT !.fd[s] = -1]
         IN  TableOK(u) /\ u.pid = t.pid /\ (Own(t) => Own(u))
<1> DEFINE u == [t EXCEPT !.fd[s] = -1]
<1>1. t \in Tables
  BY DEF TableOK
<1>2. -1 \in -1 .. LastSock + 1
  BY Numbers
<1>3. u \in Tables
  BY <1>1, <1>2 DEF Tables
<1>4. /\ u.pid = t.pid /\ u.desc = t.desc
      /\ \A r \in Socks : r # s => u.fd[r] = t.fd[r]
  BY <1>1 DEF Tables
<1> HIDE DEF u
<1>5. TableOK(u)
  BY <1>3, <1>4 DEF TableOK
<1>6. Own(t) => Own(u)
  BY <1>4 DEF Own
<1> QED
  BY <1>4, <1>5, <1>6 DEF u

\* ClearSockInfo frees the first slot of the process, if it has one, and no other.
\* Only for process 0 it may close the descriptor of another slot.
LEMMA ClearedTable ==
  ASSUME NEW t, TableOK(t), NEW c \in Holders
  PROVE  LET u == ClearSockInfo(t, c)
             s == SockOf(t, c)
         IN  /\ TableOK(u)
             /\ c # NOBODY => (Own(t) => Own(u))
             /\ \A r \in Socks : u.pid[r] = IF r = s THEN NOBODY ELSE t.pid[r]
<1> DEFINE u == ClearSockInfo(t, c)
           s == SockOf(t, c)
<1>1. t \in Tables
  BY DEF TableOK
<1>2. s \in Socks \cup {None} /\ (s # None => t.pid[s] = c) /\ None \notin Socks
  BY SockOfFacts, Numbers DEF None
<1>3. u = IF s = None THEN t ELSE ClosedFile([t EXCEPT !.pid[s] = NOBODY], t.fd[s])
  BY DEF ClearSockInfo
<1> HIDE DEF s, u
<1>4. CASE s = None
  BY <1>2, <1>3, <1>4 DEF u, s
<1>5. CASE s # None
  <2> DEFINE v == [t EXCEPT !.pid[s] = NOBODY]
             f == t.fd[s]
  <2>1. s \in Socks /\ t.pid[s] = c
    BY <1>2, <1>5
  <2>2. v \in Tables /\ v.fd = t.fd /\ v.desc = t.desc /\ DOMAIN t.desc = Descriptors
        /\ \A r \in Socks : v.pid[r] = IF r = s THEN NOBODY ELSE t.pid[r]
    BY <1>1, <2>1 DEF Tables, Holders
  <2>3. u = IF f \in Descriptors THEN [v EXCEPT !.desc[f] = Free] ELSE v
    BY <1>3, <1>5, <2>2 DEF ClosedFile
  <2> HIDE DEF v, f
  <2>4. /\ u \in Tables /\ u.pid = v.pid /\ u.fd = v.fd
        /\ \A e \in Descriptors : u.desc[e] = IF e = f THEN Free ELSE t.desc[e]
    <3>1. CASE f \in Descriptors
      BY <2>2, <2>3, <3>1, FileFacts DEF Tables
    <3>2. CASE f \notin Descriptors
      BY <2>2, <2>3, <3>2
    <3> QED
      BY <3>1, <3>2
  <2>5. \A r \in Socks : u.pid[r] = IF r = s THEN NOBODY ELSE t.pid[r]
    BY <2>2, <2>4
  <2>6. TableOK(u)
    <3>1. \A r \in Socks : u.pid[r] # NOBODY => u.fd[r] \in Descriptors
      BY <2>2, <2>4, <2>5 DEF TableOK
    <3>2. ASSUME NEW e \in Descriptors \ {0}, u.desc[e] # Free
          PROVE  \E r \in Socks : u.pid[r] # NOBODY /\ u.fd[r] = e
      <4>1. e # f /\ t.desc[e] # Free
        BY <2>4, <3>2
      <4>2. PICK r \in Socks : t.pid[r] # NOBODY /\ t.fd[r] = e
        BY <4>1 DEF TableOK
      <4>3. r # s
        BY <4>1, <4>2 DEF f
      <4> QED
        BY <2>2, <2>4, <2>5, <4>2, <4>3
    <3> QED
      BY <2>4, <3>1, <3>2 DEF TableOK
  <2>7. ASSUME c # NOBODY, Own(t) PROVE Own(u)
    <3>1. f \in Descriptors /\ t.desc[f].who = c
      BY <2>1, <2>7 DEF TableOK, Own, f
    <3>2. f # 0
      <4>1. t.desc[0].what = "other" /\ t.desc[0] \in Files
        BY <1>1, <2>7, Numbers DEF Own, Tables
      <4>2. t.desc[0].who = NOBODY
        BY <4>1, FileFacts
      <4> QED
        BY <2>7, <3>1, <4>2
    <3>3. u.desc[0].what = "other"
      BY <2>4, <2>7, <3>2, Numbers DEF Own
    <3>4. ASSUME NEW r \in Socks, u.pid[r] # NOBODY
          PROVE  /\ u.desc[u.fd[r]].who = u.pid[r]
                 /\ \A q \in Socks : u.pid[q] # NOBODY /\ r # q => u.fd[r] # u.fd[q]
      <4>1. r # s /\ u.pid[r] = t.pid[r] /\ u.fd[r] = t.fd[r]
        BY <2>2, <2>4, <2>5, <3>4
      <4>2. t.fd[r] \in Descriptors /\ t.fd[r] # f
        BY <2>1, <2>7, <3>4, <4>1 DEF TableOK, Own, f
      <4>3. u.desc[u.fd[r]].who = u.pid[r]
        BY <2>4, <2>7, <3>4, <4>1, <4>2 DEF Own
      <4>4. \A q \in Socks : u.pid[q] # NOBODY /\ r # q => u.fd[r] # u.fd[q]
        BY <2>2, <2>4, <2>5, <2>7, <3>4, <4>1 DEF Own
      <4> QED
        BY <4>3, <4>4
    <3> QED
      BY <3>3, <3>4 DEF Own
  <2> QED
    BY <2>5, <2>6, <2>7 DEF u, s
<1> QED
  BY <1>4, <1>5

\* A reset of the modem closes every FIFO and opens descriptor 0 again.
LEMMA ResetTable ==
  ASSUME NEW t, TableOK(t)
  PROVE  LET u == [ClearAllSockInfo(t) EXCEPT !.desc[0] = File("other", NOBODY)]
         IN  TableOK(u) /\ Own(u) /\ \A s \in Socks : u.pid[s] = NOBODY
<1> DEFINE v == ClearAllSockInfo(t)
           u == [v EXCEPT !.desc[0] = File("other", NOBODY)]
           new(f) == IF \E s \in Socks : t.pid[s] # NOBODY /\ t.fd[s] = f THEN Free ELSE t.desc[f]
<1>1. t \in Tables /\ DOMAIN t.desc = Descriptors
  BY DEF TableOK, Tables
<1>2. v = [t EXCEPT !.pid = [s \in Socks |-> NOBODY], !.desc = [f \in Descriptors |-> new(f)]]
  BY <1>1 DEF ClearAllSockInfo
<1>3. \A f \in Descriptors : new(f) \in Files
  BY <1>1, FileFacts DEF Tables
<1>4. \A f \in Descriptors \ {0} : new(f) = Free
  BY DEF TableOK
<1> HIDE DEF v, new
<1>5. /\ v \in Tables /\ v.pid = [s \in Socks |-> NOBODY]
      /\ \A f \in Descriptors : v.desc[f] = new(f)
  BY <1>1, <1>2, <1>3 DEF Tables, Holders
<1>6. u \in Tables /\ u.pid = v.pid /\ u.desc[0] = File("other", NOBODY)
      /\ \A f \in Descriptors \ {0} : u.desc[f] = v.desc[f]
  BY <1>5, FileFacts, Numbers DEF Tables
<1> HIDE DEF u
<1>7. \A s \in Socks : u.pid[s] = NOBODY
  BY <1>5, <1>6
<1>8. \A f \in Descriptors \ {0} : u.desc[f] = Free
  BY <1>4, <1>5, <1>6
<1>9. TableOK(u)
  BY <1>6, <1>7, <1>8 DEF TableOK
<1>10. Own(u)
  BY <1>6, <1>7, FileFacts DEF Own
<1> QED
  BY <1>7, <1>9, <1>10 DEF u, v

\* So it is when the agent starts.
LEMMA NoSlotsTable == TableOK(NoSlots) /\ Own(NoSlots)
<1> DEFINE new(f) == IF f = 0 THEN File("other", NOBODY) ELSE Free
<1>1. NoSlots = [pid |-> [s \in Socks |-> NOBODY], fd |-> [s \in Socks |-> 0],
                 desc |-> [f \in Descriptors |-> new(f)]]
  BY DEF NoSlots, Descriptors
<1>2. /\ \A f \in Descriptors : new(f) \in Files
      /\ new(0) = File("other", NOBODY) /\ \A f \in Descriptors \ {0} : new(f) = Free
  BY FileFacts
<1>3. 0 \in -1 .. LastSock + 1
  BY Numbers
<1> HIDE DEF new
<1>4. NoSlots \in Tables
  BY <1>1, <1>2, <1>3 DEF Tables, Holders
<1>5. /\ \A s \in Socks : NoSlots.pid[s] = NOBODY
      /\ \A f \in Descriptors : NoSlots.desc[f] = new(f)
  BY <1>1
<1> HIDE DEF NoSlots
<1>6. TableOK(NoSlots)
  BY <1>2, <1>4, <1>5 DEF TableOK
<1>7. Own(NoSlots)
  BY <1>2, <1>5, FileFacts, Numbers DEF Own
<1> QED
  BY <1>6, <1>7

\* The owner of a slot is a client or nobody.
LEMMA PidOfFacts ==
  ASSUME TableOK(slot), NEW s
  PROVE  PidOf(s) \in Holders
<1>1. \A n \in Socks : slot.pid[n] \in Holders
  BY DEF TableOK, Tables
<1> QED
  BY <1>1 DEF PidOf, Holders

\* What TCPClosed leaves of the table.
LEMMA ClosedSlot ==
  ASSUME TableOK(slot), NEW c \in Holders, NEW alone, TCPClosed(c, alone)
  PROVE  /\ TableOK(slot')
         /\ c # NOBODY => (Own(slot) => Own(slot'))
         /\ \A s \in Socks : slot'.pid[s] = IF s = SockOf(slot, c) THEN NOBODY ELSE slot.pid[s]
<1>1. CASE c = NOBODY /\ Used = {}
  <2>1. slot' = slot
    BY <1>1 DEF TCPClosed
  <2>2. \A s \in Socks : slot.pid[s] = NOBODY
    BY <1>1 DEF Used
  <2> QED
    BY <1>1, <2>1, <2>2
<1>2. CASE ~(c = NOBODY /\ Used = {})
  <2>1. slot' = ClearSockInfo(slot, c)
    BY <1>2 DEF TCPClosed
  <2> QED
    BY <2>1, ClearedTable
<1> QED
  BY <1>1, <1>2

\* What a final result leaves of it.
LEMMA ResultSlot ==
  ASSUME TableOK(slot), NEW tag, NEW alone, Result(tag, alone)
  PROVE  LET c == PidOf(Text(tag))
         IN  /\ TableOK(slot')
             /\ at.cur # tag \/ c # NOBODY => (Own(slot) => Own(slot'))
<1>1. CASE at.cur = tag /\ tag \in PoolTags(at.pool)
  BY <1>1, PidOfFacts, ClosedSlot DEF Result
<1>2. CASE ~(at.cur = tag /\ tag \in PoolTags(at.pool))
  BY <1>2 DEF Result
<1> QED
  BY <1>1, <1>2

\* Every step keeps the table, and only the closing of process 0's connections
\* touches a descriptor that is not its slot's.
LEMMA TableStep ==
  ASSUME TableOK(slot), [TcpNext]_allVars
  PROVE  TableOK(slot') /\ (Own(slot) => Own(slot') \/ ForNobody)
<1>1. CASE UNCHANGED slot
  BY <1>1
<1>2. ASSUME NEW c \in Clients, Library(c) PROVE TableOK(slot') /\ (Own(slot) => Own(slot'))
  <2>1. CASE slot' = Broken(slot, c)
    BY <2>1, BrokenTable
  <2>2. CASE ~(slot' = Broken(slot, c))
    BY <1>2, <2>2 DEF Library, TCPOpen, TCPOpenAgain, TCPClose, TCPSend, TCPSendData, TCPSendDataFails, Die
  <2> QED
    BY <2>1, <2>2
<1>3. ASSUME NEW c \in Clients, Requested(c) PROVE TableOK(slot') /\ (Own(slot) => Own(slot'))
  <2> DEFINE s == SockOf(slot, NOBODY)
  <2>1. s # None => s \in Socks /\ slot.pid[s] = NOBODY
    BY SockOfFacts
  <2>2. CASE OnTCPOpen(c) /\ s # None
    <3>1. slot' = Taken(slot, s, c)
      BY <2>2 DEF OnTCPOpen, BuildSockInfo
    <3> HIDE DEF s
    <3> QED
      BY <2>1, <2>2, <3>1, TakenTable
  <2>3. CASE OnTCPOpenFails(c)
    <3>1. s # None /\ slot' = [slot EXCEPT !.fd[s] = -1]
      BY <2>3 DEF OnTCPOpenFails
    <3> HIDE DEF s
    <3> QED
      BY <2>1, <3>1, ForgottenTable
  <2>4. CASE OnTCPOpen(c) /\ s = None
    BY <2>4 DEF OnTCPOpen
  <2>5. CASE OnTCPClose(c) \/ OnTCPSend(c)
    BY <2>5 DEF OnTCPClose, OnTCPSend
  <2> QED
    BY <1>3, <2>2, <2>3, <2>4, <2>5 DEF Requested
<1>4. ASSUME NEW s \in Socks, Reported(s)
      PROVE  TableOK(slot') /\ (Own(slot) => Own(slot') \/ ForNobody)
  <2>1. CASE RxOpened(s) \/ (RxOpenFailed(s) /\ s # 0)
    BY <2>1 DEF RxOpened, RxOpenFailed
  <2>2. CASE RxClosed(s) \/ (RxOpenFailed(s) /\ s = 0)
    <3>1. TCPClosed(PidOf(s), FALSE)
      BY <2>2 DEF RxClosed, LineClosed, RxOpenFailed
    <3>2. PidOf(s) = slot.pid[s]
      BY Numbers DEF PidOf, None
    <3>3. slot.pid[s] = NOBODY => ForNobody
      BY <2>2 DEF ForNobody
    <3> QED
      BY <3>1, <3>2, <3>3, PidOfFacts, ClosedSlot
  <2> QED
    BY <1>4, <2>1, <2>2 DEF Reported
<1>5. CASE RxPdpDeact
  <2>1. TCPClosed(NOBODY, FALSE) /\ NOBODY \in Holders
    BY <1>5 DEF RxPdpDeact, LineClosed, Holders
  <2> QED
    BY <1>5, <2>1, ClosedSlot DEF ForNobody
<1>6. CASE RxTcpOk
  BY <1>6, ResultSlot DEF RxTcpOk, ForNobody
<1>7. CASE RxTcpError
  BY <1>7, ResultSlot DEF RxTcpError, ForNobody
<1>8. CASE TcpReset
  BY <1>8, ResetTable DEF TcpReset
<1>9. CASE TcpKilled
  BY <1>9, NoSlotsTable DEF TcpKilled
<1>10. CASE \/ RxTcpPrompt \/ RxSendDone \/ RxTcpCmeError \/ RxEcho \/ TcpModemLoses
             \/ TcpStart \/ DispatchStep
  BY <1>1, <1>10 DEF RxTcpPrompt, RxSendDone, RxTcpCmeError, RxEcho, TcpModemLoses, TcpStart,
                     DispatchStep, tcpVars
<1> QED
  BY <1>1, <1>2, <1>3, <1>4, <1>5, <1>6, <1>7, <1>8, <1>9, <1>10, TcpCases DEF Ended, allVars, tcpVars

\* The table of slots is sound in every reachable state.
THEOREM TableInvariance == TcpSpec => []TableOK(slot)
<1>1. TcpInit => TableOK(slot)
  BY NoSlotsTable DEF TcpInit
<1>2. TableOK(slot) /\ [TcpNext]_allVars => TableOK(slot)'
  BY TableStep
<1> QED
  BY <1>1, <1>2, PTL DEF TcpSpec

\* A slot's descriptor stays its own (see FilesKept): unless TCPClosed is called for
\* process 0, no step, however the slots were taken before, lets two slots share a
\* descriptor, or one have another's, or closes descriptor 0.
THEOREM FilesAreKept == TcpSpec => FilesKept
<1>1. TableOK(slot) /\ [TcpNext]_allVars => [FilesOwn => FilesOwn' \/ ForNobody]_allVars
  <2>1. FilesOwn <=> Own(slot)
    BY OwnIsFilesOwn
  <2>2. FilesOwn' <=> Own(slot')
    BY DEF Own, FilesOwn, Used
  <2> QED
    BY <2>1, <2>2, TableStep
<1> QED
  BY <1>1, TableInvariance, PTL DEF TcpSpec, FilesKept

-----------------------------------------------------------------------------
(* The requests of a client, and its data.                                 *)

Asked == [kind : {"open", "close", "send"}, number : Nat]

QueuesOK ==
  /\ calls \in Nat
  /\ asked \in [Clients -> Seq(Asked)]
  /\ data \in [Clients -> Seq(Nat)]
  /\ sending \in [Clients -> Nat]

\* The numbers of the requests to send in q are those of sent, in order.
Nth(q, k) == Cardinality({j \in Sends(q) : j <= k})
Matches(q, sent) ==
  /\ Cardinality(Sends(q)) = Len(sent)
  /\ \A k \in Sends(q) : q[k].number = sent[Nth(q, k)]

Sent(c) == data[c] \o (IF sending[c] = 0 THEN <<>> ELSE <<sending[c]>>)

\* That is what the property says of a client's requests and data.
LEMMA InStepMatches ==
  ASSUME NEW c
  PROVE  InStep(c) <=> Matches(asked[c], Sent(c))
  BY DEF InStep, Matches, Nth, Sent

\* A set of numbers that is moved down by one keeps its size.
LEMMA Shifted ==
  ASSUME NEW S, IsFiniteSet(S), S \subseteq Int, NEW T, T \subseteq Int,
         \A k \in S : k - 1 \in T, \A k \in T : k + 1 \in S
  PROVE  IsFiniteSet(T) /\ Cardinality(T) = Cardinality(S)
<1> DEFINE f == [k \in S |-> k - 1]
           g == [k \in T |-> k + 1]
<1>1. f \in Surjection(S, T)
  <2>1. f \in [S -> T]
    OBVIOUS
  <2>2. \A t \in T : t + 1 \in S /\ f[t + 1] = t
    OBVIOUS
  <2> HIDE DEF f
  <2> QED
    BY <2>1, <2>2 DEF Surjection
<1>2. g \in Surjection(T, S)
  <2>1. g \in [T -> S]
    OBVIOUS
  <2>2. \A s \in S : s - 1 \in T /\ g[s - 1] = s
    OBVIOUS
  <2> HIDE DEF g
  <2> QED
    BY <2>1, <2>2 DEF Surjection
<1> HIDE DEF f, g
<1>3. IsFiniteSet(T) /\ Cardinality(T) <= Cardinality(S)
  BY <1>1, FS_Surjection
<1>4. Cardinality(S) <= Cardinality(T)
  BY <1>2, <1>3, FS_Surjection
<1>5. Cardinality(S) \in Nat /\ Cardinality(T) \in Nat
  BY <1>3, FS_CardinalityType
<1> QED
  BY <1>3, <1>4, <1>5

\* The places of the requests to send can be counted, all of them and up to one.
LEMMA SendsFacts ==
  ASSUME NEW q \in Seq(Asked)
  PROVE  /\ Sends(q) \subseteq 1 .. Len(q) /\ Len(q) \in Nat /\ DOMAIN q = 1 .. Len(q)
         /\ IsFiniteSet(Sends(q)) /\ Cardinality(Sends(q)) \in Nat
         /\ \A k : /\ IsFiniteSet({j \in Sends(q) : j <= k})
                   /\ Nth(q, k) \in Nat /\ Nth(q, k) <= Cardinality(Sends(q))
                   /\ k \in Sends(q) => Nth(q, k) # 0
<1>1. Sends(q) \subseteq 1 .. Len(q) /\ Len(q) \in Nat /\ DOMAIN q = 1 .. Len(q)
  BY LenProperties DEF Sends
<1>2. IsFiniteSet(1 .. Len(q))
  BY <1>1, FS_Interval
<1>3. IsFiniteSet(Sends(q)) /\ Cardinality(Sends(q)) \in Nat
  BY <1>1, <1>2, FS_Subset, FS_CardinalityType
<1>4. ASSUME NEW k
      PROVE  /\ IsFiniteSet({j \in Sends(q) : j <= k})
             /\ Nth(q, k) \in Nat /\ Nth(q, k) <= Cardinality(Sends(q))
             /\ k \in Sends(q) => Nth(q, k) # 0
  <2> DEFINE S == {j \in Sends(q) : j <= k}
  <2>1. S \subseteq Sends(q) /\ (k \in Sends(q) => k \in S)
    BY <1>1
  <2> HIDE DEF S
  <2>2. IsFiniteSet(S) /\ Cardinality(S) \in Nat /\ Cardinality(S) <= Cardinality(Sends(q))
    BY <1>3, <2>1, FS_Subset, FS_CardinalityType
  <2>3. S # {} => Cardinality(S) # 0
    BY <2>2, FS_EmptySet
  <2> QED
    BY <2>1, <2>2, <2>3 DEF S, Nth
<1> QED
  BY <1>1, <1>3, <1>4

\* A request is appended.
LEMMA AskedMatches ==
  ASSUME NEW q \in Seq(Asked), NEW r \in Asked, NEW sent \in Seq(Nat), Matches(q, sent)
  PROVE  Matches(Append(q, r), IF r.kind = "send" THEN Append(sent, r.number) ELSE sent)
<1> DEFINE p == Append(q, r)
           n == Len(q)
<1>1. /\ p \in Seq(Asked) /\ n \in Nat /\ DOMAIN q = 1 .. n /\ DOMAIN p = 1 .. n + 1
      /\ p[n + 1] = r /\ \A k \in 1 .. n : p[k] = q[k]
  BY LenProperties
<1> HIDE DEF p, n
<1>2. Sends(q) \subseteq 1 .. n /\ IsFiniteSet(Sends(q)) /\ Cardinality(Sends(q)) \in Nat
  BY SendsFacts DEF n
<1>3. Sends(p) = IF r.kind = "send" THEN Sends(q) \cup {n + 1} ELSE Sends(q)
  BY <1>1 DEF Sends
<1>4. \A k \in Sends(q) : p[k] = q[k] /\ Nth(p, k) = Nth(q, k)
  <2> SUFFICES ASSUME NEW k \in Sends(q) PROVE p[k] = q[k] /\ Nth(p, k) = Nth(q, k)
    OBVIOUS
  <2>1. {j \in Sends(p) : j <= k} = {j \in Sends(q) : j <= k}
    BY <1>1, <1>2, <1>3
  <2> QED
    BY <1>1, <1>2, <2>1 DEF Nth
<1>5. CASE r.kind # "send"
  BY <1>3, <1>4, <1>5 DEF Matches, p
<1>6. CASE r.kind = "send"
  <2> DEFINE more == Append(sent, r.number)
             m == Len(sent)
  <2>1. r.number \in Nat
    BY DEF Asked
  <2>2. /\ m \in Nat /\ Len(more) = m + 1 /\ more[m + 1] = r.number
        /\ \A k \in 1 .. m : more[k] = sent[k]
    BY <2>1, LenProperties
  <2> HIDE DEF more, m
  <2>3. n + 1 \notin Sends(q)
    BY <1>1, <1>2
  <2>4. Cardinality(Sends(q)) = m /\ \A k \in Sends(q) : q[k].number = sent[Nth(q, k)]
    BY DEF Matches, m
  <2>5. Cardinality(Sends(p)) = m + 1
    BY <1>2, <1>3, <1>6, <2>3, <2>4, FS_AddElement
  <2>6. Nth(p, n + 1) = m + 1
    <3>1. {j \in Sends(p) : j <= n + 1} = Sends(p)
      BY <1>1, <1>2, <1>3
    <3> QED
      BY <2>5, <3>1 DEF Nth
  <2>7. \A k \in Sends(q) : Nth(q, k) \in 1 .. m
    <3>1. \A k \in Sends(q) :
            Nth(q, k) \in Nat /\ Nth(q, k) <= Cardinality(Sends(q)) /\ Nth(q, k) # 0
      BY SendsFacts
    <3> QED
      BY <2>2, <2>4, <3>1
  <2>8. \A k \in Sends(p) : p[k].number = more[Nth(p, k)]
    <3> SUFFICES ASSUME NEW k \in Sends(p) PROVE p[k].number = more[Nth(p, k)]
      OBVIOUS
    <3>1. CASE k = n + 1
      BY <1>1, <2>2, <2>6, <3>1
    <3>2. CASE k \in Sends(q)
      BY <1>4, <2>2, <2>4, <2>7, <3>2
    <3> QED
      BY <1>3, <1>6, <3>1, <3>2
  <2> QED
    BY <1>6, <2>2, <2>5, <2>8 DEF Matches, more, p
<1> QED
  BY <1>5, <1>6

\* The first request is taken.
LEMMA TakenMatches ==
  ASSUME NEW q \in Seq(Asked), q # <<>>, NEW sent \in Seq(Nat), Matches(q, sent)
  PROVE  /\ Head(q).kind # "send" => Matches(Tail(q), sent)
         /\ Head(q).kind = "send" =>
              sent # <<>> /\ Head(q).number = Head(sent) /\ Matches(Tail(q), Tail(sent))
<1> DEFINE p == Tail(q)
           n == Len(q)
<1>1. /\ p \in Seq(Asked) /\ n \in Nat \ {0} /\ DOMAIN q = 1 .. n /\ DOMAIN p = 1 .. n - 1
      /\ Head(q) = q[1] /\ \A k \in 1 .. n - 1 : p[k] = q[k + 1]
  BY EmptySeq, HeadTailProperties, LenProperties
<1> HIDE DEF p, n
<1>2. Sends(q) \subseteq 1 .. n /\ IsFiniteSet(Sends(q)) /\ Sends(p) \subseteq 1 .. n - 1
  BY <1>1, SendsFacts DEF n, Sends
<1>3. \A k \in 1 .. n - 1 : k \in Sends(p) <=> k + 1 \in Sends(q)
  BY <1>1 DEF Sends
<1>4. 1 \in Sends(q) <=> Head(q).kind = "send"
  BY <1>1 DEF Sends
<1> DEFINE S == Sends(q) \ {1}
<1>5. IsFiniteSet(S) /\ Cardinality(S) = Cardinality(Sends(q)) - (IF 1 \in Sends(q) THEN 1 ELSE 0)
  <2>1. Cardinality(Sends(q)) \in Nat
    BY SendsFacts
  <2> QED
    BY <1>2, <2>1, FS_RemoveElement
<1>6. /\ \A k \in S : k - 1 \in Sends(p) /\ (k - 1) + 1 = k
      /\ \A k \in Sends(p) : k + 1 \in S
      /\ S \subseteq Int /\ Sends(p) \subseteq Int
  BY <1>1, <1>2, <1>3
<1>7. Cardinality(Sends(p)) = Cardinality(S)
  <2> HIDE DEF S
  <2> QED
    BY <1>5, <1>6, Shifted
<1>8. \A k \in Sends(p) : Nth(p, k) = Nth(q, k + 1) - (IF 1 \in Sends(q) THEN 1 ELSE 0)
  <2> SUFFICES ASSUME NEW k \in Sends(p)
               PROVE  Nth(p, k) = Nth(q, k + 1) - (IF 1 \in Sends(q) THEN 1 ELSE 0)
    OBVIOUS
  <2> DEFINE P == {j \in Sends(p) : j <= k}
             Q == {j \in Sends(q) : j <= k + 1}
             R == Q \ {1}
  <2>1. IsFiniteSet(Q) /\ Cardinality(Q) \in Nat
    BY SendsFacts DEF Nth
  <2>2. 1 \in Q <=> 1 \in Sends(q)
    BY <1>2
  <2>3. /\ \A j \in R : j - 1 \in P
        /\ \A j \in P : j + 1 \in R
        /\ R \subseteq Int /\ P \subseteq Int
    BY <1>2, <1>6
  <2>4. Nth(p, k) = Cardinality(P) /\ Nth(q, k + 1) = Cardinality(Q)
    BY DEF Nth
  <2> HIDE DEF P, Q
  <2>5. IsFiniteSet(R) /\ Cardinality(R) = Cardinality(Q) - (IF 1 \in Q THEN 1 ELSE 0)
    <3>1. CASE 1 \in Q
      BY <2>1, <3>1, FS_RemoveElement
    <3>2. CASE 1 \notin Q
      <4>1. R = Q
        BY <3>2
      <4> HIDE DEF R
      <4>2. Cardinality(R) = Cardinality(Q) - 0
        BY <2>1, <4>1
      <4> QED
        BY <2>1, <3>2, <4>1, <4>2
    <3> QED
      BY <3>1, <3>2
  <2> HIDE DEF R
  <2>6. Cardinality(P) = Cardinality(R)
    BY <2>3, <2>5, Shifted
  <2> QED
    BY <2>2, <2>4, <2>5, <2>6
<1>9. Cardinality(Sends(q)) = Len(sent) /\ \A k \in Sends(q) : q[k].number = sent[Nth(q, k)]
  BY DEF Matches
<1>10. \A k \in Sends(p) : k + 1 \in Sends(q) /\ p[k].number = sent[Nth(q, k + 1)]
  BY <1>1, <1>2, <1>6, <1>9
<1>11. \A k \in Sends(q) : Nth(q, k) \in 1 .. Len(sent) /\ Nth(q, k) \in Nat
  <2>1. \A k \in Sends(q) :
          Nth(q, k) \in Nat /\ Nth(q, k) <= Cardinality(Sends(q)) /\ Nth(q, k) # 0
    BY SendsFacts
  <2>2. Len(sent) \in Nat
    BY LenProperties
  <2> QED
    BY <1>9, <2>1, <2>2
<1>12. CASE Head(q).kind # "send"
  <2>1. Cardinality(Sends(p)) = Len(sent)
    BY <1>4, <1>5, <1>7, <1>9, <1>12, LenProperties
  <2>2. \A k \in Sends(p) : p[k].number = sent[Nth(p, k)]
    BY <1>4, <1>8, <1>10, <1>11, <1>12
  <2> QED
    BY <1>12, <2>1, <2>2 DEF Matches, p
<1>13. CASE Head(q).kind = "send"
  <2>1. Len(sent) \in Nat /\ Len(sent) # 0
    BY <1>4, <1>11, <1>13, LenProperties
  <2>2. sent # <<>>
    BY <2>1, EmptySeq
  <2> DEFINE rest == Tail(sent)
             m == Len(sent)
  <2>3. /\ Len(rest) = m - 1 /\ \A k \in 1 .. m - 1 : rest[k] = sent[k + 1]
        /\ Head(sent) = sent[1]
    BY <2>1, <2>2, HeadTailProperties
  <2> HIDE DEF rest
  <2>4. Cardinality(Sends(p)) = Len(rest)
    BY <1>4, <1>5, <1>7, <1>9, <1>13, <2>1, <2>3
  <2>5. \A k \in Sends(p) : p[k].number = rest[Nth(p, k)]
    <3> SUFFICES ASSUME NEW k \in Sends(p) PROVE p[k].number = rest[Nth(p, k)]
      OBVIOUS
    <3>1. Nth(p, k) = Nth(q, k + 1) - 1 /\ Nth(p, k) # 0 /\ Nth(p, k) \in Nat
      BY <1>1, <1>4, <1>8, <1>13, SendsFacts
    <3>2. Nth(p, k) \in 1 .. m - 1 /\ Nth(p, k) + 1 = Nth(q, k + 1)
      BY <1>10, <1>11, <2>1, <3>1
    <3> QED
      BY <1>10, <2>3, <3>2
  <2>6. Head(q).number = Head(sent)
    <3>1. {j \in Sends(q) : j <= 1} = {1}
      BY <1>2, <1>4, <1>13
    <3>2. Nth(q, 1) = 1
      BY <3>1, FS_Singleton DEF Nth
    <3> QED
      BY <1>1, <1>4, <1>9, <1>13, <2>3, <3>2
  <2> QED
    BY <1>13, <2>2, <2>4, <2>5, <2>6 DEF Matches, p, rest
<1> QED
  BY <1>12, <1>13

\* Requests are numbered when they are sent.
LEMMA Numbered ==
  ASSUME NEW n \in Nat, NEW kind \in {"open", "close", "send"}
  PROVE  /\ Request(kind, n) \in Asked
         /\ Request(kind, n).kind = kind /\ Request(kind, n).number = n
BY DEF Request, Asked

\* What a drained queue of data holds.
LEMMA DrainedFacts ==
  ASSUME QueuesOK, NEW x \in Holders
  PROVE  /\ Drained(x) \in [Clients -> Seq(Nat)]
         /\ \A c \in Clients : Drained(x)[c] = data[c] \/ Drained(x)[c] = <<>>
         /\ \A c \in Clients : c # x /\ x # NOBODY => Drained(x)[c] = data[c]
         /\ x \in Clients => Drained(x)[x] = <<>>
<1>1. data \in [Clients -> Seq(Nat)] /\ <<>> \in Seq(Nat)
  BY DEF QueuesOK
<1>2. CASE x = NOBODY
  BY <1>1, <1>2, Numbers DEF Drained, NoneOf
<1>3. CASE x # NOBODY
  BY <1>1, <1>3 DEF Drained, Holders
<1> QED
  BY <1>2, <1>3

\* Lines and results of the modem leave the requests alone, and drain at most the
\* queues of data.
LEMMA LineDrains ==
  ASSUME TableOK(slot),
         \/ \E s \in Socks : Reported(s)
         \/ RxPdpDeact \/ RxTcpOk \/ RxTcpError
  PROVE  /\ UNCHANGED <<asked, sending, calls>>
         /\ data' = data \/ \E x \in Holders : data' = Drained(x)
<1>1. ASSUME NEW x \in Holders, NEW alone, TCPClosed(x, alone)
      PROVE  data' = data \/ \E y \in Holders : data' = Drained(y)
  BY <1>1 DEF TCPClosed
<1>2. ASSUME NEW s \in Socks, Reported(s)
      PROVE  /\ UNCHANGED <<asked, sending, calls>>
             /\ data' = data \/ \E x \in Holders : data' = Drained(x)
  <2>1. UNCHANGED <<asked, sending, calls>>
    BY <1>2 DEF Reported, RxOpened, RxOpenFailed, RxClosed, Report
  <2>2. CASE RxOpened(s) \/ (RxOpenFailed(s) /\ s # 0)
    BY <2>1, <2>2 DEF RxOpened, RxOpenFailed
  <2>3. CASE RxClosed(s) \/ (RxOpenFailed(s) /\ s = 0)
    <3>1. TCPClosed(PidOf(s), FALSE)
      BY <2>3 DEF RxClosed, LineClosed, RxOpenFailed
    <3> QED
      BY <1>1, <2>1, <3>1, PidOfFacts
  <2> QED
    BY <1>2, <2>2, <2>3 DEF Reported
<1>3. CASE RxPdpDeact
  <2>1. TCPClosed(NOBODY, FALSE) /\ NOBODY \in Holders
    BY <1>3 DEF RxPdpDeact, LineClosed, Holders
  <2> QED
    BY <1>1, <1>3, <2>1 DEF RxPdpDeact, Report
<1>4. ASSUME NEW tag, NEW alone, Result(tag, alone)
      PROVE  /\ UNCHANGED <<asked, sending, calls>>
             /\ data' = data \/ \E x \in Holders : data' = Drained(x)
  <2>1. UNCHANGED <<asked, sending, calls>>
    BY <1>4 DEF Result, Final
  <2>2. TCPClosed(PidOf(Text(tag)), alone) \/ data' = data
    BY <1>4 DEF Result
  <2> QED
    BY <1>1, <2>1, <2>2, PidOfFacts
<1>5. CASE RxTcpOk \/ RxTcpError
  BY <1>4, <1>5 DEF RxTcpOk, RxTcpError
<1> QED
  BY <1>2, <1>3, <1>5

\* What a request that is taken leaves of the queues.
LEMMA TakenQueues ==
  ASSUME QueuesOK, NEW c \in Clients, Requested(c)
  PROVE  /\ asked[c] # <<>> /\ asked' = [asked EXCEPT ![c] = Tail(@)]
         /\ UNCHANGED <<sending, calls>>
         /\ (Head(asked[c]).kind = "send") <=> OnTCPSend(c)
         /\ OnTCPSend(c) => data' = data \/ (data[c] # <<>> /\ data' = [data EXCEPT ![c] = Tail(@)])
         /\ OnTCPSend(c) /\ data[c] # <<>> => data' = [data EXCEPT ![c] = Tail(@)]
         /\ ~OnTCPSend(c) => data' = Drained(c)
<1>1. PICK kind \in {"open", "close", "send"} :
        /\ Take(c, kind)
        /\ kind = "send" => OnTCPSend(c)
        /\ kind # "send" => data' = Drained(c)
  BY DEF Requested, OnTCPOpen, OnTCPOpenFails, OnTCPClose, OnTCPSend
<1>2. /\ asked[c] # <<>> /\ asked' = [asked EXCEPT ![c] = Tail(@)]
      /\ UNCHANGED <<sending, calls>> /\ Head(asked[c]).kind = kind
  BY <1>1 DEF Take
<1>3. OnTCPSend(c) => Head(asked[c]).kind = "send"
  BY DEF OnTCPSend, Take
<1>4. OnTCPSend(c) => data' = data \/ (data[c] # <<>> /\ data' = [data EXCEPT ![c] = Tail(@)])
  BY DEF OnTCPSend
<1>5. OnTCPSend(c) /\ data[c] # <<>> => data' = [data EXCEPT ![c] = Tail(@)]
  BY DEF OnTCPSend
<1> QED
  BY <1>1, <1>2, <1>3, <1>4, <1>5

\* Every step keeps the types of the queues.
LEMMA QueuesStep ==
  ASSUME TableOK(slot), QueuesOK, [TcpNext]_allVars
  PROVE  QueuesOK'
<1>1. /\ calls \in Nat /\ asked \in [Clients -> Seq(Asked)]
      /\ data \in [Clients -> Seq(Nat)] /\ sending \in [Clients -> Nat]
  BY DEF QueuesOK
<1>2. NoneOf \in [Clients -> Seq(Asked)] /\ NoneOf \in [Clients -> Seq(Nat)]
  BY DEF NoneOf
<1>3. ASSUME NEW c \in Clients, Library(c) PROVE QueuesOK'
  <2>1. CASE TCPOpen(c) \/ TCPOpenAgain(c) \/ TCPClose(c) \/ TCPSend(c)
    <3>1. PICK kind \in {"open", "close", "send"} : Ask(c, kind)
      BY <2>1 DEF TCPOpen, TCPOpenAgain, TCPClose, TCPSend
    <3> DEFINE r == Request(kind, IF kind = "send" THEN calls' ELSE 0)
    <3>2. calls' \in Nat /\ asked' = [asked EXCEPT ![c] = Append(@, r)]
      BY <1>1, <3>1 DEF Ask
    <3>3. r \in Asked
      BY <3>2, Numbered
    <3> HIDE DEF r
    <3>4. asked' \in [Clients -> Seq(Asked)]
      BY <1>1, <3>2, <3>3
    <3>5. data' = data /\ sending' \in [Clients -> Nat]
      BY <1>1, <2>1, <3>2 DEF TCPOpen, TCPOpenAgain, TCPClose, TCPSend
    <3> QED
      BY <1>1, <3>2, <3>4, <3>5 DEF QueuesOK
  <2>2. CASE TCPSendData(c)
    <3>1. sending' \in [Clients -> Nat] /\ UNCHANGED <<asked, calls>>
      BY <1>1, <2>2 DEF TCPSendData
    <3>2. data' \in [Clients -> Seq(Nat)]
      BY <1>1, <2>2 DEF TCPSendData
    <3> QED
      BY <1>1, <3>1, <3>2 DEF QueuesOK
  <2>3. CASE Die(c) \/ TCPSendDataFails(c)
    <3>1. UNCHANGED <<asked, data, calls>> /\ sending' = [sending EXCEPT ![c] = 0]
      BY <2>3 DEF Die, TCPSendDataFails
    <3> QED
      BY <1>1, <3>1 DEF QueuesOK
  <2> QED
    BY <1>3, <2>1, <2>2, <2>3 DEF Library
<1>4. ASSUME NEW c \in Clients, Requested(c) PROVE QueuesOK'
  <2>1. /\ asked[c] # <<>> /\ asked' = [asked EXCEPT ![c] = Tail(@)]
        /\ UNCHANGED <<sending, calls>>
        /\ \/ data' = data
           \/ data[c] # <<>> /\ data' = [data EXCEPT ![c] = Tail(@)]
           \/ data' = Drained(c)
    BY <1>4, TakenQueues
  <2>2. Tail(asked[c]) \in Seq(Asked) /\ (data[c] # <<>> => Tail(data[c]) \in Seq(Nat))
    BY <1>1, <2>1
  <2>3. Drained(c) \in [Clients -> Seq(Nat)]
    BY DrainedFacts DEF Holders
  <2>4. asked' \in [Clients -> Seq(Asked)]
    BY <1>1, <2>1, <2>2
  <2>5. data' \in [Clients -> Seq(Nat)]
    BY <1>1, <2>1, <2>2, <2>3
  <2> QED
    BY <1>1, <2>1, <2>4, <2>5 DEF QueuesOK
<1>5. ASSUME \/ \E s \in Socks : Reported(s)
             \/ RxPdpDeact \/ RxTcpOk \/ RxTcpError
      PROVE  QueuesOK'
  <2>1. data' \in [Clients -> Seq(Nat)]
    BY <1>1, <1>5, LineDrains, DrainedFacts
  <2> QED
    BY <1>1, <1>5, <2>1, LineDrains DEF QueuesOK
<1>6. CASE UNCHANGED <<asked, data, sending, calls>>
  BY <1>1, <1>6 DEF QueuesOK
<1>7. CASE TcpKilled
  BY <1>1, <1>2, <1>7 DEF TcpKilled, QueuesOK
<1>8. CASE \/ RxTcpPrompt \/ RxSendDone \/ RxTcpCmeError \/ RxEcho \/ TcpModemLoses
            \/ TcpReset \/ TcpStart \/ DispatchStep
  BY <1>6, <1>8 DEF RxTcpPrompt, RxSendDone, RxTcpCmeError, Final, RxEcho, TcpModemLoses,
                    TcpReset, TcpStart, DispatchStep, tcpVars, clientVars
<1> QED
  BY <1>3, <1>4, <1>5, <1>6, <1>7, <1>8, TcpCases DEF Ended, allVars, tcpVars, clientVars

\* The queues have their types in every reachable state.
LEMMA QueuesInvariance == TcpSpec => []QueuesOK
<1>1. TcpInit => QueuesOK
  BY DEF TcpInit, QueuesOK, NoneOf
<1>2. TableOK(slot) /\ QueuesOK /\ [TcpNext]_allVars => QueuesOK'
  BY QueuesStep
<1> QED
  BY <1>1, <1>2, TableInvariance, PTL DEF TcpSpec

\* Data, with those that are on their way.
LEMMA SentFacts ==
  ASSUME NEW d \in Seq(Nat), NEW n \in Nat
  PROVE  LET rest == IF n = 0 THEN <<>> ELSE <<n>>
         IN  /\ d \o rest \in Seq(Nat) /\ d \o <<>> = d
             /\ d \o <<n>> = Append(d, n)
             /\ d # <<>> => Tail(d \o rest) = Tail(d) \o rest
<1> DEFINE rest == IF n = 0 THEN <<>> ELSE <<n>>
<1>1. rest \in Seq(Nat) /\ <<n>> \in Seq(Nat) /\ <<>> \in Seq(Nat)
  OBVIOUS
<1>2. d \o <<>> = d /\ d \o <<n>> = Append(d, n)
  OBVIOUS
<1> HIDE DEF rest
<1>3. d \o rest \in Seq(Nat) /\ (d # <<>> => Tail(d \o rest) = Tail(d) \o rest)
  BY <1>1
<1> QED
  BY <1>2, <1>3 DEF rest

\* The queues of a client that a step leaves alone stay in step.
LEMMA AloneInStep ==
  ASSUME NEW c \in Clients, InStep(c),
         asked'[c] = asked[c], data'[c] = data[c], sending'[c] = sending[c]
  PROVE  InStep(c)'
BY DEF InStep, Sends

\* A request to send is never taken while the requests stay as they are.
LEMMA NotTaken ==
  ASSUME QueuesOK, NEW c \in Clients, asked'[c] = asked[c]
  PROVE  ~OnTCPSend(c)
<1> SUFFICES ASSUME OnTCPSend(c) PROVE FALSE
  OBVIOUS
<1>1. asked[c] # <<>> /\ asked' = [asked EXCEPT ![c] = Tail(@)]
  BY DEF OnTCPSend, Take
<1> DEFINE q == asked[c]
<1>2. q \in Seq(Asked) /\ q # <<>> /\ q = Tail(q)
  BY <1>1 DEF QueuesOK
<1> HIDE DEF q
<1>3. Len(Tail(q)) = Len(q) - 1 /\ Len(q) \in Nat
  BY <1>2, HeadTailProperties, LenProperties
<1>4. Len(Tail(q)) = Len(q)
  BY <1>2
<1> QED
  BY <1>3, <1>4

\* The library's part of InStepKept.
LEMMA LibraryInStep ==
  ASSUME QueuesOK, NEW c \in Clients, NEW d \in Clients, Library(d), InStep(c)
  PROVE  InStep(c)' \/ Die(c) \/ TCPSendDataFails(c)
<1>1. /\ calls \in Nat /\ asked \in [Clients -> Seq(Asked)]
      /\ data \in [Clients -> Seq(Nat)] /\ sending \in [Clients -> Nat]
  BY DEF QueuesOK
<1>2. CASE d # c
  <2>1. asked'[c] = asked[c] /\ data'[c] = data[c] /\ sending'[c] = sending[c]
    BY <1>1, <1>2 DEF Library, TCPOpen, TCPOpenAgain, TCPClose, TCPSend, TCPSendData, TCPSendDataFails, Die, Ask
  <2> QED
    BY <2>1, AloneInStep
<1>3. CASE d = c /\ (TCPOpen(c) \/ TCPOpenAgain(c) \/ TCPClose(c) \/ TCPSend(c))
  <2>1. PICK kind \in {"open", "close", "send"} :
          /\ Ask(c, kind) /\ Alive(c) /\ data' = data
          /\ sending' = IF kind = "send" THEN [sending EXCEPT ![c] = calls'] ELSE sending
    BY <1>3 DEF TCPOpen, TCPOpenAgain, TCPClose, TCPSend
  <2> DEFINE n == IF kind = "send" THEN calls' ELSE 0
             r == Request(kind, n)
  <2>2. /\ calls' \in Nat \ {0} /\ n \in Nat
        /\ asked' = [asked EXCEPT ![c] = Append(@, r)]
    BY <1>1, <2>1 DEF Ask
  <2>3. r \in Asked /\ r.kind = kind /\ r.number = n
    BY <2>2, Numbered
  <2> HIDE DEF r
  <2>4. asked'[c] = Append(asked[c], r) /\ data'[c] = data[c]
    BY <1>1, <2>1, <2>2
  <2>5. sending[c] = 0 /\ sending'[c] = n
    BY <1>1, <2>1, <2>2 DEF Alive
  <2> DEFINE q == asked[c]
             d1 == data[c]
  <2>6. q \in Seq(Asked) /\ d1 \in Seq(Nat)
    BY <1>1
  <2>7. Matches(q, d1)
    BY <2>5, <2>6, InStepMatches, SentFacts DEF Sent
  <2>8. Matches(Append(q, r), IF kind = "send" THEN Append(d1, n) ELSE d1)
    <3> HIDE DEF q, d1, n
    <3> QED
      BY <2>3, <2>6, <2>7, AskedMatches
  <2>9. Sent(c)' = IF kind = "send" THEN Append(d1, n) ELSE d1
    <3>1. Sent(c)' = d1 \o (IF n = 0 THEN <<>> ELSE <<n>>)
      BY <2>4, <2>5 DEF Sent
    <3>2. d1 \o <<>> = d1 /\ d1 \o <<n>> = Append(d1, n)
      BY <2>2, <2>6, SentFacts
    <3>3. n = 0 <=> kind # "send"
      BY <2>2
    <3> QED
      BY <3>1, <3>2, <3>3
  <2>10. Matches(asked'[c], Sent(c)')
    BY <2>4, <2>8, <2>9
  <2> QED
    BY <2>10 DEF InStep, Matches, Nth, Sent, Sends
<1>4. CASE d = c /\ TCPSendData(c)
  <2>1. asked'[c] = asked[c] /\ sending'[c] = 0 /\ data'[c] = Append(data[c], sending[c])
    BY <1>1, <1>4 DEF TCPSendData
  <2>2. sending[c] # 0 /\ data[c] \in Seq(Nat) /\ sending[c] \in Nat
    BY <1>1, <1>4 DEF TCPSendData
  <2>3. Append(data[c], sending[c]) \in Seq(Nat)
    BY <2>2
  <2>4. Sent(c)' = Sent(c)
    BY <2>1, <2>2, <2>3, SentFacts DEF Sent
  <2>5. Matches(asked'[c], Sent(c)')
    BY <2>1, <2>4, InStepMatches
  <2> QED
    BY <2>5 DEF InStep, Matches, Nth, Sent, Sends
<1>5. CASE d = c /\ (Die(c) \/ TCPSendDataFails(c))
  BY <1>5
<1> QED
  BY <1>2, <1>3, <1>4, <1>5 DEF Library

\* The agent's part, as far as it takes requests.
LEMMA RequestInStep ==
  ASSUME QueuesOK, NEW c \in Clients, NEW d \in Clients, Requested(d), InStep(c)
  PROVE  \/ InStep(c)'
         \/ data[c] = <<>> /\ OnTCPSend(c)
         \/ data[c] # <<>> /\ data'[c] = <<>> /\ ~OnTCPSend(c)
<1>1. /\ calls \in Nat /\ asked \in [Clients -> Seq(Asked)]
      /\ data \in [Clients -> Seq(Nat)] /\ sending \in [Clients -> Nat]
  BY DEF QueuesOK
<1>2. CASE d # c
  <2>1. asked'[c] = asked[c] /\ sending'[c] = sending[c]
    BY <1>1, <1>2, TakenQueues
  <2>2. d # NOBODY
    BY Numbers
  <2>3. data' = data \/ data' = [data EXCEPT ![d] = Tail(@)] \/ data' = Drained(d)
    BY TakenQueues
  <2>4. data'[c] = data[c]
    BY <1>1, <1>2, <2>2, <2>3, DrainedFacts DEF Holders
  <2> QED
    BY <2>1, <2>4, AloneInStep
<1>3. CASE d = c
  <2> DEFINE q == asked[c]
             d1 == data[c]
             n == sending[c]
  <2>1. q # <<>> /\ asked'[c] = Tail(q) /\ sending'[c] = n
    BY <1>1, <1>3, TakenQueues
  <2>2. q \in Seq(Asked) /\ d1 \in Seq(Nat) /\ n \in Nat
    BY <1>1
  <2>3. Matches(q, Sent(c)) /\ Sent(c) \in Seq(Nat)
    BY <2>2, InStepMatches, SentFacts DEF Sent
  <2>4. /\ Head(q).kind # "send" => Matches(Tail(q), Sent(c))
        /\ Head(q).kind = "send" => Matches(Tail(q), Tail(Sent(c)))
    <3> HIDE DEF q
    <3> QED
      BY <2>1, <2>2, <2>3, TakenMatches
  <2>5. ASSUME Matches(Tail(q), Sent(c)') PROVE InStep(c)'
    <3>1. Matches(asked'[c], Sent(c)')
      BY <2>1, <2>5
    <3> QED
      BY <3>1 DEF InStep, Matches, Nth, Sent, Sends
  <2>6. CASE OnTCPSend(c) /\ d1 # <<>>
    <3>1. data'[c] = Tail(d1) /\ Head(q).kind = "send"
      BY <1>1, <1>3, <2>6, TakenQueues
    <3>2. Sent(c)' = Tail(Sent(c))
      <4> DEFINE rest == IF n = 0 THEN <<>> ELSE <<n>>
      <4>1. Sent(c) = d1 \o rest /\ Sent(c)' = Tail(d1) \o rest
        BY <2>1, <3>1 DEF Sent
      <4>2. Tail(d1 \o rest) = Tail(d1) \o rest
        BY <2>2, <2>6, SentFacts
      <4> QED
        BY <4>1, <4>2
    <3> QED
      BY <2>4, <2>5, <3>1, <3>2
  <2>7. CASE ~OnTCPSend(c)
    <3>1. data'[c] = <<>> /\ Head(q).kind # "send"
      BY <1>1, <1>3, <2>7, TakenQueues, DrainedFacts DEF Holders
    <3>2. CASE d1 = <<>>
      <4>1. Sent(c)' = Sent(c)
        BY <2>1, <3>1, <3>2 DEF Sent
      <4> QED
        BY <2>4, <2>5, <3>1, <4>1
    <3> QED
      BY <2>7, <3>1, <3>2
  <2> QED
    BY <2>6, <2>7
<1> QED
  BY <1>2, <1>3

\* What no other step does to the queues of a client.
LEMMA InStepStep ==
  ASSUME TableOK(slot), QueuesOK, NEW c \in Clients, [TcpNext]_allVars, InStep(c)
  PROVE  \/ InStep(c)' \/ ~run' \/ Die(c) \/ TCPSendDataFails(c)
         \/ data[c] = <<>> /\ OnTCPSend(c)
         \/ data[c] # <<>> /\ data'[c] = <<>> /\ ~OnTCPSend(c)
<1>1. CASE UNCHANGED <<asked, data, sending>>
  BY <1>1, AloneInStep
<1>2. CASE \E d \in Clients : Library(d)
  BY <1>2, LibraryInStep
<1>3. CASE \E d \in Clients : Requested(d)
  BY <1>3, RequestInStep
<1>4. CASE (\E s \in Socks : Reported(s)) \/ RxPdpDeact \/ RxTcpOk \/ RxTcpError
  <2>1. /\ asked' = asked /\ sending' = sending
        /\ data' = data \/ \E x \in Holders : data' = Drained(x)
    BY <1>4, LineDrains
  <2>2. data'[c] = data[c] \/ data'[c] = <<>>
    BY <2>1, DrainedFacts
  <2>3. ~OnTCPSend(c)
    BY <2>1, NotTaken
  <2> QED
    BY <2>1, <2>2, <2>3, AloneInStep
<1>5. CASE TcpKilled
  BY <1>5 DEF TcpKilled, Killed, Dead
<1>6. CASE \/ RxTcpPrompt \/ RxSendDone \/ RxTcpCmeError \/ RxEcho \/ TcpModemLoses
            \/ TcpReset \/ TcpStart \/ DispatchStep
  BY <1>1, <1>6 DEF RxTcpPrompt, RxSendDone, RxTcpCmeError, Final, RxEcho, TcpModemLoses,
                    TcpReset, TcpStart, DispatchStep, tcpVars, clientVars
<1> QED
  BY <1>1, <1>2, <1>3, <1>4, <1>5, <1>6, TcpCases DEF Ended, allVars, tcpVars, clientVars

\* The data of a client stay those of its requests (see InStepKept), for any number of
\* them: if they come apart, the queue of data was full or gone when they were to follow
\* their request, the agent found no data yet, or emptied the queue with requests
\* behind, or was started anew, or the client died between the two.
THEOREM RequestsStayInStep == TcpSpec => InStepKept
<1>1. TableOK(slot) /\ QueuesOK /\ [TcpNext]_allVars =>
        [\A c \in Clients :
           InStep(c) => \/ InStep(c)' \/ ~run' \/ Die(c) \/ TCPSendDataFails(c)
                        \/ data[c] = <<>> /\ OnTCPSend(c)
                        \/ data[c] # <<>> /\ data'[c] = <<>> /\ ~OnTCPSend(c)]_allVars
  BY InStepStep
<1> QED
  BY <1>1, TableInvariance, QueuesInvariance, PTL DEF TcpSpec, InStepKept

-----------------------------------------------------------------------------
(* Data and the command they belong to.                                    *)

\* Paired, of any pool.
HasPair(pool, k) ==
  k > 1 /\ pool[k - 1].tag = "AT_QISEND" /\ pool[k - 1].val = pool[k].val
InPairs(pool) == \A k \in DOMAIN pool : pool[k].tag = "AT_QISEND_DATA" => HasPair(pool, k)

\* That is what the property says of the pool.
LEMMA PairedInPairs == Paired <=> InPairs(at.pool)
  BY DEF Paired, InPairs, HasPair

\* A pool without data is in pairs.
LEMMA NoData ==
  ASSUME NEW pool, \A k \in DOMAIN pool : pool[k].tag # "AT_QISEND_DATA"
  PROVE  InPairs(pool)
BY DEF InPairs

\* Two pools in pairs, one behind the other.
LEMMA PairsConcat ==
  ASSUME NEW p \in Seq(Command), NEW q \in Seq(Command), InPairs(p), InPairs(q)
  PROVE  InPairs(p \o q)
<1> DEFINE r == p \o q
           m == Len(p)
           n == Len(q)
<1>1. /\ m \in Nat /\ n \in Nat /\ DOMAIN p = 1 .. m /\ DOMAIN q = 1 .. n
      /\ DOMAIN r = 1 .. m + n
      /\ \A k \in 1 .. m : r[k] = p[k]
      /\ \A k \in m + 1 .. m + n : r[k] = q[k - m]
  BY LenProperties, ConcatProperties
<1> HIDE DEF r, m, n
<1>2. ASSUME NEW k \in 1 .. m + n, r[k].tag = "AT_QISEND_DATA" PROVE HasPair(r, k)
  <2>1. CASE k \in 1 .. m
    <3>1. k > 1 /\ p[k - 1].tag = "AT_QISEND" /\ p[k - 1].val = p[k].val
      BY <1>1, <1>2, <2>1 DEF InPairs, HasPair
    <3>2. k - 1 \in 1 .. m
      BY <1>1, <2>1, <3>1
    <3> QED
      BY <1>1, <2>1, <3>1, <3>2 DEF HasPair
  <2>2. CASE k \in m + 1 .. m + n
    <3>1. k - m \in 1 .. n /\ r[k] = q[k - m]
      BY <1>1, <2>2
    <3>2. k - m > 1 /\ q[(k - m) - 1].tag = "AT_QISEND" /\ q[(k - m) - 1].val = q[k - m].val
      BY <1>1, <1>2, <3>1 DEF InPairs, HasPair
    <3>3. k - 1 \in m + 1 .. m + n /\ (k - m) - 1 = (k - 1) - m /\ k > 1
      BY <1>1, <2>2, <3>2
    <3>4. r[k - 1] = q[(k - m) - 1]
      BY <1>1, <3>3
    <3> QED
      BY <3>1, <3>2, <3>3, <3>4 DEF HasPair
  <2> QED
    BY <1>1, <2>1, <2>2
<1> QED
  BY <1>1, <1>2 DEF InPairs, r

\* A command leaves the pool that no data follow, or that is the first of the data,
\* the only ones that may have lost theirs.
LEMMA PairsDel ==
  ASSUME NEW pool \in Seq(Command), NEW tag, tag # "AT_QISEND",
         tag \in PoolTags(pool),
         \A k \in DOMAIN pool : pool[k].tag = "AT_QISEND_DATA" =>
           HasPair(pool, k) \/ (tag = "AT_QISEND_DATA" /\ k = Place(pool, tag))
  PROVE  InPairs(CmdPoolDel(pool, tag))
<1> DEFINE d == CmdPoolDel(pool, tag)
           i == Place(pool, tag)
           n == Len(pool)
<1>1. /\ n \in Nat /\ i \in 1 .. n /\ pool[i].tag = tag
      /\ d \in Seq(Command) /\ Len(d) = n - 1
      /\ \A j \in 1 .. i - 1 : d[j] = pool[j]
      /\ \A j \in i + 1 .. n : d[j - 1] = pool[j]
      /\ \A j \in 1 .. Len(d) : \/ j < i /\ d[j] = pool[j]
                                \/ j >= i /\ j + 1 \in 1 .. n /\ d[j] = pool[j + 1]
  BY DelPlaces, LenProperties
<1>2. DOMAIN pool = 1 .. n /\ DOMAIN d = 1 .. n - 1
  BY <1>1, LenProperties
<1>3. \A k \in 1 .. n : pool[k].tag = "AT_QISEND_DATA" => HasPair(pool, k) \/ k = i
  BY <1>2
<1> HIDE DEF d, i, n
<1>4. ASSUME NEW k \in 1 .. n - 1, d[k].tag = "AT_QISEND_DATA" PROVE HasPair(d, k)
  <2>1. CASE k < i /\ d[k] = pool[k]
    <3>1. k > 1 /\ pool[k - 1].tag = "AT_QISEND" /\ pool[k - 1].val = pool[k].val
      BY <1>1, <1>3, <1>4, <2>1 DEF HasPair
    <3>2. d[k - 1] = pool[k - 1]
      BY <1>1, <2>1, <3>1
    <3> QED
      BY <2>1, <3>1, <3>2 DEF HasPair
  <2>2. CASE k >= i /\ k + 1 \in 1 .. n /\ d[k] = pool[k + 1]
    <3>1. k + 1 # i
      BY <1>1, <2>2
    <3>2. k + 1 > 1 /\ pool[(k + 1) - 1].tag = "AT_QISEND"
          /\ pool[(k + 1) - 1].val = pool[k + 1].val
      BY <1>3, <1>4, <2>2, <3>1 DEF HasPair
    <3>3. (k + 1) - 1 = k
      BY <1>4, <1>1
    <3>4. pool[k].tag = "AT_QISEND" /\ pool[k].val = pool[k + 1].val
      BY <3>2, <3>3
    <3>5. k # i
      BY <1>1, <3>4
    <3>6. k \in i + 1 .. n /\ k > 1
      BY <1>1, <2>2, <3>5
    <3>7. d[k - 1] = pool[k]
      BY <1>1, <3>6
    <3> QED
      BY <2>2, <3>4, <3>6, <3>7 DEF HasPair
  <2> QED
    BY <1>1, <1>4, <2>1, <2>2
<1> QED
  BY <1>2, <1>4 DEF InPairs, d

\* A command other than AT+QISEND leaves the pool.
LEMMA PairsDelOther ==
  ASSUME NEW pool \in Seq(Command), InPairs(pool), NEW tag, tag # "AT_QISEND"
  PROVE  InPairs(CmdPoolDel(pool, tag))
<1>1. CASE tag \in PoolTags(pool)
  BY <1>1, PairsDel DEF InPairs
<1>2. CASE tag \notin PoolTags(pool)
  BY <1>2, CmdPoolDelProperties
<1> QED
  BY <1>1, <1>2

\* The first AT+QISEND leaves the pool, and then the first of the data: they are its own.
LEMMA PairsDelBoth ==
  ASSUME NEW pool \in Seq(Command), InPairs(pool)
  PROVE  InPairs(CmdPoolDel(CmdPoolDel(pool, "AT_QISEND"), "AT_QISEND_DATA"))
<1> DEFINE d == CmdPoolDel(pool, "AT_QISEND")
           i == Place(pool, "AT_QISEND")
           n == Len(pool)
<1>1. n \in Nat /\ DOMAIN pool = 1 .. n /\ d \in Seq(Command)
  BY LenProperties, CmdPoolDelProperties
<1>2. CASE "AT_QISEND" \notin PoolTags(pool)
  <2>1. d = pool
    BY <1>2, CmdPoolDelProperties
  <2> HIDE DEF d
  <2> QED
    BY <2>1, PairsDelOther DEF d
<1>3. CASE "AT_QISEND" \in PoolTags(pool)
  <2>1. /\ i \in 1 .. n /\ pool[i].tag = "AT_QISEND"
        /\ \A j \in 1 .. i - 1 : pool[j].tag # "AT_QISEND"
        /\ Len(d) = n - 1
        /\ \A j \in 1 .. i - 1 : d[j] = pool[j]
        /\ \A j \in i + 1 .. n : d[j - 1] = pool[j]
        /\ \A j \in 1 .. Len(d) : \/ j < i /\ d[j] = pool[j]
                                  \/ j >= i /\ j + 1 \in 1 .. n /\ d[j] = pool[j + 1]
    BY <1>3, DelPlaces
  <2>2. DOMAIN d = 1 .. n - 1
    BY <1>1, <2>1, LenProperties
  <2> HIDE DEF d, i, n
  \* None of the data stand before the first AT+QISEND.
  <2>3. ASSUME NEW k \in 1 .. i, pool[k].tag = "AT_QISEND_DATA" PROVE FALSE
    <3>1. k \in 1 .. n
      BY <1>1, <2>1
    <3>2. k > 1 /\ pool[k - 1].tag = "AT_QISEND"
      BY <1>1, <2>3, <3>1 DEF InPairs, HasPair
    <3>3. k - 1 \in 1 .. i - 1
      BY <2>1, <3>2
    <3> QED
      BY <2>1, <3>2, <3>3
  <2>4. CASE "AT_QISEND_DATA" \notin PoolTags(d)
    <3>1. CmdPoolDel(d, "AT_QISEND_DATA") = d
      BY <1>1, <2>4, CmdPoolDelProperties
    <3>2. \A k \in DOMAIN d : d[k].tag # "AT_QISEND_DATA"
      BY <2>4 DEF PoolTags
    <3> QED
      BY <3>1, <3>2, NoData DEF d
  <2>5. CASE "AT_QISEND_DATA" \in PoolTags(d)
    <3> DEFINE m == Place(d, "AT_QISEND_DATA")
    <3>1. /\ m \in 1 .. Len(d) /\ d[m].tag = "AT_QISEND_DATA"
          /\ \A j \in 1 .. m - 1 : d[j].tag # "AT_QISEND_DATA"
      BY <1>1, <2>5, PlaceProperties
    <3> HIDE DEF m
    <3>2. ASSUME NEW k \in 1 .. n - 1, d[k].tag = "AT_QISEND_DATA", k # m
          PROVE  HasPair(d, k)
      <4>1. ~(k < i /\ d[k] = pool[k])
        BY <1>1, <2>1, <2>3, <3>2
      <4>2. k >= i /\ k + 1 \in 1 .. n /\ d[k] = pool[k + 1]
        BY <2>1, <3>2, <4>1
      <4>3. pool[(k + 1) - 1].tag = "AT_QISEND" /\ pool[(k + 1) - 1].val = pool[k + 1].val
        BY <1>1, <3>2, <4>2 DEF InPairs, HasPair
      <4>4. (k + 1) - 1 = k
        BY <1>1
      <4>5. pool[k].tag = "AT_QISEND" /\ pool[k].val = pool[k + 1].val
        BY <4>3, <4>4
      <4>6. m >= i
        <5>1. ~(m < i /\ d[m] = pool[m])
          BY <1>1, <2>1, <2>3, <3>1
        <5> QED
          BY <2>1, <3>1, <5>1
      <4>7. k > m
        <5>1. ~(k \in 1 .. m - 1)
          BY <3>1, <3>2
        <5> QED
          BY <1>1, <2>1, <3>1, <3>2, <5>1
      <4>8. k \in i + 1 .. n /\ k > 1
        BY <1>1, <2>1, <3>1, <4>6, <4>7
      <4>9. d[k - 1] = pool[k]
        BY <2>1, <4>8
      <4> QED
        BY <4>2, <4>5, <4>8, <4>9 DEF HasPair
    <3> QED
      BY <1>1, <2>2, <2>5, <3>2, PairsDel DEF d, m
  <2> QED
    BY <2>4, <2>5
<1> QED
  BY <1>2, <1>3

\* The commands of the sockets, which nothing else queues.
SocketTags == {"AT_QIOPEN_1", "AT_QICLOSE", "AT_QISEND", "AT_QISEND_DATA"}
NoSocket(cs) == \A k \in DOMAIN cs : cs[k].tag \notin SocketTags

\* What the handlers queue.
LEMMA QueuedFacts ==
  /\ \A s \in Socks : <<Open(s)>> \in Seq(Command)
  /\ \A s \in Socks \cup {None} :
       /\ <<Close(s)>> \in Seq(Command)
       /\ \A full \in BOOLEAN : LengthAndData(s, full) \in Seq(Command)
  /\ \A s : /\ Open(s).tag = "AT_QIOPEN_1" /\ Open(s).val = s
            /\ Close(s).tag = "AT_QICLOSE" /\ Close(s).val = s
  /\ Cmd("ATE0") \in Command /\ Cmd("ATE0").tag \notin SocketTags
  /\ NewContext \in Command /\ NewContext.tag \notin SocketTags
<1>1. /\ \A s \in Socks : <<Open(s)>> \in ClientRuns
      /\ \A s \in Socks \cup {None} : /\ <<Close(s)>> \in ClientRuns
                                      /\ LengthAndData(s, TRUE) \in ClientRuns
                                      /\ LengthAndData(s, FALSE) \in ClientRuns
      /\ {Cmd("ATE0"), NewContext} \subseteq HeadCmds
  BY TcpAssumption
<1>2. ClientRuns \subseteq Seq(Command) /\ HeadCmds \subseteq Command
  BY RunsAssumption
<1> QED
  BY <1>1, <1>2 DEF Open, Close, CmdText, Cmd, NewContext, SocketTags

\* The bring-up and the polls queue no command of a socket.
LEMMA OthersFacts ==
  /\ InitCmds \in Seq(Command) /\ NoSocket(InitCmds)
  /\ \A cs \in Polls \cup {<<>>} : cs \in Seq(Command) /\ NoSocket(cs)
<1>1. /\ InitCmds \in Seq(Command) /\ \A cs \in Polls : cs \in Seq(Command)
      /\ <<>> \in Seq(Command)
  BY InitCmdsAssumption, RunsAssumption
<1>2. ASSUME NEW cs \in Polls \cup {InitCmds} PROVE NoSocket(cs)
  <2>1. \A k \in DOMAIN cs : cs[k] \in Range(cs)
    BY DEF Range
  <2> QED
    BY <1>2, <2>1, TcpSourcesAssumption DEF NoSocket, SocketTags
<1>3. NoSocket(<<>>)
  BY DEF NoSocket
<1> QED
  BY <1>1, <1>2, <1>3

\* TCPClosed queues nothing but AT+QICLOSE, of one slot.
LEMMA ClosedCmdsAre ==
  ASSUME NEW c, NEW alone \in BOOLEAN
  PROVE  LET cs == TCPClosedCmds(c, alone)
         IN  /\ cs \in Seq(Command)
             /\ \A k \in DOMAIN cs :
                  \/ c = NOBODY /\ cs[k] = Close(SockOf(slot, NOBODY))
                  \/ c # NOBODY /\ ~alone /\ cs[k] = Close(SockOf(slot, c))
             /\ c # NOBODY /\ ~alone => cs = <<Close(SockOf(slot, c))>>
<1>1. TCPClosedCmds(c, alone) \in Seq(Command)
  BY ClosedCmdsRuns
<1> QED
  BY <1>1 DEF TCPClosedCmds, Closes

\* A result of the handlers: what they queue comes behind, then the current command
\* leaves the pool.
LEMMA FinalEffect ==
  ASSUME IInv, NEW cs \in Seq(Command), Final(cs)
  PROVE  \E q : /\ Turns(Answered(at), at.pool \o cs, q) /\ Completed(q, at')
                /\ at.port /\ at.line # <<>>
                /\ at.timer # 0 \/ cs = <<>> =>
                     /\ q.cur = at.cur /\ q.line = Tail(at.line) /\ q.slipped = at.slipped
                     /\ at'.pool = CmdPoolDel(at.pool \o cs, at.cur)
<1> DEFINE a == Answered(at)
           q == SendCommands(a, cs)
<1>1. Sound(at) /\ at \in Channel /\ at.line # <<>> /\ at.port
  BY DEF IInv, Sound, Final, RxFinal, Reading
<1>2. Sound(a) /\ a \in Channel /\ a.pool = at.pool /\ a.cur = at.cur /\ a.timer = at.timer
      /\ a.line = Tail(at.line) /\ a.slipped = at.slipped
  BY <1>1, AnsweredSound, AnsweredEffect
<1>3. Sound(q)
  BY <1>2, SendCommandsSound
<1>4. at' = Complete(q)
  BY DEF Final
<1> HIDE DEF a
<1>5. Turns(a, at.pool \o cs, q)
  BY <1>2, SendCommandsEffect
<1>6. ASSUME a.timer # 0 \/ cs = <<>>
      PROVE  /\ q.cur = a.cur /\ q.pool = a.pool \o cs /\ q.line = a.line
             /\ q.slipped = a.slipped
  <2>1. CASE a.timer # 0
    BY <1>2, <2>1, ChannelFields DEF SendCommands, Channel
  <2>2. CASE cs = <<>>
    <3>1. q = a
      BY <1>2, <2>2, SendNothing
    <3>2. q.pool = a.pool \o cs
      BY <1>2, <1>5 DEF Turns
    <3> QED
      BY <3>1, <3>2
  <2> QED
    BY <1>6, <2>1, <2>2
<1> HIDE DEF q
<1>7. Completed(q, at')
  BY <1>3, <1>4, CompleteEffect DEF Sound
<1> QED
  BY <1>1, <1>2, <1>5, <1>6, <1>7 DEF a, Completed

\* While the order has not slipped, the answer is the current command's.
LEMMA AnswerIsCurrent ==
  ASSUME IInv, at.port, ~at.slipped, at.line # <<>>
  PROVE  /\ at.timer # 0 /\ at.cur = Head(at.line).tag
         /\ at.cur \in PoolTags(at.pool)
         /\ Tail(at.line) = <<>> /\ at.line = <<Head(at.line)>>
         /\ at.line \in Seq(Command) /\ Head(at.line) \in Command
<1>1. Sound(at) /\ at \in Channel
  BY DEF IInv, Sound
<1>2. at.line \in Seq(Command) /\ at.timer \in Nat
  BY <1>1, ChannelFields
<1>3. Len(at.line) <= 1 /\ at.timer > 0 /\ at.cur = Head(at.line).tag
  BY <1>1 DEF Sound, AnswerMatches
<1>4. at.cur \in PoolTags(at.pool)
  BY <1>1, <1>3 DEF Sound, TimerCoversCommand
<1> DEFINE l == at.line
<1> HIDE DEF l
<1>5. l \in Seq(Command) /\ l # <<>> /\ Len(l) <= 1
  BY <1>2, <1>3 DEF l
<1>6. Len(l) = 1 /\ Head(l) = l[1] /\ Head(l) \in Command
  <2> DEFINE n == Len(l)
  <2>1. n \in Nat \ {0}
    BY <1>5, EmptySeq
  <2>2. Head(l) \in Command /\ Head(l) = l[1]
    BY <1>5
  <2>3. n <= 1
    BY <1>5
  <2> HIDE DEF n
  <2>4. n = 1
    BY <2>1, <2>3
  <2> QED
    BY <2>2, <2>4 DEF n
<1>7. l = <<Head(l)>> /\ Tail(l) = <<>>
  <2>1. Tail(l) \in Seq(Command) /\ Len(Tail(l)) = 0
    BY <1>5, <1>6
  <2>2. Tail(l) = <<>>
    BY <2>1, EmptySeq
  <2>3. <<Head(l)>> \in Seq(Command) /\ Len(<<Head(l)>>) = 1 /\ <<Head(l)>>[1] = l[1]
    BY <1>6
  <2>4. l = <<Head(l)>>
    <3> DEFINE h == <<Head(l)>>
    <3>1. h \in Seq(Command) /\ Len(h) = Len(l) /\ \A k \in 1 .. Len(l) : l[k] = h[k]
      BY <1>6, <2>3
    <3> HIDE DEF h
    <3>2. l = h
      BY <1>5, <3>1, SeqEqual
    <3> QED
      BY <3>2 DEF h
  <2> QED
    BY <2>2, <2>4
<1> QED
  BY <1>2, <1>3, <1>4, <1>6, <1>7 DEF l

\* A result that the handlers do not pair.
LEMMA FinalPairs ==
  ASSUME IInv, InPairs(at.pool), ~at.slipped, NEW cs \in Seq(Command), InPairs(cs), Final(cs),
         at.cur # "AT_QISEND"
  PROVE  InPairs(at'.pool)
<1>1. at.port /\ at.line # <<>>
  BY FinalEffect
<1>2. at.timer # 0
  BY <1>1, AnswerIsCurrent
<1>3. at'.pool = CmdPoolDel(at.pool \o cs, at.cur)
  BY <1>2, FinalEffect
<1>4. at.pool \in Seq(Command)
  BY ChannelFields DEF IInv, TypeOK
<1>5. at.pool \o cs \in Seq(Command) /\ InPairs(at.pool \o cs)
  BY <1>4, PairsConcat, ConcatProperties
<1> QED
  BY <1>3, <1>5, PairsDelOther

\* What queues at the tail and at the head.
LEMMA TailPairs ==
  ASSUME IInv, InPairs(at.pool), NEW cs \in Seq(Command), InPairs(cs),
         Turns(at, at.pool \o cs, at')
  PROVE  InPairs(at'.pool)
<1>1. at.pool \in Seq(Command)
  BY ChannelFields DEF IInv, TypeOK
<1> QED
  BY <1>1, PairsConcat DEF Turns

\* What the handlers of requests and lines queue, as they do it.
LEMMA QueueTurns ==
  ASSUME IInv, NEW cs \in Seq(Command), Queue(cs)
  PROVE  Turns(at, at.pool \o cs, at') /\ at.pool \o cs \in Seq(Command)
BY SendCommandsEffect DEF Queue, IInv

\* The head of the pool, after commands at the tail (see RxOpenFailed).
LEMMA ContextTurns ==
  ASSUME IInv, NEW cs \in Seq(Command),
         at' = SendCommand(SendCommands(at, cs), NewContext, TRUE)
  PROVE  \E q : /\ q \in Channel /\ Turns(at, at.pool \o cs, q)
                /\ Turns(q, <<NewContext>> \o (at.pool \o cs), at')
                /\ at.pool \o cs \in Seq(Command)
                /\ <<NewContext>> \o (at.pool \o cs) \in Seq(Command)
<1> DEFINE q == SendCommands(at, cs)
<1>1. Sound(at) /\ at \in Channel
  BY DEF IInv, Sound
<1>2. Sound(q) /\ Turns(at, at.pool \o cs, q) /\ at.pool \o cs \in Seq(Command)
  BY <1>1, SendCommandsSound, SendCommandsEffect
<1>3. at' = SendCommand(q, NewContext, TRUE) /\ NewContext \in Command
  BY QueuedFacts
<1> HIDE DEF q
<1>4. Turns(q, CmdPoolPutHead(q.pool, NewContext), at')
  BY <1>2, <1>3, SendCommandEffect
<1>5. CmdPoolPutHead(q.pool, NewContext) = <<NewContext>> \o (at.pool \o cs)
  BY <1>2 DEF CmdPoolPutHead, Cons, Turns
<1>6. <<NewContext>> \o (at.pool \o cs) \in Seq(Command)
  <2>1. <<NewContext>> \in Seq(Command)
    BY <1>3
  <2> QED
    BY <1>2, <2>1, ConcatProperties
<1> QED
  BY <1>2, <1>4, <1>5, <1>6 DEF Sound

\* Commands that are no data are in pairs, and so are a length and its data.
LEMMA QueuedPairs ==
  /\ InPairs(<<>>) /\ InPairs(InitCmds) /\ \A cs \in Polls \cup {<<>>} : InPairs(cs)
  /\ InPairs(<<Cmd("ATE0")>>) /\ InPairs(<<NewContext>>)
  /\ \A s : InPairs(<<Open(s)>>) /\ InPairs(<<Close(s)>>)
  /\ \A s, full : InPairs(LengthAndData(s, full))
<1>1. ASSUME NEW cs, NoSocket(cs) PROVE InPairs(cs)
  BY <1>1, NoData DEF NoSocket, SocketTags
<1>2. InPairs(<<Cmd("ATE0")>>) /\ InPairs(<<NewContext>>)
  BY NoData, QueuedFacts DEF SocketTags
<1>3. ASSUME NEW s PROVE InPairs(<<Open(s)>>) /\ InPairs(<<Close(s)>>)
  <2>1. Open(s).tag # "AT_QISEND_DATA" /\ Close(s).tag # "AT_QISEND_DATA"
    BY QueuedFacts
  <2> QED
    BY <2>1, NoData
<1>4. ASSUME NEW s, NEW full PROVE InPairs(LengthAndData(s, full))
  BY DEF LengthAndData, Length, Data, CmdText, InPairs, HasPair
<1>5. InPairs(<<>>) /\ InPairs(InitCmds) /\ \A cs \in Polls \cup {<<>>} : InPairs(cs)
  BY <1>1, OthersFacts
<1> QED
  BY <1>2, <1>3, <1>4, <1>5

\* So are those of TCPClosed.
LEMMA ClosedPairs ==
  ASSUME NEW c, NEW alone \in BOOLEAN
  PROVE  TCPClosedCmds(c, alone) \in Seq(Command) /\ InPairs(TCPClosedCmds(c, alone))
<1> DEFINE cs == TCPClosedCmds(c, alone)
<1>1. cs \in Seq(Command) /\ \A k \in DOMAIN cs : \E s : cs[k] = Close(s)
  BY ClosedCmdsAre
<1>2. \A k \in DOMAIN cs : cs[k].tag # "AT_QISEND_DATA"
  BY <1>1, QueuedFacts
<1> HIDE DEF cs
<1>3. InPairs(cs)
  BY <1>2, NoData
<1> QED
  BY <1>1, <1>3 DEF cs

\* A request leaves the pool in pairs.
LEMMA RequestPairs ==
  ASSUME IInv, InPairs(at.pool), NEW c \in Clients, Requested(c)
  PROVE  InPairs(at'.pool)
<1>1. \A k : SockOf(slot, k) \in Socks \cup {None}
  BY SockOfFacts
<1>2. ASSUME NEW cs \in Seq(Command), InPairs(cs), Queue(cs) PROVE InPairs(at'.pool)
  BY <1>2, QueueTurns, TailPairs
<1>3. CASE OnTCPOpen(c)
  <2>1. CASE SockOf(slot, NOBODY) # None
    <3>1. Queue(<<Open(SockOf(slot, NOBODY))>>)
      BY <1>3, <2>1 DEF OnTCPOpen
    <3> QED
      BY <1>1, <1>2, <2>1, <3>1, QueuedFacts, QueuedPairs
  <2>2. CASE SockOf(slot, NOBODY) = None
    BY <1>3, <2>2 DEF OnTCPOpen
  <2> QED
    BY <2>1, <2>2
<1>4. CASE OnTCPOpenFails(c)
  BY <1>4 DEF OnTCPOpenFails
<1>5. CASE OnTCPClose(c)
  <2>1. Queue(<<Close(SockOf(slot, c))>>)
    BY <1>5 DEF OnTCPClose
  <2> QED
    BY <1>1, <1>2, <2>1, QueuedFacts, QueuedPairs
<1>6. CASE OnTCPSend(c)
  <2>1. at' = at \/ \E full \in BOOLEAN : Queue(LengthAndData(SockOf(slot, c), full))
    BY <1>6 DEF OnTCPSend
  <2> QED
    BY <1>1, <1>2, <2>1, QueuedFacts, QueuedPairs
<1> QED
  BY <1>3, <1>4, <1>5, <1>6 DEF Requested

\* So does a line of the modem that is no answer.
LEMMA ReportPairs ==
  ASSUME IInv, InPairs(at.pool), (\E s \in Socks : Reported(s)) \/ RxPdpDeact
  PROVE  InPairs(at'.pool)
<1>1. ASSUME NEW c, Queue(TCPClosedCmds(c, FALSE)) PROVE InPairs(at'.pool)
  <2>1. TCPClosedCmds(c, FALSE) \in Seq(Command) /\ InPairs(TCPClosedCmds(c, FALSE))
    BY ClosedPairs
  <2> QED
    BY <1>1, <2>1, QueueTurns, TailPairs
<1>2. CASE RxPdpDeact
  BY <1>1, <1>2 DEF RxPdpDeact, LineClosed
<1>3. ASSUME NEW s \in Socks, Reported(s) PROVE InPairs(at'.pool)
  <2>1. CASE at' = at
    BY <2>1
  <2>2. CASE RxClosed(s)
    BY <1>1, <2>2 DEF RxClosed, LineClosed
  <2>3. CASE RxOpenFailed(s) /\ s = 0
    <3> DEFINE cs == TCPClosedCmds(PidOf(0), FALSE)
    <3>1. cs \in Seq(Command) /\ InPairs(cs)
      BY ClosedPairs
    <3>2. Queue(cs) \/ at' = SendCommand(SendCommands(at, cs), NewContext, TRUE)
      BY <2>3 DEF RxOpenFailed
    <3>3. CASE Queue(cs)
      BY <1>1, <3>3
    <3>4. CASE at' = SendCommand(SendCommands(at, cs), NewContext, TRUE)
      <4> HIDE DEF cs
      <4>1. at'.pool = <<NewContext>> \o (at.pool \o cs) /\ at.pool \o cs \in Seq(Command)
        BY <3>1, <3>4, ContextTurns DEF Turns
      <4>2. at.pool \in Seq(Command) /\ <<NewContext>> \in Seq(Command)
        BY ChannelFields, QueuedFacts DEF IInv, TypeOK
      <4>3. InPairs(at.pool \o cs)
        BY <3>1, <4>2, PairsConcat
      <4> QED
        BY <4>1, <4>2, <4>3, PairsConcat, QueuedPairs
    <3> QED
      BY <3>2, <3>3, <3>4
  <2> QED
    BY <1>3, <2>1, <2>2, <2>3 DEF Reported, RxOpened, RxOpenFailed
<1> QED
  BY <1>2, <1>3

\* An answer takes data and their command out of the pool together, except the ones
\* that PairedKept names.
LEMMA AnswerPairs ==
  ASSUME IInv, InPairs(at.pool), ~at.slipped, Ended
  PROVE  \/ InPairs(at'.pool)
         \/ (RxTcpError \/ RxTcpCmeError \/ RxTcpOk) /\ at.cur = "AT_QISEND"
         \/ RxSendDone /\ at.cur # "AT_QISEND_DATA"
<1>1. at.pool \in Seq(Command) /\ at \in Channel
  BY ChannelFields DEF IInv, TypeOK
<1>2. ASSUME NEW tag, NEW alone \in BOOLEAN, Result(tag, alone), at.cur # "AT_QISEND"
      PROVE  InPairs(at'.pool)
  <2>1. \E cs \in Seq(Command) : InPairs(cs) /\ Final(cs)
    <3>1. <<>> \in Seq(Command) /\ InPairs(<<>>)
      BY QueuedPairs
    <3>2. TCPClosedCmds(PidOf(Text(tag)), alone) \in Seq(Command)
          /\ InPairs(TCPClosedCmds(PidOf(Text(tag)), alone))
      BY ClosedPairs
    <3> QED
      BY <1>2, <3>1, <3>2 DEF Result
  <2> QED
    BY <1>2, <2>1, FinalPairs
<1>3. CASE RxTcpOk \/ RxTcpError
  BY <1>2, <1>3 DEF RxTcpOk, RxTcpError
<1>4. CASE RxTcpCmeError /\ at.cur # "AT_QISEND"
  <2>1. Final(<<>>) /\ <<>> \in Seq(Command) /\ InPairs(<<>>)
    BY <1>4, QueuedPairs DEF RxTcpCmeError
  <2> QED
    BY <1>4, <2>1, FinalPairs
<1>5. CASE RxSendDone /\ at.cur = "AT_QISEND_DATA"
  <2> DEFINE d == CmdPoolDel(at.pool, "AT_QISEND")
             q == [Answered(at) EXCEPT !.pool = d]
  <2>1. at' = Complete(q) /\ at.line # <<>>
    BY <1>1, <1>5, AnsweredEffect DEF RxSendDone, RxFinal
  <2>2. d \in Seq(Command)
    BY <1>1, CmdPoolDelProperties
  <2>3. Answered(at) \in Channel /\ Answered(at).cur = at.cur
    BY <1>1, <2>1, AnsweredEffect
  <2> HIDE DEF d
  <2>4. q \in Channel /\ q.pool = d /\ q.cur = at.cur
    BY <2>2, <2>3 DEF Channel
  <2> HIDE DEF q
  <2>5. at'.pool = CmdPoolDel(d, "AT_QISEND_DATA")
    BY <1>5, <2>1, <2>4, CompleteEffect DEF Completed
  <2> QED
    BY <1>1, <2>5, PairsDelBoth DEF d
<1> QED
  BY <1>3, <1>4, <1>5 DEF Ended

\* Nothing else parts them.
LEMMA PairedStep ==
  ASSUME IInv, InPairs(at.pool), ~at.slipped, [TcpNext]_allVars
  PROVE  \/ InPairs(at'.pool)
         \/ (RxTcpError \/ RxTcpCmeError \/ RxTcpOk) /\ at.cur = "AT_QISEND"
         \/ RxSendDone /\ at.cur # "AT_QISEND_DATA"
<1>1. CASE at' = at
  BY <1>1
<1>2. CASE \E c \in Clients : Library(c)
  BY <1>1, <1>2 DEF Library, TCPOpen, TCPOpenAgain, TCPClose, TCPSend, TCPSendData, TCPSendDataFails, Die, vars
<1>3. CASE \E c \in Clients : Requested(c)
  BY <1>3, RequestPairs
<1>4. CASE (\E s \in Socks : Reported(s)) \/ RxPdpDeact
  BY <1>4, ReportPairs
<1>5. CASE Ended
  BY <1>5, AnswerPairs
<1>6. CASE RxEcho
  <2>1. Turns(at, <<Cmd("ATE0")>> \o at.pool, at')
    BY <1>6, QueuedFacts, AtHeadEffect DEF RxEcho
  <2>2. at.pool \in Seq(Command) /\ <<Cmd("ATE0")>> \in Seq(Command)
    BY ChannelFields, QueuedFacts DEF IInv, TypeOK
  <2> QED
    BY <2>1, <2>2, PairsConcat, QueuedPairs DEF Turns
<1>7. CASE RxTcpPrompt \/ TcpModemLoses
  <2>1. at \in Channel /\ at.line # <<>>
    BY <1>7 DEF IInv, TypeOK, RxTcpPrompt, Answering, TcpModemLoses, ModemLoses
  <2>2. Answered(at) \in Channel /\ Answered(at).pool = at.pool
    BY <2>1, AnsweredEffect
  <2>3. at' = Answered(at) \/ at' = PutDirectCommand(Answered(at), "AT_QISEND_DATA")
    BY <1>7 DEF RxTcpPrompt, TcpModemLoses, ModemLoses
  <2>4. DirectWait \in Nat \ {0}
    BY TimerAssumption
  <2>5. at'.pool = at.pool
    BY <2>2, <2>3, <2>4, TransmitEffect DEF PutDirectCommand
  <2> QED
    BY <2>5
<1>8. CASE TcpReset
  <2>1. ResetModem
    BY <1>8 DEF TcpReset, TickRecoveryOver, TickNoAnswer, OnClientReset
  <2>2. at'.pool = InitCmds
    BY <2>1, AnewStep DEF Anew
  <2> QED
    BY <2>2, QueuedPairs
<1>9. CASE TcpStart
  <2>1. at'.pool = InitCmds
    BY <1>9, AnewStep DEF TcpStart, Anew
  <2> QED
    BY <2>1, QueuedPairs
<1>10. CASE TcpKilled
  BY <1>10, QueuedPairs DEF TcpKilled, Killed, Dead, IdleChannel
<1>11. CASE DispatchStep
  <2>1. CASE TickIdle
    <3>1. PICK cs \in Polls \cup {<<>>} : Turns(at, at.pool \o cs, at')
      BY <2>1, PollEffect
    <3> QED
      BY <3>1, OthersFacts, QueuedPairs, TailPairs
  <2>2. CASE ~TickIdle
    BY <1>11, <2>2, WaitEffect DEF DispatchStep, Turns
  <2> QED
    BY <2>1, <2>2
<1> QED
  BY <1>1, <1>2, <1>3, <1>4, <1>5, <1>6, <1>7, <1>8, <1>9, <1>10, <1>11, TcpCases
     DEF allVars, vars

\* Data follow the command they belong to (see PairedKept), whatever else is in the
\* pool: only an AT+QISEND that ends in an error or, of length 0, in OK, and an answer
\* that is taken for another's leave data behind.
THEOREM DataStayPaired == TcpSpec => PairedKept
<1>1. IInv /\ [TcpNext]_allVars =>
        [Paired => Paired' \/ at.slipped
                     \/ ((RxTcpError \/ RxTcpCmeError \/ RxTcpOk) /\ at.cur = "AT_QISEND")
                     \/ (RxSendDone /\ at.cur # "AT_QISEND_DATA")]_allVars
  <2>1. Paired <=> InPairs(at.pool)
    BY PairedInPairs
  <2>2. Paired' <=> InPairs(at'.pool)
    BY DEF Paired, InPairs, HasPair
  <2> QED
    BY <2>1, <2>2, PairedStep
<1> QED
  BY <1>1, TcpInvariance, PTL DEF TcpSpec, PairedKept

-----------------------------------------------------------------------------
(* The command the modem has yet to answer, and what is queued around it.  *)

\* Everything that is or will be sent.
Carried(ch) == Range(ch.pool) \cup Range(ch.line)

\* The first command of its tag, c, is the one in flight.
InFlight(pool, tag, c) == tag \in PoolTags(pool) /\ c = CmdPoolGet(pool, tag)

\* The command that waits for its answer is the one the answer's handler will find.
Awaits(ch) == ch.port /\ ~ch.slipped /\ ch.line # <<>> /\ ch.cur \in SocketTags
                => InFlight(ch.pool, ch.cur, Head(ch.line))

\* The head of the pool is sent.
LEMMA FlightHere ==
  ASSUME NEW pool \in Seq(Command), pool # <<>>
  PROVE  InFlight(pool, Head(pool).tag, Head(pool))
BY HeadProperties, GetHead DEF InFlight

\* Commands are queued behind it.
LEMMA FlightTail ==
  ASSUME NEW p \in Seq(Command), NEW z \in Seq(Command), NEW t, NEW c, InFlight(p, t, c)
  PROVE  InFlight(p \o z, t, c)
BY TagsConcat, GetConcat DEF InFlight

\* Commands that are none of a socket are put before it.
LEMMA FlightHead ==
  ASSUME NEW h \in Seq(Command), NoSocket(h), NEW p \in Seq(Command),
         NEW t \in SocketTags, NEW c, InFlight(p, t, c)
  PROVE  InFlight(h \o p, t, c)
<1>1. t \notin PoolTags(h)
  BY DEF NoSocket, PoolTags
<1> QED
  BY <1>1, TagsConcat, GetConcat DEF InFlight

\* What is held after commands are queued, and maybe the head of the pool is sent.
LEMMA TurnsHeld ==
  ASSUME NEW ch \in Channel, NEW pool \in Seq(Command), NEW r, Turns(ch, pool, r)
  PROVE  Carried(r) = Range(pool) \cup Range(ch.line)
<1>1. r.pool = pool /\ ch.line \in Seq(Command)
  BY ChannelFields DEF Turns
<1>2. CASE r.line = ch.line
  BY <1>1, <1>2 DEF Carried
<1>3. CASE pool # <<>> /\ r.line = Append(ch.line, Head(pool))
  <2>1. Head(pool) \in Command /\ Head(pool) \in Range(pool)
    <3>1. Head(pool) = pool[1] /\ 1 \in DOMAIN pool /\ Head(pool) \in Command
      BY <1>3, HeadTailProperties, LenProperties
    <3> QED
      BY <3>1 DEF Range
  <2>2. Range(r.line) = Range(ch.line) \cup {Head(pool)}
    BY <1>1, <1>3, <2>1, RangeAppend
  <2> QED
    BY <1>1, <2>1, <2>2 DEF Carried
<1> QED
  BY <1>2, <1>3 DEF Turns, Dispatched, Written

\* It goes on waiting.
LEMMA TurnsAwait ==
  ASSUME NEW ch \in Channel, Awaits(ch), NEW h \in Seq(Command), NoSocket(h),
         NEW z \in Seq(Command), NEW r, Turns(ch, h \o (ch.pool \o z), r)
  PROVE  Awaits(r)
<1> DEFINE pool == h \o (ch.pool \o z)
<1> SUFFICES ASSUME r.port, ~r.slipped, r.line # <<>>, r.cur \in SocketTags
             PROVE  InFlight(r.pool, r.cur, Head(r.line))
  BY DEF Awaits
<1>1. ch.pool \in Seq(Command) /\ ch.pool \o z \in Seq(Command) /\ pool \in Seq(Command)
  <2>1. ch.pool \in Seq(Command)
    BY ChannelFields
  <2> QED
    BY <2>1, ConcatProperties
<1>2. r.pool = pool /\ r.port = ch.port
  BY DEF Turns
<1>3. r.cur # NONE
  BY DEF SocketTags, NONE
<1>4. CASE r.cur = ch.cur /\ r.line = ch.line /\ (r.slipped <=> ch.slipped)
  <2>1. InFlight(ch.pool, ch.cur, Head(ch.line))
    BY <1>2, <1>4 DEF Awaits
  <2> QED
    BY <1>1, <1>2, <1>4, <2>1, FlightTail, FlightHead
<1>5. CASE pool # <<>> /\ Dispatched(ch, Head(pool), r)
  <2> HIDE DEF pool
  <2>1. ch.line = <<>> /\ r.cur = Head(pool).tag /\ r.line = Written(ch, Head(pool))
    BY <1>5 DEF Dispatched
  <2>2. Written(ch, Head(pool)) = ch.line \/ Written(ch, Head(pool)) = Append(<<>>, Head(pool))
    BY <2>1 DEF Written
  <2>3. Head(r.line) = Head(pool)
    BY <2>1, <2>2
  <2> QED
    BY <1>1, <1>2, <1>5, <2>1, <2>3, FlightHere
<1> QED
  BY <1>3, <1>4, <1>5 DEF Turns

\* With a reset, and a start, a new order begins.
LEMMA AnewAwaits ==
  ASSUME NEW line \in Seq(Command), NEW r, Anew(line, r)
  PROVE  Awaits(r) /\ Carried(r) \subseteq Range(InitCmds) \cup Range(line)
<1>1. r.pool = InitCmds /\ InitCmds \in Seq(Command) /\ InitCmds # <<>>
  BY InitCmdsAssumption DEF Anew
<1>2. Carried(r) \subseteq Range(InitCmds) \cup Range(line)
  <2>1. Head(InitCmds) \in Range(InitCmds)
    <3>1. Head(InitCmds) = InitCmds[1] /\ 1 \in DOMAIN InitCmds
      BY <1>1, HeadTailProperties, LenProperties
    <3> QED
      BY <3>1 DEF Range
  <2>2. \A c \in Range(r.line) : c \in Range(line) \/ c = Head(InitCmds)
    BY AnewLine
  <2> QED
    BY <1>1, <2>1, <2>2 DEF Carried
<1>3. ASSUME r.port, ~r.slipped, r.line # <<>>
      PROVE  InFlight(r.pool, r.cur, Head(r.line))
  <2>1. line = <<>> /\ r.cur = Head(InitCmds).tag
    BY <1>3 DEF Anew
  <2>2. r.line = Append(<<>>, Head(InitCmds))
    BY <1>3, <2>1 DEF Anew
  <2>3. Head(r.line) = Head(InitCmds)
    BY <2>2
  <2> QED
    BY <1>1, <2>1, <2>3, FlightHere
<1> QED
  BY <1>2, <1>3 DEF Awaits

\* An AT+QICLOSE is sent only from the head of the pool.
SendsHead(before, pool, after) ==
  \A x \in Range(after) :
    \/ x \in Range(before)
    \/ x.tag = "AT_QICLOSE" => pool # <<>> /\ x = Head(pool)

\* What is put before it are no commands of a socket.
LEMMA TurnsSend ==
  ASSUME NEW ch \in Channel, NEW h \in Seq(Command), NoSocket(h),
         NEW p \in Seq(Command), NEW r, Turns(ch, h \o p, r)
  PROVE  SendsHead(ch.line, p, r.line)
<1> DEFINE pool == h \o p
<1>1. ch.line \in Seq(Command) /\ pool \in Seq(Command)
  BY ChannelFields, ConcatProperties
<1>2. CASE r.line = ch.line
  BY <1>2 DEF SendsHead
<1>3. CASE pool # <<>> /\ r.line = Append(ch.line, Head(pool))
  <2>1. CASE h = <<>>
    <3>1. pool = p
      BY <2>1, ConcatEmptySeq
    <3> HIDE DEF pool
    <3>2. Head(pool) \in Command
      BY <1>1, <1>3, HeadTailProperties
    <3>3. Range(r.line) = Range(ch.line) \cup {Head(pool)}
      BY <1>1, <1>3, <3>2, RangeAppend
    <3> QED
      BY <1>3, <3>1, <3>3 DEF SendsHead
  <2>2. CASE h # <<>>
    <3>1. Head(pool) = h[1] /\ 1 \in DOMAIN h
      BY <1>1, <1>3, <2>2, HeadTailProperties, LenProperties, ConcatProperties
    <3>2. Head(pool).tag \notin SocketTags
      BY <3>1 DEF NoSocket
    <3> HIDE DEF pool
    <3>3. Head(pool) \in Command
      BY <1>1, <1>3, HeadTailProperties
    <3>4. Range(r.line) = Range(ch.line) \cup {Head(pool)}
      BY <1>1, <1>3, <3>3, RangeAppend
    <3> QED
      BY <3>2, <3>4 DEF SendsHead, SocketTags
  <2> QED
    BY <2>1, <2>2
<1> QED
  BY <1>2, <1>3 DEF Turns, Dispatched, Written

\* What a step queues at the tail.
Queues(cs) ==
  \/ NoSocket(cs)
  \/ \E c \in Clients : /\ OnTCPOpen(c) /\ SockOf(slot, NOBODY) # None
                        /\ cs = <<Open(SockOf(slot, NOBODY))>>
  \/ \E c \in Clients : OnTCPClose(c) /\ cs = <<Close(SockOf(slot, c))>>
  \/ \E c \in Clients, full \in BOOLEAN :
       OnTCPSend(c) /\ cs = LengthAndData(SockOf(slot, c), full)
  \/ \E c \in Holders, alone \in BOOLEAN : TCPClosed(c, alone) /\ cs = TCPClosedCmds(c, alone)

\* A step that queues, and maybe sends the head of the pool.
Extends(cs) ==
  /\ Queues(cs)
  /\ \E h \in Seq(Command) : NoSocket(h) /\ at'.pool = h \o (at.pool \o cs)
  /\ Carried(at') = Range(at'.pool) \cup Range(at.line)
  /\ SendsHead(at.line, at.pool \o cs, at'.line)
  /\ Awaits(at) => Awaits(at')

\* A step that queues, and after which the current command leaves the pool.
Completes(cs) ==
  /\ Queues(cs)
  /\ \E tag : \/ at'.pool = CmdPoolDel(at.pool \o cs, tag)
              \/ at'.pool = CmdPoolDel(CmdPoolDel(at.pool \o cs, "AT_QISEND"), tag)
  /\ Range(at'.line) \subseteq Range(at.line) \cup Range(at.pool) \cup Range(cs)
  /\ SendsHead(at.line, at.pool \o cs, at'.line)
  /\ Awaits(at')

\* A step in which the oldest command is answered, and data are maybe sent.
Drops ==
  /\ at'.pool = at.pool /\ at.line # <<>>
  /\ Carried(at') = Range(at.pool) \cup Range(Tail(at.line))
  /\ SendsHead(at.line, <<>>, at'.line)
  /\ Awaits(at) => Awaits(at')

\* A step after which the channel begins anew, or stands idle.
Renews ==
  /\ at'.pool = InitCmds \/ at'.pool = <<>>
  /\ Carried(at') \subseteq Range(InitCmds) \cup Range(at.line)
  /\ at'.port /\ ~at'.slipped => at.line = <<>>
  /\ Awaits(at')

\* Nothing but the tail of the pool changes.
LEMMA TailExtends ==
  ASSUME IInv, NEW cs \in Seq(Command), Queues(cs), Turns(at, at.pool \o cs, at')
  PROVE  Extends(cs)
<1>1. at \in Channel /\ at.pool \in Seq(Command) /\ at.pool \o cs \in Seq(Command)
  <2>1. at \in Channel /\ at.pool \in Seq(Command)
    BY ChannelFields DEF IInv, TypeOK
  <2> QED
    BY <2>1, ConcatProperties
<1>2. <<>> \in Seq(Command) /\ NoSocket(<<>>) /\ <<>> \o (at.pool \o cs) = at.pool \o cs
  BY <1>1, ConcatEmptySeq DEF NoSocket
<1>3. at'.pool = <<>> \o (at.pool \o cs)
  BY <1>2 DEF Turns
<1>4. Carried(at') = Range(at'.pool) \cup Range(at.line)
  BY <1>1, TurnsHeld DEF Turns
<1>5. Turns(at, <<>> \o (at.pool \o cs), at')
  BY <1>2
<1>6. Awaits(at) => Awaits(at')
  BY <1>1, <1>2, <1>5, TurnsAwait
<1>7. SendsHead(at.line, at.pool \o cs, at'.line)
  BY <1>1, <1>2, <1>5, TurnsSend
<1> QED
  BY <1>2, <1>3, <1>4, <1>6, <1>7 DEF Extends

\* The requests queue at the tail.
LEMMA RequestExtends ==
  ASSUME IInv, NEW c \in Clients, Requested(c), at' # at
  PROVE  \E cs \in Seq(Command) : Extends(cs)
<1>1. \A k : SockOf(slot, k) \in Socks \cup {None}
  BY SockOfFacts
<1>2. ASSUME NEW cs \in Seq(Command), Queues(cs), Queue(cs)
      PROVE  \E ds \in Seq(Command) : Extends(ds)
  BY <1>2, QueueTurns, TailExtends
<1>3. CASE OnTCPOpen(c)
  <2>1. SockOf(slot, NOBODY) # None /\ Queue(<<Open(SockOf(slot, NOBODY))>>)
    BY <1>3 DEF OnTCPOpen
  <2>2. <<Open(SockOf(slot, NOBODY))>> \in Seq(Command)
    BY <1>1, <2>1, QueuedFacts
  <2>3. Queues(<<Open(SockOf(slot, NOBODY))>>)
    BY <1>3, <2>1 DEF Queues
  <2> QED
    BY <1>2, <2>1, <2>2, <2>3
<1>4. CASE OnTCPOpenFails(c)
  BY <1>4 DEF OnTCPOpenFails
<1>5. CASE OnTCPClose(c)
  <2>1. Queue(<<Close(SockOf(slot, c))>>) /\ <<Close(SockOf(slot, c))>> \in Seq(Command)
    BY <1>1, <1>5, QueuedFacts DEF OnTCPClose
  <2>2. Queues(<<Close(SockOf(slot, c))>>)
    BY <1>5 DEF Queues
  <2> QED
    BY <1>2, <2>1, <2>2
<1>6. CASE OnTCPSend(c)
  <2> DEFINE cs(full) == LengthAndData(SockOf(slot, c), full)
  <2>1. PICK full \in BOOLEAN : Queue(cs(full)) /\ cs(full) \in Seq(Command)
    BY <1>1, <1>6, QueuedFacts DEF OnTCPSend
  <2>2. Queues(cs(full))
    BY <1>6 DEF Queues
  <2> QED
    BY <1>2, <2>1, <2>2
<1> QED
  BY <1>3, <1>4, <1>5, <1>6 DEF Requested

\* So do the lines of the modem that are no answer.
LEMMA ReportExtends ==
  ASSUME IInv, TableOK(slot), (\E s \in Socks : Reported(s)) \/ RxPdpDeact, at' # at
  PROVE  \E cs \in Seq(Command) : Extends(cs)
<1>1. ASSUME NEW c \in Holders, TCPClosed(c, FALSE)
      PROVE  TCPClosedCmds(c, FALSE) \in Seq(Command) /\ Queues(TCPClosedCmds(c, FALSE))
  BY <1>1, ClosedCmdsRuns DEF Queues
<1>2. ASSUME NEW c \in Holders, TCPClosed(c, FALSE), Queue(TCPClosedCmds(c, FALSE))
      PROVE  \E cs \in Seq(Command) : Extends(cs)
  BY <1>1, <1>2, QueueTurns, TailExtends
<1>3. CASE RxPdpDeact
  <2>1. NOBODY \in Holders
    BY DEF Holders
  <2> QED
    BY <1>2, <1>3, <2>1 DEF RxPdpDeact, LineClosed
<1>4. ASSUME NEW s \in Socks, Reported(s) PROVE \E cs \in Seq(Command) : Extends(cs)
  <2>1. CASE RxClosed(s)
    BY <1>2, <2>1, PidOfFacts DEF RxClosed, LineClosed
  <2>2. CASE RxOpenFailed(s) /\ s = 0
    <3> DEFINE c == PidOf(0)
               cs == TCPClosedCmds(c, FALSE)
    <3>1. c \in Holders /\ TCPClosed(c, FALSE)
      BY <2>2, PidOfFacts DEF RxOpenFailed
    <3>2. CASE Queue(cs)
      BY <1>2, <3>1, <3>2
    <3>3. CASE at' = SendCommand(SendCommands(at, cs), NewContext, TRUE)
      <4>1. cs \in Seq(Command) /\ Queues(cs)
        BY <1>1, <3>1
      <4> HIDE DEF cs
      <4> DEFINE pool == at.pool \o cs
                 h == <<NewContext>>
      <4>2. PICK q \in Channel : /\ Turns(at, pool, q) /\ Turns(q, h \o pool, at')
                                 /\ pool \in Seq(Command) /\ h \o pool \in Seq(Command)
        BY <3>3, <4>1, ContextTurns
      <4>3. /\ h \in Seq(Command) /\ NoSocket(h)
            /\ <<>> \in Seq(Command) /\ NoSocket(<<>>)
        BY QueuedFacts DEF NoSocket
      <4>4. at \in Channel /\ at.pool \in Seq(Command)
        BY ChannelFields DEF IInv, TypeOK
      <4>5. <<>> \o pool = pool /\ pool \o <<>> = pool
        BY <4>2, ConcatEmptySeq
      <4>6. Awaits(at) => Awaits(q)
        <5>1. Turns(at, <<>> \o (at.pool \o cs), q)
          BY <4>2, <4>5
        <5> QED
          BY <4>1, <4>3, <4>4, <5>1, TurnsAwait
      <4>7. q.pool = pool
        BY <4>2 DEF Turns
      <4>8. Awaits(q) => Awaits(at')
        <5>1. Turns(q, h \o (q.pool \o <<>>), at')
          BY <4>2, <4>5, <4>7
        <5> HIDE DEF h, pool
        <5> QED
          BY <4>2, <4>3, <5>1, TurnsAwait
      <4>9. at'.pool = h \o (at.pool \o cs)
        BY <4>2 DEF Turns
      <4>10. Carried(at') = Range(at'.pool) \cup Range(at.line)
        <5> HIDE DEF h, pool
        <5>1. Carried(q) = Range(pool) \cup Range(at.line)
          BY <4>2, <4>4, TurnsHeld
        <5>2. Carried(at') = Range(h \o pool) \cup Range(q.line)
          BY <4>2, TurnsHeld
        <5>3. Range(h \o pool) = Range(h) \cup Range(pool)
          BY <4>2, <4>3, RangeConcat
        <5>4. Range(q.line) \cup Range(pool) = Range(pool) \cup Range(at.line)
          BY <4>7, <5>1 DEF Carried
        <5>5. at'.pool = h \o pool
          BY <4>2 DEF Turns
        <5> QED
          BY <5>2, <5>3, <5>4, <5>5
      <4>11. SendsHead(at.line, pool, at'.line)
        <5>1. Turns(at, <<>> \o pool, q)
          BY <4>2, <4>5
        <5> HIDE DEF h, pool
        <5>2. SendsHead(at.line, pool, q.line)
          BY <4>2, <4>3, <4>4, <5>1, TurnsSend
        <5>3. SendsHead(q.line, pool, at'.line)
          BY <4>2, <4>3, TurnsSend
        <5> QED
          BY <5>2, <5>3 DEF SendsHead
      <4>12. Extends(cs)
        BY <4>1, <4>3, <4>6, <4>8, <4>9, <4>10, <4>11 DEF Extends
      <4> QED
        BY <4>1, <4>12
    <3> QED
      BY <2>2, <3>2, <3>3 DEF RxOpenFailed
  <2>3. CASE RxOpened(s) \/ (RxOpenFailed(s) /\ s # 0)
    BY <2>3 DEF RxOpened, RxOpenFailed
  <2> QED
    BY <1>4, <2>1, <2>2, <2>3 DEF Reported
<1> QED
  BY <1>3, <1>4

\* What of the line is left when its oldest command is answered.
LEMMA TailRange ==
  ASSUME NEW l \in Seq(Command), l # <<>>
  PROVE  /\ Range(Tail(l)) \subseteq Range(l)
         /\ Range(l) \subseteq Range(Tail(l)) \cup {Head(l)}
         /\ Head(l) \in Range(l)
<1> DEFINE t == Tail(l)
           n == Len(l)
<1>1. /\ n \in Nat \ {0} /\ DOMAIN l = 1 .. n /\ DOMAIN t = 1 .. n - 1 /\ Head(l) = l[1]
      /\ \A k \in 1 .. n - 1 : t[k] = l[k + 1]
  BY HeadTailProperties, LenProperties
<1> HIDE DEF t, n
<1>2. ASSUME NEW x \in Range(t) PROVE x \in Range(l)
  <2>1. PICK k \in 1 .. n - 1 : x = t[k]
    BY <1>1 DEF Range
  <2>2. k + 1 \in 1 .. n /\ x = l[k + 1]
    BY <1>1, <2>1
  <2> QED
    BY <1>1, <2>2 DEF Range
<1>3. ASSUME NEW x \in Range(l) PROVE x \in Range(t) \/ x = Head(l)
  <2>1. PICK k \in 1 .. n : x = l[k]
    BY <1>1 DEF Range
  <2>2. CASE k = 1
    BY <1>1, <2>1, <2>2
  <2>3. CASE k # 1
    <3>1. k - 1 \in 1 .. n - 1 /\ (k - 1) + 1 = k
      BY <1>1, <2>1, <2>3
    <3>2. x = t[k - 1]
      BY <1>1, <2>1, <3>1
    <3> QED
      BY <1>1, <3>1, <3>2 DEF Range
  <2> QED
    BY <2>2, <2>3
<1>4. Head(l) \in Range(l)
  BY <1>1 DEF Range
<1> QED
  BY <1>2, <1>3, <1>4 DEF t

\* An answer: the current command leaves the pool.
LEMMA AnswerCompletes ==
  ASSUME IInv, TableOK(slot), Ended
  PROVE  \E cs \in Seq(Command) : Completes(cs)
<1>1. at \in Channel /\ at.pool \in Seq(Command) /\ at.line \in Seq(Command)
  BY ChannelFields DEF IInv, TypeOK
<1>2. <<>> \in Seq(Command) /\ Queues(<<>>) /\ at.pool \o <<>> = at.pool
  BY <1>1, ConcatEmptySeq DEF Queues, NoSocket
<1>3. ASSUME NEW q, Completed(q, at') PROVE Awaits(at') /\ at'.line = q.line
  BY <1>3 DEF Completed, Awaits
<1>4. at.line # <<>> => Range(Tail(at.line)) \subseteq Range(at.line)
  <2> SUFFICES ASSUME at.line # <<>>, NEW c \in Range(Tail(at.line)) PROVE c \in Range(at.line)
    OBVIOUS
  <2>1. PICK k \in DOMAIN Tail(at.line) : c = Tail(at.line)[k]
    BY DEF Range
  <2>2. k + 1 \in DOMAIN at.line /\ at.line[k + 1] = c
    BY <1>1, <2>1
  <2> QED
    BY <2>2 DEF Range
<1>5. ASSUME NEW cs \in Seq(Command), Queues(cs), Final(cs)
      PROVE  Completes(cs)
  <2>1. PICK q : Turns(Answered(at), at.pool \o cs, q) /\ Completed(q, at') /\ at.line # <<>>
    BY <1>5, FinalEffect
  <2>2. at.pool \o cs \in Seq(Command)
    BY <1>1, ConcatProperties
  <2>3. Answered(at) \in Channel /\ Answered(at).line = Tail(at.line)
    BY <1>1, <2>1, AnsweredEffect
  <2>4. at'.pool = CmdPoolDel(at.pool \o cs, q.cur)
    BY <2>1 DEF Completed, Turns
  <2>5. Range(at'.line) \subseteq Range(at.line) \cup Range(at.pool) \cup Range(cs)
    <3>1. Carried(q) = Range(at.pool \o cs) \cup Range(Tail(at.line))
      BY <2>1, <2>2, <2>3, TurnsHeld
    <3>2. Range(at.pool \o cs) = Range(at.pool) \cup Range(cs)
      BY <1>1, RangeConcat
    <3>3. at'.line = q.line
      BY <1>3, <2>1
    <3> QED
      BY <1>4, <2>1, <3>1, <3>2, <3>3 DEF Carried
  <2>6. SendsHead(at.line, at.pool \o cs, at'.line)
    <3> DEFINE p == at.pool \o cs
    <3>1. <<>> \in Seq(Command) /\ NoSocket(<<>>) /\ <<>> \o p = p
      BY <2>2, ConcatEmptySeq DEF NoSocket
    <3>2. Turns(Answered(at), <<>> \o p, q)
      BY <2>1, <3>1
    <3>3. SendsHead(Tail(at.line), p, q.line)
      BY <2>2, <2>3, <3>1, <3>2, TurnsSend
    <3>4. at'.line = q.line
      BY <1>3, <2>1
    <3> QED
      BY <1>4, <2>1, <3>3, <3>4 DEF SendsHead
  <2> QED
    BY <1>3, <1>5, <2>1, <2>4, <2>5, <2>6 DEF Completes
<1>6. ASSUME NEW tag, NEW alone \in BOOLEAN, Result(tag, alone)
      PROVE  \E cs \in Seq(Command) : Completes(cs)
  <2> DEFINE c == PidOf(Text(tag))
             cs == TCPClosedCmds(c, alone)
  <2>2. CASE Final(<<>>)
    BY <1>2, <1>5, <2>2
  <2>3. CASE Final(cs) /\ TCPClosed(c, alone)
    <3>1. c \in Holders /\ cs \in Seq(Command)
      BY PidOfFacts, ClosedCmdsRuns
    <3>2. Queues(cs)
      BY <2>3, <3>1 DEF Queues
    <3> QED
      BY <1>5, <2>3, <3>1, <3>2
  <2> QED
    BY <1>6, <2>2, <2>3 DEF Result
<1>7. CASE RxSendDone
  <2> DEFINE d == CmdPoolDel(at.pool, "AT_QISEND")
             q == [Answered(at) EXCEPT !.pool = d]
  <2>1. at' = Complete(q) /\ at.line # <<>>
    BY <1>1, <1>7, AnsweredEffect DEF RxSendDone, RxFinal
  <2>2. d \in Seq(Command)
    BY <1>1, CmdPoolDelProperties
  <2>3. Answered(at) \in Channel /\ Answered(at).line = Tail(at.line)
    BY <1>1, <2>1, AnsweredEffect
  <2> HIDE DEF d
  <2>4. q \in Channel /\ q.pool = d /\ q.line = Tail(at.line)
    BY <2>2, <2>3 DEF Channel
  <2> HIDE DEF q
  <2>5. Completed(q, at')
    BY <2>1, <2>4, CompleteEffect
  <2>6. at'.pool = CmdPoolDel(CmdPoolDel(at.pool \o <<>>, "AT_QISEND"), q.cur)
    BY <1>2, <2>4, <2>5 DEF Completed, d
  <2>7. Range(at'.line) \subseteq Range(at.line)
    BY <1>3, <1>4, <2>1, <2>4, <2>5
  <2> QED
    BY <1>2, <1>3, <2>5, <2>6, <2>7 DEF Completes, SendsHead
<1>8. CASE RxTcpOk \/ RxTcpError
  BY <1>6, <1>8 DEF RxTcpOk, RxTcpError
<1>9. CASE RxTcpCmeError
  BY <1>2, <1>5, <1>9 DEF RxTcpCmeError
<1> QED
  BY <1>7, <1>8, <1>9 DEF Ended

\* An answer, or a command, that is lost, and a prompt.
LEMMA AnswerDrops ==
  ASSUME IInv, RxTcpPrompt \/ TcpModemLoses
  PROVE  Drops
<1> DEFINE a == Answered(at)
<1>1. at \in Channel /\ at.line # <<>> /\ Sound(at)
  BY DEF IInv, TypeOK, RxTcpPrompt, Answering, TcpModemLoses, ModemLoses
<1>2. /\ a \in Channel /\ a.pool = at.pool /\ a.line = Tail(at.line) /\ a.cur = at.cur
      /\ a.port = at.port /\ a.slipped = at.slipped /\ a.line \in Seq(Command)
  BY <1>1, AnsweredEffect
<1>3. at' = a \/ at' = PutDirectCommand(a, "AT_QISEND_DATA")
  BY DEF RxTcpPrompt, TcpModemLoses, ModemLoses
<1>4. a.port /\ ~a.slipped => a.line = <<>>
  BY <1>1, <1>2, AnsweredSound
<1> HIDE DEF a
<1>5. Awaits(a)
  BY <1>4 DEF Awaits
<1>6. CASE at' = a
  <2>1. Range(Tail(at.line)) \subseteq Range(at.line)
    <3> DEFINE l == at.line
    <3>1. l \in Seq(Command) /\ l # <<>>
      BY <1>1, ChannelFields
    <3> HIDE DEF l
    <3>2. Range(Tail(l)) \subseteq Range(l)
      BY <3>1, TailRange
    <3> QED
      BY <3>2 DEF l
  <2> QED
    BY <1>1, <1>2, <1>5, <1>6, <2>1 DEF Drops, Carried, SendsHead
<1>7. CASE at' = PutDirectCommand(a, "AT_QISEND_DATA") /\ at' # a
  <2> DEFINE tag == "AT_QISEND_DATA"
             c == CmdPoolGet(a.pool, tag)
  <2>1. tag \in PoolTags(a.pool) /\ at' = Transmit(a, c, DirectWait)
    BY <1>7 DEF PutDirectCommand
  <2>2. a.pool \in Seq(Command)
    BY <1>2, ChannelFields
  <2>3. c \in Command /\ c.tag = tag
    BY <2>1, <2>2, CmdPoolGetProperties
  <2>4. c \in Range(a.pool)
    <3>1. Place(a.pool, tag) \in 1 .. Len(a.pool) /\ a.pool[Place(a.pool, tag)] = c
      BY <2>1, <2>2, DelPlaces
    <3>2. DOMAIN a.pool = 1 .. Len(a.pool)
      BY <2>2, LenProperties
    <3> QED
      BY <3>1, <3>2 DEF Range
  <2>5. DirectWait \in Nat \ {0}
    BY TimerAssumption
  <2> HIDE DEF c
  <2>6. Dispatched(a, c, at') /\ at'.pool = a.pool /\ at'.port = a.port
    BY <1>2, <2>1, <2>5, TransmitEffect
  <2>7. at'.line = a.line \/ at'.line = Append(a.line, c)
    BY <2>6 DEF Dispatched, Written
  <2>8. Carried(at') = Range(at.pool) \cup Range(Tail(at.line))
    <3> DEFINE l == a.line
    <3>1. Range(Append(l, c)) = Range(l) \cup {c}
      <4>1. l \in Seq(Command) /\ c \in Command
        BY <1>2, <2>3
      <4> HIDE DEF l
      <4> QED
        BY <4>1, RangeAppend
    <3> QED
      BY <1>2, <2>4, <2>6, <2>7, <3>1 DEF Carried
  <2>9. ASSUME at'.port, ~at'.slipped, at'.line # <<>>
        PROVE  InFlight(at'.pool, at'.cur, Head(at'.line))
    <3>1. a.line = <<>> /\ at'.cur = tag
      BY <2>3, <2>6, <2>9 DEF Dispatched
    <3>2. at'.line = Append(<<>>, c)
      BY <2>7, <2>9, <3>1
    <3>3. Head(at'.line) = c
      BY <3>2
    <3> QED
      BY <2>1, <2>6, <3>1, <3>3 DEF InFlight, c
  <2>10. SendsHead(at.line, <<>>, at'.line)
    <3> DEFINE l == at.line
               t == Tail(l)
    <3>1. l \in Seq(Command) /\ l # <<>>
      BY <1>1, ChannelFields
    <3> HIDE DEF l
    <3>2. t \in Seq(Command) /\ Range(t) \subseteq Range(l)
      BY <3>1, TailRange, HeadTailProperties
    <3> HIDE DEF t
    <3>3. Range(Append(t, c)) = Range(t) \cup {c}
      BY <2>3, <3>2, RangeAppend
    <3>4. at'.line = t \/ at'.line = Append(t, c)
      BY <1>2, <2>7 DEF t, l
    <3> QED
      BY <2>3, <3>2, <3>3, <3>4 DEF SendsHead, l
  <2> QED
    BY <1>1, <1>2, <2>6, <2>8, <2>9, <2>10 DEF Drops, Awaits
<1> QED
  BY <1>3, <1>6, <1>7

\* The agent begins the bring-up anew, or does not run any more.
LEMMA AgentRenews ==
  ASSUME IInv, TcpReset \/ TcpStart \/ TcpKilled
  PROVE  Renews
<1>1. at \in Channel /\ at.line \in Seq(Command)
  BY ChannelFields DEF IInv, TypeOK
<1>2. CASE TcpReset \/ TcpStart
  <2>1. ResetModem \/ Start
    BY <1>2 DEF TcpReset, TcpStart, TickRecoveryOver, TickNoAnswer, OnClientReset
  <2>2. Anew(at.line, at')
    BY <2>1, AnewStep
  <2>3. Awaits(at') /\ Carried(at') \subseteq Range(InitCmds) \cup Range(at.line)
    BY <1>1, <2>2, AnewAwaits
  <2> QED
    BY <1>2, <2>2, <2>3 DEF Renews, Anew
<1>3. CASE TcpKilled
  <2>1. at' = IdleChannel(at.line)
    BY <1>3 DEF TcpKilled, Killed, Dead
  <2>2. at'.pool = <<>> /\ at'.line = at.line /\ at'.port = FALSE
    BY <2>1 DEF IdleChannel
  <2>3. Range(<<>>) = {}
    BY DEF Range
  <2> QED
    BY <1>3, <2>2, <2>3 DEF Renews, Awaits, Carried
<1> QED
  BY <1>2, <1>3

\* Every step changes the channel in one of these ways, or not at all.
LEMMA ChannelStep ==
  ASSUME IInv, TableOK(slot), [TcpNext]_allVars
  PROVE  \/ at' = at
         \/ \E cs \in Seq(Command) : Extends(cs)
         \/ (\E cs \in Seq(Command) : Completes(cs)) /\ Ended
         \/ Drops /\ (RxTcpPrompt \/ TcpModemLoses)
         \/ Renews /\ (TcpReset \/ TcpStart \/ TcpKilled)
<1>1. at \in Channel /\ at.pool \in Seq(Command) /\ at.line \in Seq(Command)
  BY ChannelFields DEF IInv, TypeOK
<1>2. CASE \E c \in Clients : Library(c)
  BY <1>2 DEF Library, TCPOpen, TCPOpenAgain, TCPClose, TCPSend, TCPSendData, TCPSendDataFails, Die, vars
<1>3. CASE \E c \in Clients : Requested(c)
  BY <1>3, RequestExtends
<1>4. CASE (\E s \in Socks : Reported(s)) \/ RxPdpDeact
  BY <1>4, ReportExtends
<1>5. CASE Ended
  BY <1>5, AnswerCompletes
<1>6. CASE RxEcho
  <2> DEFINE h == <<Cmd("ATE0")>>
  <2>1. Turns(at, h \o at.pool, at') /\ h \o at.pool \in Seq(Command)
    BY <1>6, QueuedFacts, AtHeadEffect DEF RxEcho
  <2>2. h \in Seq(Command) /\ NoSocket(h) /\ <<>> \in Seq(Command) /\ NoSocket(<<>>)
    BY QueuedFacts DEF NoSocket
  <2>3. at.pool \o <<>> = at.pool
    BY <1>1, ConcatEmptySeq
  <2> HIDE DEF h
  <2>4. Turns(at, h \o (at.pool \o <<>>), at')
    BY <2>1, <2>3
  <2>5. Awaits(at) => Awaits(at')
    BY <1>1, <2>2, <2>4, TurnsAwait
  <2>6. Carried(at') = Range(at'.pool) \cup Range(at.line)
    BY <1>1, <2>1, TurnsHeld DEF Turns
  <2>7. at'.pool = h \o (at.pool \o <<>>)
    BY <2>4 DEF Turns
  <2>8. SendsHead(at.line, at.pool \o <<>>, at'.line)
    BY <1>1, <2>2, <2>3, <2>4, TurnsSend
  <2>9. Extends(<<>>)
    BY <2>2, <2>5, <2>6, <2>7, <2>8 DEF Extends, Queues
  <2> QED
    BY <2>2, <2>9
<1>7. CASE RxTcpPrompt \/ TcpModemLoses
  BY <1>7, AnswerDrops
<1>8. CASE TcpReset \/ TcpStart \/ TcpKilled
  BY <1>8, AgentRenews
<1>10. CASE DispatchStep
  <2>1. \E cs \in Seq(Command) : NoSocket(cs) /\ Turns(at, at.pool \o cs, at')
    <3>1. CASE TickIdle
      <4>1. PICK cs \in Polls \cup {<<>>} : Turns(at, at.pool \o cs, at')
        BY <3>1, PollEffect
      <4> QED
        BY <4>1, OthersFacts
    <3>2. CASE ~TickIdle
      <4>1. Turns(at, at.pool, at')
        BY <1>10, <3>2, WaitEffect DEF DispatchStep
      <4>2. at.pool \o <<>> = at.pool
        BY <1>1, ConcatEmptySeq
      <4>3. Turns(at, at.pool \o <<>>, at')
        BY <4>1, <4>2
      <4> QED
        BY <4>3, OthersFacts
    <3> QED
      BY <3>1, <3>2
  <2> QED
    BY <2>1, TailExtends DEF Queues
<1> QED
  BY <1>2, <1>3, <1>4, <1>5, <1>6, <1>7, <1>8, <1>10, TcpCases DEF allVars, vars

\* The answer's handler finds the command in flight, in every reachable state.
LEMMA AwaitsInvariance == TcpSpec => []Awaits(at)
<1>1. TcpInit => Awaits(at)
  <2> SUFFICES ASSUME TcpInit PROVE Awaits(at)
    OBVIOUS
  <2>1. PICK up \in Opened : at = InitChannel(<<>>, up)
    BY DEF TcpInit, Init
  <2>2. up \in BOOLEAN /\ <<>> \in Seq(Command)
    BY OpenedFacts
  <2>3. Anew(<<>>, at)
    BY <2>1, <2>2, StartEffect
  <2> QED
    BY <2>2, <2>3, AnewAwaits
<1>2. IInv /\ TableOK(slot) /\ Awaits(at) /\ [TcpNext]_allVars => Awaits(at)'
  <2> SUFFICES ASSUME IInv, TableOK(slot), Awaits(at), [TcpNext]_allVars PROVE Awaits(at')
    OBVIOUS
  <2> QED
    BY ChannelStep DEF Extends, Completes, Drops, Renews
<1> QED
  BY <1>1, <1>2, TcpInvariance, TableInvariance, PTL DEF TcpSpec

\* An agent that does not run has no commands.
IdleIsEmpty == ~run => at.pool = <<>>

\* DeinitAgent, or the death of the agent, leaves nothing of the pool.
LEMMA IdleInvariance == TcpSpec => []IdleIsEmpty
<1>1. TcpInit => IdleIsEmpty
  BY DEF TcpInit, Init, IdleIsEmpty
<1>2. IInv /\ IdleIsEmpty /\ [TcpNext]_allVars => IdleIsEmpty'
  <2> SUFFICES ASSUME IInv, IdleIsEmpty, [TcpNext]_allVars, ~run' PROVE at'.pool = <<>>
    BY DEF IdleIsEmpty
  <2>1. CASE at' = at /\ run' = run
    BY <2>1 DEF IdleIsEmpty
  <2>2. CASE \E c \in Clients : Library(c)
    BY <2>1, <2>2 DEF Library, TCPOpen, TCPOpenAgain, TCPClose, TCPSend, TCPSendData, TCPSendDataFails, Die, vars
  <2>3. CASE \E c \in Clients : Requested(c)
    <3>1. \E c, kind : Take(c, kind)
      BY <2>3 DEF Requested, OnTCPOpen, OnTCPOpenFails, OnTCPClose, OnTCPSend
    <3> QED
      BY <3>1 DEF Take
  <2>4. CASE (\E s \in Socks : Reported(s)) \/ RxPdpDeact
    <3>1. Report
      BY <2>4 DEF Reported, RxOpened, RxOpenFailed, RxClosed, RxPdpDeact
    <3> QED
      BY <3>1 DEF Report, Reading
  <2>5. CASE Ended \/ RxTcpPrompt \/ RxEcho
    <3>1. CASE RxSendDone \/ RxTcpPrompt \/ RxEcho
      <4>1. run' = run
        BY <3>1 DEF RxSendDone, RxTcpPrompt, RxEcho
      <4>2. Reading
        BY <3>1 DEF RxSendDone, RxTcpPrompt, RxEcho, RxFinal
      <4> QED
        BY <4>1, <4>2 DEF Reading
    <3>2. ASSUME NEW tag, NEW alone, Result(tag, alone) PROVE FALSE
      BY <3>2 DEF Result, Final, RxFinal, Reading
    <3>3. CASE RxTcpCmeError
      BY <3>3 DEF RxTcpCmeError, Final, RxFinal, Reading
    <3> QED
      BY <2>5, <3>1, <3>2, <3>3 DEF Ended, RxTcpOk, RxTcpError
  <2>6. CASE TcpModemLoses
    <3>1. at \in Channel /\ at.line # <<>> /\ at' = Answered(at) /\ run' = run
      BY <2>6 DEF TcpModemLoses, ModemLoses, IInv, TypeOK
    <3>2. at'.pool = at.pool
      BY <3>1, AnsweredEffect
    <3> QED
      BY <3>1, <3>2 DEF IdleIsEmpty
  <2>7. CASE TcpReset
    BY <2>7 DEF TcpReset, TickRecoveryOver, TickNoAnswer, OnClientReset, Ticking, ResetModem
  <2>8. CASE TcpStart
    BY <2>8 DEF TcpStart, Start
  <2>9. CASE TcpKilled
    BY <2>9 DEF TcpKilled, Killed, Dead, IdleChannel
  <2>10. CASE DispatchStep
    BY <2>10 DEF DispatchStep, OnPutCommand, TickWaiting, TickRetry, TickIdle, Ticking
  <2> QED
    BY <2>1, <2>2, <2>3, <2>4, <2>5, <2>6, <2>7, <2>8, <2>9, <2>10, TcpCases DEF allVars, vars
<1> QED
  BY <1>1, <1>2, TcpInvariance, PTL DEF TcpSpec

\* What a command that leaves the pool leaves in it.
LEMMA DelKeeps ==
  ASSUME NEW pool \in Seq(Command), NEW tag, NEW x \in Range(pool),
         x.tag # tag \/ x # CmdPoolGet(pool, tag)
  PROVE  x \in Range(CmdPoolDel(pool, tag))
<1>1. CASE tag \notin PoolTags(pool)
  BY <1>1, CmdPoolDelProperties
<1>2. CASE tag \in PoolTags(pool)
  <2> DEFINE d == CmdPoolDel(pool, tag)
             i == Place(pool, tag)
  <2>1. /\ i \in 1 .. Len(pool) /\ pool[i] = CmdPoolGet(pool, tag) /\ pool[i].tag = tag
        /\ d \in Seq(Command)
        /\ \A j \in 1 .. i - 1 : j \in 1 .. Len(d) /\ d[j] = pool[j]
        /\ \A j \in i + 1 .. Len(pool) : j - 1 \in 1 .. Len(d) /\ d[j - 1] = pool[j]
    BY <1>2, DelPlaces
  <2>2. DOMAIN d = 1 .. Len(d) /\ DOMAIN pool = 1 .. Len(pool) /\ Len(pool) \in Nat
    BY <2>1, LenProperties
  <2> HIDE DEF d, i
  <2>3. PICK k \in 1 .. Len(pool) : x = pool[k]
    BY <2>2 DEF Range
  <2>4. k # i
    BY <2>1, <2>3
  <2>5. CASE k \in 1 .. i - 1
    BY <2>1, <2>2, <2>3, <2>5 DEF Range, d
  <2>6. CASE k \in i + 1 .. Len(pool)
    BY <2>1, <2>2, <2>3, <2>6 DEF Range, d
  <2> QED
    BY <2>1, <2>2, <2>3, <2>4, <2>5, <2>6
<1> QED
  BY <1>1, <1>2

\* Where a command of a socket comes from.
LEMMA Gained ==
  ASSUME IInv, TableOK(slot), [TcpNext]_allVars, NEW x, x.tag \in SocketTags,
         x \in Carried(at'), x \notin Carried(at)
  PROVE  \E cs \in Seq(Command) : Queues(cs) /\ x \in Range(cs)
<1>1. at.pool \in Seq(Command) /\ at.line \in Seq(Command)
  BY ChannelFields DEF IInv, TypeOK
<1>2. ASSUME NEW cs, NoSocket(cs) PROVE x \notin Range(cs)
  BY <1>2 DEF NoSocket, Range
<1>3. ASSUME NEW cs \in Seq(Command), Extends(cs) PROVE x \in Range(cs)
  <2>1. PICK h \in Seq(Command) : NoSocket(h) /\ at'.pool = h \o (at.pool \o cs)
    BY <1>3 DEF Extends
  <2> DEFINE pool == at.pool \o cs
  <2>2. pool \in Seq(Command) /\ Range(pool) = Range(at.pool) \cup Range(cs)
    BY <1>1, RangeConcat, ConcatProperties
  <2>3. at'.pool = h \o pool
    BY <2>1
  <2> HIDE DEF pool
  <2>5. Range(h \o pool) = Range(h) \cup Range(pool)
    BY <2>1, <2>2, RangeConcat
  <2>4. x \in Range(at'.pool) \cup Range(at.line)
    BY <1>3 DEF Extends
  <2> QED
    BY <1>2, <2>1, <2>2, <2>3, <2>4, <2>5 DEF Carried
<1>4. ASSUME NEW cs \in Seq(Command), Completes(cs) PROVE x \in Range(cs)
  <2>1. PICK tag : \/ at'.pool = CmdPoolDel(at.pool \o cs, tag)
                   \/ at'.pool = CmdPoolDel(CmdPoolDel(at.pool \o cs, "AT_QISEND"), tag)
    BY <1>4 DEF Completes
  <2> DEFINE pool == at.pool \o cs
  <2>2. pool \in Seq(Command) /\ Range(pool) = Range(at.pool) \cup Range(cs)
    BY <1>1, RangeConcat, ConcatProperties
  <2> DEFINE d == CmdPoolDel(pool, "AT_QISEND")
  <2>3. at'.pool = CmdPoolDel(pool, tag) \/ at'.pool = CmdPoolDel(d, tag)
    BY <2>1
  <2> HIDE DEF pool
  <2>4. d \in Seq(Command) /\ Range(d) \subseteq Range(pool)
    BY <2>2, CmdPoolDelProperties, DelTags
  <2> HIDE DEF d
  <2>6. Range(at'.pool) \subseteq Range(pool)
    BY <2>2, <2>3, <2>4, DelTags
  <2>5. Range(at'.line) \subseteq Range(at.line) \cup Range(at.pool) \cup Range(cs)
    BY <1>4 DEF Completes
  <2> QED
    BY <2>2, <2>5, <2>6 DEF Carried
<1>5. CASE Drops
  BY <1>1, <1>5, TailRange DEF Drops, Carried
<1>6. CASE Renews
  <2>1. x \notin Range(InitCmds)
    BY <1>2, OthersFacts
  <2> QED
    BY <1>6, <2>1 DEF Renews, Carried
<1> QED
  BY <1>3, <1>4, <1>5, <1>6, ChannelStep DEF Extends, Completes

\* What is queued of the sockets.
LEMMA QueuedAre ==
  ASSUME NEW cs, Queues(cs), NEW s
  PROVE  /\ Open(s) \in Range(cs) =>
              \E c \in Clients : /\ OnTCPOpen(c) /\ SockOf(slot, NOBODY) # None
                                 /\ s = SockOf(slot, NOBODY) /\ cs = <<Open(s)>>
         /\ Close(s) \in Range(cs) =>
              \/ \E c \in Clients : OnTCPClose(c) /\ s = SockOf(slot, c)
              \/ \E c \in Holders, alone \in BOOLEAN :
                   TCPClosed(c, alone) /\ s = SockOf(slot, c)
<1>1. /\ Open(s).tag = "AT_QIOPEN_1" /\ Close(s).tag = "AT_QICLOSE"
      /\ \A r : Close(r).tag = "AT_QICLOSE" /\ Open(r).tag = "AT_QIOPEN_1"
      /\ \A r : (Close(s) = Close(r) => s = r) /\ (Open(s) = Open(r) => s = r)
      /\ \A r : Range(<<Open(r)>>) = {Open(r)} /\ Range(<<Close(r)>>) = {Close(r)}
  <2>1. \A r : Open(r).val = r /\ Close(r).val = r
    BY QueuedFacts
  <2>2. \A x : Range(<<x>>) = {x}
    BY DEF Range
  <2> QED
    BY <2>1, <2>2, QueuedFacts
<1>2. CASE NoSocket(cs)
  <2>1. \A x \in Range(cs) : x.tag \notin SocketTags
    BY <1>2 DEF NoSocket, Range
  <2> QED
    BY <1>1, <2>1 DEF SocketTags
<1>3. ASSUME NEW c \in Clients, OnTCPOpen(c), SockOf(slot, NOBODY) # None,
             cs = <<Open(SockOf(slot, NOBODY))>>
      PROVE  /\ Open(s) \in Range(cs) =>
                  s = SockOf(slot, NOBODY) /\ cs = <<Open(s)>>
             /\ Close(s) \notin Range(cs)
  BY <1>1, <1>3
<1>4. ASSUME NEW c \in Clients, OnTCPClose(c), cs = <<Close(SockOf(slot, c))>>
      PROVE  Open(s) \notin Range(cs) /\ (Close(s) \in Range(cs) => s = SockOf(slot, c))
  BY <1>1, <1>4
<1>5. ASSUME NEW c \in Clients, NEW full \in BOOLEAN, cs = LengthAndData(SockOf(slot, c), full)
      PROVE  Open(s) \notin Range(cs) /\ Close(s) \notin Range(cs)
  <2>1. \A x \in Range(cs) : x.tag = "AT_QISEND" \/ x.tag = "AT_QISEND_DATA"
    BY <1>5 DEF LengthAndData, Length, Data, CmdText, Range
  <2> QED
    BY <1>1, <2>1
<1>6. ASSUME NEW c \in Holders, NEW alone \in BOOLEAN, cs = TCPClosedCmds(c, alone)
      PROVE  Open(s) \notin Range(cs) /\ (Close(s) \in Range(cs) => s = SockOf(slot, c))
  <2>1. \A x \in Range(cs) : x = Close(SockOf(slot, c))
    BY <1>6, ClosedCmdsAre DEF Range
  <2> QED
    BY <1>1, <2>1
<1> QED
  BY <1>2, <1>3, <1>4, <1>5, <1>6 DEF Queues

-----------------------------------------------------------------------------
(* The slots, and the AT+QICLOSE that are on their way.                    *)

\* A slot changes hands when a client takes it while it is free, when the connection
\* of its client is closed, or with a reset or the end of the agent.
LEMMA PidStep ==
  ASSUME TableOK(slot), [TcpNext]_allVars, NEW s \in Socks, slot'.pid[s] # slot.pid[s]
  PROVE  \/ /\ slot.pid[s] = NOBODY
            /\ \E c \in Clients : OnTCPOpen(c) /\ s = SockOf(slot, NOBODY) /\ s # None
         \/ /\ slot.pid[s] # NOBODY /\ slot'.pid[s] = NOBODY
            /\ \/ \E x \in Socks : /\ RxClosed(x) \/ (RxOpenFailed(x) /\ x = 0)
                                   /\ slot.pid[x] = slot.pid[s]
                                   /\ s = SockOf(slot, slot.pid[s])
               \/ RxTcpError /\ at.cur = "AT_QIOPEN_1" /\ "AT_QIOPEN_1" \in PoolTags(at.pool)
                    /\ Final(<<Close(s)>>)
               \/ /\ RxTcpOk /\ at.cur = "AT_QICLOSE"
                  /\ PidOf(Text("AT_QICLOSE")) = slot.pid[s]
         \/ TcpReset \/ TcpKilled
<1>1. None \notin Socks
  BY Numbers DEF None
<1>2. ASSUME NEW c \in Holders, NEW alone, TCPClosed(c, alone)
      PROVE  c = slot.pid[s] /\ c # NOBODY /\ s = SockOf(slot, c) /\ slot'.pid[s] = NOBODY
  <2>1. s = SockOf(slot, c) /\ slot'.pid[s] = NOBODY
    BY <1>2, ClosedSlot
  <2>2. slot.pid[s] = c
    BY <1>1, <2>1, SockOfFacts
  <2> QED
    BY <2>1, <2>2
<1>3. slot'.pid # slot.pid
  OBVIOUS
<1>4. ASSUME NEW c \in Clients, Library(c) PROVE FALSE
  <2>1. CASE slot' = Broken(slot, c)
    BY <1>3, <2>1, BrokenTable
  <2>2. CASE ~(slot' = Broken(slot, c))
    BY <1>3, <1>4, <2>2 DEF Library, TCPOpen, TCPOpenAgain, TCPClose, TCPSend, TCPSendData, TCPSendDataFails, Die
  <2> QED
    BY <2>1, <2>2
<1>5. ASSUME NEW c \in Clients, Requested(c)
      PROVE  OnTCPOpen(c) /\ s = SockOf(slot, NOBODY) /\ s # None /\ slot.pid[s] = NOBODY
  <2> DEFINE f == SockOf(slot, NOBODY)
  <2>1. f # None => f \in Socks /\ slot.pid[f] = NOBODY
    BY SockOfFacts
  <2>2. CASE OnTCPOpen(c) /\ f # None
    <3>1. slot' = Taken(slot, f, c)
      BY <2>2 DEF OnTCPOpen, BuildSockInfo
    <3> HIDE DEF f
    <3>2. slot'.pid = [slot.pid EXCEPT ![f] = c]
      BY <2>1, <2>2, <3>1, TakenTable
    <3>3. s = f
      BY <3>2
    <3> QED
      BY <1>1, <2>1, <2>2, <3>3 DEF f
  <2>3. CASE OnTCPOpenFails(c)
    <3>1. f # None /\ slot' = [slot EXCEPT !.fd[f] = -1]
      BY <2>3 DEF OnTCPOpenFails
    <3> HIDE DEF f
    <3>2. slot'.pid = slot.pid
      BY <2>1, <3>1, ForgottenTable
    <3> QED
      BY <1>3, <3>2
  <2>4. CASE OnTCPOpen(c) /\ f = None
    BY <1>3, <2>4 DEF OnTCPOpen
  <2>5. CASE OnTCPClose(c) \/ OnTCPSend(c)
    BY <1>3, <2>5 DEF OnTCPClose, OnTCPSend
  <2> QED
    BY <1>5, <2>2, <2>3, <2>4, <2>5 DEF Requested
<1>6. ASSUME NEW x \in Socks, Reported(x)
      PROVE  /\ RxClosed(x) \/ (RxOpenFailed(x) /\ x = 0)
             /\ slot.pid[x] = slot.pid[s] /\ s = SockOf(slot, slot.pid[s])
             /\ slot.pid[s] # NOBODY /\ slot'.pid[s] = NOBODY
  <2>1. CASE RxOpened(x) \/ (RxOpenFailed(x) /\ x # 0)
    BY <1>3, <2>1 DEF RxOpened, RxOpenFailed
  <2>2. CASE RxClosed(x) \/ (RxOpenFailed(x) /\ x = 0)
    <3>1. TCPClosed(PidOf(x), FALSE)
      BY <2>2 DEF RxClosed, LineClosed, RxOpenFailed
    <3>2. PidOf(x) = slot.pid[x]
      BY Numbers DEF PidOf, None
    <3> QED
      BY <1>2, <2>2, <3>1, <3>2, PidOfFacts
  <2> QED
    BY <1>6, <2>1, <2>2 DEF Reported
<1>7. CASE RxPdpDeact
  <2>1. TCPClosed(NOBODY, FALSE) /\ NOBODY \in Holders
    BY <1>7 DEF RxPdpDeact, LineClosed, Holders
  <2> QED
    BY <1>2, <2>1
<1>8. ASSUME NEW tag, NEW alone, Result(tag, alone)
      PROVE  LET c == PidOf(Text(tag))
             IN  /\ at.cur = tag /\ tag \in PoolTags(at.pool) /\ Final(TCPClosedCmds(c, alone))
                 /\ c = slot.pid[s] /\ c # NOBODY /\ s = SockOf(slot, c)
                 /\ slot'.pid[s] = NOBODY
  <2>1. at.cur = tag /\ tag \in PoolTags(at.pool)
    BY <1>3, <1>8 DEF Result
  <2>2. Final(TCPClosedCmds(PidOf(Text(tag)), alone)) /\ TCPClosed(PidOf(Text(tag)), alone)
    BY <1>8, <2>1 DEF Result
  <2> QED
    BY <1>2, <2>1, <2>2, PidOfFacts
<1>9. CASE RxTcpOk
  <2>1. Result("AT_QICLOSE", TRUE)
    BY <1>9 DEF RxTcpOk
  <2> QED
    BY <1>8, <1>9, <2>1
<1>10. CASE RxTcpError
  <2> DEFINE c == PidOf(Text("AT_QIOPEN_1"))
  <2>1. Result("AT_QIOPEN_1", FALSE)
    BY <1>10 DEF RxTcpError
  <2>2. /\ at.cur = "AT_QIOPEN_1" /\ "AT_QIOPEN_1" \in PoolTags(at.pool)
        /\ Final(TCPClosedCmds(c, FALSE))
        /\ c = slot.pid[s] /\ c # NOBODY /\ s = SockOf(slot, c) /\ slot'.pid[s] = NOBODY
    BY <1>8, <2>1
  <2> HIDE DEF c
  <2>3. TCPClosedCmds(c, FALSE) = <<Close(s)>>
    BY <2>2 DEF TCPClosedCmds
  <2> QED
    BY <1>10, <2>2, <2>3
<1>11. CASE \/ RxTcpPrompt \/ RxSendDone \/ RxTcpCmeError \/ RxEcho \/ TcpModemLoses
             \/ TcpStart \/ DispatchStep
  BY <1>3, <1>11 DEF RxTcpPrompt, RxSendDone, RxTcpCmeError, RxEcho, TcpModemLoses, TcpStart,
                     DispatchStep, tcpVars
<1> QED
  BY <1>3, <1>4, <1>5, <1>6, <1>7, <1>9, <1>10, <1>11, TcpCases DEF Ended, allVars, tcpVars

\* The history only grows, apart from the slots that are freed or taken.
LEMMA HistoryStep ==
  ASSUME TableOK(slot), [TcpNext]_allVars, ~TcpReset, ~TcpKilled
  PROVE  /\ inherited \subseteq inherited'
         /\ \A s \in closing : \/ s \in closing' \/ slot'.pid[s] = NOBODY
                               \/ s = SockOf(slot, NOBODY)
<1>1. CASE UNCHANGED histVars
  BY <1>1 DEF histVars
<1>2. CASE \E c \in Clients : Library(c)
  BY <1>1, <1>2 DEF Library, TCPOpen, TCPOpenAgain, TCPClose, TCPSend, TCPSendData, TCPSendDataFails, Die
<1>3. ASSUME NEW c \in Clients, Requested(c)
      PROVE  /\ inherited \subseteq inherited'
             /\ \A s \in closing : s \in closing' \/ s = SockOf(slot, NOBODY)
  <2>1. CASE OnTCPOpen(c)
    BY <2>1 DEF OnTCPOpen
  <2>2. CASE OnTCPClose(c)
    BY <2>2 DEF OnTCPClose
  <2>3. CASE OnTCPOpenFails(c) \/ OnTCPSend(c)
    BY <2>3 DEF OnTCPOpenFails, OnTCPSend, histVars
  <2> QED
    BY <1>3, <2>1, <2>2, <2>3 DEF Requested
<1>4. ASSUME NEW c, NEW alone, TCPClosed(c, alone)
      PROVE  \A s \in closing : s \in closing' \/ slot'.pid[s] = NOBODY
  BY <1>4 DEF TCPClosed
<1>5. CASE (\E s \in Socks : Reported(s)) \/ RxPdpDeact
  <2>1. inherited' = inherited
    <3>1. Report
      BY <1>5 DEF Reported, RxOpened, RxOpenFailed, RxClosed, RxPdpDeact
    <3> QED
      BY <3>1 DEF Report
  <2>2. closing' = closing \/ \E c : TCPClosed(c, FALSE)
    BY <1>5 DEF Reported, RxOpened, RxOpenFailed, RxClosed, RxPdpDeact, LineClosed
  <2> QED
    BY <1>4, <2>1, <2>2
<1>6. ASSUME NEW tag, NEW alone, Result(tag, alone)
      PROVE  /\ inherited \subseteq inherited'
             /\ \A s \in closing : s \in closing' \/ slot'.pid[s] = NOBODY
  <2>1. inherited' = inherited
    BY <1>6 DEF Result, Final
  <2>2. closing' = closing \/ \E c : TCPClosed(c, alone)
    BY <1>6 DEF Result
  <2> QED
    BY <1>4, <2>1, <2>2
<1>7. CASE RxTcpOk \/ RxTcpError
  BY <1>6, <1>7 DEF RxTcpOk, RxTcpError
<1>8. CASE \/ RxTcpPrompt \/ RxSendDone \/ RxTcpCmeError \/ RxEcho \/ TcpModemLoses
            \/ TcpStart \/ DispatchStep
  BY <1>1, <1>8 DEF RxTcpPrompt, RxSendDone, RxTcpCmeError, Final, RxEcho, TcpModemLoses,
                    TcpStart, DispatchStep, tcpVars, histVars
<1> QED
  BY <1>1, <1>2, <1>3, <1>5, <1>7, <1>8, TcpCases DEF Ended, allVars, tcpVars

\* An AT+QICLOSE on its way for a slot in use is one that its client has asked for, or
\* its predecessor.
ClosingKnown == \A s \in Used : Pending(s) => s \in closing \cup inherited

\* A command is pending if the pool or the modem holds it.
LEMMA PendingIsHeld ==
  ASSUME NEW s
  PROVE  Pending(s) <=> Close(s) \in Carried(at)
  BY DEF Pending, Carried

\* OnTCPClose notes whom it is for, and OnTCPOpen what it finds; TCPClosed frees the slot.
LEMMA ClosingStep ==
  ASSUME IInv, TableOK(slot), ClosingKnown, [TcpNext]_allVars
  PROVE  ClosingKnown'
<1> SUFFICES ASSUME NEW s \in Socks, slot'.pid[s] # NOBODY, Close(s) \in Carried(at')
             PROVE  s \in closing' \cup inherited'
  BY DEF ClosingKnown, Used, Pending, Carried
<1>1. None \notin Socks
  BY Numbers DEF None
<1>2. ~TcpReset /\ ~TcpKilled
  <2>1. ASSUME TcpReset PROVE slot'.pid[s] = NOBODY
    BY <2>1, ResetTable DEF TcpReset
  <2>2. ASSUME TcpKilled PROVE slot'.pid[s] = NOBODY
    BY <2>2 DEF TcpKilled, NoSlots
  <2> QED
    BY <2>1, <2>2
<1>3. CASE slot.pid[s] = NOBODY
  <2>1. PICK c \in Clients : OnTCPOpen(c) /\ s = SockOf(slot, NOBODY)
    BY <1>2, <1>3, PidStep
  <2>2. SockOf(slot, NOBODY) # None
    BY <1>1, <2>1
  <2>3. at' = SendCommands(at, <<Open(s)>>)
    BY <2>1, <2>2 DEF OnTCPOpen, Queue
  <2>4. CASE Pending(s)
    BY <2>1, <2>2, <2>4 DEF OnTCPOpen
  <2>5. CASE ~Pending(s)
    <3>1. Close(s) \notin Carried(at) /\ Close(s).tag \in SocketTags
      BY <2>5, PendingIsHeld, QueuedFacts DEF SocketTags
    <3>2. <<Open(s)>> \in Seq(Command) /\ Sound(at) /\ at \in Channel
      BY QueuedFacts DEF IInv, Sound
    <3>3. at.pool \o <<Open(s)>> \in Seq(Command) /\ Turns(at, at.pool \o <<Open(s)>>, at')
      BY <2>3, <3>2, SendCommandsEffect
    <3>4. Carried(at') = Range(at.pool \o <<Open(s)>>) \cup Range(at.line)
      BY <3>2, <3>3, TurnsHeld
    <3>5. Range(at.pool \o <<Open(s)>>) = Range(at.pool) \cup Range(<<Open(s)>>)
      <4>1. at.pool \in Seq(Command)
        BY <3>2, ChannelFields
      <4> DEFINE p == at.pool
      <4> DEFINE z == <<Open(s)>>
      <4> HIDE DEF p, z
      <4>2. Range(p \o z) = Range(p) \cup Range(z)
        BY <3>2, <4>1, RangeConcat DEF p, z
      <4> QED
        BY <4>2 DEF p, z
    <3>6. Close(s) \notin Range(<<Open(s)>>)
      <4>1. Close(s) # Open(s)
        BY QueuedFacts
      <4> QED
        BY <4>1 DEF Range
    <3> QED
      BY <3>1, <3>4, <3>5, <3>6 DEF Carried
  <2> QED
    BY <2>4, <2>5
<1>4. CASE slot.pid[s] # NOBODY
  <2>1. s # SockOf(slot, NOBODY)
    BY <1>1, <1>4, SockOfFacts
  <2>2. CASE Close(s) \in Carried(at)
    <3>1. s \in closing \cup inherited
      BY <1>4, <2>2, PendingIsHeld DEF ClosingKnown, Used
    <3> QED
      BY <1>2, <2>1, <3>1, HistoryStep
  <2>3. CASE Close(s) \notin Carried(at)
    <3>1. Close(s).tag \in SocketTags
      BY QueuedFacts DEF SocketTags
    <3>2. PICK cs \in Seq(Command) : Queues(cs) /\ Close(s) \in Range(cs)
      BY <2>3, <3>1, Gained
    <3>3. \/ \E c \in Clients : OnTCPClose(c) /\ s = SockOf(slot, c)
          \/ \E c \in Holders, alone \in BOOLEAN : TCPClosed(c, alone) /\ s = SockOf(slot, c)
      BY <3>2, QueuedAre
    <3>4. ASSUME NEW c \in Clients, OnTCPClose(c), s = SockOf(slot, c) PROVE s \in closing'
      BY <3>4 DEF OnTCPClose
    <3>5. ASSUME NEW c \in Holders, NEW alone, TCPClosed(c, alone), s = SockOf(slot, c)
          PROVE  FALSE
      BY <3>5, ClosedSlot
    <3> QED
      BY <3>3, <3>4, <3>5
  <2> QED
    BY <2>2, <2>3
<1> QED
  BY <1>3, <1>4

\* So the request to close is known in every reachable state.
LEMMA ClosingInvariance == TcpSpec => []ClosingKnown
<1>1. TcpInit => ClosingKnown
  BY DEF TcpInit, ClosingKnown, Used, NoSlots
<1>2. IInv /\ TableOK(slot) /\ ClosingKnown /\ [TcpNext]_allVars => ClosingKnown'
  BY ClosingStep
<1> QED
  BY <1>1, <1>2, TcpInvariance, TableInvariance, PTL DEF TcpSpec

-----------------------------------------------------------------------------
(* The slots are kept.                                                     *)

\* While the order has not slipped, the answer to a command of a socket reaches that
\* command, and the handler finds its socket in the pool.
LEMMA AnswerIsTheirs ==
  ASSUME IInv, Awaits(at), at.port, ~at.slipped, at.line # <<>>, at.cur \in SocketTags
  PROVE  /\ InFlight(at.pool, at.cur, Head(at.line))
         /\ Head(at.line) = CmdText(at.cur, Text(at.cur))
         /\ Head(at.line) \in Range(at.line)
<1>1. at.cur = Head(at.line).tag /\ at.line = <<Head(at.line)>> /\ Head(at.line) \in Command
  BY AnswerIsCurrent
<1>2. InFlight(at.pool, at.cur, Head(at.line))
  BY DEF Awaits
<1>3. Head(at.line) = [tag |-> Head(at.line).tag, val |-> Head(at.line).val]
  BY <1>1, CommandAssumption
<1>4. Head(at.line) = CmdText(at.cur, Text(at.cur))
  BY <1>1, <1>2, <1>3 DEF InFlight, Text, CmdText
<1> DEFINE h == Head(at.line)
<1> HIDE DEF h
<1>5. h \in Range(<<h>>)
  BY DEF Range
<1>6. Range(at.line) = Range(<<h>>)
  BY <1>1 DEF h
<1> QED
  BY <1>2, <1>4, <1>5, <1>6 DEF h

\* What frees the slot of a client, or gives it to another.
LEMMA SlotStep ==
  ASSUME IInv, TableOK(slot), Awaits(at), ClosingKnown, [TcpNext]_allVars, NEW s \in Used
  PROVE  \/ slot'.pid[s] = slot.pid[s]
         \/ ~run' \/ TcpReset \/ s \in closing
         \/ RxClosed(s) \/ RxOpenFailed(s) \/ RxTcpError
         \/ s \in inherited \/ at.slipped \/ Twice
<1> SUFFICES ASSUME slot'.pid[s] # slot.pid[s], run', ~TcpReset, ~RxTcpError, ~at.slipped
             PROVE  s \in closing \cup inherited \/ RxClosed(s) \/ RxOpenFailed(s) \/ Twice
  OBVIOUS
<1>1. s \in Socks /\ slot.pid[s] # NOBODY
  BY DEF Used
<1>2. ~TcpKilled
  BY DEF TcpKilled, Killed, Dead
<1>3. \/ \E x \in Socks : (RxClosed(x) \/ RxOpenFailed(x)) /\ slot.pid[x] = slot.pid[s]
      \/ RxTcpOk /\ at.cur = "AT_QICLOSE" /\ PidOf(Text("AT_QICLOSE")) = slot.pid[s]
  BY <1>1, <1>2, PidStep
<1>4. ASSUME NEW x \in Socks, RxClosed(x) \/ RxOpenFailed(x), slot.pid[x] = slot.pid[s]
      PROVE  RxClosed(s) \/ RxOpenFailed(s) \/ Twice
  BY <1>1, <1>4 DEF Twice
<1>5. ASSUME RxTcpOk, at.cur = "AT_QICLOSE", PidOf(Text("AT_QICLOSE")) = slot.pid[s]
      PROVE  s \in closing \cup inherited \/ Twice
  <2> DEFINE v == Text("AT_QICLOSE")
  <2>1. at.port /\ at.line # <<>> /\ Head(at.line) # Close(None)
    BY <1>5 DEF RxTcpOk, Result, Final, RxFinal, Reading
  <2>2. Head(at.line) = Close(v) /\ Close(v) \in Range(at.line)
    <3>1. at.cur \in SocketTags
      BY <1>5 DEF SocketTags
    <3>2. Head(at.line) = CmdText(at.cur, Text(at.cur)) /\ Head(at.line) \in Range(at.line)
      BY <2>1, <3>1, AnswerIsTheirs
    <3> QED
      BY <1>5, <3>2 DEF Close
  <2> HIDE DEF v
  <2>3. v # None
    BY <2>1, <2>2
  <2>4. v \in Socks /\ slot.pid[v] = slot.pid[s]
    BY <1>1, <1>5, <2>3 DEF v, PidOf
  <2>5. CASE v = s
    BY <2>2, <2>5 DEF ClosingKnown, Pending
  <2>6. CASE v # s
    BY <1>1, <2>4, <2>6 DEF Twice
  <2> QED
    BY <2>5, <2>6
<1> QED
  BY <1>3, <1>4, <1>5

\* A client keeps its slot until its connection ends or cannot be opened, it has asked
\* to close it, or the modem is reset; what else takes it away is an AT+QICLOSE for its
\* predecessor, a result taken for another's, or its own second slot.
THEOREM SlotsAreKept == TcpSpec => SlotKept
<1>1. IInv /\ TableOK(slot) /\ Awaits(at) /\ ClosingKnown /\ [TcpNext]_allVars
      => [\A s \in Used :
            slot'.pid[s] = slot.pid[s]
              \/ ~run' \/ TcpReset \/ s \in closing
              \/ RxClosed(s) \/ RxOpenFailed(s) \/ RxTcpError
              \/ s \in inherited \/ at.slipped \/ Twice]_allVars
  BY SlotStep
<1> QED
  BY <1>1, TcpInvariance, TableInvariance, AwaitsInvariance, ClosingInvariance, PTL
     DEF TcpSpec, SlotKept

-----------------------------------------------------------------------------
(* A socket that is in use will be closed.                                 *)

\* No a comes before a b.
NotBehind(p, a, b) == \A i, j \in DOMAIN p : p[i] = a /\ p[j] = b => j < i

\* Commands that are put behind a sequence, or before it, keep the order.
LEMMA NotBehindTail ==
  ASSUME NEW p \in Seq(Command), NEW q \in Seq(Command), NEW a, NEW b,
         NotBehind(p, a, b), b \notin Range(q)
  PROVE  NotBehind(p \o q, a, b)
<1> DEFINE r == p \o q
           m == Len(p)
           n == Len(q)
<1>1. /\ m \in Nat /\ n \in Nat /\ DOMAIN p = 1 .. m /\ DOMAIN q = 1 .. n
      /\ DOMAIN r = 1 .. m + n
      /\ \A k \in 1 .. m : r[k] = p[k]
      /\ \A k \in m + 1 .. m + n : r[k] = q[k - m]
  BY LenProperties, ConcatProperties
<1> HIDE DEF r, m, n
<1>2. ASSUME NEW i \in 1 .. m + n, NEW j \in 1 .. m + n, r[i] = a, r[j] = b PROVE j < i
  <2>1. j \in 1 .. m
    <3>1. ASSUME j \in m + 1 .. m + n PROVE FALSE
      <4>1. j - m \in 1 .. n /\ q[j - m] = b
        BY <1>1, <1>2, <3>1
      <4> QED
        BY <1>1, <4>1 DEF Range
    <3> QED
      BY <1>1, <3>1
  <2>2. CASE i \in 1 .. m
    BY <1>1, <1>2, <2>1, <2>2 DEF NotBehind
  <2>3. CASE i \in m + 1 .. m + n
    BY <1>1, <2>1, <2>3
  <2> QED
    BY <1>1, <2>2, <2>3
<1> QED
  BY <1>1, <1>2 DEF NotBehind, r

\* What is put before the sequence has only to be none of the first kind.
LEMMA NotBehindHead ==
  ASSUME NEW h \in Seq(Command), NEW p \in Seq(Command), NEW a, NEW b,
         NotBehind(p, a, b), a \notin Range(h)
  PROVE  NotBehind(h \o p, a, b)
<1> DEFINE r == h \o p
           m == Len(h)
           n == Len(p)
<1>1. /\ m \in Nat /\ n \in Nat /\ DOMAIN h = 1 .. m /\ DOMAIN p = 1 .. n
      /\ DOMAIN r = 1 .. m + n
      /\ \A k \in 1 .. m : r[k] = h[k]
      /\ \A k \in m + 1 .. m + n : r[k] = p[k - m]
  BY LenProperties, ConcatProperties
<1> HIDE DEF r, m, n
<1>2. ASSUME NEW i \in 1 .. m + n, NEW j \in 1 .. m + n, r[i] = a, r[j] = b PROVE j < i
  <2>1. i \in m + 1 .. m + n
    <3>1. ASSUME i \in 1 .. m PROVE FALSE
      BY <1>1, <1>2, <3>1 DEF Range
    <3> QED
      BY <1>1, <3>1
  <2>2. CASE j \in 1 .. m
    BY <1>1, <2>1, <2>2
  <2>3. CASE j \in m + 1 .. m + n
    <3>1. i - m \in 1 .. n /\ j - m \in 1 .. n /\ p[i - m] = a /\ p[j - m] = b
      BY <1>1, <1>2, <2>1, <2>3
    <3>2. j - m < i - m
      BY <1>1, <3>1 DEF NotBehind
    <3> QED
      BY <1>1, <2>1, <2>3, <3>2
  <2> QED
    BY <1>1, <2>2, <2>3
<1> QED
  BY <1>1, <1>2 DEF NotBehind, r

\* So does a command that leaves.
LEMMA NotBehindDel ==
  ASSUME NEW pool \in Seq(Command), NEW tag, NEW a, NEW b, NotBehind(pool, a, b)
  PROVE  NotBehind(CmdPoolDel(pool, tag), a, b)
<1>1. CASE tag \notin PoolTags(pool)
  BY <1>1, CmdPoolDelProperties
<1>2. CASE tag \in PoolTags(pool)
  <2> DEFINE d == CmdPoolDel(pool, tag)
             i == Place(pool, tag)
             n == Len(pool)
  <2>1. /\ n \in Nat /\ i \in 1 .. n /\ d \in Seq(Command) /\ Len(d) = n - 1
        /\ \A j \in 1 .. Len(d) : \/ j < i /\ d[j] = pool[j]
                                  \/ j >= i /\ j + 1 \in 1 .. n /\ d[j] = pool[j + 1]
    BY <1>2, DelPlaces, LenProperties
  <2>2. DOMAIN pool = 1 .. n /\ DOMAIN d = 1 .. n - 1
    BY <2>1, LenProperties
  <2> HIDE DEF d, i, n
  <2>3. ASSUME NEW k \in 1 .. n - 1, NEW j \in 1 .. n - 1, d[k] = a, d[j] = b PROVE j < k
    <3>1. k \in 1 .. n /\ j \in 1 .. n /\ k + 1 \in 1 .. n /\ j + 1 \in 1 .. n
      BY <2>1
    <3>2. \/ k < i /\ pool[k] = a
          \/ k >= i /\ pool[k + 1] = a
      BY <2>1, <2>3
    <3>3. \/ j < i /\ pool[j] = b
          \/ j >= i /\ pool[j + 1] = b
      BY <2>1, <2>3
    <3>4. CASE pool[k] = a /\ pool[j] = b
      BY <2>2, <3>1, <3>4 DEF NotBehind
    <3>5. CASE k >= i /\ pool[k + 1] = a /\ j < i
      BY <2>1, <3>1, <3>5
    <3>6. CASE k < i /\ pool[k] = a /\ pool[j + 1] = b
      <4>1. j + 1 < k
        BY <2>2, <3>1, <3>6 DEF NotBehind
      <4> QED
        BY <4>1, <3>1
    <3>7. CASE pool[k + 1] = a /\ pool[j + 1] = b
      <4>1. j + 1 < k + 1
        BY <2>2, <3>1, <3>7 DEF NotBehind
      <4> QED
        BY <4>1, <3>1
    <3> QED
      BY <3>2, <3>3, <3>4, <3>5, <3>6, <3>7
  <2> QED
    BY <2>2, <2>3 DEF NotBehind, d
<1> QED
  BY <1>1, <1>2

\* Unless an AT+QICLOSE is inherited, none waits before the AT+QIOPEN of its socket, or
\* has been sent before it.
OpenFirst ==
  inherited = {} => \A s \in Socks :
    /\ NotBehind(at.pool, Close(s), Open(s))
    /\ Close(s) \in Range(at.line) => Open(s) \notin Range(at.pool)

\* The commands that are queued come in that order, and keep it.
LEMMA QueuedInOrder ==
  ASSUME IInv, NEW s \in Socks, NotBehind(at.pool, Close(s), Open(s)),
         NEW cs \in Seq(Command), Queues(cs), inherited' = {}
  PROVE  NotBehind(at.pool \o cs, Close(s), Open(s))
<1>1. at.pool \in Seq(Command)
  BY ChannelFields DEF IInv, TypeOK
<1> DEFINE p == at.pool
           a == Close(s)
           b == Open(s)
<1>2. CASE b \notin Range(cs)
  <2> HIDE DEF p, a, b
  <2>1. p \in Seq(Command) /\ NotBehind(p, a, b)
    BY <1>1 DEF p, a, b
  <2>2. NotBehind(p \o cs, a, b)
    BY <1>2, <2>1, NotBehindTail
  <2> QED
    BY <2>2 DEF p, a, b
<1>3. CASE b \in Range(cs)
  <2>1. PICK c \in Clients : OnTCPOpen(c) /\ SockOf(slot, NOBODY) # None
                             /\ s = SockOf(slot, NOBODY) /\ cs = <<Open(s)>>
    BY <1>3, QueuedAre
  <2>2. ~Pending(s)
    BY <2>1 DEF OnTCPOpen
  <2>3. a \notin Range(p) /\ a # b
    BY <2>2, QueuedFacts DEF Pending
  <2> HIDE DEF p, a, b
  <2>4. p \in Seq(Command)
    BY <1>1 DEF p
  <2>5. Range(p \o cs) = Range(p) \cup Range(cs)
    BY <2>4, RangeConcat
  <2>6. Range(cs) = {b}
    BY <2>1 DEF Range, b
  <2>7. a \notin Range(p \o cs)
    BY <2>3, <2>5, <2>6
  <2>8. NotBehind(p \o cs, a, b)
    BY <2>7 DEF NotBehind, Range
  <2> QED
    BY <2>8 DEF p, a, b
<1> QED
  BY <1>2, <1>3

\* What is sent of the pool comes from its head, where AT+QICLOSE stands only if there
\* is no AT+QIOPEN.
LEMMA SentInOrder ==
  ASSUME IInv, NEW s \in Socks, NotBehind(at.pool, Close(s), Open(s)),
         Close(s) \in Range(at.line) => Open(s) \notin Range(at.pool),
         NEW cs \in Seq(Command), Queues(cs), inherited' = {},
         SendsHead(at.line, at.pool \o cs, at'.line) \/ SendsHead(at.line, <<>>, at'.line),
         Close(s) \in Range(at'.line)
  PROVE  Open(s) \notin Range(at.pool \o cs)
<1> DEFINE a == Close(s)
           b == Open(s)
           p == at.pool \o cs
<1>1. at.pool \in Seq(Command) /\ p \in Seq(Command)
  BY ChannelFields, ConcatProperties DEF IInv, TypeOK
<1>2. a.tag = "AT_QICLOSE" /\ a # b
  BY QueuedFacts
<1>3. a \in Range(at.line) \/ (p # <<>> /\ a = Head(p))
  BY <1>2 DEF SendsHead
<1>4. CASE a \in Range(at.line)
  <2>1. b \notin Range(cs)
    <3> SUFFICES ASSUME b \in Range(cs) PROVE FALSE
      OBVIOUS
    <3>1. PICK c \in Clients : OnTCPOpen(c) /\ SockOf(slot, NOBODY) # None
                               /\ s = SockOf(slot, NOBODY)
      BY QueuedAre
    <3>2. ~Pending(s)
      BY <3>1 DEF OnTCPOpen
    <3> QED
      BY <1>4, <3>2 DEF Pending
  <2> DEFINE l == at.pool
  <2> HIDE DEF l
  <2>2. Range(l \o cs) = Range(l) \cup Range(cs)
    BY <1>1, RangeConcat DEF l
  <2> QED
    BY <1>4, <2>1, <2>2 DEF l
<1>5. CASE p # <<>> /\ a = Head(p)
  <2>1. NotBehind(p, a, b)
    BY QueuedInOrder
  <2> HIDE DEF p, a, b
  <2>2. a = p[1] /\ DOMAIN p = 1 .. Len(p) /\ Len(p) \in Nat \ {0}
    BY <1>1, <1>5, HeadTailProperties, LenProperties
  <2>3. ASSUME NEW j \in DOMAIN p, p[j] = b PROVE FALSE
    <3>1. j < 1
      BY <2>1, <2>2, <2>3 DEF NotBehind
    <3> QED
      BY <2>2, <3>1
  <2> QED
    BY <2>3 DEF Range, p, b
<1> QED
  BY <1>3, <1>4, <1>5

\* No step turns them round, OnTCPOpen included: it would inherit the AT+QICLOSE.
LEMMA OpenFirstStep ==
  ASSUME IInv, TableOK(slot), OpenFirst, [TcpNext]_allVars
  PROVE  OpenFirst'
<1> SUFFICES ASSUME inherited' = {}, NEW s \in Socks
             PROVE  /\ NotBehind(at'.pool, Close(s), Open(s))
                    /\ Close(s) \in Range(at'.line) => Open(s) \notin Range(at'.pool)
  BY DEF OpenFirst
<1> DEFINE a == Close(s)
           b == Open(s)
<1>0. /\ at.pool \in Seq(Command) /\ a.tag \in SocketTags /\ b.tag \in SocketTags
      /\ \A h : NoSocket(h) => a \notin Range(h) /\ b \notin Range(h)
  BY ChannelFields, QueuedFacts DEF IInv, TypeOK, SocketTags, NoSocket, Range
<1>1. CASE TcpReset \/ TcpKilled \/ TcpStart
  <2>1. at'.pool = InitCmds \/ at'.pool = <<>>
    BY <1>1, AgentRenews DEF Renews
  <2>2. NoSocket(InitCmds) /\ NoSocket(<<>>)
    BY OthersFacts
  <2>3. a \notin Range(at'.pool) /\ b \notin Range(at'.pool)
    BY <1>0, <2>1, <2>2
  <2> QED
    BY <2>3 DEF NotBehind, Range
<1>2. CASE ~TcpReset /\ ~TcpKilled /\ ~TcpStart
  <2>1. inherited = {}
    BY <1>2, HistoryStep
  <2>2. NotBehind(at.pool, a, b) /\ (a \in Range(at.line) => b \notin Range(at.pool))
    BY <2>1 DEF OpenFirst
  <2>3. ASSUME NEW cs \in Seq(Command), Queues(cs)
        PROVE  /\ at.pool \o cs \in Seq(Command)
               /\ NotBehind(at.pool \o cs, a, b)
    BY <1>0, <2>2, <2>3, QueuedInOrder, ConcatProperties
  <2> DEFINE Sorted == NotBehind(at'.pool, a, b)
             Sent1 == a \in Range(at'.line) => b \notin Range(at'.pool)
  <2>4. ASSUME NEW cs \in Seq(Command), Extends(cs) PROVE Sorted /\ Sent1
    <3> DEFINE q == at.pool \o cs
    <3>1. PICK h \in Seq(Command) : NoSocket(h) /\ at'.pool = h \o q
      BY <2>4 DEF Extends
    <3>2. q \in Seq(Command) /\ NotBehind(q, a, b)
      BY <2>3, <2>4 DEF Extends
    <3>3. a \notin Range(h) /\ b \notin Range(h)
      BY <1>0, <3>1
    <3>4. a \in Range(at'.line) => b \notin Range(q)
      BY <2>2, <2>4, SentInOrder DEF Extends
    <3> HIDE DEF q, a, b
    <3>5. Range(h \o q) = Range(h) \cup Range(q)
      BY <3>2, RangeConcat
    <3> QED
      BY <3>1, <3>2, <3>3, <3>4, <3>5, NotBehindHead
  <2>5. ASSUME NEW cs \in Seq(Command), Completes(cs) PROVE Sorted /\ Sent1
    <3> DEFINE q == at.pool \o cs
               d == CmdPoolDel(q, "AT_QISEND")
    <3>1. PICK tag : at'.pool = CmdPoolDel(q, tag) \/ at'.pool = CmdPoolDel(d, tag)
      BY <2>5 DEF Completes
    <3>2. q \in Seq(Command) /\ NotBehind(q, a, b)
      BY <2>3, <2>5 DEF Completes
    <3>3. a \in Range(at'.line) => b \notin Range(q)
      BY <2>2, <2>5, SentInOrder DEF Completes
    <3> HIDE DEF q, a, b
    <3>4. d \in Seq(Command) /\ NotBehind(d, a, b) /\ Range(d) \subseteq Range(q)
      BY <3>2, NotBehindDel, CmdPoolDelProperties, DelTags
    <3> HIDE DEF d
    <3>5. Range(at'.pool) \subseteq Range(q)
      BY <3>1, <3>2, <3>4, DelTags
    <3> QED
      BY <3>1, <3>2, <3>3, <3>4, <3>5, NotBehindDel
  <2>6. CASE at' = at
    BY <2>2, <2>6
  <2>7. CASE Drops
    <3>1. at'.pool = at.pool /\ SendsHead(at.line, <<>>, at'.line)
      BY <2>7 DEF Drops
    <3>2. <<>> \in Seq(Command) /\ Queues(<<>>) /\ at.pool \o <<>> = at.pool
      BY <1>0, ConcatEmptySeq DEF Queues, NoSocket
    <3> QED
      BY <2>2, <3>1, <3>2, SentInOrder
  <2> QED
    BY <1>2, <2>4, <2>5, <2>6, <2>7, ChannelStep
<1> QED
  BY <1>1, <1>2

\* So AT+QIOPEN comes first in every reachable state.
LEMMA OpenFirstInvariance == TcpSpec => []OpenFirst
<1>1. TcpInit => OpenFirst
  <2> SUFFICES ASSUME TcpInit, NEW s \in Socks
               PROVE  /\ NotBehind(at.pool, Close(s), Open(s))
                      /\ Open(s) \notin Range(at.pool)
    BY DEF OpenFirst
  <2>1. PICK up \in Opened : at = InitChannel(<<>>, up)
    BY DEF TcpInit, Init
  <2>2. up \in BOOLEAN /\ <<>> \in Seq(Command)
    BY OpenedFacts
  <2>3. Anew(<<>>, at)
    BY <2>1, <2>2, StartEffect
  <2>4. /\ at.pool = InitCmds /\ NoSocket(InitCmds)
        /\ Close(s).tag \in SocketTags /\ Open(s).tag \in SocketTags
    BY <2>3, OthersFacts, QueuedFacts DEF Anew, SocketTags
  <2> QED
    BY <2>4 DEF NoSocket, NotBehind, Range
<1>2. IInv /\ TableOK(slot) /\ OpenFirst /\ [TcpNext]_allVars => OpenFirst'
  BY OpenFirstStep
<1> QED
  BY <1>1, <1>2, TcpInvariance, TableInvariance, PTL DEF TcpSpec

\* What the modem's sockets are.
Links == [Socks -> {"closed", "opening", "open", "ended"}]

\* A socket of the modem that is closed is opened only by its AT+QIOPEN.
LEMMA LinkStep ==
  ASSUME link \in Links, [TcpNext]_allVars
  PROVE  /\ link' \in Links
         /\ \A s \in Socks : link'[s] # "closed" =>
              \/ link[s] # "closed"
              \/ Answering("AT_QIOPEN_1") /\ Head(at.line).val = s
<1>1. CASE UNCHANGED link
  BY <1>1
<1>2. ASSUME Obey
      PROVE  /\ link' \in Links
             /\ \A s \in Socks : link'[s] # "closed" =>
                  \/ link[s] # "closed"
                  \/ Answering("AT_QIOPEN_1") /\ Head(at.line).val = s
  <2> DEFINE v == Head(at.line).val
  <2>1. \/ Answering("AT_QIOPEN_1") /\ link' = [link EXCEPT ![v] = "opening"]
        \/ link' = [link EXCEPT ![v] = "closed"]
        \/ link' = link
    BY <1>2 DEF Obey
  <2> HIDE DEF v
  <2>2. CASE Answering("AT_QIOPEN_1") /\ link' = [link EXCEPT ![v] = "opening"]
    BY <2>2 DEF Links, v
  <2>3. CASE link' = [link EXCEPT ![v] = "closed"]
    BY <2>3 DEF Links
  <2> QED
    BY <1>1, <2>1, <2>2, <2>3
<1>3. CASE \E s \in Socks : Reported(s)
  <2>1. PICK s \in Socks : Reported(s)
    BY <1>3
  <2>2. \/ link[s] # "closed" /\ link' = [link EXCEPT ![s] = "open"]
        \/ link[s] # "closed" /\ link' = [link EXCEPT ![s] = "ended"]
        \/ link' = [link EXCEPT ![s] = "closed"]
        \/ link' = link
    BY <2>1 DEF Reported, RxOpened, RxOpenFailed, RxClosed
  <2> QED
    BY <2>2 DEF Links
<1>4. CASE RxPdpDeact
  <2>1. link' = [s \in Socks |-> IF link[s] = "open" THEN "ended" ELSE link[s]]
    BY <1>4 DEF RxPdpDeact
  <2> QED
    BY <2>1 DEF Links
<1>5. CASE TcpReset
  <2>1. link' = [s \in Socks |-> "closed"]
    BY <1>5 DEF TcpReset
  <2> QED
    BY <2>1 DEF Links
<1>6. CASE \E c \in Clients : Library(c)
  BY <1>1, <1>6 DEF Library, TCPOpen, TCPOpenAgain, TCPClose, TCPSend, TCPSendData, TCPSendDataFails, Die, modemVars
<1>7. CASE \E c \in Clients : Requested(c)
  <2>1. \E c, kind : Take(c, kind)
    BY <1>7 DEF Requested, OnTCPOpen, OnTCPOpenFails, OnTCPClose, OnTCPSend
  <2> QED
    BY <1>1, <2>1 DEF Take, modemVars
<1>8. CASE RxTcpOk
  BY <1>2, <1>8 DEF RxTcpOk
<1>9. CASE TcpModemLoses
  BY <1>1, <1>2, <1>9 DEF TcpModemLoses
<1>10. CASE \/ RxTcpPrompt \/ RxSendDone \/ RxTcpError \/ RxTcpCmeError \/ RxEcho
             \/ TcpKilled \/ TcpStart \/ DispatchStep
  BY <1>1, <1>10 DEF RxTcpPrompt, RxSendDone, RxTcpError, RxTcpCmeError, Refused, RxEcho,
                     TcpKilled, TcpStart, DispatchStep, tcpVars, modemVars
<1> QED
  BY <1>1, <1>3, <1>4, <1>5, <1>6, <1>7, <1>8, <1>9, <1>10, TcpCases
     DEF Ended, allVars, tcpVars, modemVars

\* The states of the modem's sockets are these in every reachable state.
LEMMA LinkInvariance == TcpSpec => [](link \in Links)
<1>1. TcpInit => link \in Links
  <2> SUFFICES ASSUME TcpInit PROVE link \in Links
    OBVIOUS
  <2>1. link = [s \in Socks |-> "closed"]
    BY DEF TcpInit
  <2> QED
    BY <2>1 DEF Links
<1>2. link \in Links /\ [TcpNext]_allVars => (link \in Links)'
  BY LinkStep DEF Links
<1> QED
  BY <1>1, <1>2, PTL DEF TcpSpec

\* A final result after which the order has not slipped: it was the only one due, and the
\* current command's, unless what the handler queued has made data of length 0 at the
\* head of the pool the current command, with nothing to write.
LEMMA FinalQuiet ==
  ASSUME IInv, NEW cs \in Seq(Command), Final(cs), ~at'.slipped
  PROVE  /\ at.port /\ at.line # <<>> /\ Tail(at.line) = <<>> /\ at'.line = <<>>
         /\ \/ ~at.slipped /\ at'.pool = CmdPoolDel(at.pool \o cs, at.cur)
            \/ cs # <<>> /\ at'.pool = CmdPoolDel(at.pool \o cs, "AT_QISEND_DATA")
<1>1. PICK q : /\ Turns(Answered(at), at.pool \o cs, q) /\ Completed(q, at')
               /\ at.port /\ at.line # <<>>
               /\ at.timer # 0 \/ cs = <<>> =>
                    /\ q.cur = at.cur /\ q.line = Tail(at.line) /\ q.slipped = at.slipped
                    /\ at'.pool = CmdPoolDel(at.pool \o cs, at.cur)
  BY FinalEffect
<1>2. at \in Channel
  BY DEF IInv, TypeOK
<1> DEFINE a == Answered(at)
           h == Head(at.pool \o cs)
<1>3. /\ a.port = at.port /\ a.slipped = at.slipped
      /\ a.line \in Seq(Command) /\ a.line = Tail(at.line)
  BY <1>1, <1>2, AnsweredEffect
<1> HIDE DEF a, h
<1>4. q.port /\ ~q.slipped /\ q.line = <<>>
  BY <1>1, <1>3 DEF Completed, Turns, a
<1>5. CASE Dispatched(a, h, q)
  <2>1. a.line = <<>> /\ q.line = Written(a, h)
    BY <1>4, <1>5 DEF Dispatched
  <2>2. Len(a.line) = 0 /\ 0 < LineCap
    BY <2>1, TimerAssumption
  <2>3. Append(<<>>, h) # <<>>
    OBVIOUS
  <2>4. h \in Silent
    BY <1>1, <1>3, <1>4, <2>1, <2>2, <2>3 DEF Written
  <2>5. h.tag = "AT_QISEND_DATA"
    <3>1. Silent = {Data(s, FALSE) : s \in Socks \cup {None}}
      BY TcpAssumption
    <3>2. \E s : h = Data(s, FALSE)
      BY <2>4, <3>1
    <3> QED
      BY <3>2 DEF Data, CmdText
  <2>6. at'.pool = CmdPoolDel(at.pool \o cs, "AT_QISEND_DATA")
    <3>1. q.pool = at.pool \o cs
      BY <1>1 DEF Turns
    <3>2. q.cur = "AT_QISEND_DATA"
      BY <1>5, <2>5 DEF Dispatched
    <3> QED
      BY <1>1, <3>1, <3>2 DEF Completed
  <2>7. CASE cs = <<>>
    <3>1. ~at.slipped /\ at'.pool = CmdPoolDel(at.pool \o cs, at.cur)
      BY <1>1, <1>4, <2>7
    <3>2. at'.line = <<>>
      BY <1>1, <1>4 DEF Completed
    <3> QED
      BY <1>1, <1>3, <2>1, <3>1, <3>2
  <2>8. CASE cs # <<>>
    <3>1. at'.line = <<>>
      BY <1>1, <1>4 DEF Completed
    <3> QED
      BY <1>1, <1>3, <2>1, <2>6, <2>8, <3>1
  <2> QED
    BY <2>7, <2>8
<1>6. CASE ~Dispatched(a, h, q)
  <2>1. ~at.slipped /\ a.line = <<>>
    BY <1>1, <1>3, <1>4, <1>6 DEF Turns, a, h
  <2>2. at.timer # 0
    BY <1>1, <2>1, AnswerIsCurrent
  <2> QED
    BY <1>1, <1>3, <1>4, <2>1, <2>2 DEF Completed
<1> QED
  BY <1>5, <1>6

\* The same of what follows the data, which takes two commands out of the pool.
LEMMA SendDoneQuiet ==
  ASSUME IInv, RxSendDone, ~at'.slipped
  PROVE  /\ at.port /\ ~at.slipped /\ at.line # <<>> /\ at'.line = <<>>
         /\ at'.pool = CmdPoolDel(CmdPoolDel(at.pool, "AT_QISEND"), at.cur)
<1> DEFINE d == CmdPoolDel(at.pool, "AT_QISEND")
           q == [Answered(at) EXCEPT !.pool = d]
<1>1. at \in Channel /\ at.pool \in Seq(Command)
  BY ChannelFields DEF IInv, TypeOK
<1>2. at' = Complete(q) /\ at.line # <<>> /\ at.port
  BY <1>1, AnsweredEffect DEF RxSendDone, RxFinal, Reading
<1>3. d \in Seq(Command)
  BY <1>1, CmdPoolDelProperties
<1>4. /\ Answered(at) \in Channel /\ Answered(at).cur = at.cur
      /\ Answered(at).port = at.port /\ Answered(at).slipped = at.slipped
  BY <1>1, <1>2, AnsweredEffect
<1> HIDE DEF d
<1>5. q \in Channel /\ q.pool = d /\ q.cur = at.cur /\ q.port = at.port /\ q.slipped = at.slipped
  BY <1>3, <1>4 DEF Channel
<1> HIDE DEF q
<1>6. Completed(q, at')
  BY <1>2, <1>5, CompleteEffect
<1>7. ~q.slipped /\ q.line = <<>>
  BY <1>2, <1>5, <1>6 DEF Completed
<1> QED
  BY <1>2, <1>5, <1>6, <1>7 DEF Completed, d

\* An AT+QICLOSE that waits or is in flight is gone after an answer only if this was its own.
LEMMA ClosedByAnswer ==
  ASSUME IInv, Awaits(at), Ended, ~at'.slipped, ~(RxSendDone /\ at.cur = "AT_QICLOSE"),
         NEW s \in Socks, Close(s) \in Carried(at), Close(s) \notin Carried(at')
  PROVE  RxTcpOk /\ Head(at.line) = Close(s)
<1> DEFINE x == Close(s)
<1>1. at \in Channel /\ at.pool \in Seq(Command) /\ at.line \in Seq(Command)
  BY ChannelFields DEF IInv, TypeOK
<1>2. x.tag = "AT_QICLOSE" /\ x # Close(None) /\ x \in Carried(at) /\ x \notin Range(at'.pool)
  BY QueuedFacts, Numbers DEF Carried, None
<1>3. CASE RxSendDone
  <2> DEFINE d == CmdPoolDel(at.pool, "AT_QISEND")
  <2>1. /\ at.port /\ ~at.slipped /\ at.line # <<>>
        /\ at'.pool = CmdPoolDel(d, at.cur) /\ at.cur # "AT_QICLOSE"
    BY <1>3, SendDoneQuiet
  <2>2. d \in Seq(Command)
    BY <1>1, CmdPoolDelProperties
  <2> HIDE DEF x
  <2>3. x \notin Range(at.line)
    <3>1. at.line = <<Head(at.line)>> /\ at.cur = Head(at.line).tag
      BY <2>1, AnswerIsCurrent
    <3> DEFINE h == Head(at.line)
    <3> HIDE DEF h
    <3>2. Range(<<h>>) = {h}
      BY DEF Range
    <3>3. Range(at.line) = {h} /\ h.tag # "AT_QICLOSE"
      BY <2>1, <3>1, <3>2 DEF h
    <3> QED
      BY <1>2, <3>3
  <2>4. x \in Range(at.pool)
    BY <1>2, <2>3 DEF Carried
  <2>5. x \in Range(d)
    BY <1>1, <1>2, <2>4, DelKeeps
  <2> HIDE DEF d
  <2>6. x \in Range(at'.pool)
    BY <1>2, <2>1, <2>2, <2>5, DelKeeps
  <2> QED
    BY <1>2, <2>6
<1>4. ASSUME NEW cs \in Seq(Command), Final(cs)
      PROVE  Head(at.line) = Close(s) /\ at.line # <<>>
  <2> DEFINE p == at.pool \o cs
             h == Head(at.line)
  <2>1. /\ at.port /\ at.line # <<>> /\ Tail(at.line) = <<>>
        /\ \/ ~at.slipped /\ at'.pool = CmdPoolDel(p, at.cur)
           \/ at'.pool = CmdPoolDel(p, "AT_QISEND_DATA")
    BY <1>4, FinalQuiet
  <2>2. CASE x \in Range(at.line)
    <3> DEFINE l == at.line
    <3>1. l \in Seq(Command) /\ l # <<>> /\ Tail(l) = <<>> /\ x \in Range(l)
      BY <1>1, <2>1, <2>2
    <3> HIDE DEF l, x
    <3>2. x = Head(l)
      <4>1. Range(<<>>) = {}
        BY DEF Range
      <4> QED
        BY <3>1, <4>1, TailRange
    <3> QED
      BY <3>1, <3>2 DEF l, x
  <2>3. CASE x \in Range(at.pool)
    <3>1. p \in Seq(Command) /\ Range(p) = Range(at.pool) \cup Range(cs)
      BY <1>1, RangeConcat, ConcatProperties
    <3> HIDE DEF p, x
    <3>2. x \in Range(p)
      BY <2>3, <3>1
    <3>3. ~at.slipped /\ at.cur = "AT_QICLOSE" /\ x = CmdPoolGet(p, at.cur)
      BY <1>2, <2>1, <3>1, <3>2, DelKeeps
    <3>4. InFlight(at.pool, at.cur, Head(at.line))
      <4>1. at.cur \in SocketTags
        BY <3>3 DEF SocketTags
      <4> QED
        BY <2>1, <3>3, <4>1, AnswerIsTheirs
    <3>5. InFlight(p, at.cur, Head(at.line))
      BY <1>1, <3>4, FlightTail DEF p
    <3> QED
      BY <2>1, <3>3, <3>5 DEF InFlight, x
  <2> QED
    BY <1>2, <2>2, <2>3 DEF Carried
<1>5. ASSUME NEW cs \in ResultRuns, Final(cs)
      PROVE  Head(at.line) = Close(s) /\ at.line # <<>>
  <2>1. cs \in Seq(Command)
    BY RunsAssumption
  <2> QED
    BY <1>4, <1>5, <2>1
<1>6. CASE RxTcpOk
  BY <1>5, <1>6, ResultCmds DEF RxTcpOk
<1>7. CASE RxTcpError \/ RxTcpCmeError
  <2>1. \E cs \in ResultRuns : Final(cs)
    BY <1>7, ResultCmds, NoCmds DEF RxTcpError, RxTcpCmeError
  <2>2. Head(at.line) = x /\ at.line # <<>>
    BY <1>5, <2>1
  <2>3. Answering("AT_QICLOSE") /\ Head(at.line) # Close(None)
    BY <1>2, <2>2 DEF Answering
  <2> QED
    BY <1>7, <2>3 DEF RxTcpError, RxTcpCmeError, Refused
<1> QED
  BY <1>3, <1>6, <1>7 DEF Ended

\* An AT+QIOPEN is queued only by the request that takes the slot.
LEMMA NotOpened ==
  ASSUME IInv, TableOK(slot), [TcpNext]_allVars,
         NEW s \in Socks, slot'.pid[s] = NOBODY, Open(s) \in Carried(at')
  PROVE  Open(s) \in Carried(at)
<1> SUFFICES ASSUME Open(s) \notin Carried(at) PROVE FALSE
  OBVIOUS
<1>1. Open(s).tag \in SocketTags
  BY QueuedFacts DEF SocketTags
<1>2. PICK cs \in Seq(Command) : Queues(cs) /\ Open(s) \in Range(cs)
  BY <1>1, Gained
<1>3. PICK c \in Clients : OnTCPOpen(c) /\ SockOf(slot, NOBODY) # None /\ s = SockOf(slot, NOBODY)
  BY <1>2, QueuedAre
<1>4. slot' = Taken(slot, s, c) /\ slot.pid[s] = NOBODY
  BY <1>3, SockOfFacts DEF OnTCPOpen, BuildSockInfo
<1>5. slot'.pid = [slot.pid EXCEPT ![s] = c]
  BY <1>4, TakenTable
<1>6. slot'.pid[s] = c
  BY <1>5 DEF TableOK, Tables
<1> QED
  BY <1>6, Numbers

\* With the answer to its AT+QICLOSE the modem's socket is closed, and nothing waits that
\* would open it.
LEMMA ClosedAtLast ==
  ASSUME IInv, TableOK(slot), OpenFirst, inherited = {}, link \in Links,
         [TcpNext]_allVars, NEW s \in Socks, slot'.pid[s] = NOBODY,
         RxTcpOk, ~at'.slipped, Head(at.line) = Close(s)
  PROVE  link'[s] = "closed" /\ Open(s) \notin Carried(at')
<1> DEFINE a == Close(s)
           b == Open(s)
           l == at.line
<1>1. l \in Seq(Command)
  BY ChannelFields DEF IInv, TypeOK
<1>2. /\ Close(s).tag = "AT_QICLOSE" /\ Close(s).val = s
      /\ b.tag = "AT_QIOPEN_1" /\ a # b
  BY QueuedFacts
<1>3. l # <<>> /\ Tail(l) = <<>>
  <2>1. \E cs \in ResultRuns : Final(cs)
    BY ResultCmds DEF RxTcpOk
  <2>2. ResultRuns \subseteq Seq(Command)
    BY RunsAssumption
  <2> QED
    BY <2>1, <2>2, FinalQuiet
<1>4. link'[s] = "closed"
  <2>1. /\ Answering("AT_QICLOSE") /\ ~Answering("AT_QIOPEN_1")
        /\ Head(at.line).val = s /\ Obey
    BY <1>2, <1>3 DEF RxTcpOk, Answering
  <2>2. link' = [link EXCEPT ![s] = "closed"]
    BY <2>1 DEF Obey
  <2> QED
    BY <2>2 DEF Links
<1>5. a \in Range(l) /\ b \notin Range(l)
  <2>1. Head(l) = a
    OBVIOUS
  <2> HIDE DEF l, a, b
  <2>2. Range(<<>>) = {}
    BY DEF Range
  <2> QED
    BY <1>1, <1>2, <1>3, <2>1, <2>2, TailRange
<1>6. b \notin Range(at.pool)
  BY <1>5 DEF OpenFirst
<1>7. ASSUME b \in Carried(at') PROVE FALSE
  <2>1. b \in Carried(at)
    BY <1>7, NotOpened
  <2> QED
    BY <1>5, <1>6, <2>1 DEF Carried
<1> QED
  BY <1>4, <1>7

\* A client whose connection has ended loses its slot, and AT+QICLOSE is queued.
LEMMA EndIsClosed ==
  ASSUME IInv, TableOK(slot), NEW x \in Socks, RxClosed(x) \/ (RxOpenFailed(x) /\ x = 0),
         NEW s, slot.pid[x] # NOBODY, s = SockOf(slot, slot.pid[x])
  PROVE  Close(s) \in Carried(at')
<1> DEFINE c == slot.pid[x]
           cs == TCPClosedCmds(c, FALSE)
<1>1. at \in Channel /\ at.pool \in Seq(Command) /\ at.line \in Seq(Command)
  BY ChannelFields DEF IInv, TypeOK
<1>2. PidOf(x) = c
  BY Numbers DEF PidOf, None
<1>3. cs \in Seq(Command) /\ cs = <<Close(s)>>
  BY ClosedCmdsAre
<1>4. \/ Queue(cs)
      \/ at' = SendCommand(SendCommands(at, cs), NewContext, TRUE)
  BY <1>2 DEF RxClosed, LineClosed, RxOpenFailed
<1> HIDE DEF c
<1>5. Close(s) \in Range(at.pool \o cs)
  <2> HIDE DEF cs
  <2> DEFINE p == at.pool
             z == Close(s)
  <2> HIDE DEF p, z
  <2>1. z \in Range(<<z>>)
    BY DEF Range
  <2>2. cs \in Seq(Command) /\ p \in Seq(Command)
    BY <1>1, <1>3 DEF p
  <2>3. Range(p \o cs) = Range(p) \cup Range(cs)
    BY <2>2, RangeConcat
  <2>4. cs = <<z>>
    BY <1>3 DEF z
  <2>5. z \in Range(p \o cs)
    BY <2>1, <2>3, <2>4
  <2> QED
    BY <2>5 DEF p, z
<1> HIDE DEF cs
<1>6. CASE Queue(cs)
  <2>1. at'.pool = at.pool \o cs
    BY <1>3, <1>6, QueueTurns DEF Turns
  <2> QED
    BY <1>5, <2>1 DEF Carried
<1>7. CASE at' = SendCommand(SendCommands(at, cs), NewContext, TRUE)
  <2> DEFINE p == at.pool \o cs
             n == <<NewContext>>
  <2>1. PICK q : Turns(q, n \o p, at') /\ p \in Seq(Command)
    BY <1>3, <1>7, ContextTurns
  <2>2. n \in Seq(Command)
    BY QueuedFacts
  <2>3. Close(s) \in Range(p)
    BY <1>5
  <2> HIDE DEF p, n
  <2>4. Close(s) \in Range(n \o p)
    BY <2>1, <2>2, <2>3, RangeConcat
  <2> QED
    BY <2>1, <2>4 DEF Turns, Carried
<1> QED
  BY <1>4, <1>6, <1>7

\* What leaves a socket of the modem behind.
LEMMA OwnedStep ==
  ASSUME IInv, TableOK(slot), Awaits(at), IdleIsEmpty, OpenFirst, link \in Links, Owned,
         [TcpNext]_allVars
  PROVE  \/ Owned' \/ ~run' \/ at'.slipped \/ ~at'.port \/ inherited # {} \/ Twice
         \/ (RxSendDone /\ at.cur = "AT_QICLOSE")
<1> SUFFICES ASSUME run', ~at'.slipped, at'.port, inherited = {}, ~Twice,
                    ~(RxSendDone /\ at.cur = "AT_QICLOSE"),
                    NEW s \in Socks, link'[s] # "closed" \/ Open(s) \in Carried(at'),
                    slot'.pid[s] = NOBODY
             PROVE  Close(s) \in Carried(at')
  BY DEF Owned, Used, Pending, Carried
<1>1. at \in Channel /\ at.pool \in Seq(Command) /\ at.line \in Seq(Command)
  BY ChannelFields DEF IInv, TypeOK
<1>2. ~TcpKilled
  BY DEF TcpKilled, Killed, Dead
<1>3. \A x \in Range(InitCmds) \cup Range(<<>>) : x.tag \notin SocketTags
  BY OthersFacts DEF NoSocket, Range
<1>4. Open(s).tag \in SocketTags /\ Close(s).tag \in SocketTags
  BY QueuedFacts DEF SocketTags
<1>5. ~TcpReset
  <2> SUFFICES ASSUME TcpReset PROVE FALSE
    OBVIOUS
  <2>1. link'[s] = "closed"
    BY DEF TcpReset
  <2>2. Carried(at') \subseteq Range(InitCmds) \cup Range(<<>>)
    BY AgentRenews DEF Renews
  <2> QED
    BY <1>3, <1>4, <2>1, <2>2
<1>6. link[s] # "closed" \/ Open(s) \in Carried(at)
  <2>1. CASE Open(s) \in Carried(at')
    BY <2>1, NotOpened
  <2>2. CASE Answering("AT_QIOPEN_1") /\ Head(at.line).val = s
    <3> DEFINE l == at.line
    <3>1. l \in Seq(Command) /\ l # <<>> /\ Head(l).tag = "AT_QIOPEN_1" /\ Head(l).val = s
      BY <1>1, <2>2 DEF Answering
    <3> HIDE DEF l
    <3>2. Head(l) \in Command /\ Head(l) \in Range(l)
      BY <3>1, TailRange
    <3>3. Head(l) = Open(s)
      BY <3>1, <3>2, CommandAssumption DEF Open, CmdText
    <3> QED
      BY <3>2, <3>3 DEF Carried, l
  <2> QED
    BY <2>1, <2>2, LinkStep
<1>7. ASSUME RxTcpOk, Head(at.line) = Close(s) PROVE FALSE
  BY <1>7, ClosedAtLast
<1>8. CASE slot.pid[s] # NOBODY
  <2>1. \/ \E x \in Socks : /\ RxClosed(x) \/ (RxOpenFailed(x) /\ x = 0)
                            /\ slot.pid[x] = slot.pid[s]
                            /\ s = SockOf(slot, slot.pid[s])
        \/ at.cur = "AT_QIOPEN_1" /\ Final(<<Close(s)>>)
        \/ RxTcpOk /\ at.cur = "AT_QICLOSE" /\ PidOf(Text("AT_QICLOSE")) = slot.pid[s]
    BY <1>2, <1>5, <1>8, PidStep
  <2>2. ASSUME NEW x \in Socks, RxClosed(x) \/ (RxOpenFailed(x) /\ x = 0),
               slot.pid[x] = slot.pid[s], s = SockOf(slot, slot.pid[s])
        PROVE  Close(s) \in Carried(at')
    BY <1>8, <2>2, EndIsClosed
  <2>3. CASE at.cur = "AT_QIOPEN_1" /\ Final(<<Close(s)>>)
    <3> DEFINE cs == <<Close(s)>>
               z == Close(s)
               p == at.pool \o cs
    <3>1. cs \in Seq(Command) /\ z.tag \notin {"AT_QIOPEN_1", "AT_QISEND_DATA"}
      BY QueuedFacts
    <3>2. PICK tag \in {"AT_QIOPEN_1", "AT_QISEND_DATA"} : at'.pool = CmdPoolDel(p, tag)
      BY <2>3, <3>1, FinalQuiet
    <3> HIDE DEF z, cs
    <3>3. p \in Seq(Command) /\ Range(p) = Range(at.pool) \cup Range(cs)
      BY <1>1, <3>1, RangeConcat, ConcatProperties
    <3> HIDE DEF p
    <3>4. z \in Range(p)
      <4>1. z \in Range(cs)
        BY DEF Range, cs, z
      <4> QED
        BY <3>3, <4>1
    <3>5. z \in Range(at'.pool)
      BY <3>1, <3>2, <3>3, <3>4, DelKeeps
    <3> QED
      BY <3>5 DEF Carried, z
  <2>4. CASE RxTcpOk /\ at.cur = "AT_QICLOSE" /\ PidOf(Text("AT_QICLOSE")) = slot.pid[s]
    <3> DEFINE v == Text("AT_QICLOSE")
    <3>1. at.port /\ ~at.slipped /\ at.line # <<>> /\ Head(at.line) # Close(None)
      <4>1. TCPClosedCmds(slot.pid[s], TRUE) = <<>>
        BY <1>8 DEF TCPClosedCmds
      <4>2. Result("AT_QICLOSE", TRUE)
        BY <2>4 DEF RxTcpOk
      <4>5. <<>> \in Seq(Command)
        OBVIOUS
      <4>3. TCPClosedCmds(PidOf(Text("AT_QICLOSE")), TRUE) = <<>>
        BY <2>4, <4>1
      <4>4. Final(<<>>)
        BY <4>2, <4>3, Zenon DEF Result
      <4> QED
        BY <2>4, <4>4, <4>5, FinalQuiet DEF RxTcpOk
    <3>2. Head(at.line) = Close(v)
      <4>1. at.cur \in SocketTags
        BY <2>4 DEF SocketTags
      <4>2. Head(at.line) = CmdText(at.cur, Text(at.cur))
        BY <3>1, <4>1, AnswerIsTheirs
      <4> QED
        BY <2>4, <4>2 DEF Close
    <3> HIDE DEF v
    <3>3. v # None
      BY <3>1, <3>2
    <3>4. v \in Socks /\ slot.pid[v] = slot.pid[s]
      BY <1>8, <2>4, <3>3 DEF v, PidOf
    <3>5. v = s
      BY <1>8, <3>4 DEF Twice
    <3> QED
      BY <1>7, <2>4, <3>2, <3>5
  <2> QED
    BY <2>1, <2>2, <2>3, <2>4
<1>9. CASE slot.pid[s] = NOBODY
  <2> SUFFICES ASSUME Close(s) \notin Carried(at') PROVE FALSE
    OBVIOUS
  <2>1. Close(s) \in Carried(at)
    BY <1>6, <1>9 DEF Owned, Used, Pending, Carried
  <2>2. CASE Ended
    BY <1>7, <2>1, <2>2, ClosedByAnswer
  <2>3. ASSUME NEW cs \in Seq(Command), Extends(cs) PROVE FALSE
    <3> DEFINE q == at.pool \o cs
    <3>1. PICK h \in Seq(Command) : at'.pool = h \o q
      BY <2>3 DEF Extends
    <3>2. q \in Seq(Command) /\ Range(q) = Range(at.pool) \cup Range(cs)
      BY <1>1, RangeConcat, ConcatProperties
    <3> HIDE DEF q
    <3>3. Range(h \o q) = Range(h) \cup Range(q)
      BY <3>2, RangeConcat
    <3>4. Carried(at') = Range(at'.pool) \cup Range(at.line)
      BY <2>3 DEF Extends
    <3> QED
      BY <2>1, <3>1, <3>2, <3>3, <3>4 DEF Carried
  <2>4. CASE Drops /\ (RxTcpPrompt \/ TcpModemLoses)
    <3> DEFINE l == at.line
               z == Close(s)
    <3>1. z \in Range(l) /\ z \notin Range(Tail(l)) /\ z \notin Range(at.pool)
          /\ l \in Seq(Command) /\ l # <<>>
      BY <1>1, <2>1, <2>4 DEF Drops, Carried
    <3>2. z.tag = "AT_QICLOSE"
      BY QueuedFacts
    <3> HIDE DEF l, z
    <3>3. Head(l) = z
      BY <3>1, TailRange
    <3>4. TcpModemLoses
      BY <2>4, <3>2, <3>3 DEF RxTcpPrompt, Answering, l
    <3>5. at.port /\ ~at.slipped
      <4>1. at' = Answered(at)
        BY <3>4 DEF TcpModemLoses, ModemLoses
      <4> QED
        BY <1>1, <3>1, <4>1, AnsweredEffect DEF l
    <3>6. at.cur = "AT_QICLOSE"
      BY <3>1, <3>2, <3>3, <3>5, AnswerIsCurrent DEF l
    <3>7. InFlight(at.pool, at.cur, z)
      <4>1. at.cur \in SocketTags
        BY <3>6 DEF SocketTags
      <4> QED
        BY <3>1, <3>3, <3>5, <4>1, AnswerIsTheirs DEF l
    <3>8. z \in Range(at.pool)
      <4>1. at.cur \in PoolTags(at.pool) /\ z = CmdPoolGet(at.pool, at.cur)
        BY <3>7 DEF InFlight
      <4> DEFINE p == at.pool
                 i == Place(p, at.cur)
      <4>2. p \in Seq(Command) /\ DOMAIN p = 1 .. Len(p)
        BY <1>1
      <4>3. i \in 1 .. Len(p) /\ p[i] = z
        BY <4>1, <4>2, DelPlaces
      <4> HIDE DEF p, i
      <4>4. z \in Range(p)
        BY <4>2, <4>3 DEF Range
      <4> QED
        BY <4>4 DEF p
    <3> QED
      BY <3>1, <3>8
  <2>5. CASE Renews /\ TcpStart
    <3>1. at.line = <<>> /\ at.pool = <<>>
      BY <2>5 DEF Renews, TcpStart, Start, IdleIsEmpty
    <3> QED
      BY <1>3, <1>4, <2>1, <3>1 DEF Carried
  <2>6. CASE at' = at
    BY <2>1, <2>6
  <2> QED
    BY <1>2, <1>5, <2>2, <2>3, <2>4, <2>5, <2>6, ChannelStep
<1> QED
  BY <1>8, <1>9

\* A socket of the modem that is in use has an owner or will be closed, unless the order
\* slips, a slot is taken over an AT+QICLOSE, a client has two, the modem takes AT+QICLOSE
\* for data, or the agent or its port is not there.
THEOREM SocketsStayOwned == TcpSpec => OwnedKept
<1>1. IInv /\ TableOK(slot) /\ Awaits(at) /\ IdleIsEmpty /\ OpenFirst /\ link \in Links
      /\ [TcpNext]_allVars
      => [Owned => Owned' \/ ~run' \/ at'.slipped \/ ~at'.port \/ inherited # {} \/ Twice
                     \/ (RxSendDone /\ at.cur = "AT_QICLOSE")]_allVars
  BY OwnedStep
<1> QED
  BY <1>1, TcpInvariance, TableInvariance, AwaitsInvariance, IdleInvariance,
     OpenFirstInvariance, LinkInvariance, PTL DEF TcpSpec, OwnedKept
=============================================================================
