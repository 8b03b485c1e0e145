--------------------------- MODULE SmsAgentProofs ---------------------------
(***************************************************************************)
(* What is proved of the agent's text messages, for all clients, places,   *)
(* tables of commands and bounds: the handlers implement the dispatcher,   *)
(* whose invariant therefore holds of their channel; the owner of the      *)
(* message under way agrees with what clients see, is told of its message  *)
(* and no other, and loses it in no other way than WorkKept says; a prompt *)
(* is given the text that belongs to it; and a message is read before it   *)
(* is deleted.                                                             *)
(***************************************************************************)
EXTENDS SmsAgent, AtDispatcherProofs

-----------------------------------------------------------------------------
(* The handlers implement the dispatcher.                                  *)

\* A final result of the message handlers is one of the dispatcher's: it takes
\* AT+CMGS out of the pool as the result of data, or leaves the pool alone.
LEMMA SmsFinalStep ==
  ASSUME at \in Channel, NEW ends \in BOOLEAN, SmsFinal(ends)
  PROVE  RxResult \/ RxDataResult
<1> DEFINE q == Answered(at)
<1>1. q \in Channel /\ q.cur = at.cur
  <2>1. at.line \in Seq(Command) /\ at.line # <<>>
    BY ChannelFields DEF SmsFinal, RxFinal
  <2>2. Tail(at.line) \in Seq(Command)
    BY <2>1
  <2> QED
    BY <2>2 DEF Answered, Channel
<1>2. RxFinal /\ UNCHANGED <<recovery, stop, run>>
  BY DEF SmsFinal
<1>3. CASE ends /\ at.cur = "AT_CMGS_PDU"
  <2> DEFINE p == <<"AT_CMGS", "AT_CMGS_PDU">>
  <2>1. at' = Complete([q EXCEPT !.pool = CmdPoolDel(@, "AT_CMGS")])
    BY <1>1, <1>3 DEF SmsFinal, WithoutLength
  <2>2. p \in Prompts /\ p[1] = "AT_CMGS"
    BY SmsAssumption
  <2>3. RxDataResult
    BY <1>2, <2>1, <2>2 DEF RxDataResult
  <2> QED
    BY <2>3
<1>4. CASE ~(ends /\ at.cur = "AT_CMGS_PDU")
  <2>1. at' = Complete(q)
    BY <1>1, <1>4 DEF SmsFinal, WithoutLength
  <2>2. at' = Complete(SendCommands(q, <<>>))
    BY <1>1, <2>1, SendNothing
  <2>3. <<>> \in ResultRuns /\ Room(Len(<<>>))
    BY SmsAssumption DEF Room
  <2>4. stop' \in {stop, stop \/ at.cur = "AT_SHDN"}
    BY <1>2
  <2>5. RxResult
    BY <1>2, <2>2, <2>3, <2>4 DEF RxResult
  <2> QED
    BY <2>5
<1> QED
  BY <1>3, <1>4

\* A command for the head comes after none at the tail.
LEMMA AtHeadStep ==
  ASSUME at \in Channel, RxAtHead
  PROVE  RxQueueHead
<1>1. PICK c \in HeadCmds : at' = SendCommand(at, c, TRUE)
  BY DEF RxAtHead
<1>2. at' = SendCommand(SendCommands(at, <<>>), c, TRUE)
  BY <1>1, SendNothing
<1>3. Reading /\ Room(Len(<<>>) + 1)
  BY DEF RxAtHead, Line
<1> QED
  BY <1>2, <1>3 DEF RxQueueHead, RxAtHead

\* Every step of the message handlers is one of the dispatcher's, or leaves its
\* variables alone.
LEMMA SmsStep ==
  ASSUME IInv, [SmsNext]_allVars
  PROVE  [Next]_vars
<1>1. at \in Channel
  BY DEF IInv, TypeOK
<1>2. CASE UNCHANGED allVars
  BY <1>2 DEF allVars
<1>3. ASSUME NEW c \in Clients, SendSMS(c) \/ OnSendSMS(c) \/ RefuseSMS(c)
      PROVE  [Next]_vars
  <2>1. CASE SendSMS(c) \/ RefuseSMS(c)
    BY <2>1 DEF SendSMS, RefuseSMS
  <2>2. CASE OnSendSMS(c)
    <3>1. LengthAndPdu(c) \in ClientRuns /\ Len(LengthAndPdu(c)) = 2
      BY SmsAssumption DEF LengthAndPdu
    <3>2. OnClientCommand
      BY <2>2, <3>1 DEF OnSendSMS, OnClientCommand
    <3> QED
      BY <3>2 DEF Next
  <2> QED
    BY <1>3, <2>1, <2>2
<1>4. CASE SmsReset
  BY <1>4 DEF SmsReset, Next, OnTimer
<1>5. CASE SmsKilled \/ SmsStart
  BY <1>5 DEF SmsKilled, SmsStart, Next
<1>6. CASE SmsRxLine
  <2>1. CASE RxSmsPrompt
    BY <2>1 DEF RxSmsPrompt, Next, RxLine
  <2>2. CASE RxSent \/ RxMessage \/ RxUnclaimed \/ RxStray \/ RxPush \/ RxPushed \/ RxEaten
    BY <2>2 DEF RxSent, RxMessage, RxUnclaimed, RxStray, RxPush, RxPushed, RxEaten
  <2>3. CASE RxAnnounced
    <3>1. PICK i \in Indexes : at' = SendCommands(at, ReadAndDelete(i))
      BY <2>3 DEF RxAnnounced
    <3>2. ReadAndDelete(i) \in LineRuns /\ Len(ReadAndDelete(i)) = 2
      BY SmsAssumption DEF ReadAndDelete
    <3>3. RxQueueTail
      BY <2>3, <3>1, <3>2 DEF RxAnnounced, Seen, RxQueueTail
    <3> QED
      BY <3>3 DEF Next, RxLine
  <2>4. CASE RxSmsOk \/ RxSmsError \/ RxCmsError
    <3>1. SmsFinal(TRUE) \/ SmsFinal(FALSE)
      BY <2>4 DEF RxSmsOk, RxSmsError, RxCmsError
    <3> QED
      BY <1>1, <3>1, SmsFinalStep DEF Next, RxLine
  <2> QED
    BY <1>6, <2>1, <2>2, <2>3, <2>4 DEF SmsRxLine
<1>7. CASE SmsModemLoses
  BY <1>7 DEF SmsModemLoses, Next
<1>8. CASE DispatchStep
  <2>1. CASE RxAtHead
    BY <1>1, <2>1, AtHeadStep DEF Next, RxLine
  <2> QED
    BY <1>8, <2>1 DEF DispatchStep, Next, OnTimer
<1> QED
  BY <1>2, <1>3, <1>4, <1>5, <1>6, <1>7, <1>8 DEF SmsNext

\* The channel of the message handlers is sound in every reachable state.
THEOREM SmsInvariance == SmsSpec => []IInv
<1>1. SmsInit => IInv
  BY InitIInv DEF SmsInit
<1>2. IInv /\ [SmsNext]_allVars => IInv'
  BY SmsStep, NextIInv
<1> QED
  BY <1>1, <1>2, PTL DEF SmsSpec

\* The message handlers implement the dispatcher (see Dispatcher): whatever is
\* proved of its steps holds of theirs.
THEOREM SmsImplementsDispatcher == SmsSpec => Dispatcher
<1>1. SmsInit => Init
  BY DEF SmsInit
<1>2. IInv /\ [SmsNext]_allVars => [Next]_vars
  BY SmsStep
<1> QED
  BY <1>1, <1>2, SmsInvariance, PTL DEF SmsSpec, Dispatcher

-----------------------------------------------------------------------------
(* The owner and the shared state.                                         *)

\* An agent that does not run has forgotten the message that was under way.
Forgotten == ~run => owner = NOBODY

\* Only the end of the agent and its start change run.
LEMMA ForgottenStep ==
  ASSUME Forgotten, [SmsNext]_allVars
  PROVE  Forgotten'
<1>1. CASE UNCHANGED allVars
  BY <1>1 DEF Forgotten, allVars, vars, smsVars
<1>2. ASSUME NEW c \in Clients, SendSMS(c) \/ OnSendSMS(c) \/ RefuseSMS(c)
      PROVE  Forgotten'
  BY <1>2 DEF Forgotten, SendSMS, OnSendSMS, RefuseSMS, vars
<1>3. CASE SmsReset \/ SmsKilled \/ SmsStart
  BY <1>3 DEF Forgotten, SmsReset, SmsKilled, SmsStart, Start
<1>4. CASE SmsRxLine
  <2>1. CASE RxSmsPrompt
    BY <2>1 DEF Forgotten, RxSmsPrompt, RxPrompt
  <2>2. CASE RxSent \/ RxMessage \/ RxUnclaimed \/ RxStray \/ RxPush \/ RxPushed \/ RxEaten
    BY <2>2 DEF Forgotten, RxSent, RxMessage, RxUnclaimed, RxStray, RxPush, RxPushed, RxEaten,
                vars, Seen, Reading
  <2>3. CASE RxAnnounced
    BY <2>3 DEF Forgotten, RxAnnounced
  <2>4. CASE RxSmsOk \/ RxSmsError \/ RxCmsError
    BY <2>4 DEF Forgotten, RxSmsOk, RxSmsError, RxCmsError, SmsFinal, RxFinal, Reading
  <2> QED
    BY <1>4, <2>1, <2>2, <2>3, <2>4 DEF SmsRxLine
<1>5. CASE SmsModemLoses
  BY <1>5 DEF Forgotten, SmsModemLoses, ModemLoses
<1>6. CASE DispatchStep
  <2>1. run' = run
    BY <1>6 DEF DispatchStep, OnPutCommand, TickWaiting, TickRetry, TickIdle, RxAtHead
  <2> QED
    BY <1>6, <2>1 DEF Forgotten, DispatchStep, smsVars
<1> QED
  BY <1>1, <1>2, <1>3, <1>4, <1>5, <1>6 DEF SmsNext

\* One step of g_pidOfSMS and eSMSState.
LEMMA AgreeStep ==
  ASSUME Forgotten, Agree, SmsNext
  PROVE  Agree' \/ RxStray \/ RxUnclaimed \/ \E c \in Clients : RefuseSMS(c)
<1>1. ASSUME NEW c \in Clients, SendSMS(c) \/ OnSendSMS(c) \/ RefuseSMS(c)
      PROVE  Agree' \/ RefuseSMS(c)
  BY <1>1, SmsAssumption DEF Agree, SendSMS, OnSendSMS, vars
<1>2. CASE SmsReset \/ SmsKilled \/ SmsStart
  BY <1>2 DEF Agree, Forgotten, SmsReset, SmsKilled, SmsStart, Killed, Dead, Start
<1>3. CASE SmsRxLine
  <2>1. CASE RxSmsPrompt
    BY <2>1 DEF Agree, RxSmsPrompt, RxPrompt
  <2>2. CASE RxSent
    BY <2>2 DEF Agree, RxSent, EndMessage
  <2>3. CASE RxMessage \/ RxAnnounced \/ RxPush \/ RxPushed \/ RxEaten
    BY <2>3 DEF Agree, RxMessage, RxAnnounced, RxPush, RxPushed, RxEaten, vars
  <2>4. CASE RxSmsOk \/ RxSmsError \/ RxCmsError
    BY <2>4 DEF Agree, RxSmsOk, RxSmsError, RxCmsError, SmsFinal, EndMessage
  <2> QED
    BY <1>3, <2>1, <2>2, <2>3, <2>4 DEF SmsRxLine
<1>4. CASE SmsModemLoses
  BY <1>4 DEF Agree, SmsModemLoses, ModemLoses
<1>5. CASE DispatchStep
  <2>1. run' = run
    BY <1>5 DEF DispatchStep, OnPutCommand, TickWaiting, TickRetry, TickIdle, RxAtHead
  <2> QED
    BY <1>5, <2>1 DEF Agree, DispatchStep, smsVars
<1> QED
  BY <1>1, <1>2, <1>3, <1>4, <1>5 DEF SmsNext

\* Only a refused request, a stray line, or a report that reached another command
\* parts g_pidOfSMS from the state that clients see (see StateKept).
THEOREM StateIsKept == SmsSpec => StateKept
<1>1. SmsInit => Forgotten
  BY DEF SmsInit, Forgotten
<1>2. Forgotten /\ [SmsNext]_allVars => Forgotten'
  BY ForgottenStep
<1>3. Forgotten /\ [SmsNext]_allVars =>
        [Agree => Agree' \/ RxStray \/ RxUnclaimed \/ \E c \in Clients : RefuseSMS(c)]_allVars
  BY AgreeStep
<1> QED
  BY <1>1, <1>2, <1>3, PTL DEF SmsSpec, StateKept

-----------------------------------------------------------------------------
(* The channel under the message handlers.                                 *)

LengthCmd(x) == CmdText("AT_CMGS", x)
PduCmd(x) == CmdText("AT_CMGS_PDU", x)
ReadCmd(i) == CmdText("AT_CMGR", i)
DeleteCmd(i) == CmdText("AT_CMGD_INDEX", i)

\* The commands of messages are commands, and a command is its tag and its text.
LEMMA MessageCommands ==
  /\ \A x \in Clients : LengthCmd(x) \in Command /\ PduCmd(x) \in Command
  /\ \A i \in Indexes : ReadCmd(i) \in Command /\ DeleteCmd(i) \in Command
  /\ \A c \in Command : c = CmdText(c.tag, c.val)
<1>1. ASSUME NEW x \in Clients PROVE LengthCmd(x) \in Command /\ PduCmd(x) \in Command
  <2>1. <<LengthCmd(x), PduCmd(x)>> \in Seq(Command)
    BY SmsAssumption, RunsAssumption DEF LengthAndPdu, LengthCmd, PduCmd
  <2> QED
    BY <2>1, ElementOfSeq
<1>2. ASSUME NEW i \in Indexes PROVE ReadCmd(i) \in Command /\ DeleteCmd(i) \in Command
  <2>1. <<ReadCmd(i), DeleteCmd(i)>> \in Seq(Command)
    BY SmsAssumption, RunsAssumption DEF ReadAndDelete, ReadCmd, DeleteCmd
  <2> QED
    BY <2>1, ElementOfSeq
<1>3. ASSUME NEW c \in Command PROVE c = CmdText(c.tag, c.val)
  BY CommandAssumption DEF CmdText
<1> QED
  BY <1>1, <1>2, <1>3

\* The commands of the bring-up have no part in messages.
LEMMA InitHead ==
  /\ Head(InitCmds) \in Command /\ Head(InitCmds).tag \notin Message \cup Storage
  /\ Head(InitCmds).tag # NONE
<1>1. 1 \in DOMAIN InitCmds /\ Head(InitCmds) = InitCmds[1]
  BY InitCmdsAssumption, EmptySeq, LenProperties
<1>2. Head(InitCmds) \in Command
  BY InitCmdsAssumption, HeadProperties
<1> QED
  BY <1>1, <1>2, CommandAssumption, SmsSourcesAssumption DEF Without

\* A step of the dispatcher in which messages have no part: commands of other
\* handlers join the pool at one end.
LEMMA OthersStep ==
  ASSUME IInv, DispatchStep
  PROVE  \E cs \in Seq(Command), pool \in Seq(Command) :
           /\ Without(Message \cup Storage, cs)
           /\ pool = at.pool \o cs \/ pool = cs \o at.pool
           /\ Turns(at, pool, at')
<1>1. at.pool \in Seq(Command)
  BY ChannelFields DEF IInv, TypeOK
<1>2. <<>> \in Seq(Command) /\ Without(Message \cup Storage, <<>>)
  BY EmptySeq DEF Without
<1>3. CASE OnPutCommand \/ TickWaiting \/ TickRetry
  <2>1. Turns(at, at.pool, at') /\ at.pool = at.pool \o <<>>
    BY <1>1, <1>3, WaitEffect, ConcatEmptySeq
  <2> QED
    BY <1>1, <1>2, <2>1
<1>4. CASE TickIdle
  <2>1. PICK cs \in Polls \cup {<<>>} :
           at.pool \o cs \in Seq(Command) /\ Turns(at, at.pool \o cs, at')
    BY <1>4, PollEffect
  <2>2. cs \in Seq(Command) /\ Without(Message \cup Storage, cs)
    BY <1>2, RunsAssumption, SmsSourcesAssumption
  <2> QED
    BY <2>1, <2>2
<1>5. CASE RxAtHead
  <2>1. PICK c \in HeadCmds : at' = SendCommand(at, c, TRUE)
    BY <1>5 DEF RxAtHead
  <2>2. c \in Command /\ <<c>> \in Seq(Command)
    BY RunsAssumption
  <2>3. <<c>> \o at.pool \in Seq(Command) /\ Turns(at, <<c>> \o at.pool, at')
    BY <2>1, <2>2, AtHeadEffect
  <2>4. Without(Message \cup Storage, <<c>>)
    BY SmsSourcesAssumption DEF Without
  <2> QED
    BY <2>2, <2>3, <2>4
<1> QED
  BY <1>3, <1>4, <1>5 DEF DispatchStep

\* A request of a client and +CMTI queue their two commands.
LEMMA QueueTwo ==
  ASSUME IInv, NEW cs \in Seq(Command), cs # <<>>, at' = SendCommands(at, cs)
  PROVE  /\ at.pool \o cs \in Seq(Command) /\ Turns(at, at.pool \o cs, at')
         /\ at.timer = 0 => Dispatched(at, Head(at.pool \o cs), at') /\ at'.timer > 0
<1>1. /\ at.pool \o cs \in Seq(Command) /\ Turns(at, at.pool \o cs, at')
      /\ at.timer = 0 /\ at.misses = 0 => Dispatched(at, Head(at.pool \o cs), at')
  BY SendCommandsEffect DEF IInv
<1>2. at.timer = 0 => at.misses = 0
  BY SmsSourcesAssumption DEF IInv, Sound, MissesAreTimed, Held, Channel
<1>3. Dispatched(at, Head(at.pool \o cs), at') => at'.timer > 0
  BY SmsSourcesAssumption DEF Dispatched
<1> QED
  BY <1>1, <1>2, <1>3

\* The pool before the completion of a final result of the message handlers.
Left(ends) ==
  IF ends /\ at.cur = "AT_CMGS_PDU" THEN CmdPoolDel(at.pool, "AT_CMGS") ELSE at.pool

\* A final result shortens the line and takes one or two commands out of the pool.
LEMMA FinalEffect ==
  ASSUME IInv, NEW ends \in BOOLEAN, SmsFinal(ends)
  PROVE  /\ at.line # <<>> /\ at.port
         /\ Left(ends) \in Seq(Command)
         /\ at'.pool = CmdPoolDel(Left(ends), at.cur) /\ at'.port = at.port
         /\ at'.cur \in {at.cur, NONE} /\ at'.timer = 0
         /\ at'.line = Tail(at.line) /\ at'.line \in Seq(Command)
         /\ Len(at'.line) = Len(at.line) - 1
         /\ at'.slipped <=> at.slipped \/ at'.line # <<>>
<1>1. at \in Channel /\ at.line # <<>> /\ at.port
  BY DEF IInv, TypeOK, SmsFinal, RxFinal, Reading
<1> DEFINE q == Answered(at)
           d == Left(ends)
           e == [q EXCEPT !.pool = d]
<1>2. /\ q \in Channel /\ q.pool = at.pool /\ q.cur = at.cur /\ q.timer = at.timer
      /\ q.port = at.port /\ q.slipped = at.slipped
      /\ q.line = Tail(at.line) /\ q.line \in Seq(Command)
      /\ Len(q.line) = Len(at.line) - 1
  BY <1>1, AnsweredEffect
<1>3. d \in Seq(Command)
  <2>1. at.pool \in Seq(Command)
    BY <1>1, ChannelFields
  <2> QED
    BY <2>1, CmdPoolDelProperties DEF Left
<1>4. at' = Complete(IF ends THEN WithoutLength(q) ELSE q)
  BY DEF SmsFinal
<1> HIDE DEF q
<1>5. (IF ends THEN WithoutLength(q) ELSE q) = e
  <2>1. [q EXCEPT !.pool = q.pool] = q
    BY <1>2 DEF Channel
  <2> QED
    BY <1>2, <2>1 DEF WithoutLength, Left
<1> HIDE DEF d
<1>6. /\ e \in Channel /\ e.pool = d /\ e.cur = at.cur /\ e.port = at.port
      /\ e.line = q.line /\ e.slipped = at.slipped
  BY <1>2, <1>3 DEF Channel
<1> HIDE DEF e
<1>7. Completed(e, at')
  BY <1>4, <1>5, <1>6, CompleteEffect
<1>8. /\ at'.pool = CmdPoolDel(d, at.cur) /\ at'.port = at.port
      /\ at'.cur \in {at.cur, NONE} /\ at'.timer = 0 /\ at'.line = q.line
  BY <1>6, <1>7 DEF Completed
<1>9. at'.slipped <=> at.slipped \/ at'.line # <<>>
  BY <1>1, <1>6, <1>7, <1>8, Zenon DEF Completed
<1> QED
  BY <1>1, <1>2, <1>3, <1>8, <1>9 DEF d

\* A prompt shortens the line, and the data follows if the pool has it.
LEMMA PromptEffect ==
  ASSUME IInv, RxSmsPrompt
  PROVE  /\ at.cur = "AT_CMGS" /\ at.line # <<>> /\ Head(at.line).tag = "AT_CMGS" /\ at.port
         /\ at'.pool = at.pool /\ at'.port = at.port
         /\ Tail(at.line) \in Seq(Command) /\ Len(Tail(at.line)) = Len(at.line) - 1
         /\ \/ /\ "AT_CMGS_PDU" \notin PoolTags(at.pool)
               /\ at'.cur = at.cur /\ at'.timer = at.timer /\ at'.line = Tail(at.line)
               /\ at'.slipped <=> at.slipped
            \/ /\ "AT_CMGS_PDU" \in PoolTags(at.pool)
               /\ at'.cur = "AT_CMGS_PDU" /\ at'.timer > 0
               /\ CmdPoolGet(at.pool, "AT_CMGS_PDU") \in Command
               /\ at'.line = IF Len(Tail(at.line)) < LineCap
                               THEN Append(Tail(at.line), CmdPoolGet(at.pool, "AT_CMGS_PDU"))
                               ELSE Tail(at.line)
               /\ at'.slipped <=> Tail(at.line) # <<>>
<1> DEFINE q == Answered(at)
           c == CmdPoolGet(at.pool, "AT_CMGS_PDU")
<1>1. at \in Channel /\ at.line # <<>> /\ at.port /\ at.pool \in Seq(Command)
  BY ChannelFields DEF IInv, TypeOK, RxSmsPrompt, RxPrompt, Reading
<1>2. /\ at.cur = "AT_CMGS" /\ Head(at.line).tag = "AT_CMGS"
      /\ at' = PutDirectCommand(q, "AT_CMGS_PDU")
  BY SmsSourcesAssumption DEF RxSmsPrompt, RxPrompt
<1>3. /\ q \in Channel /\ q.pool = at.pool /\ q.cur = at.cur /\ q.timer = at.timer
      /\ q.port = at.port /\ q.slipped = at.slipped
      /\ q.line = Tail(at.line) /\ q.line \in Seq(Command)
      /\ Len(q.line) = Len(at.line) - 1
  BY <1>1, AnsweredEffect
<1> HIDE DEF q
<1>4. CASE "AT_CMGS_PDU" \notin PoolTags(at.pool)
  <2>1. at' = q
    BY <1>2, <1>3, <1>4 DEF PutDirectCommand
  <2> QED
    BY <1>1, <1>2, <1>3, <1>4, <2>1
<1>5. CASE "AT_CMGS_PDU" \in PoolTags(at.pool)
  <2>1. c \in Command /\ c.tag = "AT_CMGS_PDU"
    BY <1>1, <1>5, CmdPoolGetProperties
  <2>2. at' = Transmit(q, c, DirectWait)
    BY <1>2, <1>3, <1>5 DEF PutDirectCommand
  <2> HIDE DEF c
  <2>3. Dispatched(q, c, at') /\ at'.pool = at.pool /\ at'.port = at.port
    BY <1>3, <2>2, TransmitEffect, TimerAssumption
  <2>4. at'.line = IF Len(q.line) < LineCap THEN Append(q.line, c) ELSE q.line
    BY <1>1, <1>3, <2>3, SmsSourcesAssumption DEF Dispatched, Written
  <2>5. at'.cur = "AT_CMGS_PDU" /\ at'.timer > 0 /\ (at'.slipped <=> q.line # <<>>)
    BY <1>1, <2>1, <2>3, SmsSourcesAssumption DEF Dispatched
  <2> QED
    BY <1>1, <1>2, <1>3, <1>5, <2>1, <2>3, <2>4, <2>5 DEF c
<1> QED
  BY <1>4, <1>5

\* In an order that has not slipped the modem answers the first command of the
\* current tag; what it has told of an answer, it has told of a command it holds.
AnswersFirst == at.port /\ ~at.slipped /\ at.line # <<>> /\ at.cur \in Message \cup Storage
            => Head(at.line) = CmdPoolGet(at.pool, at.cur)
LineInv == /\ Len(at.line) <= LineCap
           /\ entry = "told" => at.line # <<>>
           /\ AnswersFirst

\* Queuing, waiting and dispatching.
LEMMA TurnsAnswerFirst ==
  ASSUME IInv, AnswersFirst, NEW cs \in Seq(Command), NEW pool \in Seq(Command),
         \/ pool = at.pool \o cs
         \/ pool = cs \o at.pool /\ Without(Message \cup Storage, cs),
         Turns(at, pool, at')
  PROVE  AnswersFirst'
<1>1. /\ at \in Channel /\ at.pool \in Seq(Command) /\ at.line \in Seq(Command)
      /\ at'.pool = pool /\ at'.port = at.port
  BY ChannelFields DEF IInv, TypeOK, Turns
<1> SUFFICES ASSUME at'.port, ~at'.slipped, at'.line # <<>>, at'.cur \in Message \cup Storage
             PROVE  Head(at'.line) = CmdPoolGet(pool, at'.cur)
  BY <1>1 DEF AnswersFirst
<1>2. CASE /\ at'.cur \in {at.cur, NONE}
           /\ at'.line = at.line /\ (at'.slipped <=> at.slipped)
  <2>1. at'.cur = at.cur
    BY <1>2 DEF Message, Storage, NONE
  <2>2. at.cur \in PoolTags(at.pool)
    BY <1>1, <1>2 DEF IInv, Sound, AnswerMatches, TimerCoversCommand
  <2>3. Head(at.line) = CmdPoolGet(at.pool, at.cur)
    BY <1>1, <1>2, <2>1 DEF AnswersFirst
  <2>4. CASE pool = at.pool \o cs
    BY <1>1, <1>2, <2>1, <2>2, <2>3, <2>4, GetConcat
  <2>5. CASE pool = cs \o at.pool /\ Without(Message \cup Storage, cs)
    <3>1. at.cur \notin PoolTags(cs)
      BY <2>1, <2>5 DEF Without, PoolTags
    <3> QED
      BY <1>1, <1>2, <2>1, <2>2, <2>3, <2>5, <3>1, GetConcat
  <2> QED
    BY <2>4, <2>5
<1>3. CASE pool # <<>> /\ Dispatched(at, Head(pool), at')
  <2>1. at.line = <<>> /\ at'.cur = Head(pool).tag
    BY <1>3 DEF Dispatched
  <2>2. Head(pool) \in Command
    BY <1>3, HeadProperties
  <2>3. at'.line = at.line \/ at'.line = Append(at.line, Head(pool))
    BY <1>3 DEF Dispatched, Written
  <2>4. at'.line = <<Head(pool)>>
    BY <2>1, <2>3
  <2> QED
    BY <1>3, <2>1, <2>4, GetHead
<1> QED
  BY <1>2, <1>3 DEF Turns

\* One step of the line.
LEMMA LineInvStep ==
  ASSUME IInv, LineInv, [SmsNext]_allVars
  PROVE  LineInv'
<1>1. /\ at \in Channel /\ Sound(at) /\ at.line \in Seq(Command) /\ at.pool \in Seq(Command)
      /\ Len(at.line) \in Nat
  BY ChannelFields, LenProperties DEF IInv, TypeOK
<1>2. ASSUME at' = at, entry' = "told" => at.line # <<>>
      PROVE  LineInv'
  BY <1>2 DEF LineInv, AnswersFirst
<1>3. ASSUME NEW cs \in Seq(Command), NEW pool \in Seq(Command), Turns(at, pool, at'),
             \/ pool = at.pool \o cs
             \/ pool = cs \o at.pool /\ Without(Message \cup Storage, cs),
             entry' = entry
      PROVE  LineInv'
  <2>1. AnswersFirst'
    BY <1>3, TurnsAnswerFirst DEF LineInv
  <2>2. Len(at'.line) <= LineCap /\ (at.line # <<>> => at'.line # <<>>)
    BY <1>1, <1>3, TurnsLine DEF LineInv
  <2> QED
    BY <1>3, <2>1, <2>2 DEF LineInv
<1>4. ASSUME Anew(at.line, at'), entry' = entry
      PROVE  LineInv'
  <2>1. at'.cur \notin Message \cup Storage
    BY <1>4, InitHead DEF Anew
  <2> QED
    BY <1>1, <1>4, <2>1, AnewLine DEF LineInv, AnswersFirst
<1>5. ASSUME NEW ends \in BOOLEAN, SmsFinal(ends)
      PROVE  LineInv'
  <2>1. /\ entry' = "command" /\ Len(at'.line) = Len(at.line) - 1
        /\ at'.slipped <=> at.slipped \/ at'.line # <<>>
    BY <1>5, FinalEffect DEF SmsFinal
  <2>2. Len(at'.line) <= LineCap
    BY <1>1, <2>1, TimerAssumption DEF LineInv
  <2> QED
    BY <2>1, <2>2 DEF LineInv, AnswersFirst
<1>6. CASE UNCHANGED allVars
  BY <1>2, <1>6 DEF allVars, vars, smsVars, LineInv
<1>7. ASSUME NEW c \in Clients, SendSMS(c) \/ RefuseSMS(c)
      PROVE  LineInv'
  BY <1>2, <1>7 DEF SendSMS, RefuseSMS, vars, LineInv
<1>8. ASSUME NEW c \in Clients, OnSendSMS(c)
      PROVE  LineInv'
  <2>1. LengthAndPdu(c) \in Seq(Command) /\ LengthAndPdu(c) # <<>>
    BY SmsAssumption, RunsAssumption DEF LengthAndPdu
  <2>2. Turns(at, at.pool \o LengthAndPdu(c), at') /\ at.pool \o LengthAndPdu(c) \in Seq(Command)
    BY <1>8, <2>1, QueueTwo DEF OnSendSMS
  <2> QED
    BY <1>3, <1>8, <2>1, <2>2 DEF OnSendSMS
<1>9. CASE RxAnnounced
  <2>1. PICK i \in Indexes : at' = SendCommands(at, ReadAndDelete(i))
    BY <1>9 DEF RxAnnounced
  <2>2. ReadAndDelete(i) \in Seq(Command) /\ ReadAndDelete(i) # <<>>
    BY SmsAssumption, RunsAssumption DEF ReadAndDelete
  <2>3. Turns(at, at.pool \o ReadAndDelete(i), at') /\ at.pool \o ReadAndDelete(i) \in Seq(Command)
    BY <2>1, <2>2, QueueTwo
  <2> QED
    BY <1>3, <1>9, <2>2, <2>3 DEF RxAnnounced
<1>10. CASE SmsReset \/ SmsStart
  <2>1. Anew(at.line, at') /\ entry' = entry
    BY <1>10, AnewStep DEF SmsReset, SmsStart, TickRecoveryOver, TickNoAnswer, OnSerialError,
                           OnClientReset
  <2> QED
    BY <1>4, <2>1
<1>11. CASE SmsKilled
  <2>1. at'.line = at.line /\ ~at'.port /\ entry' = entry
    BY <1>11 DEF SmsKilled, Killed, Dead, IdleChannel
  <2> QED
    BY <2>1 DEF LineInv, AnswersFirst
<1>12. CASE RxSmsPrompt
  <2>1. entry' = "data"
    BY <1>12 DEF RxSmsPrompt
  <2>2. CASE /\ at'.line = Tail(at.line) /\ Len(Tail(at.line)) = Len(at.line) - 1
             /\ at'.slipped <=> at.slipped
             /\ at'.port = at.port /\ at.line # <<>>
    <3>1. at.port /\ ~at.slipped => Len(at.line) <= 1
      BY <1>1 DEF Sound, AnswerMatches
    <3>2. at.port /\ ~at.slipped => Tail(at.line) = <<>>
      BY <1>1, <2>2, <3>1, HeadTailProperties, EmptySeq
    <3>3. Len(at'.line) <= LineCap
      BY <1>1, <2>2, TimerAssumption DEF LineInv
    <3> QED
      BY <2>1, <2>2, <3>2, <3>3 DEF LineInv, AnswersFirst
  <2>3. CASE /\ at'.cur = "AT_CMGS_PDU" /\ at'.pool = at.pool
             /\ CmdPoolGet(at.pool, "AT_CMGS_PDU") \in Command
             /\ at'.line = IF Len(Tail(at.line)) < LineCap
                             THEN Append(Tail(at.line), CmdPoolGet(at.pool, "AT_CMGS_PDU"))
                             ELSE Tail(at.line)
             /\ at'.slipped <=> Tail(at.line) # <<>>
             /\ Tail(at.line) \in Seq(Command) /\ Len(Tail(at.line)) = Len(at.line) - 1
    <3> DEFINE l == Tail(at.line)
               c == CmdPoolGet(at.pool, "AT_CMGS_PDU")
    <3>1. l \in Seq(Command) /\ c \in Command
      BY <2>3
    <3>2. at'.line = l \/ (Len(l) < LineCap /\ at'.line = Append(l, c))
      BY <2>3
    <3>3. Len(l) <= LineCap
      BY <1>1, <2>3, TimerAssumption DEF LineInv
    <3>4. Len(at'.line) <= LineCap
      <4> HIDE DEF l, c
      <4> QED
        BY <3>1, <3>2, <3>3, WrittenLine
    <3>5. ASSUME l = <<>>, at'.line # <<>> PROVE Head(at'.line) = c
      <4> HIDE DEF l, c
      <4>1. at'.line = Append(<<>>, c)
        BY <3>2, <3>5
      <4> QED
        BY <4>1
    <3>6. AnswersFirst'
      <4>1. ~at'.slipped => l = <<>>
        BY <2>3
      <4> QED
        BY <2>3, <3>5, <4>1 DEF AnswersFirst
    <3> QED
      BY <2>1, <3>4, <3>6 DEF LineInv
  <2> QED
    BY <1>12, <2>2, <2>3, PromptEffect
<1>13. CASE RxSent \/ RxMessage \/ RxUnclaimed \/ RxStray \/ RxPush \/ RxPushed \/ RxEaten
  <2>1. at' = at
    BY <1>13 DEF RxSent, RxMessage, RxUnclaimed, RxStray, RxPush, RxPushed, RxEaten, vars
  <2>2. entry' = "told" => at.line # <<>>
    BY <1>13 DEF RxSent, RxMessage, RxUnclaimed, RxStray, RxPush, RxPushed, RxEaten,
                 SentDue, MessageDue, Answering, LineInv
  <2> QED
    BY <1>2, <2>1, <2>2
<1>14. CASE RxSmsOk \/ RxSmsError \/ RxCmsError
  BY <1>5, <1>14 DEF RxSmsOk, RxSmsError, RxCmsError
<1>15. CASE SmsModemLoses
  <2>1. at' = Answered(at) /\ at.line # <<>> /\ entry' = "command"
    BY <1>15 DEF SmsModemLoses, ModemLoses
  <2>2. /\ Len(at'.line) = Len(at.line) - 1 /\ at'.port = at.port /\ at'.slipped = at.slipped
        /\ at.port /\ ~at.slipped => at'.line = <<>>
    BY <1>1, <2>1, AnsweredEffect, AnsweredSound
  <2>3. Len(at'.line) <= LineCap
    BY <1>1, <2>2, TimerAssumption DEF LineInv
  <2> QED
    BY <2>1, <2>2, <2>3 DEF LineInv, AnswersFirst
<1>16. CASE DispatchStep
  <2>1. entry' = entry
    BY <1>16 DEF DispatchStep, smsVars
  <2> QED
    BY <1>3, <1>16, <2>1, OthersStep
<1> QED
  BY <1>6, <1>7, <1>8, <1>9, <1>10, <1>11, <1>12, <1>13, <1>14, <1>15, <1>16
     DEF SmsNext, SmsRxLine

-----------------------------------------------------------------------------
(* The messages that are sent.                                             *)

\* The modem has reported the message whose PDU it has been given.
Told == Answering("AT_CMGS_PDU") /\ entry = "told"

\* What the pool holds of messages, in order, as long as no result was mistaken:
\* the message under way, its PDU alone after an ERROR to AT+CMGS, its AT+CMGS
\* alone after an ERROR to the PDU, and before the next message the PDU that such
\* an ERROR left, or a message whose report has come and whose OK has not.
Shape(w) ==
  \/ w = <<>>
  \/ \E x \in Clients :
       \/ w = <<LengthCmd(x)>> /\ owner = x
       \/ w = <<PduCmd(x)>> /\ owner \in {x, NOBODY}
       \/ w = <<LengthCmd(x), PduCmd(x)>> /\ (owner = x \/ (owner = NOBODY /\ Told))
  \/ \E x \in Clients, y \in Clients :
       \/ w = <<PduCmd(x), LengthCmd(y), PduCmd(y)>> /\ owner = y /\ at.cur # "AT_CMGS"
       \/ w = <<LengthCmd(x), PduCmd(x), LengthCmd(y), PduCmd(y)>> /\ owner = y /\ Told

\* The modem has the current PDU and nothing else, and has asked for it.
Due == /\ ~astray /\ at.cur = "AT_CMGS_PDU" /\ Answering("AT_CMGS_PDU")
       /\ Len(at.line) = 1 /\ entry \in {"data", "told"}

\* Then the pool holds the message whole, at the head of all messages.
Ready(w) ==
  \/ \E x \in Clients :
       /\ w = <<LengthCmd(x), PduCmd(x)>>
       /\ owner = IF entry = "data" THEN x ELSE NOBODY
  \/ \E x \in Clients, y \in Clients :
       /\ w = <<LengthCmd(x), PduCmd(x), LengthCmd(y), PduCmd(y)>>
       /\ owner = y /\ entry = "told"

\* A report that has come while the modem owed more will be astray.
Lost == astray \/ (Told /\ Len(at.line) > 1)

\* The pool holds what it should; the timer waits for the command of a message that
\* the modem has; no PDU is the next to go out while the modem owes the result of one;
\* and the PDU that the modem has is the owner's.
Kept == ~Lost => \E w \in Seq(Command) :
                   /\ Remains(at.pool, Message, w)
                   /\ Shape(w)
                   /\ Due => Ready(w)
Waited == ~astray /\ at.cur \in Message => at.timer > 0 \/ at.line = <<>>
Fronted == ~astray /\ (entry = "data" \/ Told)
             => at.pool = <<>> \/ Head(at.pool).tag # "AT_CMGS_PDU"
Named == Due /\ entry = "data" => owner = Head(at.line).val
MessageInv == Kept /\ Waited /\ Fronted /\ Named

\* What the deletions of the handlers make of it.
LEMMA MessageDeletions ==
  ASSUME NEW x \in Clients, NEW y \in Clients
  PROVE  /\ CmdPoolDel(<<>>, "AT_CMGS") = <<>> /\ CmdPoolDel(<<>>, "AT_CMGS_PDU") = <<>>
         /\ CmdPoolDel(<<LengthCmd(x)>>, "AT_CMGS") = <<>>
         /\ CmdPoolDel(<<LengthCmd(x)>>, "AT_CMGS_PDU") = <<LengthCmd(x)>>
         /\ CmdPoolDel(<<PduCmd(x)>>, "AT_CMGS") = <<PduCmd(x)>>
         /\ CmdPoolDel(<<PduCmd(x)>>, "AT_CMGS_PDU") = <<>>
         /\ CmdPoolDel(<<LengthCmd(x), PduCmd(x)>>, "AT_CMGS") = <<PduCmd(x)>>
         /\ CmdPoolDel(<<LengthCmd(x), PduCmd(x)>>, "AT_CMGS_PDU") = <<LengthCmd(x)>>
         /\ CmdPoolDel(<<PduCmd(x), LengthCmd(y), PduCmd(y)>>, "AT_CMGS_PDU")
              = <<LengthCmd(y), PduCmd(y)>>
         /\ CmdPoolDel(<<PduCmd(x), LengthCmd(y), PduCmd(y)>>, "AT_CMGS")
              = <<PduCmd(x), PduCmd(y)>>
         /\ CmdPoolDel(<<PduCmd(x), PduCmd(y)>>, "AT_CMGS_PDU") = <<PduCmd(y)>>
         /\ CmdPoolDel(<<LengthCmd(x), PduCmd(x), LengthCmd(y), PduCmd(y)>>, "AT_CMGS")
              = <<PduCmd(x), LengthCmd(y), PduCmd(y)>>
<1> DEFINE a == LengthCmd(x)
           b == PduCmd(x)
           c == LengthCmd(y)
           d == PduCmd(y)
           L == "AT_CMGS"
           D == "AT_CMGS_PDU"
<1>1. /\ a \in Command /\ b \in Command /\ c \in Command /\ d \in Command
      /\ a.tag = L /\ b.tag = D /\ c.tag = L /\ d.tag = D
  BY MessageCommands DEF LengthCmd, PduCmd, CmdText
<1> HIDE DEF a, b, c, d
<1>2. /\ <<>> \in Seq(Command) /\ <<a>> \in Seq(Command) /\ <<b>> \in Seq(Command)
      /\ <<a, b>> \in Seq(Command) /\ <<c, d>> \in Seq(Command) /\ <<d>> \in Seq(Command)
      /\ <<b, d>> \in Seq(Command) /\ <<b, c, d>> \in Seq(Command)
      /\ <<a, b, c, d>> \in Seq(Command)
  <2>1. /\ <<>> \in Seq(Command) /\ <<a>> \in Seq(Command) /\ <<b>> \in Seq(Command)
        /\ <<d>> \in Seq(Command)
    BY <1>1
  <2>2. <<a, b>> \in Seq(Command) /\ <<c, d>> \in Seq(Command) /\ <<b, d>> \in Seq(Command)
    BY <1>1
  <2>3. <<b, c, d>> \in Seq(Command)
    BY <1>1
  <2>4. <<a, b, c, d>> \in Seq(Command)
    BY <1>1
  <2> QED
    BY <2>1, <2>2, <2>3, <2>4
<1>3. \A t : CmdPoolDel(<<>>, t) = <<>>
  BY DelNothing
<1>4. ASSUME NEW s \in Seq(Command), s # <<>>
      PROVE  CmdPoolDel(s, Head(s).tag) = Tail(s)
  BY <1>4, DelFirst
<1>5. ASSUME NEW e \in Command, NEW s \in Seq(Command), NEW t, e.tag # t
      PROVE  CmdPoolDel(<<e>> \o s, t) = <<e>> \o CmdPoolDel(s, t)
  BY <1>5, DelLater
<1>6. /\ CmdPoolDel(<<a>>, L) = <<>> /\ CmdPoolDel(<<b>>, D) = <<>>
      /\ CmdPoolDel(<<a, b>>, L) = <<b>> /\ CmdPoolDel(<<b, c, d>>, D) = <<c, d>>
      /\ CmdPoolDel(<<b, d>>, D) = <<d>> /\ CmdPoolDel(<<a, b, c, d>>, L) = <<b, c, d>>
      /\ CmdPoolDel(<<c, d>>, L) = <<d>>
  <2>1. /\ Tail(<<a>>) = <<>> /\ Tail(<<b>>) = <<>> /\ Tail(<<a, b>>) = <<b>>
        /\ Tail(<<b, c, d>>) = <<c, d>> /\ Tail(<<b, d>>) = <<d>>
        /\ Tail(<<a, b, c, d>>) = <<b, c, d>> /\ Tail(<<c, d>>) = <<d>>
    OBVIOUS
  <2>2. /\ Head(<<a>>) = a /\ Head(<<b>>) = b /\ Head(<<a, b>>) = a
        /\ Head(<<b, c, d>>) = b /\ Head(<<b, d>>) = b
        /\ Head(<<a, b, c, d>>) = a /\ Head(<<c, d>>) = c
    OBVIOUS
  <2>3. /\ CmdPoolDel(<<a>>, L) = <<>> /\ CmdPoolDel(<<b>>, D) = <<>>
        /\ CmdPoolDel(<<a, b>>, L) = <<b>> /\ CmdPoolDel(<<b, d>>, D) = <<d>>
    BY <1>1, <1>2, <1>4, <2>1, <2>2
  <2>4. /\ CmdPoolDel(<<b, c, d>>, D) = <<c, d>> /\ CmdPoolDel(<<c, d>>, L) = <<d>>
    BY <1>1, <1>2, <1>4, <2>1, <2>2
  <2>5. CmdPoolDel(<<a, b, c, d>>, L) = <<b, c, d>>
    BY <1>1, <1>2, <1>4, <2>1, <2>2
  <2> QED
    BY <2>3, <2>4, <2>5
<1>7. a \in Command /\ b \in Command /\ a.tag # D /\ b.tag # L
  BY <1>1
<1>8. /\ CmdPoolDel(<<a>>, D) = <<a>> /\ CmdPoolDel(<<b>>, L) = <<b>>
      /\ CmdPoolDel(<<a, b>>, D) = <<a>> /\ CmdPoolDel(<<b, c, d>>, L) = <<b, d>>
  <2>1. /\ <<a>> \o <<>> = <<a>> /\ <<b>> \o <<>> = <<b>> /\ <<a>> \o <<b>> = <<a, b>>
        /\ <<b>> \o <<c, d>> = <<b, c, d>> /\ <<b>> \o <<d>> = <<b, d>>
    BY <1>1, ShortConcat
  <2>2. CmdPoolDel(<<a>>, D) = <<a>> /\ CmdPoolDel(<<b>>, L) = <<b>>
    <3> DEFINE q == <<>>
    <3>1. q \in Seq(Command)
      BY <1>2
    <3> HIDE DEF q
    <3>2. /\ CmdPoolDel(<<a>> \o q, D) = <<a>> \o CmdPoolDel(q, D)
          /\ CmdPoolDel(<<b>> \o q, L) = <<b>> \o CmdPoolDel(q, L)
      BY <1>5, <1>7, <3>1
    <3>3. <<a>> \o q = <<a>> /\ <<b>> \o q = <<b>>
      BY <2>1 DEF q
    <3>4. CmdPoolDel(q, D) = q /\ CmdPoolDel(q, L) = q
      BY <1>3, Zenon DEF q
    <3> QED
      BY <3>2, <3>3, <3>4
  <2>3. CmdPoolDel(<<a, b>>, D) = <<a>>
    <3> DEFINE q == <<b>>
    <3>1. q \in Seq(Command)
      BY <1>2
    <3> HIDE DEF q
    <3>2. CmdPoolDel(<<a>> \o q, D) = <<a>> \o CmdPoolDel(q, D)
      BY <1>5, <1>7, <3>1
    <3> QED
      BY <1>6, <2>1, <3>2 DEF q
  <2>4. CmdPoolDel(<<b, c, d>>, L) = <<b, d>>
    <3>1. CmdPoolDel(<<b>> \o <<c, d>>, L) = <<b>> \o CmdPoolDel(<<c, d>>, L)
      BY <1>1, <1>2, <1>5
    <3> QED
      BY <1>6, <2>1, <3>1
  <2> QED
    BY <2>2, <2>3, <2>4
<1> QED
  BY <1>3, <1>6, <1>8 DEF a, b, c, d

\* The tags of the commands of messages in short pools.
LEMMA MessageTags ==
  /\ \A x \in Clients :
       /\ LengthCmd(x).tag = "AT_CMGS" /\ PduCmd(x).tag = "AT_CMGS_PDU" /\ PduCmd(x).val = x
       /\ PoolTags(<<LengthCmd(x)>>) = {"AT_CMGS"} /\ PoolTags(<<PduCmd(x)>>) = {"AT_CMGS_PDU"}
       /\ <<LengthCmd(x), PduCmd(x)>> \in Seq(Command)
       /\ CmdPoolGet(<<LengthCmd(x), PduCmd(x)>>, "AT_CMGS_PDU") = PduCmd(x)
  /\ PoolTags(<<>>) = {}
<1>1. ASSUME NEW x \in Clients
      PROVE  /\ LengthCmd(x).tag = "AT_CMGS" /\ PduCmd(x).tag = "AT_CMGS_PDU" /\ PduCmd(x).val = x
             /\ <<LengthCmd(x), PduCmd(x)>> \in Seq(Command)
  BY MessageCommands DEF LengthCmd, PduCmd, CmdText
<1>2. ASSUME NEW c PROVE PoolTags(<<c>>) = {c.tag}
  BY DEF PoolTags
<1>3. ASSUME NEW x \in Clients
      PROVE  CmdPoolGet(<<LengthCmd(x), PduCmd(x)>>, "AT_CMGS_PDU") = PduCmd(x)
  <2> DEFINE w == <<LengthCmd(x), PduCmd(x)>>
  <2>1. /\ w \in Seq(Command) /\ 2 \in 1 .. Len(w) /\ w[2] = PduCmd(x)
        /\ \A j \in 1 .. 2 - 1 : w[j].tag # "AT_CMGS_PDU"
    BY <1>1
  <2>2. w[2].tag = "AT_CMGS_PDU"
    BY <1>1, <2>1
  <2> HIDE DEF w
  <2>3. CmdPoolGet(w, "AT_CMGS_PDU") = w[2]
    BY <2>1, <2>2, GetFirst
  <2> QED
    BY <2>1, <2>3 DEF w
<1>4. PoolTags(<<>>) = {}
  BY DEF PoolTags
<1> QED
  BY <1>1, <1>2, <1>3, <1>4

\* A step that leaves the channel and the message under way alone.
LEMMA SameMessage ==
  ASSUME MessageInv, at' = at, owner' = owner, astray' <=> astray,
         Answering("AT_CMGS_PDU") => entry' = entry,
         entry' = "data" => entry = "data"
  PROVE  MessageInv'
<1>1. Answering("AT_CMGS_PDU")' <=> Answering("AT_CMGS_PDU")
  BY DEF Answering
<1>2. (Told' <=> Told) /\ (Lost' <=> Lost) /\ (Due' <=> Due)
  BY <1>1 DEF Told, Lost, Due
<1>3. ASSUME NEW w PROVE Shape(w)' <=> Shape(w)
  BY <1>2 DEF Shape
<1>4. ASSUME NEW w, Due, Ready(w) PROVE Ready(w)'
  BY <1>4 DEF Ready, Due
<1>5. Kept'
  BY <1>2, <1>3, <1>4 DEF MessageInv, Kept
<1>6. Waited' /\ Fronted' /\ Named'
  BY <1>2 DEF MessageInv, Waited, Fronted, Named
<1> QED
  BY <1>5, <1>6 DEF MessageInv

\* Nothing is said once the outcome is astray.
LEMMA AstrayMessage ==
  ASSUME astray'
  PROVE  MessageInv'
BY DEF MessageInv, Kept, Lost, Waited, Fronted, Named, Due

\* Nor is there a message when the bring-up begins.
LEMMA AnewMessage ==
  ASSUME IInv, Anew(at.line, at')
  PROVE  MessageInv'
<1>1. /\ at'.pool = InitCmds /\ at'.cur \notin Message /\ InitCmds \in Seq(Command)
      /\ Head(at'.pool).tag # "AT_CMGS_PDU"
  BY InitHead, InitCmdsAssumption DEF Anew, Message
<1>2. Remains(at'.pool, Message, <<>>) /\ <<>> \in Seq(Command)
  BY <1>1, RemainsNone, SmsSourcesAssumption, EmptySeq DEF Without
<1>3. ~Due' /\ Shape(<<>>)'
  BY <1>1 DEF Due, Message, Shape
<1> QED
  BY <1>1, <1>2, <1>3 DEF MessageInv, Kept, Waited, Fronted, Named

\* What a turn of the channel over a longer pool keeps: what the modem has told, and
\* a PDU is dispatched only after the result of the one before it.
LEMMA TurnsTold ==
  ASSUME IInv, LineInv, Fronted, ~astray, NEW cs \in Seq(Command), NEW pool \in Seq(Command),
         \/ pool = at.pool \o cs
         \/ pool = cs \o at.pool,
         cs # <<>> => Head(cs).tag # "AT_CMGS_PDU",
         Turns(at, pool, at'), entry' = entry, astray' = astray
  PROVE  /\ (Told' <=> Told) /\ (Lost => Lost')
         /\ entry = "data" \/ Told => pool = <<>> \/ Head(pool).tag # "AT_CMGS_PDU"
         /\ Due' => Due /\ Head(at'.line) = Head(at.line)
<1>1. /\ at.pool \in Seq(Command) /\ at.line \in Seq(Command) /\ at \in Channel
      /\ at'.pool = pool
  BY ChannelFields DEF IInv, TypeOK, Turns
<1>2. /\ at'.line \in Seq(Command) /\ Len(at.line) <= Len(at'.line)
      /\ at.line # <<>> => at'.line # <<>> /\ Head(at'.line) = Head(at.line)
  BY <1>1, TurnsLine
<1>3. Len(at.line) \in Nat /\ Len(at'.line) \in Nat
  BY <1>1, <1>2, LenProperties
<1>4. Told' <=> Told
  BY <1>2 DEF Told, Answering, LineInv
<1>5. Lost => Lost'
  BY <1>2, <1>3, <1>4 DEF Lost
<1>6. ASSUME entry = "data" \/ Told, pool # <<>> PROVE Head(pool).tag # "AT_CMGS_PDU"
  <2>1. at.pool = <<>> \/ Head(at.pool).tag # "AT_CMGS_PDU"
    BY <1>6 DEF Fronted
  <2>2. CASE pool = at.pool \o cs
    <3>1. /\ at.pool # <<>> => Head(pool) = Head(at.pool)
          /\ at.pool = <<>> => cs # <<>> /\ Head(pool) = Head(cs)
      BY <1>1, <1>6, <2>2, HeadConcat
    <3> QED
      BY <2>1, <3>1
  <2>3. CASE pool = cs \o at.pool
    <3>1. /\ cs # <<>> => Head(pool) = Head(cs)
          /\ cs = <<>> => at.pool # <<>> /\ Head(pool) = Head(at.pool)
      BY <1>1, <1>6, <2>3, HeadConcat
    <3> QED
      BY <2>1, <3>1
  <2> QED
    BY <2>2, <2>3
<1>7. ASSUME Due' PROVE Due /\ Head(at'.line) = Head(at.line)
  <2>1. entry = "data" \/ Told
    <3>1. entry = "told" => Told'
      BY <1>7 DEF Due, Told
    <3> QED
      BY <1>4, <1>7, <3>1 DEF Due
  <2>2. ~(pool # <<>> /\ Dispatched(at, Head(pool), at'))
    BY <1>6, <1>7, <2>1 DEF Dispatched, Due
  <2>3. at'.cur \in {at.cur, NONE} /\ at'.line = at.line
    BY <2>2 DEF Turns
  <2> QED
    BY <1>7, <2>3 DEF Due, Answering, NONE
<1> QED
  BY <1>4, <1>5, <1>6, <1>7

\* A turn with commands of other handlers keeps the message under way.
LEMMA OthersMessage ==
  ASSUME IInv, LineInv, MessageInv, NEW cs \in Seq(Command), NEW pool \in Seq(Command),
         \/ pool = at.pool \o cs
         \/ pool = cs \o at.pool,
         Without(Message, cs), Turns(at, pool, at'),
         owner' = owner, entry' = entry, astray' = astray
  PROVE  MessageInv'
<1>0. CASE astray'
  BY <1>0, AstrayMessage
<1> SUFFICES ASSUME ~astray'
             PROVE  MessageInv'
  BY <1>0
<1>1. /\ at.pool \in Seq(Command) /\ at.line \in Seq(Command) /\ at \in Channel
      /\ at'.pool = pool
  BY ChannelFields DEF IInv, TypeOK, Turns
<1>2. cs # <<>> => Head(cs).tag # "AT_CMGS_PDU"
  BY LenProperties, EmptySeq DEF Without, Message
<1>3. /\ (Told' <=> Told) /\ (Lost => Lost')
      /\ entry = "data" \/ Told => pool = <<>> \/ Head(pool).tag # "AT_CMGS_PDU"
      /\ Due' => Due /\ Head(at'.line) = Head(at.line)
  BY <1>2, TurnsTold DEF MessageInv
<1>4. ASSUME ~Lost'
      PROVE  \E w \in Seq(Command) : Remains(pool, Message, w) /\ Shape(w)' /\ (Due => Ready(w)')
  <2>1. PICK w \in Seq(Command) : Remains(at.pool, Message, w) /\ Shape(w) /\ (Due => Ready(w))
    BY <1>3, <1>4 DEF MessageInv, Kept
  <2>2. Remains(pool, Message, w)
    BY <1>1, <2>1, RemainsAround DEF Without
  <2>3. \/ at'.cur \in {at.cur, NONE}
        \/ pool # <<>> /\ at'.cur = Head(pool).tag
    BY DEF Turns, Dispatched
  <2>4. ASSUME NEW x \in Clients, NEW y \in Clients, at.cur # "AT_CMGS",
               w = <<PduCmd(x), LengthCmd(y), PduCmd(y)>>
        PROVE  at'.cur # "AT_CMGS"
    <3>1. CASE at'.cur \in {at.cur, NONE}
      BY <2>4, <3>1 DEF NONE
    <3>2. CASE pool # <<>> /\ at'.cur = Head(pool).tag
      <4>1. at'.cur = "AT_CMGS" => w[1] = Head(pool)
        BY <2>1, <2>2, <3>2, RemainsHead DEF Message
      <4>2. w[1] = PduCmd(x) /\ PduCmd(x).tag = "AT_CMGS_PDU"
        BY <2>4, MessageTags
      <4> QED
        BY <3>2, <4>1, <4>2
    <3> QED
      BY <2>3, <3>1, <3>2
  <2>5. Shape(w)'
    BY <1>3, <2>1, <2>4 DEF Shape
  <2>6. Due => Ready(w)'
    BY <2>1 DEF Ready
  <2> QED
    BY <2>1, <2>2, <2>5, <2>6
<1>5. Kept'
  BY <1>1, <1>3, <1>4 DEF Kept
<1>6. Waited'
  <2>1. CASE /\ at'.cur \in {at.cur, NONE} /\ (at.timer > 0 => at'.timer > 0)
             /\ at'.line = at.line
    BY <2>1 DEF MessageInv, Waited, Message, NONE
  <2>2. CASE at'.timer > 0
    BY <2>2 DEF Waited
  <2> QED
    BY <2>1, <2>2, SmsSourcesAssumption DEF Turns, Dispatched
<1>7. Fronted'
  BY <1>1, <1>3 DEF Fronted
<1>8. Named'
  BY <1>3 DEF MessageInv, Named
<1> QED
  BY <1>5, <1>6, <1>7, <1>8 DEF MessageInv

\* A request queues its message behind what an earlier one has left.
LEMMA QueuedMessage ==
  ASSUME IInv, LineInv, MessageInv, NEW c \in Clients, OnSendSMS(c)
  PROVE  MessageInv'
<1> DEFINE cs == LengthAndPdu(c)
           pool == at.pool \o cs
<1>0. CASE astray'
  BY <1>0, AstrayMessage
<1> SUFFICES ASSUME ~astray'
             PROVE  MessageInv'
  BY <1>0
<1>1. /\ at.pool \in Seq(Command) /\ at.line \in Seq(Command) /\ at \in Channel
      /\ owner = NOBODY /\ owner' = c /\ entry' = entry /\ astray' = astray /\ NOBODY \notin Clients
      /\ at' = SendCommands(at, cs)
  BY ChannelFields, SmsAssumption DEF IInv, TypeOK, OnSendSMS
<1>2. /\ cs \in Seq(Command) /\ cs # <<>> /\ cs = <<LengthCmd(c), PduCmd(c)>>
      /\ Head(cs).tag # "AT_CMGS_PDU"
      /\ \A k \in DOMAIN cs : cs[k].tag \in Message
  <2>1. cs = <<LengthCmd(c), PduCmd(c)>>
    BY DEF LengthAndPdu, LengthCmd, PduCmd
  <2>2. LengthCmd(c).tag = "AT_CMGS" /\ PduCmd(c).tag = "AT_CMGS_PDU" /\ cs \in Seq(Command)
    BY <2>1, MessageTags
  <2>3. /\ DOMAIN cs = 1 .. 2 /\ cs[1] = LengthCmd(c) /\ cs[2] = PduCmd(c) /\ cs # <<>>
        /\ Head(cs) = LengthCmd(c)
    BY <2>1
  <2> QED
    BY <2>1, <2>2, <2>3 DEF Message
<1> HIDE DEF cs
<1>3. /\ pool \in Seq(Command) /\ Turns(at, pool, at') /\ at'.pool = pool
      /\ at.timer = 0 => Dispatched(at, Head(pool), at')
  BY <1>1, <1>2, QueueTwo DEF Turns
<1>4. pool # <<>>
  BY <1>1, <1>2, ConcatTags
<1>5. pool = at.pool \o cs
  OBVIOUS
<1> HIDE DEF pool
<1>6. /\ (Told' <=> Told) /\ (Lost => Lost')
      /\ entry = "data" \/ Told => pool = <<>> \/ Head(pool).tag # "AT_CMGS_PDU"
      /\ Due' => Due /\ Head(at'.line) = Head(at.line)
  BY <1>1, <1>2, <1>3, <1>5, TurnsTold DEF MessageInv
<1>7. ASSUME ~Lost'
      PROVE  \E w \in Seq(Command) :
               /\ Remains(pool, Message, w) /\ Shape(w)' /\ (Due => Ready(w)')
               /\ ~(Due /\ entry = "data")
  <2>1. PICK v \in Seq(Command) : Remains(at.pool, Message, v) /\ Shape(v) /\ (Due => Ready(v))
    BY <1>6, <1>7 DEF MessageInv, Kept
  <2> DEFINE w == v \o cs
  <2>2. w \in Seq(Command) /\ Remains(pool, Message, w)
    <3>1. Remains(cs, Message, cs)
      BY <1>2, RemainsAll
    <3>2. w \in Seq(Command)
      BY <1>2, <2>1
    <3>3. Remains(at.pool \o cs, Message, v \o cs)
      BY <1>1, <1>2, <2>1, <3>1, RemainsConcat
    <3> QED
      BY <1>5, <3>2, <3>3
  <2>3. w = v \o cs
    OBVIOUS
  <2> HIDE DEF w
  <2>4. \/ v = <<>>
        \/ \E x \in Clients : v = <<PduCmd(x)>> \/ (v = <<LengthCmd(x), PduCmd(x)>> /\ Told)
    BY <1>1, <2>1 DEF Shape
  <2>5. Due => entry = "told" /\ \E x \in Clients : v = <<LengthCmd(x), PduCmd(x)>>
    BY <1>1, <2>1 DEF Ready, Due
  <2>6. CASE v = <<>>
    <3>1. w = <<LengthCmd(c), PduCmd(c)>>
      BY <1>2, <2>3, <2>6
    <3>2. Shape(w)'
      BY <1>1, <3>1 DEF Shape
    <3>3. ~Due
      BY <2>5, <2>6
    <3> QED
      BY <2>2, <3>2, <3>3
  <2>7. ASSUME NEW x \in Clients, v = <<PduCmd(x)>>
        PROVE  Shape(w)' /\ ~Due
    <3>1. w = <<PduCmd(x), LengthCmd(c), PduCmd(c)>>
      <4>1. PduCmd(x) \in Command /\ LengthCmd(c) \in Command /\ PduCmd(c) \in Command
        BY MessageCommands
      <4> QED
        BY <1>2, <2>3, <2>7, <4>1, ShortConcat
    <3>2. at.cur = "AT_CMGS" => at.timer = 0
      <4>1. "AT_CMGS" \notin PoolTags(v)
        BY <2>7, MessageTags
      <4>2. "AT_CMGS" \notin PoolTags(at.pool)
        BY <1>1, <2>1, <4>1, RemainsTags DEF Message
      <4> QED
        BY <1>1, <4>2 DEF IInv, Sound, TimerCoversCommand, Channel
    <3>3. at'.cur # "AT_CMGS"
      <4>1. CASE at'.cur = Head(pool).tag
        <5>1. at'.cur = "AT_CMGS" => w[1] = Head(pool)
          BY <1>3, <1>4, <2>2, <4>1, RemainsHead DEF Message
        <5>2. w[1] = PduCmd(x) /\ PduCmd(x).tag = "AT_CMGS_PDU"
          BY <3>1, MessageTags
        <5> QED
          BY <4>1, <5>1, <5>2
      <4>2. CASE at'.cur \in {at.cur, NONE} /\ at'.cur # Head(pool).tag
        <5>1. at.cur # "AT_CMGS"
          BY <1>3, <3>2, <4>2 DEF Dispatched
        <5> QED
          BY <4>2, <5>1 DEF NONE
      <4> QED
        BY <1>3, <4>1, <4>2 DEF Turns, Dispatched
    <3>4. ~Due
      <4>1. ASSUME NEW y \in Clients PROVE v # <<LengthCmd(y), PduCmd(y)>>
        BY <2>7
      <4> QED
        BY <2>5, <4>1
    <3> QED
      BY <1>1, <3>1, <3>3, <3>4 DEF Shape
  <2>8. ASSUME NEW x \in Clients, v = <<LengthCmd(x), PduCmd(x)>>, Told
        PROVE  Shape(w)' /\ Ready(w)' /\ entry # "data"
    <3>1. w = <<LengthCmd(x), PduCmd(x), LengthCmd(c), PduCmd(c)>>
      <4>1. /\ LengthCmd(x) \in Command /\ PduCmd(x) \in Command
            /\ LengthCmd(c) \in Command /\ PduCmd(c) \in Command
        BY MessageCommands
      <4> QED
        BY <1>2, <2>3, <2>8, <4>1, PairConcat
    <3>2. Shape(w)'
      BY <1>1, <1>6, <2>8, <3>1 DEF Shape
    <3>3. Ready(w)'
      BY <1>1, <2>8, <3>1 DEF Ready, Told
    <3> QED
      BY <2>8, <3>2, <3>3 DEF Told
  <2> QED
    BY <2>2, <2>4, <2>6, <2>7, <2>8
<1>8. Kept'
  BY <1>3, <1>6, <1>7 DEF Kept
<1>9. Waited'
  <2>1. CASE /\ at'.cur \in {at.cur, NONE} /\ (at.timer > 0 => at'.timer > 0)
             /\ at'.line = at.line
    BY <1>1, <2>1 DEF MessageInv, Waited, Message, NONE
  <2>2. CASE at'.timer > 0
    BY <2>2 DEF Waited
  <2> QED
    BY <1>3, <2>1, <2>2, SmsSourcesAssumption DEF Turns, Dispatched
<1>10. Fronted'
  BY <1>1, <1>3, <1>6 DEF Fronted
<1>11. Named'
  <2>1. SUFFICES ASSUME Due', entry = "data" PROVE FALSE
    BY <1>1 DEF Named
  <2>2. ~Lost'
    BY <1>1, <2>1 DEF Lost, Told
  <2> QED
    BY <1>6, <1>7, <2>1, <2>2
<1> QED
  BY <1>8, <1>9, <1>10, <1>11 DEF MessageInv

\* A prompt in good order asks for the message under way.
LEMMA PromptOwner ==
  ASSUME IInv, LineInv, MessageInv, RxSmsPrompt, ~astray
  PROVE  /\ ~Told /\ ~Lost /\ at.timer > 0
         /\ \E w \in Seq(Command), x \in Clients :
              /\ Remains(at.pool, Message, w) /\ owner = x
              /\ w \in {<<LengthCmd(x)>>, <<LengthCmd(x), PduCmd(x)>>}
<1>1. at.pool \in Seq(Command)
  BY ChannelFields DEF IInv, TypeOK
<1>2. at.cur = "AT_CMGS" /\ at.line # <<>> /\ Head(at.line).tag = "AT_CMGS"
  BY PromptEffect
<1>3. ~Told /\ ~Lost
  BY <1>2 DEF Told, Lost, Answering
<1>4. at.timer > 0 /\ "AT_CMGS" \in PoolTags(at.pool)
  BY <1>2 DEF MessageInv, Waited, Message, IInv, Sound, TimerCoversCommand
<1>5. PICK w \in Seq(Command) : Remains(at.pool, Message, w) /\ Shape(w)
  BY <1>3 DEF MessageInv, Kept
<1>6. "AT_CMGS" \in PoolTags(w)
  BY <1>1, <1>4, <1>5, RemainsTags DEF Message
<1>7. \E x \in Clients : owner = x /\ w \in {<<LengthCmd(x)>>, <<LengthCmd(x), PduCmd(x)>>}
  <2>1. ASSUME NEW x \in Clients PROVE w # <<PduCmd(x)>>
    BY <1>6, MessageTags
  <2>2. w # <<>>
    BY <1>6, MessageTags
  <2> QED
    BY <1>2, <1>3, <1>5, <2>1, <2>2 DEF Shape
<1> QED
  BY <1>3, <1>4, <1>5, <1>7

\* Its data is the PDU of that message.
LEMMA PromptData ==
  ASSUME IInv, NEW w \in Seq(Command), NEW x \in Clients, Remains(at.pool, Message, w),
         w \in {<<LengthCmd(x)>>, <<LengthCmd(x), PduCmd(x)>>},
         "AT_CMGS_PDU" \in PoolTags(at.pool)
  PROVE  /\ w = <<LengthCmd(x), PduCmd(x)>>
         /\ CmdPoolGet(at.pool, "AT_CMGS_PDU") = PduCmd(x)
<1>1. at.pool \in Seq(Command)
  BY ChannelFields DEF IInv, TypeOK
<1>2. "AT_CMGS_PDU" \in PoolTags(w)
  BY <1>1, RemainsTags DEF Message
<1>3. w # <<LengthCmd(x)>>
  BY <1>2, MessageTags
<1>4. CmdPoolGet(at.pool, "AT_CMGS_PDU") = CmdPoolGet(w, "AT_CMGS_PDU")
  BY <1>1, RemainsGet DEF Message
<1> QED
  BY <1>3, <1>4, MessageTags

\* The prompt keeps the message under way.
LEMMA PromptMessage ==
  ASSUME IInv, LineInv, MessageInv, RxSmsPrompt
  PROVE  MessageInv'
<1>0. CASE astray'
  BY <1>0, AstrayMessage
<1> SUFFICES ASSUME ~astray'
             PROVE  MessageInv'
  BY <1>0
<1>1. /\ at.pool \in Seq(Command) /\ at.line \in Seq(Command) /\ at \in Channel
      /\ owner' = owner /\ entry' = "data" /\ ~astray
  BY ChannelFields DEF IInv, TypeOK, RxSmsPrompt
<1>2. /\ at.cur = "AT_CMGS" /\ at.line # <<>> /\ Head(at.line).tag = "AT_CMGS"
      /\ at'.pool = at.pool /\ Len(Tail(at.line)) = Len(at.line) - 1
      /\ Tail(at.line) \in Seq(Command)
  BY PromptEffect
<1>3. ~Told /\ ~Lost /\ at.timer > 0 /\ ~Told'
  BY <1>1, PromptOwner DEF Told
<1>4. PICK w \in Seq(Command), x \in Clients :
        /\ Remains(at.pool, Message, w) /\ owner = x
        /\ w \in {<<LengthCmd(x)>>, <<LengthCmd(x), PduCmd(x)>>}
  BY <1>1, PromptOwner
<1>8. Shape(w)'
  BY <1>1, <1>4 DEF Shape
<1>9. CASE /\ "AT_CMGS_PDU" \notin PoolTags(at.pool)
           /\ at'.cur = at.cur /\ at'.timer = at.timer
  <2>1. ~Due'
    BY <1>2, <1>9 DEF Due
  <2>2. at.pool = <<>> \/ Head(at.pool).tag # "AT_CMGS_PDU"
    BY <1>1, <1>9, HeadProperties
  <2>3. Kept'
    BY <1>2, <1>4, <1>8, <2>1 DEF Kept
  <2>4. Waited' /\ Fronted' /\ Named'
    BY <1>2, <1>3, <1>9, <2>1, <2>2 DEF Waited, Fronted, Named
  <2> QED
    BY <2>3, <2>4 DEF MessageInv
<1>10. CASE /\ "AT_CMGS_PDU" \in PoolTags(at.pool)
            /\ at'.cur = "AT_CMGS_PDU" /\ at'.timer > 0
            /\ CmdPoolGet(at.pool, "AT_CMGS_PDU") \in Command
            /\ at'.line = IF Len(Tail(at.line)) < LineCap
                            THEN Append(Tail(at.line), CmdPoolGet(at.pool, "AT_CMGS_PDU"))
                            ELSE Tail(at.line)
  <2>1. /\ w = <<LengthCmd(x), PduCmd(x)>>
        /\ CmdPoolGet(at.pool, "AT_CMGS_PDU") = PduCmd(x)
    BY <1>4, <1>10, PromptData
  <2>2. Ready(w)'
    BY <1>1, <1>4, <2>1 DEF Ready
  <2>3. Kept'
    BY <1>2, <1>4, <1>8, <2>2 DEF Kept
  <2>4. at.pool = <<>> \/ Head(at.pool).tag # "AT_CMGS_PDU"
    <3>1. w[1].tag # "AT_CMGS_PDU"
      BY <2>1, MessageTags
    <3> QED
      BY <1>1, <1>4, <3>1, RemainsHead DEF Message
  <2>5. Waited' /\ Fronted'
    BY <1>2, <1>10, <2>4 DEF Waited, Fronted
  <2>6. Named'
    <3> DEFINE l == Tail(at.line)
               c == CmdPoolGet(at.pool, "AT_CMGS_PDU")
    <3>1. c = PduCmd(x) /\ c.val = x
      BY <2>1, MessageTags
    <3>2. at'.line = Append(l, c) /\ l \in Seq(Command) /\ c \in Command
      <4>1. Len(at.line) \in Nat /\ Len(at.line) <= LineCap /\ LineCap \in Nat
        BY <1>1, LenProperties, TimerAssumption DEF LineInv
      <4> QED
        BY <1>2, <1>10, <4>1
    <3> HIDE DEF l, c
    <3>3. Len(at'.line) = 1 => Head(at'.line) = c
      <4>1. Len(at'.line) = Len(l) + 1 /\ Len(l) \in Nat
        BY <3>2, AppendProperties, LenProperties
      <4>2. Len(at'.line) = 1 => l = <<>>
        BY <3>2, <4>1, EmptySeq
      <4> QED
        BY <3>2, <4>2
    <3> QED
      BY <1>1, <1>4, <3>1, <3>3 DEF Named, Due
  <2> QED
    BY <2>3, <2>5, <2>6 DEF MessageInv
<1> QED
  BY <1>9, <1>10, PromptEffect

\* A message that the modem has and whose outcome comes in good order.
LEMMA FinalOrder ==
  ASSUME IInv, LineInv, MessageInv, at.line # <<>>, at.cur \in Message, ~astray, ~Mistaken
  PROVE  /\ Len(at.line) = 1 /\ Head(at.line).tag = at.cur
         /\ at.cur \in PoolTags(at.pool) /\ ~Lost
<1>1. at.line \in Seq(Command) /\ Len(at.line) \in Nat /\ Len(at.line) # 0
  BY ChannelFields, LenProperties, EmptySeq DEF IInv, TypeOK
<1>2. Len(at.line) = 1 /\ Head(at.line).tag = at.cur
  <2>1. ~(Len(at.line) > 1) /\ Head(at.line).tag = at.cur
    BY Zenon DEF Mistaken
  <2> DEFINE n == Len(at.line)
  <2>2. n \in Nat /\ n # 0 /\ ~(n > 1)
    BY <1>1, <2>1
  <2> HIDE DEF n
  <2>3. n = 1
    BY <2>2
  <2> QED
    BY <2>1, <2>3 DEF n
<1>3. at.cur \in PoolTags(at.pool)
  BY DEF MessageInv, Waited, IInv, Sound, TimerCoversCommand
<1> QED
  BY <1>2, <1>3 DEF Lost

\* WorkKept, of one step.
Working ==
  UnderWay => UnderWay' \/ astray' \/ (RxSmsError /\ at.cur = "AT_CMGS_PDU")

\* What remains of the pool shows whether it holds the PDU under way.
LEMMA UnderWayRemains ==
  ASSUME NEW pool \in Seq(Command), NEW w \in Seq(Command), Remains(pool, Message, w), NEW x
  PROVE  CmdText("AT_CMGS_PDU", x) \in Range(pool) <=> PduCmd(x) \in Range(w)
<1>1. PduCmd(x).tag \in Message
  BY DEF PduCmd, CmdText, Message
<1>2. PduCmd(x) \in Range(pool) <=> PduCmd(x) \in Range(w)
  BY <1>1, RemainsRange
<1> QED
  BY <1>2 DEF PduCmd

\* The result of another command leaves the message under way alone.
LEMMA OtherFinal ==
  ASSUME IInv, LineInv, MessageInv, NEW ends \in BOOLEAN, SmsFinal(ends), at.cur \notin Message,
         ~astray, ~Told, owner' = owner
  PROVE  MessageInv' /\ Working
<1>1. /\ at.pool \in Seq(Command) /\ at.line \in Seq(Command) /\ at \in Channel
      /\ entry' = "command"
  BY ChannelFields DEF IInv, TypeOK, SmsFinal
<1>2. at'.pool = CmdPoolDel(at.pool, at.cur) /\ at'.cur \in {at.cur, NONE}
  BY FinalEffect DEF Left, Message
<1>3. at'.cur \notin Message
  BY <1>2 DEF Message, NONE
<1>4. PICK w \in Seq(Command) : Remains(at.pool, Message, w) /\ Shape(w)
  BY DEF MessageInv, Kept, Lost
<1>5. Remains(at'.pool, Message, w)
  BY <1>1, <1>2, <1>4, RemainsDelOther
<1>6. Shape(w)' /\ ~Due'
  BY <1>1, <1>3, <1>4 DEF Shape, Message, Due
<1>7. Kept'
  BY <1>5, <1>6 DEF Kept
<1>8. Waited' /\ Fronted' /\ Named'
  BY <1>1, <1>3 DEF Waited, Fronted, Named, Told
<1>9. UnderWay => UnderWay'
  <2>1. at'.pool \in Seq(Command)
    BY <1>1, <1>2, CmdPoolDelProperties
  <2> QED
    BY <1>1, <1>4, <1>5, <2>1, UnderWayRemains DEF UnderWay
<1> QED
  BY <1>7, <1>8, <1>9 DEF MessageInv, Working

\* What the result of a message's command leaves of the pool decides.
LEMMA OwnFinal ==
  ASSUME IInv, NEW ends \in BOOLEAN, SmsFinal(ends), Len(at.line) = 1,
         NEW w \in Seq(Command), Remains(at.pool, Message, w), at.cur \in Message,
         NEW v, v = CmdPoolDel(IF ends /\ at.cur = "AT_CMGS_PDU" THEN CmdPoolDel(w, "AT_CMGS")
                                                                 ELSE w, at.cur),
         Shape(v)'
  PROVE  MessageInv' /\ (owner' # NOBODY /\ PduCmd(owner') \in Range(v) => UnderWay')
<1>1. /\ at.pool \in Seq(Command) /\ entry' = "command"
  BY ChannelFields DEF IInv, TypeOK, SmsFinal
<1>2. /\ at'.pool = CmdPoolDel(Left(ends), at.cur)
      /\ at'.line \in Seq(Command) /\ Len(at'.line) = Len(at.line) - 1
  BY FinalEffect
<1>3. at'.line = <<>>
  BY <1>2, EmptySeq
<1> DEFINE u == IF ends /\ at.cur = "AT_CMGS_PDU" THEN CmdPoolDel(w, "AT_CMGS") ELSE w
<1>4. /\ u \in Seq(Command) /\ Left(ends) \in Seq(Command)
      /\ Remains(Left(ends), Message, u)
  <2>1. /\ CmdPoolDel(w, "AT_CMGS") \in Seq(Command)
        /\ CmdPoolDel(at.pool, "AT_CMGS") \in Seq(Command)
    BY <1>1, CmdPoolDelProperties
  <2>2. Remains(CmdPoolDel(at.pool, "AT_CMGS"), Message, CmdPoolDel(w, "AT_CMGS"))
    BY <1>1, RemainsDel DEF Message
  <2> QED
    BY <1>1, <2>1, <2>2 DEF Left
<1>5. v = CmdPoolDel(u, at.cur)
  OBVIOUS
<1> HIDE DEF u
<1>6. v \in Seq(Command) /\ Remains(at'.pool, Message, v)
  <2>1. v \in Seq(Command)
    BY <1>4, <1>5, CmdPoolDelProperties
  <2>2. Remains(CmdPoolDel(Left(ends), at.cur), Message, CmdPoolDel(u, at.cur))
    BY <1>4, RemainsDel
  <2> QED
    BY <1>2, <1>5, <2>1, <2>2
<1>7. ~Due' /\ ~Told'
  BY <1>1 DEF Due, Told
<1>8. Kept'
  BY <1>6, <1>7 DEF Kept
<1>9. Waited' /\ Fronted' /\ Named'
  BY <1>1, <1>3, <1>7 DEF Waited, Fronted, Named
<1>10. ASSUME PduCmd(owner') \in Range(v) PROVE UnderWay'
  <2>1. at'.pool \in Seq(Command)
    BY <1>2, <1>4, CmdPoolDelProperties
  <2>2. CmdText("AT_CMGS_PDU", owner') \in Range(at'.pool)
    BY <1>6, <1>10, <2>1, UnderWayRemains
  <2> QED
    BY <2>2 DEF UnderWay
<1> QED
  BY <1>8, <1>9, <1>10 DEF MessageInv

\* OK, ERROR and +CMS ERROR.
LEMMA ResultMessage ==
  ASSUME IInv, LineInv, MessageInv, RxSmsOk \/ RxSmsError \/ RxCmsError
  PROVE  MessageInv' /\ Working
<1>0. CASE astray'
  BY <1>0, AstrayMessage DEF Working
<1> SUFFICES ASSUME ~astray'
             PROVE  MessageInv' /\ Working
  BY <1>0
<1>1. ~astray /\ ~Mistaken
  BY DEF RxSmsOk, RxSmsError, RxCmsError
<1>2. at.line # <<>>
  BY DEF RxSmsOk, RxSmsError, RxCmsError, SmsFinal, RxFinal
<1>3. CASE at.cur \notin Message
  <2>1. owner' = owner
    BY <1>3 DEF RxSmsOk, RxSmsError, RxCmsError, Message
  <2>2. ~Told
    BY <1>3 DEF RxSmsOk, RxSmsError, RxCmsError, Message, Told
  <2> QED
    BY <1>1, <1>3, <2>1, <2>2, OtherFinal DEF RxSmsOk, RxSmsError, RxCmsError
<1> SUFFICES ASSUME at.cur \in Message
             PROVE  MessageInv' /\ Working
  BY <1>3
<1>4. /\ Len(at.line) = 1 /\ Head(at.line).tag = at.cur
      /\ at.cur \in PoolTags(at.pool) /\ ~Lost
  BY <1>1, <1>2, FinalOrder
<1>5. PICK w \in Seq(Command) : Remains(at.pool, Message, w) /\ Shape(w) /\ (Due => Ready(w))
  BY <1>4 DEF MessageInv, Kept
<1>6. CASE at.cur = "AT_CMGS"
  <2>1. /\ ~Told /\ ~RxSmsOk
    BY <1>2, <1>4, <1>6 DEF Told, Answering, RxSmsOk
  <2>2. "AT_CMGS" \in PoolTags(w)
    <3>1. at.pool \in Seq(Command)
      BY ChannelFields DEF IInv, TypeOK
    <3> QED
      BY <1>4, <1>5, <1>6, <3>1, RemainsTags DEF Message
  <2>3. PICK x \in Clients : owner = x /\ w \in {<<LengthCmd(x)>>, <<LengthCmd(x), PduCmd(x)>>}
    <3>1. ASSUME NEW x \in Clients PROVE w # <<PduCmd(x)>>
      BY <2>2, MessageTags
    <3>2. w # <<>>
      BY <2>2, MessageTags
    <3> QED
      BY <1>5, <1>6, <2>1, <3>1, <3>2 DEF Shape
  <2> DEFINE v == CmdPoolDel(w, "AT_CMGS")
  <2>4. v \in {<<>>, <<PduCmd(x)>>}
    BY <2>3, MessageDeletions
  <2>5. owner' \in {x, NOBODY}
    BY <1>6, <2>1, <2>3 DEF RxSmsError, RxCmsError, EndMessage
  <2>6. Shape(v)'
    BY <2>4, <2>5 DEF Shape
  <2>7. PICK ends \in BOOLEAN : SmsFinal(ends)
    BY DEF RxSmsOk, RxSmsError, RxCmsError
  <2>8. v = CmdPoolDel(IF ends /\ at.cur = "AT_CMGS_PDU" THEN CmdPoolDel(w, "AT_CMGS") ELSE w,
                       at.cur)
    BY <1>6
  <2>9. ASSUME UnderWay, owner' # NOBODY PROVE owner' = x /\ v = <<PduCmd(x)>>
    <3>1. w = <<LengthCmd(x), PduCmd(x)>>
      <4>1. at.pool \in Seq(Command)
        BY ChannelFields DEF IInv, TypeOK
      <4>2. PduCmd(x) \in Range(w)
        BY <1>5, <2>3, <2>9, <4>1, SmsAssumption, UnderWayRemains DEF UnderWay
      <4>3. PduCmd(x) \notin Range(<<LengthCmd(x)>>)
        <5>1. ASSUME NEW c PROVE Range(<<c>>) = {c}
          BY DEF Range
        <5>2. LengthCmd(x) # PduCmd(x)
          BY MessageTags
        <5> QED
          BY <5>1, <5>2
      <4> QED
        BY <2>3, <4>2, <4>3
    <3> QED
      BY <2>5, <2>9, <3>1, MessageDeletions
  <2> HIDE DEF v
  <2>10. MessageInv' /\ (owner' # NOBODY /\ PduCmd(owner') \in Range(v) => UnderWay')
    BY <1>4, <1>5, <2>6, <2>7, <2>8, OwnFinal
  <2>11. PduCmd(x) \in Range(<<PduCmd(x)>>)
    BY DEF Range
  <2>12. owner' = NOBODY => UnderWay'
    BY DEF UnderWay
  <2> QED
    BY <2>9, <2>10, <2>11, <2>12 DEF Working
<1>7. CASE at.cur = "AT_CMGS_PDU"
  <2> DEFINE v == CmdPoolDel(CmdPoolDel(w, "AT_CMGS"), "AT_CMGS_PDU")
             u == CmdPoolDel(w, "AT_CMGS_PDU")
  <2>1. CASE RxSmsOk
    <3>1. Due /\ entry = "told" /\ owner' = owner
      BY <1>1, <1>2, <1>4, <1>7, <2>1 DEF Due, RxSmsOk, Answering
    <3>2. \/ owner = NOBODY /\ \E x \in Clients : w = <<LengthCmd(x), PduCmd(x)>>
          \/ \E x \in Clients, y \in Clients :
               w = <<LengthCmd(x), PduCmd(x), LengthCmd(y), PduCmd(y)>> /\ owner = y
      BY <1>5, <3>1 DEF Ready
    <3>3. \/ v = <<>> /\ owner = NOBODY
          \/ \E y \in Clients : v = <<LengthCmd(y), PduCmd(y)>> /\ owner = y
      <4>1. ASSUME NEW x \in Clients, w = <<LengthCmd(x), PduCmd(x)>> PROVE v = <<>>
        BY <4>1, MessageDeletions
      <4>2. ASSUME NEW x \in Clients, NEW y \in Clients,
                   w = <<LengthCmd(x), PduCmd(x), LengthCmd(y), PduCmd(y)>>
            PROVE  v = <<LengthCmd(y), PduCmd(y)>>
        BY <4>2, MessageDeletions
      <4> HIDE DEF v
      <4> QED
        BY <3>2, <4>1, <4>2
    <3>4. Shape(v)'
      BY <3>1, <3>3 DEF Shape
    <3>5. SmsFinal(TRUE)
      BY <2>1 DEF RxSmsOk
    <3>6. v = CmdPoolDel(IF TRUE /\ at.cur = "AT_CMGS_PDU" THEN CmdPoolDel(w, "AT_CMGS") ELSE w,
                         at.cur)
      BY <1>7
    <3>7. owner' # NOBODY => PduCmd(owner') \in Range(v)
      <4>1. ASSUME NEW y \in Clients PROVE PduCmd(y) \in Range(<<LengthCmd(y), PduCmd(y)>>)
        <5>1. /\ 2 \in DOMAIN <<LengthCmd(y), PduCmd(y)>>
              /\ <<LengthCmd(y), PduCmd(y)>>[2] = PduCmd(y)
          OBVIOUS
        <5> QED
          BY <5>1 DEF Range
      <4> QED
        BY <3>1, <3>3, <4>1
    <3> HIDE DEF v
    <3>8. MessageInv' /\ (owner' # NOBODY /\ PduCmd(owner') \in Range(v) => UnderWay')
      BY <1>4, <1>5, <3>4, <3>5, <3>6, OwnFinal
    <3>9. owner' = NOBODY => UnderWay'
      BY DEF UnderWay
    <3> QED
      BY <3>7, <3>8, <3>9 DEF Working
  <2>2. CASE RxSmsError
    <3>1. ~Told /\ owner' = owner
      BY <1>7, <2>2 DEF Told, RxSmsError
    <3>2. \/ w = <<>>
          \/ \E x \in Clients :
               w \in {<<LengthCmd(x)>>, <<PduCmd(x)>>, <<LengthCmd(x), PduCmd(x)>>}
                 /\ (owner = x \/ w = <<PduCmd(x)>>)
          \/ \E x \in Clients, y \in Clients :
               w = <<PduCmd(x), LengthCmd(y), PduCmd(y)>> /\ owner = y
      BY <1>5, <3>1 DEF Shape
    <3>3. \/ u = <<>>
          \/ \E x \in Clients :
               owner = x /\ (u = <<LengthCmd(x)>> \/ u = <<LengthCmd(x), PduCmd(x)>>)
      <4>1. w = <<>> => u = <<>>
        BY DelNothing
      <4>2. ASSUME NEW x \in Clients
            PROVE  /\ w = <<PduCmd(x)>> => u = <<>>
                   /\ w = <<LengthCmd(x)>> \/ w = <<LengthCmd(x), PduCmd(x)>>
                        => u = <<LengthCmd(x)>>
        BY <4>2, MessageDeletions
      <4>3. ASSUME NEW x \in Clients, NEW y \in Clients,
                   w = <<PduCmd(x), LengthCmd(y), PduCmd(y)>>
            PROVE  u = <<LengthCmd(y), PduCmd(y)>>
        BY <4>3, MessageDeletions
      <4> HIDE DEF u
      <4> QED
        BY <3>2, <4>1, <4>2, <4>3
    <3>4. Shape(u)'
      BY <3>1, <3>3 DEF Shape
    <3>5. SmsFinal(FALSE)
      BY <2>2 DEF RxSmsError
    <3>6. u = CmdPoolDel(IF FALSE /\ at.cur = "AT_CMGS_PDU" THEN CmdPoolDel(w, "AT_CMGS") ELSE w,
                         at.cur)
      BY <1>7
    <3> HIDE DEF u
    <3> QED
      BY <1>4, <1>5, <1>7, <2>2, <3>4, <3>5, <3>6, OwnFinal DEF Working
  <2>3. CASE RxCmsError
    <3>1. ~Told /\ owner' = NOBODY
      BY <1>7, <2>3 DEF Told, RxCmsError, EndMessage
    <3>2. \/ w = <<>>
          \/ \E x \in Clients :
               w \in {<<LengthCmd(x)>>, <<PduCmd(x)>>, <<LengthCmd(x), PduCmd(x)>>}
          \/ \E x \in Clients, y \in Clients : w = <<PduCmd(x), LengthCmd(y), PduCmd(y)>>
      BY <1>5, <3>1 DEF Shape
    <3>3. v = <<>> \/ \E y \in Clients : v = <<PduCmd(y)>>
      <4>1. w = <<>> => v = <<>>
        BY DelNothing
      <4>2. ASSUME NEW x \in Clients,
                   w \in {<<LengthCmd(x)>>, <<PduCmd(x)>>, <<LengthCmd(x), PduCmd(x)>>}
            PROVE  v = <<>>
        <5>1. CASE w = <<LengthCmd(x)>>
          BY <5>1, MessageDeletions
        <5>2. CASE w = <<PduCmd(x)>>
          BY <5>2, MessageDeletions
        <5>3. CASE w = <<LengthCmd(x), PduCmd(x)>>
          BY <5>3, MessageDeletions
        <5> QED
          BY <4>2, <5>1, <5>2, <5>3
      <4>3. ASSUME NEW x \in Clients, NEW y \in Clients,
                   w = <<PduCmd(x), LengthCmd(y), PduCmd(y)>>
            PROVE  v = <<PduCmd(y)>>
        BY <4>3, MessageDeletions
      <4> HIDE DEF v
      <4> QED
        BY <3>2, <4>1, <4>2, <4>3
    <3>4. Shape(v)'
      BY <3>1, <3>3 DEF Shape
    <3>5. SmsFinal(TRUE)
      BY <2>3 DEF RxCmsError
    <3>6. v = CmdPoolDel(IF TRUE /\ at.cur = "AT_CMGS_PDU" THEN CmdPoolDel(w, "AT_CMGS") ELSE w,
                         at.cur)
      BY <1>7
    <3> HIDE DEF v
    <3>7. UnderWay'
      BY <3>1 DEF UnderWay
    <3> QED
      BY <1>4, <1>5, <3>4, <3>5, <3>6, <3>7, OwnFinal DEF Working
  <2> QED
    BY <2>1, <2>2, <2>3
<1> QED
  BY <1>6, <1>7 DEF Message

\* The modem reports the message that was sent, to its owner or past it.
LEMMA ReportMessage ==
  ASSUME IInv, LineInv, MessageInv, SentDue, at' = at, entry' = "told", astray' <=> astray,
         \/ at.cur = "AT_CMGS_PDU" /\ owner' = NOBODY
         \/ at.cur # "AT_CMGS_PDU" /\ owner' = owner
  PROVE  MessageInv'
<1>0. CASE astray
  BY <1>0, AstrayMessage
<1> SUFFICES ASSUME ~astray
             PROVE  MessageInv'
  BY <1>0
<1>1. Answering("AT_CMGS_PDU") /\ Answering("AT_CMGS_PDU")' /\ entry = "data" /\ Told' /\ ~Lost
  BY DEF SentDue, Answering, Told, Lost
<1>2. Waited' /\ Fronted' /\ Named'
  BY <1>1 DEF MessageInv, Waited, Fronted, Named
<1>3. ASSUME ~Lost' PROVE Len(at.line) = 1
  <2>1. at.line \in Seq(Command) /\ Len(at.line) \in Nat /\ Len(at.line) # 0
    BY <1>1, ChannelFields, LenProperties, EmptySeq DEF IInv, TypeOK, Answering
  <2>2. ~(Len(at.line) > 1)
    BY <1>1, <1>3, Zenon DEF Lost
  <2> DEFINE n == Len(at.line)
  <2>3. n \in Nat /\ n # 0 /\ ~(n > 1)
    BY <2>1, <2>2
  <2> HIDE DEF n
  <2>4. n = 1
    BY <2>3
  <2> QED
    BY <2>4 DEF n
<1>4. ASSUME ~Lost'
      PROVE  \E w \in Seq(Command) : Remains(at.pool, Message, w) /\ Shape(w)' /\ (Due' => Ready(w)')
  <2>1. PICK w \in Seq(Command) : Remains(at.pool, Message, w) /\ Shape(w) /\ (Due => Ready(w))
    BY <1>1 DEF MessageInv, Kept
  <2>2. CASE at.cur = "AT_CMGS_PDU" /\ owner' = NOBODY
    <3>1. Due
      BY <1>1, <1>3, <1>4, <2>2 DEF Due
    <3>2. \E x \in Clients : w = <<LengthCmd(x), PduCmd(x)>>
      BY <1>1, <2>1, <3>1 DEF Ready
    <3>3. Shape(w)' /\ Ready(w)'
      BY <1>1, <2>2, <3>2 DEF Shape, Ready
    <3> QED
      BY <2>1, <3>3
  <2>3. CASE at.cur # "AT_CMGS_PDU" /\ owner' = owner
    <3>1. Shape(w)'
      BY <1>1, <2>1, <2>3 DEF Shape
    <3>2. ~Due'
      BY <2>3 DEF Due
    <3> QED
      BY <2>1, <3>1, <3>2
  <2> QED
    BY <2>2, <2>3
<1> QED
  BY <1>2, <1>4 DEF MessageInv, Kept

\* The modem loses a command, or its answer.
LEMMA LostMessage ==
  ASSUME IInv, LineInv, MessageInv, SmsModemLoses
  PROVE  MessageInv'
<1>0. CASE astray'
  BY <1>0, AstrayMessage
<1> SUFFICES ASSUME ~astray'
             PROVE  MessageInv'
  BY <1>0
<1>1. /\ at \in Channel /\ at.line # <<>> /\ at' = Answered(at) /\ owner' = owner
      /\ entry' = "command" /\ ~astray /\ ~Told
  BY DEF IInv, TypeOK, SmsModemLoses, ModemLoses, Told
<1>2. at'.pool = at.pool /\ at'.cur = at.cur /\ at'.timer = at.timer
  BY <1>1, AnsweredEffect
<1>3. ~Due' /\ ~Told' /\ ~Lost
  BY <1>1 DEF Due, Told, Lost
<1>4. PICK w \in Seq(Command) : Remains(at.pool, Message, w) /\ Shape(w)
  BY <1>3 DEF MessageInv, Kept
<1>5. Shape(w)'
  BY <1>1, <1>2, <1>4 DEF Shape
<1>6. Kept'
  BY <1>2, <1>3, <1>4, <1>5 DEF Kept
<1>7. Waited' /\ Fronted' /\ Named'
  BY <1>1, <1>2, <1>3 DEF MessageInv, Waited, Fronted, Named
<1> QED
  BY <1>6, <1>7 DEF MessageInv

\* One step of the message under way.
LEMMA MessageStep ==
  ASSUME IInv, LineInv, MessageInv, [SmsNext]_allVars
  PROVE  MessageInv'
<1>1. CASE UNCHANGED allVars
  BY <1>1, SameMessage DEF allVars, vars, smsVars
<1>2. ASSUME NEW c \in Clients, SendSMS(c) \/ RefuseSMS(c)
      PROVE  MessageInv'
  BY <1>2, SameMessage DEF SendSMS, RefuseSMS, vars
<1>3. ASSUME NEW c \in Clients, OnSendSMS(c)
      PROVE  MessageInv'
  BY <1>3, QueuedMessage
<1>4. CASE SmsReset \/ SmsStart
  <2>1. Anew(at.line, at')
    BY <1>4, AnewStep DEF SmsReset, SmsStart, TickRecoveryOver, TickNoAnswer, OnSerialError,
                          OnClientReset
  <2> QED
    BY <2>1, AnewMessage
<1>5. CASE SmsKilled
  <2>1. at'.pool = <<>> /\ at'.cur = NONE /\ ~Due' /\ at'.cur \notin Message
    BY <1>5 DEF SmsKilled, Killed, Dead, IdleChannel, Due, Message, NONE
  <2>2. Remains(<<>>, Message, <<>>) /\ Shape(<<>>)' /\ <<>> \in Seq(Command)
    <3>1. <<>> \in Seq(Command) /\ DOMAIN <<>> = {}
      BY EmptySeq
    <3> QED
      BY <3>1, RemainsNone DEF Shape
  <2> QED
    BY <2>1, <2>2 DEF MessageInv, Kept, Waited, Fronted, Named
<1>6. CASE RxSmsPrompt
  BY <1>6, PromptMessage
<1>7. CASE RxSent
  BY <1>7, ReportMessage DEF RxSent, EndMessage, vars
<1>8. CASE RxMessage
  BY <1>8, SameMessage DEF RxMessage, MessageDue, Answering, vars
<1>9. CASE RxUnclaimed
  <2>1. CASE SentDue
    <3>1. at.cur # "AT_CMGS_PDU"
      BY <1>9, <2>1 DEF RxUnclaimed, SentDue, Answering
    <3>2. at' = at /\ entry' = "told" /\ owner' = owner
      BY <1>9, <3>1 DEF RxUnclaimed, vars
    <3>3. astray' <=> astray
      BY <1>9, <3>2, Zenon DEF RxUnclaimed
    <3> QED
      BY <2>1, <3>1, <3>2, <3>3, ReportMessage
  <2>2. CASE MessageDue
    <3>1. ~Answering("AT_CMGS_PDU") /\ at' = at /\ entry' = "told"
      BY <1>9, <2>2 DEF RxUnclaimed, MessageDue, Answering, vars
    <3>2. astray' \/ (owner' = owner /\ (astray' <=> astray))
      BY <1>9, Zenon DEF RxUnclaimed
    <3> QED
      BY <3>1, <3>2, AstrayMessage, SameMessage
  <2> QED
    BY <1>9, <2>1, <2>2 DEF RxUnclaimed
<1>10. CASE RxStray
  <2>1. at' = at /\ entry' = entry
    BY <1>10 DEF RxStray, vars
  <2>2. astray' \/ (owner' = owner /\ (astray' <=> astray))
    <3>1. owner # NOBODY => astray'
      BY <1>10, Zenon DEF RxStray
    <3>2. owner = NOBODY => owner' = owner /\ (astray' <=> astray)
      BY <1>10, Zenon DEF RxStray
    <3> QED
      BY <3>1, <3>2
  <2> QED
    BY <2>1, <2>2, AstrayMessage, SameMessage
<1>11. CASE RxAnnounced
  <2>1. PICK i \in Indexes : at' = SendCommands(at, ReadAndDelete(i))
    BY <1>11 DEF RxAnnounced
  <2>2. /\ ReadAndDelete(i) \in Seq(Command) /\ ReadAndDelete(i) # <<>>
        /\ Without(Message, ReadAndDelete(i))
    <3>1. ReadAndDelete(i) \in Seq(Command) /\ ReadAndDelete(i) = <<ReadCmd(i), DeleteCmd(i)>>
      BY SmsAssumption, RunsAssumption DEF ReadAndDelete, ReadCmd, DeleteCmd
    <3>2. ReadCmd(i).tag \notin Message /\ DeleteCmd(i).tag \notin Message
      BY DEF ReadCmd, DeleteCmd, CmdText, Message
    <3> QED
      BY <3>1, <3>2 DEF Without
  <2>3. /\ at.pool \o ReadAndDelete(i) \in Seq(Command)
        /\ Turns(at, at.pool \o ReadAndDelete(i), at')
    BY <2>1, <2>2, QueueTwo
  <2>4. owner' = owner /\ entry' = entry /\ astray' = astray
    BY <1>11 DEF RxAnnounced
  <2> QED
    BY <2>2, <2>3, <2>4, OthersMessage
<1>12. CASE RxPush \/ RxPushed
  BY <1>12, SameMessage DEF RxPush, RxPushed, vars
<1>13. CASE RxEaten
  <2>1. at' = at /\ owner' = owner
    BY <1>13 DEF RxEaten, vars
  <2>2. \/ astray'
        \/ ~Answering("AT_CMGS_PDU") /\ entry' = "told" /\ astray' = astray
        \/ entry' = entry /\ astray' = astray
    BY <1>13 DEF RxEaten, MessageDue, Answering
  <2> QED
    BY <2>1, <2>2, AstrayMessage, SameMessage
<1>14. CASE RxSmsOk \/ RxSmsError \/ RxCmsError
  BY <1>14, ResultMessage
<1>15. CASE SmsModemLoses
  BY <1>15, LostMessage
<1>16. CASE DispatchStep
  <2>1. PICK cs \in Seq(Command), pool \in Seq(Command) :
           /\ Without(Message \cup Storage, cs)
           /\ pool = at.pool \o cs \/ pool = cs \o at.pool
           /\ Turns(at, pool, at')
    BY <1>16, OthersStep
  <2>2. Without(Message, cs)
    BY <2>1 DEF Without
  <2>3. owner' = owner /\ entry' = entry /\ astray' = astray
    BY <1>16 DEF DispatchStep, smsVars
  <2> QED
    BY <2>1, <2>2, <2>3, OthersMessage
<1> QED
  BY <1>1, <1>2, <1>3, <1>4, <1>5, <1>6, <1>7, <1>8, <1>9, <1>10, <1>11, <1>12, <1>13, <1>14,
     <1>15, <1>16 DEF SmsNext, SmsRxLine

\* What is proved of messages, beside the channel.
SmsInv == IInv /\ Forgotten /\ LineInv /\ MessageInv

\* The pool of the first bring-up holds none of them.
LEMMA InitSmsInv == SmsInit => SmsInv
<1> SUFFICES ASSUME SmsInit
             PROVE  SmsInv
  OBVIOUS
<1>1. IInv /\ Forgotten
  BY InitIInv DEF SmsInit, Forgotten
<1>2. PICK up \in Opened : at = InitChannel(<<>>, up)
  BY DEF SmsInit, Init
<1>3. <<>> \in Seq(Command) /\ up \in BOOLEAN
  BY OpenedFacts, EmptySeq
<1>4. Anew(<<>>, at)
  BY <1>2, <1>3, StartEffect
<1>5. /\ at.pool = InitCmds /\ at.cur \notin Message \cup Storage
      /\ Head(at.pool).tag # "AT_CMGS_PDU" /\ entry = "command"
  BY <1>4, InitHead DEF Anew, Message, SmsInit
<1>6. Len(at.line) <= LineCap
  <2> DEFINE l == <<>>
  <2>1. l \in Seq(Command) /\ Anew(l, at) /\ Len(l) <= LineCap
    BY <1>3, <1>4, TimerAssumption
  <2> HIDE DEF l
  <2> QED
    BY <2>1, AnewLine
<1>7. LineInv
  BY <1>5, <1>6 DEF LineInv, AnswersFirst
<1>8. Remains(at.pool, Message, <<>>) /\ Shape(<<>>)
  BY <1>5, InitCmdsAssumption, RemainsNone, SmsSourcesAssumption DEF Without, Shape
<1>9. MessageInv
  BY <1>3, <1>5, <1>8 DEF MessageInv, Kept, Waited, Fronted, Named, Due, Told
<1> QED
  BY <1>1, <1>7, <1>9 DEF SmsInv

\* And every step keeps them in order.
LEMMA NextSmsInv == SmsInv /\ [SmsNext]_allVars => SmsInv'
<1> SUFFICES ASSUME SmsInv, [SmsNext]_allVars
             PROVE  SmsInv'
  OBVIOUS
<1>1. IInv'
  BY SmsStep, NextIInv DEF SmsInv
<1> QED
  BY <1>1, ForgottenStep, LineInvStep, MessageStep DEF SmsInv

\* The order of the commands of messages in the pool is an invariant.
THEOREM MessagesInOrder == SmsSpec => []SmsInv
BY InitSmsInv, NextSmsInv, PTL DEF SmsSpec

\* SMS_Sent goes to the client whose message was sent (see SentIsOwn).
THEOREM SentIsTold == SmsSpec => []SentIsOwn
<1>1. SmsInv => SentIsOwn
  BY DEF SmsInv, MessageInv, Named, Due, SentIsOwn, SentDue, Seen
<1> QED
  BY <1>1, MessagesInOrder, PTL

\* One prompt.
LEMMA PromptStep ==
  ASSUME SmsInv, RxSmsPrompt, ~at.slipped, ~astray, at'.line # <<>>, at'.cur = "AT_CMGS_PDU"
  PROVE  Last(at'.line) = CmdText("AT_CMGS_PDU", Head(at.line).val)
<1> DEFINE l == Tail(at.line)
           c == CmdPoolGet(at.pool, "AT_CMGS_PDU")
<1>1. /\ IInv /\ LineInv /\ MessageInv /\ at.pool \in Seq(Command) /\ at.line \in Seq(Command)
  BY ChannelFields DEF SmsInv, IInv, TypeOK
<1>2. /\ at.cur = "AT_CMGS" /\ at.line # <<>> /\ at.port
      /\ "AT_CMGS_PDU" \in PoolTags(at.pool) /\ c \in Command
      /\ l \in Seq(Command) /\ Len(l) = Len(at.line) - 1
      /\ at'.line = IF Len(l) < LineCap THEN Append(l, c) ELSE l
  BY <1>1, PromptEffect
<1>3. PICK w \in Seq(Command), x \in Clients :
        /\ Remains(at.pool, Message, w) /\ owner = x
        /\ w \in {<<LengthCmd(x)>>, <<LengthCmd(x), PduCmd(x)>>}
  BY <1>1, PromptOwner
<1>4. w = <<LengthCmd(x), PduCmd(x)>> /\ c = PduCmd(x)
  BY <1>1, <1>2, <1>3, PromptData
<1>5. Head(at.line).val = x
  <2>1. Head(at.line) = CmdPoolGet(at.pool, "AT_CMGS")
    BY <1>1, <1>2 DEF LineInv, AnswersFirst, Message
  <2>2. /\ w # <<>> /\ Head(w) = LengthCmd(x) /\ LengthCmd(x).tag = "AT_CMGS"
        /\ LengthCmd(x).val = x
    BY <1>4, MessageTags DEF LengthCmd, CmdText
  <2>3. "AT_CMGS" \in PoolTags(w) /\ CmdPoolGet(w, "AT_CMGS") = LengthCmd(x)
    BY <2>2, GetHead, HeadProperties
  <2>4. "AT_CMGS" \in PoolTags(at.pool)
    BY <1>1, <1>3, <2>3, RemainsTags DEF Message
  <2>5. CmdPoolGet(at.pool, "AT_CMGS") = LengthCmd(x)
    BY <1>1, <1>3, <2>3, <2>4, RemainsGet DEF Message
  <2> QED
    BY <2>1, <2>2, <2>5
<1>6. l = <<>>
  <2>1. Len(at.line) <= 1 /\ Len(at.line) \in Nat
    BY <1>1, <1>2, LenProperties DEF IInv, Sound, AnswerMatches
  <2>2. Len(l) \in Nat
    BY <1>2, LenProperties
  <2>3. Len(l) = 0
    <3> DEFINE n == Len(at.line)
               m == Len(l)
    <3>1. n <= 1 /\ n \in Nat /\ m \in Nat /\ m = n - 1
      BY <1>2, <2>1, <2>2
    <3> HIDE DEF n, m
    <3>2. m = 0
      BY <3>1
    <3> QED
      BY <3>2 DEF m
  <2> QED
    BY <1>2, <2>3, EmptySeq
<1> HIDE DEF l, c
<1>7. at'.line = <<c>>
  BY <1>2, <1>6, TimerAssumption
<1>8. Last(at'.line) = c
  BY <1>7 DEF Last
<1> QED
  BY <1>4, <1>5, <1>8 DEF PduCmd

\* The PDU follows the length of its own message (see PromptIsOwn).
THEOREM PromptIsAnswered == SmsSpec => PromptIsOwn
<1>1. SmsInv /\ [SmsNext]_allVars =>
        [RxSmsPrompt /\ ~at.slipped /\ ~astray /\ at'.line # <<>> /\ at'.cur = "AT_CMGS_PDU"
           => Last(at'.line) = CmdText("AT_CMGS_PDU", Head(at.line).val)]_allVars
  BY PromptStep
<1> QED
  BY <1>1, MessagesInOrder, PTL DEF SmsSpec, PromptIsOwn

\* One step of a message that is under way.
LEMMA WorkStep ==
  ASSUME SmsInv, [SmsNext]_allVars
  PROVE  Working
<1>1. IInv /\ LineInv /\ MessageInv /\ Forgotten /\ at.pool \in Seq(Command)
  BY ChannelFields DEF SmsInv, IInv, TypeOK
<1> SUFFICES ASSUME UnderWay, owner' # NOBODY
             PROVE  UnderWay' \/ astray' \/ (RxSmsError /\ at.cur = "AT_CMGS_PDU")
  BY DEF Working, UnderWay
<1>2. ASSUME owner' = owner, at'.pool = at.pool PROVE UnderWay'
  BY <1>2 DEF UnderWay
<1>3. ASSUME owner' = owner, NEW p \in Seq(Command), NEW q \in Seq(Command),
             at'.pool = p \o q, at.pool = p \/ at.pool = q
      PROVE  UnderWay'
  <2>1. ASSUME NEW c, c \in Range(p) \/ c \in Range(q) PROVE c \in Range(p \o q)
    BY <2>1, RangeConcat
  <2> QED
    BY <1>3, <2>1 DEF UnderWay
<1>4. CASE UNCHANGED allVars
  BY <1>2, <1>4 DEF allVars, vars, smsVars
<1>5. ASSUME NEW c \in Clients, SendSMS(c) \/ RefuseSMS(c) PROVE UnderWay'
  BY <1>2, <1>5 DEF SendSMS, RefuseSMS, vars
<1>6. ASSUME NEW c \in Clients, OnSendSMS(c) PROVE UnderWay'
  <2>1. LengthAndPdu(c) = <<LengthCmd(c), PduCmd(c)>> /\ LengthAndPdu(c) \in Seq(Command)
    BY MessageTags DEF LengthAndPdu, LengthCmd, PduCmd
  <2>2. at'.pool = at.pool \o LengthAndPdu(c)
    BY <1>1, <1>6, <2>1, QueueTwo DEF OnSendSMS, Turns
  <2>3. PduCmd(c) \in Range(LengthAndPdu(c))
    <3>1. 2 \in DOMAIN LengthAndPdu(c) /\ LengthAndPdu(c)[2] = PduCmd(c)
      BY <2>1
    <3> QED
      BY <3>1 DEF Range
  <2>4. PduCmd(c) \in Range(at'.pool)
    <3>1. Range(at.pool \o LengthAndPdu(c)) = Range(at.pool) \cup Range(LengthAndPdu(c))
      BY <1>1, <2>1, RangeConcat
    <3> QED
      BY <2>2, <2>3, <3>1, Zenon
  <2> QED
    BY <1>6, <2>4 DEF UnderWay, OnSendSMS, PduCmd
<1>7. CASE SmsReset \/ SmsKilled
  BY <1>7 DEF SmsReset, SmsKilled
<1>8. CASE SmsStart
  BY <1>1, <1>8 DEF SmsStart, Start, Forgotten
<1>9. CASE RxSmsPrompt
  <2>1. at'.pool = at.pool
    BY <1>1, <1>9, PromptEffect
  <2> QED
    BY <1>2, <1>9, <2>1 DEF RxSmsPrompt
<1>10. CASE RxSent \/ RxMessage \/ RxUnclaimed \/ RxStray \/ RxPush \/ RxPushed \/ RxEaten
  <2>1. at' = at /\ (owner' = owner \/ owner' = NOBODY)
    BY <1>10 DEF RxSent, RxMessage, RxUnclaimed, RxStray, RxPush, RxPushed, RxEaten, EndMessage,
                 vars
  <2> QED
    BY <1>2, <2>1
<1>11. CASE RxAnnounced
  <2>1. PICK i \in Indexes : at' = SendCommands(at, ReadAndDelete(i))
    BY <1>11 DEF RxAnnounced
  <2>2. ReadAndDelete(i) \in Seq(Command) /\ ReadAndDelete(i) # <<>>
    BY SmsAssumption, RunsAssumption DEF ReadAndDelete
  <2>3. at'.pool = at.pool \o ReadAndDelete(i)
    BY <1>1, <2>1, <2>2, QueueTwo DEF Turns
  <2> QED
    BY <1>1, <1>3, <1>11, <2>2, <2>3 DEF RxAnnounced
<1>12. CASE RxSmsOk \/ RxSmsError \/ RxCmsError
  <2>1. Working
    BY <1>1, <1>12, ResultMessage
  <2> QED
    BY <2>1 DEF Working
<1>13. CASE SmsModemLoses
  <2>1. at \in Channel /\ at.line # <<>> /\ at' = Answered(at) /\ owner' = owner
    BY <1>1, <1>13 DEF IInv, TypeOK, SmsModemLoses, ModemLoses
  <2> QED
    BY <1>2, <2>1, AnsweredEffect
<1>14. CASE DispatchStep
  <2>1. PICK cs \in Seq(Command), pool \in Seq(Command) :
           (pool = at.pool \o cs \/ pool = cs \o at.pool) /\ Turns(at, pool, at')
    BY <1>1, <1>14, OthersStep
  <2>2. at'.pool = at.pool \o cs \/ at'.pool = cs \o at.pool
    BY <2>1 DEF Turns
  <2> QED
    BY <1>1, <1>3, <1>14, <2>2 DEF DispatchStep, smsVars
<1> QED
  BY <1>4, <1>5, <1>6, <1>7, <1>8, <1>9, <1>10, <1>11, <1>12, <1>13, <1>14 DEF SmsNext, SmsRxLine

\* A message under way stays in the pool (see WorkKept).
THEOREM WorkIsKept == SmsSpec => WorkKept
<1>1. SmsInv /\ [SmsNext]_allVars =>
        [UnderWay => UnderWay' \/ astray'
                  \/ (RxSmsError /\ at.cur = "AT_CMGS_PDU")]_allVars
  BY WorkStep DEF Working
<1> QED
  BY <1>1, MessagesInOrder, PTL DEF SmsSpec, WorkKept

-----------------------------------------------------------------------------
(* The messages that are received.                                         *)

\* As long as nobody was given a message, its deletion waits behind its reading and
\* the modem does not have it; a message that the modem has told is in its memory,
\* and was given to somebody if the order has not slipped.
Guarded(i) == DeleteCmd(i) \notin Range(at.line) /\ Before(at.pool, ReadCmd(i), DeleteCmd(i))
ToldMessage == Answering("AT_CMGR") /\ entry = "told"
ReceiveInv ==
  /\ \A i \in stored \ (read \cup unread) : Guarded(i)
  /\ ToldMessage => Head(at.line).val \in stored
  /\ ToldMessage /\ at.port /\ ~at.slipped => Head(at.line).val \in read \cup unread

\* The two commands of a place.
LEMMA StorageTags ==
  \A i : /\ ReadCmd(i).tag = "AT_CMGR" /\ ReadCmd(i).val = i
         /\ DeleteCmd(i).tag = "AT_CMGD_INDEX" /\ DeleteCmd(i).val = i
BY DEF ReadCmd, DeleteCmd, CmdText

\* Commands that are put around the pool keep a deletion behind its reading.
LEMMA GuardedTurns ==
  ASSUME IInv, NEW cs \in Seq(Command), NEW pool \in Seq(Command),
         \/ pool = at.pool \o cs
         \/ pool = cs \o at.pool,
         Turns(at, pool, at'), NEW i, Guarded(i), Before(cs, ReadCmd(i), DeleteCmd(i))
  PROVE  Guarded(i)'
<1> DEFINE a == ReadCmd(i)
           b == DeleteCmd(i)
<1>1. /\ at.pool \in Seq(Command) /\ at \in Channel /\ at'.pool = pool
      /\ Before(at.pool, a, b) /\ Before(cs, a, b) /\ b \notin Range(at.line)
  BY ChannelFields DEF IInv, TypeOK, Turns, Guarded
<1> HIDE DEF a, b
<1>2. Before(pool, a, b)
  BY <1>1, BeforeConcat
<1>3. pool # <<>> => Head(pool) # b
  BY <1>2, BeforeHead
<1>4. b \notin Range(at'.line)
  BY <1>1, <1>3, TurnsLine
<1> QED
  BY <1>1, <1>2, <1>4 DEF Guarded, a, b

\* Other commands have no deletion.
LEMMA OthersBefore ==
  ASSUME NEW cs \in Seq(Command), NEW i, \A k \in DOMAIN cs : cs[k].tag # "AT_CMGD_INDEX"
  PROVE  Before(cs, ReadCmd(i), DeleteCmd(i))
BY StorageTags DEF Before

\* A turn keeps what the modem has told.
LEMMA ToldTurns ==
  ASSUME IInv, LineInv, NEW pool \in Seq(Command), Turns(at, pool, at'), entry' = entry,
         ToldMessage'
  PROVE  /\ ToldMessage /\ Head(at'.line) = Head(at.line) /\ at'.port = at.port
         /\ at'.port /\ ~at'.slipped => ~at.slipped
<1>1. at \in Channel
  BY DEF IInv, TypeOK
<1>2. at.line # <<>>
  BY DEF ToldMessage, LineInv
<1>3. at'.line # <<>> /\ Head(at'.line) = Head(at.line)
  BY <1>1, <1>2, TurnsLine
<1>4. ToldMessage
  BY <1>2, <1>3 DEF ToldMessage, Answering
<1>5. at'.port = at.port /\ (at'.port /\ ~at'.slipped => ~at.slipped)
  BY <1>2, Zenon DEF Turns, Dispatched
<1> QED
  BY <1>3, <1>4, <1>5

\* Turns of the channel with commands of other handlers and of messages to send.
LEMMA ReceiveTurns ==
  ASSUME IInv, LineInv, ReceiveInv, NEW cs \in Seq(Command), NEW pool \in Seq(Command),
         \/ pool = at.pool \o cs
         \/ pool = cs \o at.pool,
         \A k \in DOMAIN cs : cs[k].tag # "AT_CMGD_INDEX",
         Turns(at, pool, at'), entry' = entry, UNCHANGED inbox
  PROVE  ReceiveInv'
<1>1. stored' = stored /\ read' = read /\ unread' = unread
  BY DEF inbox
<1>2. ASSUME NEW i, Guarded(i) PROVE Guarded(i)'
  BY <1>2, OthersBefore, GuardedTurns
<1>3. ToldMessage' =>
        /\ ToldMessage /\ Head(at'.line) = Head(at.line) /\ at'.port = at.port
        /\ at'.port /\ ~at'.slipped => ~at.slipped
  BY ToldTurns
<1> QED
  BY <1>1, <1>2, <1>3 DEF ReceiveInv

\* +CMTI.
LEMMA ReceiveAnnounced ==
  ASSUME IInv, LineInv, ReceiveInv, RxAnnounced
  PROVE  ReceiveInv'
<1>1. PICK i \in Indexes \ stored :
        /\ at' = SendCommands(at, ReadAndDelete(i))
        /\ stored' = stored \cup {i} /\ read' = read \ {i} /\ unread' = Doubted(i)
        /\ entry' = entry
  BY DEF RxAnnounced
<1> DEFINE cs == ReadAndDelete(i)
<1>2. cs \in Seq(Command) /\ cs # <<>> /\ cs = <<ReadCmd(i), DeleteCmd(i)>>
  BY SmsAssumption, RunsAssumption DEF ReadAndDelete, ReadCmd, DeleteCmd
<1>3. ASSUME NEW j PROVE Before(cs, ReadCmd(j), DeleteCmd(j))
  <2>1. DOMAIN cs = 1 .. 2 /\ cs[1] = ReadCmd(i) /\ cs[2] = DeleteCmd(i)
    BY <1>2
  <2>2. CASE j = i
    BY <2>1, <2>2, StorageTags DEF Before
  <2>3. CASE j # i
    BY <2>1, <2>3, StorageTags DEF Before
  <2> QED
    BY <2>2, <2>3
<1> HIDE DEF cs
<1>4. at.pool \o cs \in Seq(Command) /\ Turns(at, at.pool \o cs, at')
  BY <1>1, <1>2, QueueTwo DEF cs
<1>5. ASSUME NEW j \in stored' \ (read' \cup unread') PROVE Guarded(j)
  <2>1. CASE j = i
    <3>1. DeleteCmd(i) \notin Range(at.pool) \cup Range(at.line)
      BY <1>1, <1>5, <2>1 DEF Doubted, DeleteCmd
    <3>2. at.pool \in Seq(Command)
      BY ChannelFields DEF IInv, TypeOK
    <3> QED
      BY <2>1, <3>1, <3>2, BeforeNone DEF Guarded
  <2>2. CASE j # i
    BY <1>1, <1>5, <2>2 DEF Doubted, ReceiveInv
  <2> QED
    BY <2>1, <2>2
<1>6. ASSUME NEW j \in stored' \ (read' \cup unread') PROVE Guarded(j)'
  BY <1>2, <1>3, <1>4, <1>5, <1>6, GuardedTurns
<1>7. ToldMessage' =>
        /\ ToldMessage /\ Head(at'.line) = Head(at.line) /\ at'.port = at.port
        /\ at'.port /\ ~at'.slipped => ~at.slipped
  BY <1>1, <1>4, ToldTurns
<1>8. ToldMessage' => Head(at'.line).val \in stored'
  BY <1>1, <1>7 DEF ReceiveInv
<1>9. ToldMessage' /\ at'.port /\ ~at'.slipped => Head(at'.line).val \in read' \cup unread'
  BY <1>1, <1>7 DEF ReceiveInv, Doubted
<1> QED
  BY <1>6, <1>8, <1>9 DEF ReceiveInv

\* A bring-up over the same line.
LEMMA ReceiveAnew ==
  ASSUME IInv, LineInv, ReceiveInv, Anew(at.line, at'), entry' = entry, UNCHANGED inbox
  PROVE  ReceiveInv'
<1>1. /\ stored' = stored /\ read' = read /\ unread' = unread
      /\ at.line \in Seq(Command)
  BY ChannelFields DEF inbox, IInv, TypeOK
<1>2. ASSUME NEW i, Guarded(i) PROVE Guarded(i)'
  <2>1. Before(at'.pool, ReadCmd(i), DeleteCmd(i))
    BY InitCmdsAssumption, SmsSourcesAssumption, OthersBefore DEF Anew, Without, Storage
  <2>2. Head(InitCmds) # DeleteCmd(i)
    BY InitHead, StorageTags DEF Storage
  <2>3. DeleteCmd(i) \notin Range(at'.line)
    BY <1>1, <1>2, <2>2, AnewLine DEF Guarded
  <2> QED
    BY <2>1, <2>3 DEF Guarded
<1>3. ToldMessage' =>
        ToldMessage /\ Head(at'.line) = Head(at.line) /\ ~(at'.port /\ ~at'.slipped)
  <2>1. SUFFICES ASSUME ToldMessage'
                 PROVE  ToldMessage /\ Head(at'.line) = Head(at.line) /\ ~(at'.port /\ ~at'.slipped)
    OBVIOUS
  <2>2. at.line # <<>>
    BY <2>1 DEF ToldMessage, LineInv
  <2>3. at'.line # <<>> /\ Head(at'.line) = Head(at.line)
    BY <1>1, <2>2, AnewLine
  <2>4. at'.port => at'.slipped
    BY <2>2 DEF Anew
  <2> QED
    BY <2>1, <2>2, <2>3, <2>4 DEF ToldMessage, Answering
<1> QED
  BY <1>1, <1>2, <1>3 DEF ReceiveInv

\* The oldest answer is gone, and with it what was told of it.
LEMMA ReceiveShorter ==
  ASSUME IInv, ReceiveInv, at.line # <<>>, Range(at'.line) \cap {DeleteCmd(i) : i \in stored}
           \subseteq Range(Tail(at.line)),
         entry' # "told", stored' \subseteq stored,
         \A i \in stored' \ (read' \cup unread') :
           /\ i \notin read \cup unread
           /\ Before(at.pool, ReadCmd(i), DeleteCmd(i)) => Before(at'.pool, ReadCmd(i), DeleteCmd(i))
  PROVE  ReceiveInv'
<1>1. at.line \in Seq(Command)
  BY ChannelFields DEF IInv, TypeOK
<1>2. Range(Tail(at.line)) \subseteq Range(at.line)
  <2> DEFINE l == Tail(at.line)
  <2>1. /\ DOMAIN l = 1 .. Len(at.line) - 1 /\ DOMAIN at.line = 1 .. Len(at.line)
        /\ Len(at.line) \in Nat
        /\ \A k \in 1 .. Len(at.line) - 1 : l[k] = at.line[k + 1]
    BY <1>1, HeadTailProperties, LenProperties
  <2> HIDE DEF l
  <2>2. \A k \in 1 .. Len(at.line) - 1 : k + 1 \in 1 .. Len(at.line)
    BY <2>1
  <2>3. Range(l) \subseteq Range(at.line)
    BY <2>1, <2>2 DEF Range
  <2> QED
    BY <2>3 DEF l
<1>3. ASSUME NEW i \in stored' \ (read' \cup unread') PROVE Guarded(i)'
  <2>1. Guarded(i) /\ i \in stored
    BY <1>3 DEF ReceiveInv
  <2> QED
    BY <1>2, <1>3, <2>1 DEF Guarded
<1> QED
  BY <1>3 DEF ReceiveInv, ToldMessage

\* A final result: a reading that is completed without its lines is known to be missed,
\* or was told before.
LEMMA ReceiveFinal ==
  ASSUME IInv, LineInv, ReceiveInv, RxSmsOk \/ RxSmsError \/ RxCmsError
  PROVE  ReceiveInv'
<1>1. PICK ends \in BOOLEAN : SmsFinal(ends)
  BY DEF RxSmsOk, RxSmsError, RxCmsError
<1>2. /\ at.line # <<>> /\ at.port /\ Left(ends) \in Seq(Command) /\ at.pool \in Seq(Command)
      /\ at'.pool = CmdPoolDel(Left(ends), at.cur) /\ at'.line = Tail(at.line)
      /\ entry' = "command" /\ read' = read
  BY <1>1, FinalEffect, ChannelFields DEF SmsFinal, IInv, TypeOK
<1>3. stored' \subseteq stored /\ unread \subseteq unread'
  BY DEF RxSmsOk, RxSmsError, RxCmsError
<1>4. ASSUME NEW i \in stored' \ (read' \cup unread'),
             Before(at.pool, ReadCmd(i), DeleteCmd(i))
      PROVE  Before(at'.pool, ReadCmd(i), DeleteCmd(i))
  <2> DEFINE a == ReadCmd(i)
             b == DeleteCmd(i)
             p == Left(ends)
  <2>1. a.tag = "AT_CMGR" /\ a.val = i
    BY StorageTags
  <2>2. Before(p, a, b)
    <3>1. "AT_CMGS" \in PoolTags(at.pool) => CmdPoolGet(at.pool, "AT_CMGS") # a
      BY <1>2, <2>1, CmdPoolGetProperties
    <3> HIDE DEF a, b
    <3>2. Before(CmdPoolDel(at.pool, "AT_CMGS"), a, b)
      BY <1>2, <1>4, <3>1, BeforeDel DEF a, b
    <3> QED
      BY <1>4, <3>2 DEF Left, a, b
  <2>3. at.cur \in PoolTags(p) => CmdPoolGet(p, at.cur) # a
    <3>1. CASE at.cur # "AT_CMGR"
      BY <1>2, <2>1, <3>1, CmdPoolGetProperties
    <3>2. CASE at.cur = "AT_CMGR"
      <4>1. p = at.pool
        BY <3>2 DEF Left
      <4> SUFFICES ASSUME "AT_CMGR" \in PoolTags(at.pool)
                   PROVE  CmdPoolGet(at.pool, "AT_CMGR").val # i
        BY <2>1, <3>2, <4>1
      <4>2. Missed = {CmdPoolGet(at.pool, "AT_CMGR").val}
        BY <3>2 DEF Missed
      <4>3. CASE unread' = unread \cup Missed
        BY <1>4, <4>2, <4>3
      <4>4. CASE RxSmsOk /\ ~at.slipped
        <5>1. Head(at.line) = CmdPoolGet(at.pool, "AT_CMGR")
          BY <1>2, <3>2, <4>4 DEF LineInv, AnswersFirst, Storage
        <5>2. Answering("AT_CMGR")
          BY <1>2, <5>1, CmdPoolGetProperties DEF Answering
        <5>3. entry = "told" \/ Head(at.line).val \notin stored
          BY <4>4, <5>2 DEF RxSmsOk, MessageDue
        <5>4. CASE entry = "told"
          <6>1. Head(at.line).val \in read \cup unread
            BY <1>2, <4>4, <5>2, <5>4 DEF ReceiveInv, ToldMessage
          <6> QED
            BY <1>2, <1>3, <1>4, <5>1, <6>1
        <5>5. CASE Head(at.line).val \notin stored
          BY <1>3, <1>4, <5>1, <5>5
        <5> QED
          BY <5>3, <5>4, <5>5
      <4>5. unread' = unread \cup Missed \/ (RxSmsOk /\ ~at.slipped)
        BY DEF RxSmsOk, RxSmsError, RxCmsError
      <4> QED
        BY <4>3, <4>4, <4>5
    <3> QED
      BY <3>1, <3>2
  <2> HIDE DEF a, b, p
  <2>4. Before(CmdPoolDel(p, at.cur), a, b)
    BY <1>2, <2>2, <2>3, BeforeDel DEF p
  <2> QED
    BY <1>2, <2>4 DEF a, b, p
<1> QED
  BY <1>2, <1>3, <1>4, ReceiveShorter

\* A step that leaves the channel alone.
LEMMA ReceiveSame ==
  ASSUME ReceiveInv, at' = at, stored' = stored, read \cup unread \subseteq read' \cup unread',
         ToldMessage' /\ ~ToldMessage =>
           /\ MessageDue
           /\ at.port /\ ~at.slipped => Head(at.line).val \in read' \cup unread'
  PROVE  ReceiveInv'
<1>1. \A i : Guarded(i)' <=> Guarded(i)
  BY DEF Guarded
<1>2. \A i \in stored' \ (read' \cup unread') : Guarded(i)'
  BY <1>1 DEF ReceiveInv
<1>3. ToldMessage' => Head(at'.line).val \in stored'
  BY DEF ReceiveInv, MessageDue
<1>4. ToldMessage' /\ at'.port /\ ~at'.slipped => Head(at'.line).val \in read' \cup unread'
  BY DEF ReceiveInv
<1> QED
  BY <1>2, <1>3, <1>4 DEF ReceiveInv

\* One step of the messages that are received.
LEMMA ReceiveStep ==
  ASSUME IInv, LineInv, ReceiveInv, [SmsNext]_allVars
  PROVE  ReceiveInv'
<1>0. at.line \in Seq(Command) /\ at.pool \in Seq(Command) /\ Sound(at)
  BY ChannelFields DEF IInv, TypeOK
<1>1. ASSUME at' = at, entry' = entry, UNCHANGED inbox
      PROVE  ReceiveInv'
  BY <1>1, ReceiveSame DEF inbox, ToldMessage, Answering
<1>2. CASE UNCHANGED allVars
  BY <1>1, <1>2 DEF allVars, vars, smsVars
<1>3. ASSUME NEW c \in Clients, SendSMS(c) \/ RefuseSMS(c)
      PROVE  ReceiveInv'
  BY <1>1, <1>3 DEF SendSMS, RefuseSMS, vars
<1>4. ASSUME NEW c \in Clients, OnSendSMS(c)
      PROVE  ReceiveInv'
  <2>1. /\ LengthAndPdu(c) = <<LengthCmd(c), PduCmd(c)>> /\ LengthAndPdu(c) \in Seq(Command)
        /\ LengthAndPdu(c) # <<>>
    BY MessageTags DEF LengthAndPdu, LengthCmd, PduCmd
  <2>2. \A k \in DOMAIN LengthAndPdu(c) : LengthAndPdu(c)[k].tag # "AT_CMGD_INDEX"
    <3>1. /\ DOMAIN LengthAndPdu(c) = 1 .. 2
          /\ LengthAndPdu(c)[1] = LengthCmd(c) /\ LengthAndPdu(c)[2] = PduCmd(c)
      BY <2>1
    <3>2. LengthCmd(c).tag = "AT_CMGS" /\ PduCmd(c).tag = "AT_CMGS_PDU"
      BY MessageTags
    <3> QED
      BY <3>1, <3>2
  <2>3. /\ at.pool \o LengthAndPdu(c) \in Seq(Command)
        /\ Turns(at, at.pool \o LengthAndPdu(c), at')
    BY <1>4, <2>1, QueueTwo DEF OnSendSMS
  <2> QED
    BY <1>4, <2>1, <2>2, <2>3, ReceiveTurns DEF OnSendSMS
<1>5. CASE SmsReset \/ SmsStart
  <2>1. Anew(at.line, at')
    BY <1>5, AnewStep DEF SmsReset, SmsStart, TickRecoveryOver, TickNoAnswer, OnSerialError,
                          OnClientReset
  <2> QED
    BY <1>5, <2>1, ReceiveAnew DEF SmsReset, SmsStart
<1>6. CASE SmsKilled
  <2>1. at'.line = at.line /\ at'.pool = <<>> /\ ~at'.port /\ entry' = entry /\ UNCHANGED inbox
    BY <1>6 DEF SmsKilled, Killed, Dead, IdleChannel
  <2>2. \A i : Before(<<>>, ReadCmd(i), DeleteCmd(i))
    BY DEF Before
  <2> QED
    BY <2>1, <2>2 DEF ReceiveInv, Guarded, ToldMessage, Answering, inbox
<1>7. CASE RxSmsPrompt
  <2>1. /\ at.line # <<>> /\ at'.pool = at.pool /\ entry' = "data" /\ UNCHANGED inbox
        /\ Tail(at.line) \in Seq(Command)
        /\ \/ at'.line = Tail(at.line)
           \/ \E c \in Command : c.tag = "AT_CMGS_PDU" /\ at'.line = Append(Tail(at.line), c)
    BY <1>0, <1>7, PromptEffect, CmdPoolGetProperties DEF RxSmsPrompt
  <2>2. ASSUME NEW i, DeleteCmd(i) \in Range(at'.line) PROVE DeleteCmd(i) \in Range(Tail(at.line))
    <3>1. CASE at'.line = Tail(at.line)
      BY <2>2, <3>1
    <3>2. ASSUME NEW c \in Command, c.tag = "AT_CMGS_PDU", at'.line = Append(Tail(at.line), c)
          PROVE  DeleteCmd(i) \in Range(Tail(at.line))
      <4>1. Range(Append(Tail(at.line), c)) = Range(Tail(at.line)) \cup {c}
        <5> DEFINE l == Tail(at.line)
        <5>1. l \in Seq(Command)
          BY <2>1
        <5> HIDE DEF l
        <5>2. Range(Append(l, c)) = Range(l) \cup {c}
          BY <5>1, RangeAppend
        <5> QED
          BY <5>2 DEF l
      <4>2. DeleteCmd(i) \in Range(Tail(at.line)) \cup {c}
        BY <2>2, <3>2, <4>1
      <4> QED
        BY <3>2, <4>2, StorageTags
    <3> QED
      BY <2>1, <3>1, <3>2
  <2> QED
    BY <2>1, <2>2, ReceiveShorter DEF inbox
<1>8. CASE RxSent \/ RxStray \/ RxPush \/ RxPushed
  <2>1. at' = at /\ UNCHANGED inbox /\ (entry' = entry \/ Answering("AT_CMGS_PDU"))
    BY <1>8 DEF RxSent, RxStray, RxPush, RxPushed, SentDue, vars
  <2> QED
    BY <1>1, <2>1, ReceiveSame DEF inbox, ToldMessage, Answering
<1>9. CASE RxMessage
  <2>1. /\ at' = at /\ stored' = stored /\ MessageDue
        /\ read' \cup unread' = read \cup unread \cup {Head(at.line).val}
    BY <1>9 DEF RxMessage, vars
  <2> QED
    BY <2>1, ReceiveSame
<1>10. CASE RxUnclaimed
  <2>1. at' = at /\ UNCHANGED inbox /\ (MessageDue \/ Answering("AT_CMGS_PDU"))
    BY <1>10 DEF RxUnclaimed, SentDue, vars
  <2>2. at.port /\ ~at.slipped => ~MessageDue
    BY <1>0, <1>10 DEF RxUnclaimed, Sound, AnswerMatches, MessageDue, Answering
  <2> QED
    BY <2>1, <2>2, ReceiveSame DEF inbox, ToldMessage, Answering
<1>11. CASE RxAnnounced
  BY <1>11, ReceiveAnnounced
<1>12. CASE RxEaten
  <2>1. at' = at /\ stored' = stored /\ read' = read
    BY <1>12 DEF RxEaten, vars
  <2>2. \/ unread' = unread /\ (entry' = entry \/ Answering("AT_CMGS_PDU"))
        \/ MessageDue /\ unread' = unread \cup {Head(at.line).val}
    BY <1>12 DEF RxEaten, SentDue
  <2> QED
    BY <1>1, <2>1, <2>2, ReceiveSame DEF inbox, ToldMessage, Answering
<1>13. CASE RxSmsOk \/ RxSmsError \/ RxCmsError
  BY <1>13, ReceiveFinal
<1>14. CASE SmsModemLoses
  <2>1. /\ at \in Channel /\ at.line # <<>> /\ at' = Answered(at) /\ stored' \subseteq stored
        /\ entry' = "command" /\ read' = read /\ unread' = unread
    BY <1>14 DEF SmsModemLoses, ModemLoses, IInv, TypeOK
  <2>2. at'.line = Tail(at.line) /\ at'.pool = at.pool
    BY <2>1, AnsweredEffect
  <2> QED
    BY <2>1, <2>2, ReceiveShorter
<1>15. CASE DispatchStep
  <2>1. PICK cs \in Seq(Command), pool \in Seq(Command) :
           /\ Without(Message \cup Storage, cs)
           /\ pool = at.pool \o cs \/ pool = cs \o at.pool
           /\ Turns(at, pool, at')
    BY <1>15, OthersStep
  <2>2. \A k \in DOMAIN cs : cs[k].tag # "AT_CMGD_INDEX"
    BY <2>1 DEF Without, Storage
  <2>3. entry' = entry /\ UNCHANGED inbox
    BY <1>15 DEF DispatchStep, smsVars
  <2> QED
    BY <2>1, <2>2, <2>3, ReceiveTurns
<1> QED
  BY <1>2, <1>3, <1>4, <1>5, <1>6, <1>7, <1>8, <1>9, <1>10, <1>11, <1>12, <1>13, <1>14, <1>15
     DEF SmsNext, SmsRxLine

\* The modem deletes what it is asked to.
LEMMA DeletionStep ==
  ASSUME IInv, ReceiveInv, SmsNext
  PROVE  stored \ stored' \subseteq read \cup unread
<1>1. ASSUME at.line # <<>>, Answering("AT_CMGD_INDEX"), Head(at.line).val \in stored
      PROVE  Head(at.line).val \in read \cup unread
  <2>1. at.line \in Seq(Command) /\ Head(at.line) \in Range(at.line) /\ Head(at.line) \in Command
    <3>1. at.line \in Seq(Command) /\ 1 \in DOMAIN at.line /\ Head(at.line) = at.line[1]
      BY <1>1, ChannelFields, LenProperties, EmptySeq DEF IInv, TypeOK
    <3> QED
      BY <1>1, <3>1, HeadProperties DEF Range
  <2>2. Head(at.line) = DeleteCmd(Head(at.line).val)
    BY <1>1, <2>1, MessageCommands DEF Answering, DeleteCmd
  <2> QED
    BY <1>1, <2>1, <2>2 DEF ReceiveInv, Guarded
<1>2. CASE RxSmsOk
  <2>1. at.line # <<>>
    BY <1>2 DEF RxSmsOk, SmsFinal, RxFinal
  <2> QED
    BY <1>1, <1>2, <2>1 DEF RxSmsOk
<1>3. CASE SmsModemLoses
  BY <1>1, <1>3 DEF SmsModemLoses, ModemLoses
<1>4. CASE SmsRxLine /\ ~RxSmsOk
  <2>1. CASE RxSmsPrompt \/ RxSent \/ RxMessage \/ RxUnclaimed \/ RxStray
    BY <2>1 DEF RxSmsPrompt, RxSent, RxMessage, RxUnclaimed, RxStray, inbox
  <2>2. CASE RxAnnounced \/ RxPush \/ RxPushed \/ RxEaten
    BY <2>2 DEF RxAnnounced, RxPush, RxPushed, RxEaten, inbox
  <2>3. CASE RxSmsError \/ RxCmsError
    BY <2>3 DEF RxSmsError, RxCmsError
  <2> QED
    BY <1>4, <2>1, <2>2, <2>3 DEF SmsRxLine
<1>5. ASSUME NEW c \in Clients, SendSMS(c) \/ OnSendSMS(c) \/ RefuseSMS(c) PROVE stored' = stored
  BY <1>5 DEF SendSMS, OnSendSMS, RefuseSMS, inbox
<1>6. CASE SmsReset \/ SmsKilled \/ SmsStart \/ DispatchStep
  BY <1>6 DEF SmsReset, SmsKilled, SmsStart, DispatchStep, smsVars, inbox
<1> QED
  BY <1>2, <1>3, <1>4, <1>5, <1>6 DEF SmsNext

\* The reading of every message comes before its deletion, in the pool and at the modem.
THEOREM ReadBeforeDeletion == SmsSpec => []ReceiveInv
<1>1. SmsInit => ReceiveInv
  <2> SUFFICES ASSUME SmsInit
               PROVE  ReceiveInv
    OBVIOUS
  <2> QED
    BY DEF SmsInit, ReceiveInv, ToldMessage
<1>2. SmsInv /\ ReceiveInv /\ [SmsNext]_allVars => ReceiveInv'
  BY ReceiveStep DEF SmsInv
<1> QED
  BY <1>1, <1>2, MessagesInOrder, PTL DEF SmsSpec

\* A message is deleted only after the clients were given it, after its AT+CMGR came to
\* nothing (an error, a lost line or one that cannot be decoded), or by the repetition
\* of an earlier deletion in the same place (see DeletedWasRead).
THEOREM DeletedIsRead == SmsSpec => DeletedWasRead
<1>1. SmsInv /\ ReceiveInv /\ [SmsNext]_allVars =>
        [stored \ stored' \subseteq read \cup unread]_allVars
  BY DeletionStep DEF SmsInv
<1> QED
  BY <1>1, MessagesInOrder, ReadBeforeDeletion, PTL DEF SmsSpec, DeletedWasRead
=============================================================================
