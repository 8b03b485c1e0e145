-------------------------- MODULE SimBringUpProofs --------------------------
(***************************************************************************)
(* What is proved of the SIM and network handlers, for all tables of       *)
(* commands, limits and bounds: they implement the dispatcher, the two     *)
(* copies of what is known of SIM and network agree, no question is queued *)
(* twice, and a SIM that is given up is asked for.                         *)
(***************************************************************************)
EXTENDS SimBringUp, AtDispatcherProofs

-----------------------------------------------------------------------------
(* The handlers implement the dispatcher.                                  *)

\* A result that is asked for once more is one of the dispatcher's, and so is
\* one that is not.
LEMMA FinishStep ==
  ASSUME at \in Channel, NEW again \in BOOLEAN, Finish(again),
         again => at.cur \in AskAgain
  PROVE  RxResult \/ RxAskAgain
<1> DEFINE q == Answered(at)
<1>1. q \in Channel
  <2>1. at.line \in Seq(Command) /\ at.line # <<>>
    BY ChannelFields DEF Finish, RxFinal
  <2>2. Tail(at.line) \in Seq(Command)
    BY <2>1
  <2> QED
    BY <2>2 DEF Answered, Channel
<1>2. RxFinal /\ UNCHANGED <<recovery, stop, run>>
  BY DEF Finish
<1>3. CASE again
  BY <1>2, <1>3 DEF Finish, RxAskAgain
<1>4. CASE ~again
  <2>1. at' = Complete(SendCommands(q, <<>>))
    BY <1>1, <1>4, SendNothing DEF Finish
  <2>2. <<>> \in ResultRuns /\ Room(Len(<<>>))
    BY HandlerAssumption DEF Room
  <2>3. stop' \in {stop, stop \/ at.cur = "AT_SHDN"}
    BY <1>2
  <2> QED
    BY <1>2, <2>1, <2>2, <2>3 DEF RxResult
<1> QED
  BY <1>3, <1>4

\* A line that queues one command at the head.
LEMMA HeadStep ==
  ASSUME at \in Channel, Reading, Room(1), NEW c \in HeadCmds,
         at' = SendCommand(at, c, TRUE), UNCHANGED <<recovery, stop, run>>
  PROVE  RxQueueHead
<1>1. at' = SendCommand(SendCommands(at, <<>>), c, TRUE)
  BY SendNothing
<1>2. Len(<<>>) + 1 = 1
  OBVIOUS
<1> QED
  BY <1>1, <1>2 DEF RxQueueHead

\* What the status poll queues is one of the dispatcher's polls.
LEMMA PollStep ==
  ASSUME at \in Channel, TickStatus
  PROVE  TickIdle
<1>1. CASE status > 1
  BY <1>1 DEF TickStatus, TickIdle
<1>2. CASE ~(status > 1)
  <2> DEFINE a == IF sim = "READY" THEN <<Cmd("AT_QCDS")>> ELSE <<>>
             b == IF reg = "REGISTERED" /\ ~timeSet THEN TimeCmds ELSE <<>>
  <2>1. a \in {<<>>, <<Cmd("AT_QCDS")>>} /\ b \in {<<>>, TimeCmds}
    OBVIOUS
  <2>2. a \o b \in Polls
    BY <2>1, HandlerAssumption
  <2>3. PollCmds \in Polls
    BY <2>2 DEF PollCmds
  <2> QED
    BY <1>2, <2>3 DEF TickStatus, TickIdle
<1> QED
  BY <1>1, <1>2

\* Every line of the modem is one of the dispatcher's.
LEMMA SimLineStep ==
  ASSUME at \in Channel, SimRxLine
  PROVE  [Next]_vars
<1>1. CASE RxSimReady
  <2>1. CASE sim = "READY"
    BY <1>1, <2>1, SendNothing DEF RxSimReady, BringUp, vars
  <2>2. CASE sim # "READY"
    BY <1>1, <2>2, HandlerAssumption DEF RxSimReady, BringUp, RxQueueTail, RxLine, Next
  <2> QED
    BY <2>1, <2>2
<1>2. CASE RxSimLocked \/ RxNumber \/ RxTime \/ RxService
  BY <1>2 DEF RxSimLocked, RxNumber, RxTime, RxService
<1>3. CASE RxRegistration
  BY <1>3, HandlerAssumption, HeadStep DEF RxRegistration, RxLine, Next
<1>4. CASE RxFollowUp
  BY <1>4, HandlerAssumption DEF RxFollowUp, RxQueueTail, RxLine, Next
<1>5. CASE RxEcho
  BY <1>5, HandlerAssumption, HeadStep DEF RxEcho, RxLine, Next
<1>6. CASE RxOkNoNumber
  <2>1. at.cur \in AskAgain
    BY <1>6, HandlerAssumption DEF RxOkNoNumber
  <2> QED
    BY <1>6, <2>1, FinishStep DEF RxOkNoNumber, RxLine, Next
<1>7. CASE RxNoSim
  <2>1. at.cur = "AT_CPIN" => at.cur \in AskAgain
    BY HandlerAssumption
  <2> QED
    BY <1>7, <2>1, FinishStep DEF RxNoSim, RxLine, Next
<1>8. CASE RxSimBusy
  <2>1. at.cur \in {"AT_CPIN", "AT_CNUM"} => at.cur \in AskAgain
    BY HandlerAssumption
  <2> QED
    <3> DEFINE again == at.cur \in {"AT_CPIN", "AT_CNUM"}
    <3>1. again \in BOOLEAN /\ Finish(again) /\ (again => at.cur \in AskAgain)
      BY <1>8, <2>1 DEF RxSimBusy
    <3> HIDE DEF again
    <3>2. RxResult \/ RxAskAgain
      BY <3>1, FinishStep
    <3> QED
      BY <3>2 DEF RxLine, Next
<1>9. CASE RxOther \/ RxRecovery
  BY <1>9 DEF RxOther, RxLine, Next
<1> QED
  BY <1>1, <1>2, <1>3, <1>4, <1>5, <1>6, <1>7, <1>8, <1>9 DEF SimRxLine

\* Every step of the SIM and network handlers is one of the dispatcher's, or
\* leaves its variables alone.
LEMMA SimStep ==
  ASSUME IInv, [SimNext]_allVars
  PROVE  [Next]_vars
<1>1. at \in Channel
  BY DEF IInv, TypeOK
<1>2. CASE UNCHANGED allVars
  BY <1>2 DEF allVars
<1>3. CASE DispatchStep
  BY <1>3 DEF DispatchStep, OnTimer, Next
<1>4. CASE TickStatus
  BY <1>1, <1>4, PollStep DEF OnTimer, Next
<1>5. CASE SimReset
  BY <1>5 DEF SimReset, OnTimer, RxLine, Next
<1>6. CASE SimStart
  BY <1>6 DEF SimStart, Next
<1>7. CASE SimRxLine
  BY <1>1, <1>7, SimLineStep
<1> QED
  BY <1>2, <1>3, <1>4, <1>5, <1>6, <1>7 DEF SimNext

\* The channel of these handlers is sound in every reachable state.
THEOREM SimInvariance == SimSpec => []IInv
<1>1. SimInit => IInv
  BY InitIInv DEF SimInit
<1>2. IInv /\ [SimNext]_allVars => IInv'
  BY SimStep, NextIInv
<1> QED
  BY <1>1, <1>2, PTL DEF SimSpec

\* The SIM and network handlers implement the dispatcher (see Dispatcher):
\* whatever is proved of its steps holds of theirs.
THEOREM SimImplementsDispatcher == SimSpec => Dispatcher
<1>1. SimInit => Init
  BY DEF SimInit
<1>2. IInv /\ [SimNext]_allVars => [Next]_vars
  BY SimStep
<1> QED
  BY <1>1, <1>2, SimInvariance, PTL DEF SimSpec, Dispatcher

-----------------------------------------------------------------------------
(* The agent's variables and the shared memory.                            *)

\* The steps that touch neither SIM nor registration start no agent.
LEMMA QuietStep ==
  ASSUME DispatchStep \/ TickStatus
  PROVE  UNCHANGED <<sim, usim, reg, network>> /\ (run' => run)
<1>1. CASE TickStatus
  BY <1>1 DEF TickStatus
<1>2. CASE DispatchStep
  <2>1. UNCHANGED <<sim, usim, reg, network>>
    BY <1>2 DEF DispatchStep, simVars, session
  <2>2. run' => run
    BY <1>2 DEF DispatchStep, OnPutCommand, TickWaiting, TickRetry, OnDestroy, Dead,
                OnClientCommand, ModemLoses, Signal, Killed
  <2> QED
    BY <2>1, <2>2
<1> QED
  BY <1>1, <1>2

\* Each step changes both copies or neither.
LEMMA AgreeStep ==
  ASSUME SimAgrees, NetworkAgrees, [SimNext]_allVars
  PROVE  SimAgrees' /\ NetworkAgrees'
<1>1. CASE UNCHANGED allVars
  BY <1>1 DEF allVars, vars, simVars, session, SimAgrees, NetworkAgrees
<1>2. CASE DispatchStep \/ TickStatus
  BY <1>2, QuietStep DEF SimAgrees, NetworkAgrees
<1>3. CASE SimReset \/ SimStart
  BY <1>3 DEF SimReset, SimStart, ResetSession, NewSession, SimAgrees, NetworkAgrees
<1>4. CASE SimRxLine
  <2>1. run
    BY <1>4 DEF SimRxLine, RxSimReady, RxSimLocked, RxNumber, RxTime, RxService,
                RxRegistration, RxFollowUp, RxEcho, RxOkNoNumber, RxNoSim, RxSimBusy,
                RxOther, RxRecovery, RxResult, Finish, RxFinal, Reading
  <2>2. CASE RxSimReady
    BY <2>1, <2>2 DEF RxSimReady, SimAgrees, NetworkAgrees
  <2>3. CASE RxSimLocked \/ RxService
    BY <2>1, <2>3 DEF RxSimLocked, RxService, vars, SimAgrees, NetworkAgrees
  <2>6. CASE RxRegistration
    <3>1. PICK stat \in Regs : IF stat = "UNKNOWN" THEN UNCHANGED <<reg, network>>
                                                  ELSE reg' = stat /\ network' = stat
      BY <2>6 DEF RxRegistration
    <3>2. network = reg => network' = reg'
      BY <3>1
    <3> QED
      BY <2>1, <2>6, <3>2 DEF RxRegistration, SimAgrees, NetworkAgrees
  <2>4. CASE RxNumber \/ RxTime \/ RxFollowUp \/ RxEcho \/ RxSimBusy \/ RxOther
             \/ (RxRecovery /\ UNCHANGED simVars)
    BY <2>1, <2>4 DEF RxNumber, RxTime, RxFollowUp, RxEcho, RxSimBusy, RxOther, simVars, session,
                      SimAgrees, NetworkAgrees
  <2>5. CASE RxOkNoNumber \/ RxNoSim
    BY <2>1, <2>5 DEF RxOkNoNumber, RxNoSim, SimAgrees, NetworkAgrees
  <2> QED
    BY <1>4, <2>2, <2>3, <2>4, <2>5, <2>6 DEF SimRxLine
<1> QED
  BY <1>1, <1>2, <1>3, <1>4 DEF SimNext

\* They agree at first.
LEMMA InitAgree == SimInit => SimAgrees /\ NetworkAgrees
  BY DEF SimInit, NewSession, SimAgrees, NetworkAgrees

\* Clients are not told of a ready SIM that the agent does not work with, nor left with
\* the initial state once it does; other states, such as a missing number, they may be
\* told meanwhile (see SimAgrees).
THEOREM SimIsAgreed == SimSpec => []SimAgrees
<1>1. SimAgrees /\ NetworkAgrees /\ [SimNext]_allVars => SimAgrees' /\ NetworkAgrees'
  BY AgreeStep
<1> QED
  BY <1>1, InitAgree, PTL DEF SimSpec

\* Clients see the registration the agent acts on (see NetworkAgrees).
THEOREM NetworkIsAgreed == SimSpec => []NetworkAgrees
<1>1. SimAgrees /\ NetworkAgrees /\ [SimNext]_allVars => SimAgrees' /\ NetworkAgrees'
  BY AgreeStep
<1> QED
  BY <1>1, InitAgree, PTL DEF SimSpec
-----------------------------------------------------------------------------
(* The questions to the SIM.                                               *)

\* Each question stands in the pool once at most, and those of the bring-up
\* proper not at all before the SIM has answered: that is why the bring-up, which
\* does not look at the pool, doubles none.
Sole(pool, s) ==
  /\ \A tag \in Questions : Once(pool, tag)
  /\ s # "READY" => \A tag \in Questions \ {"AT_CPIN"} : tag \notin PoolTags(pool)

\* The inductive invariant behind AskedOnce.
AskInv == Sole(at.pool, sim)

\* No question is among these commands.
Plain(cs) == cs \in Seq(Command) /\ PoolTags(cs) \cap Questions = {}

\* A command of another tag alone, or none.
LEMMA PlainCommands ==
  /\ Plain(<<>>)
  /\ \A tag : Cmd(tag) \in Command /\ tag \notin Questions => Plain(<<Cmd(tag)>>)
<1>1. Plain(<<>>)
  BY EmptySeq DEF Plain, PoolTags
<1>2. ASSUME NEW tag, Cmd(tag) \in Command, tag \notin Questions
      PROVE  Plain(<<Cmd(tag)>>)
  <2> DEFINE a == <<Cmd(tag)>>
  <2>1. a \in Seq(Command) /\ DOMAIN a = {1} /\ a[1] = Cmd(tag)
    BY <1>2
  <2> HIDE DEF a
  <2>2. PoolTags(a) = {tag}
    BY <2>1 DEF PoolTags, Cmd
  <2> QED
    BY <1>2, <2>1, <2>2 DEF Plain, a
<1> QED
  BY <1>1, <1>2

\* What is no question does not matter, on either side.
LEMMA SoleAround ==
  ASSUME NEW pool \in Seq(Command), NEW s, Sole(pool, s), NEW a, Plain(a)
  PROVE  /\ pool \o a \in Seq(Command) /\ Sole(pool \o a, s)
         /\ a \o pool \in Seq(Command) /\ Sole(a \o pool, s)
<1>1. a \in Seq(Command) /\ \A tag \in Questions : tag \notin PoolTags(a)
  BY DEF Plain
<1>2. \A tag \in Questions : Once(a, tag)
  BY <1>1 DEF Once, PoolTags
<1>3. /\ pool \o a \in Seq(Command)
      /\ a \o pool \in Seq(Command)
  BY <1>1, ConcatProperties
<1>4. \A tag \in Questions : Once(pool \o a, tag) /\ Once(a \o pool, tag)
  BY <1>1, <1>2, OnceConcat DEF Sole
<1>5. /\ PoolTags(pool \o a) = PoolTags(pool) \cup PoolTags(a)
      /\ PoolTags(a \o pool) = PoolTags(pool) \cup PoolTags(a)
  BY <1>1, TagsConcat
<1> QED
  BY <1>1, <1>3, <1>4, <1>5 DEF Sole

\* Nor does a deletion.
LEMMA SoleDel ==
  ASSUME NEW pool \in Seq(Command), NEW s, Sole(pool, s), NEW tag
  PROVE  CmdPoolDel(pool, tag) \in Seq(Command) /\ Sole(CmdPoolDel(pool, tag), s)
<1>1. \A t \in Questions : Once(CmdPoolDel(pool, tag), t)
  BY OnceDel DEF Sole
<1>2. PoolTags(CmdPoolDel(pool, tag)) \subseteq PoolTags(pool)
  BY DelTags
<1> QED
  BY <1>1, <1>2, CmdPoolDelProperties DEF Sole

\* The bring-up asks for the SIM once, behind another command.
LEMMA InitQuestions ==
  /\ \A s : Sole(InitCmds, s)
  /\ "AT_CPIN" \in PoolTags(InitCmds) /\ Head(InitCmds).tag # "AT_CPIN"
<1>1. InitCmds \in Seq(Command)
  BY InitCmdsAssumption
<1>2. \A tag \in Questions : /\ Times(InitCmds, tag) <= 1 <=> Once(InitCmds, tag)
                             /\ Times(InitCmds, tag) = 0 <=> tag \notin PoolTags(InitCmds)
  BY <1>1, OnceCount DEF Times
<1>3. "AT_CPIN" \in Questions
  BY DEF Questions
<1>4. /\ Times(InitCmds, "AT_CPIN") = 1 /\ Head(InitCmds).tag # "AT_CPIN"
      /\ \A tag \in Questions \ {"AT_CPIN"} : Times(InitCmds, tag) = 0
  BY QuestionsAssumption
<1>5. \A tag \in Questions : Times(InitCmds, tag) <= 1
  BY <1>4
<1> QED
  BY <1>2, <1>3, <1>4, <1>5 DEF Sole

\* What a ready SIM is asked is asked once, and it is not asked whether it is ready.
LEMMA SoleReady ==
  ASSUME NEW pool \in Seq(Command), NEW s, Sole(pool, s), s # "READY"
  PROVE  pool \o ReadyCmds \in Seq(Command) /\ Sole(pool \o ReadyCmds, "READY")
<1>1. ReadyCmds \in Seq(Command)
  BY HandlerAssumption, RunsAssumption
<1>2. \A tag \in Questions : /\ Times(ReadyCmds, tag) <= 1 <=> Once(ReadyCmds, tag)
                             /\ Times(ReadyCmds, tag) = 0 <=> tag \notin PoolTags(ReadyCmds)
  BY <1>1, OnceCount DEF Times
<1>3. /\ Times(ReadyCmds, "AT_CPIN") = 0
      /\ \A tag \in Questions \ {"AT_CPIN"} : Times(ReadyCmds, tag) <= 1
  BY QuestionsAssumption
<1>4. \A tag \in Questions : Once(ReadyCmds, tag)
  BY <1>2, <1>3
<1>5. \A tag \in Questions : tag \notin PoolTags(pool) \/ tag \notin PoolTags(ReadyCmds)
  BY <1>2, <1>3 DEF Sole
<1>6. \A tag \in Questions : Once(pool \o ReadyCmds, tag)
  BY <1>1, <1>4, <1>5, OnceConcat DEF Sole
<1> QED
  BY <1>1, <1>6, ConcatProperties DEF Sole

\* Asking once more leaves the pool as it was: the command that ParseCodes then
\* completes is the one that was just put at the head.
LEMMA AgainPool ==
  ASSUME IInv, NEW again \in BOOLEAN, Finish(again), again => at.cur \in AskAgain
  PROVE  at'.pool = IF again THEN at.pool ELSE CmdPoolDel(at.pool, at.cur)
<1> DEFINE q == Answered(at)
           c == Cmd(at.cur)
           w == SendCommand(q, c, TRUE)
<1>1. /\ at \in Channel /\ at.line # <<>> /\ Sound(at)
      /\ at.pool \in Seq(Command)
  BY ChannelFields DEF IInv, TypeOK, Finish, RxFinal, Sound
<1>2. q \in Channel /\ q.pool = at.pool /\ q.cur = at.cur /\ Sound(q)
  BY <1>1, AnsweredEffect, AnsweredSound
<1> HIDE DEF q
<1>3. CASE again
  <2>1. c \in Command /\ c.tag = at.cur
    BY <1>3, RunsAssumption DEF Cmd
  <2> DEFINE p == CmdPoolPutHead(at.pool, c)
             h == [q EXCEPT !.pool = p]
  <2>2. p \in Seq(Command) /\ p # <<>> /\ Head(p) = c /\ Tail(p) = at.pool
    BY <1>1, <2>1, PutProperties, HeadTailProperties DEF CmdPoolPutHead, Cons
  <2>3. Sound(w)
    BY <1>2, <2>1, SendCommandSound
  <2> HIDE DEF p, c
  <2>4. h \in Channel /\ h.pool = p /\ h.cur = at.cur
    BY <1>2, <2>2 DEF Channel
  <2>5. w = IF q.timer = 0 /\ q.misses = 0 THEN PutHeadCommand(h) ELSE h
    BY <1>2 DEF SendCommand, p
  <2> HIDE DEF h
  <2>6. PutHeadCommand(h).pool = p /\ PutHeadCommand(h).cur = c.tag
    BY <2>2, <2>4, PutHeadEffect DEF Turns, Dispatched
  <2>7. w.pool = p /\ w.cur = at.cur
    BY <2>1, <2>4, <2>5, <2>6
  <2>8. at' = Complete(w)
    BY <1>3 DEF Finish, q, c
  <2> HIDE DEF w
  <2>9. at'.pool = CmdPoolDel(p, at.cur)
    BY <2>3, <2>7, <2>8, CompleteEffect DEF Sound, Completed
  <2>10. CmdPoolDel(p, Head(p).tag) = Tail(p)
    BY <2>2, DelFirst
  <2> QED
    BY <1>3, <2>1, <2>2, <2>9, <2>10
<1>4. CASE ~again
  <2>1. at' = Complete(q)
    BY <1>4 DEF Finish, q
  <2>2. at'.pool = CmdPoolDel(at.pool, at.cur)
    BY <1>2, <2>1, CompleteEffect DEF Completed
  <2> QED
    BY <1>4, <2>2
<1> QED
  BY <1>3, <1>4

\* The steps of the dispatcher and the status poll ask nothing of the SIM.
LEMMA PlainStep ==
  ASSUME IInv, AskInv, DispatchStep \/ TickStatus
  PROVE  AskInv'
<1>1. at \in Channel /\ Sound(at) /\ at.pool \in Seq(Command)
  BY ChannelFields DEF IInv, TypeOK, Sound
<1>2. sim' = sim
  BY DEF DispatchStep, TickStatus, simVars, session
<1>3. CASE at'.pool = at.pool
  BY <1>2, <1>3 DEF AskInv
<1>4. ASSUME NEW cs, Plain(cs), at' = SendCommands(at, cs) PROVE AskInv'
  <2>1. Turns(at, at.pool \o cs, SendCommands(at, cs))
    BY <1>1, <1>4, SendCommandsEffect DEF Plain
  <2>2. at'.pool = at.pool \o cs
    BY <1>4, <2>1 DEF Turns
  <2> QED
    BY <1>1, <1>2, <1>4, <2>2, SoleAround DEF AskInv
<1>5. CASE OnPutCommand \/ TickWaiting \/ TickRetry
  BY <1>3, <1>5, WaitEffect DEF Turns
<1>6. CASE OnClientCommand
  <2>1. PICK cs \in ClientRuns : at' = SendCommands(at, cs)
    BY <1>6 DEF OnClientCommand
  <2>2. Plain(cs)
    BY RunsAssumption, QuestionsAssumption DEF Plain
  <2> QED
    BY <1>4, <2>1, <2>2
<1>7. CASE ModemLoses
  BY <1>1, <1>3, <1>7, AnsweredEffect DEF ModemLoses
<1>8. CASE Signal
  BY <1>3, <1>8 DEF Signal
<1>9. CASE OnDestroy \/ Killed
  <2>1. at'.pool = <<>>
    BY <1>9 DEF OnDestroy, Killed, Dead, IdleChannel
  <2>2. Sole(<<>>, sim)
    BY DEF Sole, Once, PoolTags
  <2> QED
    BY <1>2, <2>1, <2>2 DEF AskInv
<1>10. CASE TickStatus
  <2>1. CASE status > 1
    BY <1>3, <1>10, <2>1 DEF TickStatus
  <2>2. CASE ~(status > 1)
    <3> DEFINE a == IF sim = "READY" THEN <<Cmd("AT_QCDS")>> ELSE <<>>
               b == IF reg = "REGISTERED" /\ ~timeSet THEN TimeCmds ELSE <<>>
    <3>1. Plain(a)
      <4>1. Cmd("AT_QCDS") \in Command
        BY HandlerAssumption, RunsAssumption
      <4> QED
        BY <4>1, PlainCommands DEF Questions
    <3>2. Plain(b)
      <4>1. Plain(TimeCmds)
        BY HandlerAssumption, QuestionsAssumption DEF Plain
      <4> QED
        BY <4>1, PlainCommands
    <3> HIDE DEF a, b
    <3>3. Plain(a \o b)
      <4>1. a \o b \in Seq(Command) /\ PoolTags(a \o b) = PoolTags(a) \cup PoolTags(b)
        BY <3>1, <3>2, TagsConcat, ConcatProperties DEF Plain
      <4> QED
        BY <3>1, <3>2, <4>1 DEF Plain
    <3>4. at' = SendCommands(at, a \o b)
      BY <1>10, <2>2 DEF TickStatus, PollCmds, a, b
    <3> QED
      BY <1>4, <3>3, <3>4
  <2> QED
    BY <2>1, <2>2
<1> QED
  BY <1>5, <1>6, <1>7, <1>8, <1>9, <1>10 DEF DispatchStep

\* The lines of the modem: only the first +CPIN: READY asks anything, and the
\* results that ask again do it in place of the question that was answered.
LEMMA LinesAsk ==
  ASSUME IInv, AskInv, SimRxLine
  PROVE  AskInv'
<1>1. at \in Channel /\ Sound(at) /\ at.pool \in Seq(Command)
  BY ChannelFields DEF IInv, TypeOK, Sound
<1>2. ASSUME at'.pool = at.pool, sim' = sim PROVE AskInv'
  BY <1>2 DEF AskInv
<1>3. ASSUME NEW tag, at'.pool = CmdPoolDel(at.pool, tag), sim' = sim PROVE AskInv'
  BY <1>1, <1>3, SoleDel DEF AskInv
<1>4. ASSUME NEW cs \in Seq(Command)
      PROVE  SendCommands(at, cs).pool = at.pool \o cs
  BY <1>1, <1>4, SendCommandsEffect DEF Turns
<1>5. CASE RxSimReady
  <2>1. CASE sim = "READY"
    <3>1. at' = at /\ sim' = sim
      BY <1>1, <1>5, <2>1, SendNothing DEF RxSimReady, BringUp
    <3> QED
      BY <1>2, <3>1
  <2>2. CASE sim # "READY"
    <3>1. at' = SendCommands(at, ReadyCmds) /\ sim' = "READY"
      BY <1>5, <2>2 DEF RxSimReady, BringUp
    <3>2. at'.pool = at.pool \o ReadyCmds
      BY <1>4, <3>1, HandlerAssumption, RunsAssumption
    <3> QED
      BY <1>1, <2>2, <3>1, <3>2, SoleReady DEF AskInv
  <2> QED
    BY <2>1, <2>2
<1>6. CASE \/ RxSimLocked \/ RxNumber \/ RxTime \/ RxService
           \/ RxRecovery /\ UNCHANGED simVars
  <2>1. at' = at /\ sim' = sim
    BY <1>6 DEF RxSimLocked, RxNumber, RxTime, RxService, RxRecovery, vars, simVars, session
  <2> QED
    BY <1>2, <2>1
<1>7. CASE RxRegistration \/ RxEcho
  <2>1. PICK tag \in {"AT_QCDS", "ATE0"} : at' = SendCommand(at, Cmd(tag), TRUE)
    BY <1>7 DEF RxRegistration, RxEcho
  <2>2. Cmd(tag) \in Command
    BY HandlerAssumption, RunsAssumption
  <2>3. at'.pool = <<Cmd(tag)>> \o at.pool
    BY <2>1, <2>2, AtHeadEffect DEF Turns
  <2>4. Plain(<<Cmd(tag)>>)
    BY <2>2, PlainCommands DEF Questions
  <2>5. sim' = sim
    BY <1>7 DEF RxRegistration, RxEcho, simVars, session
  <2> QED
    BY <1>1, <2>3, <2>4, <2>5, SoleAround DEF AskInv
<1>8. CASE RxFollowUp
  <2>1. PICK f \in FollowUps : at' = SendCommands(at, f[2])
    BY <1>8 DEF RxFollowUp
  <2>2. Plain(f[2])
    BY HandlerAssumption, RunsAssumption, QuestionsAssumption DEF Plain
  <2>3. at'.pool = at.pool \o f[2] /\ sim' = sim
    BY <1>4, <1>8, <2>1, <2>2 DEF Plain, RxFollowUp, simVars, session
  <2> QED
    BY <1>1, <2>2, <2>3, SoleAround DEF AskInv
<1>9. CASE RxOkNoNumber \/ RxNoSim \/ RxSimBusy
  <2>1. PICK again \in BOOLEAN : Finish(again) /\ (again => at.cur \in AskAgain)
    <3> DEFINE ok == cnumMiss' # CnumLimit
               err == simMiss' # SimLimit /\ at.cur = "AT_CPIN"
               busy == at.cur \in {"AT_CPIN", "AT_CNUM"}
    <3>1. RxOkNoNumber => Finish(ok) /\ (ok => at.cur \in AskAgain)
      BY HandlerAssumption DEF RxOkNoNumber
    <3>2. RxNoSim => Finish(err) /\ (err => at.cur \in AskAgain)
      BY HandlerAssumption DEF RxNoSim
    <3>3. RxSimBusy => Finish(busy) /\ (busy => at.cur \in AskAgain)
      BY HandlerAssumption DEF RxSimBusy
    <3>4. ok \in BOOLEAN /\ err \in BOOLEAN /\ busy \in BOOLEAN
      OBVIOUS
    <3> HIDE DEF ok, err, busy
    <3> QED
      BY <1>9, <3>1, <3>2, <3>3, <3>4
  <2>2. at'.pool = at.pool \/ at'.pool = CmdPoolDel(at.pool, at.cur)
    BY <2>1, AgainPool
  <2>3. sim' = sim
    BY <1>9 DEF RxOkNoNumber, RxNoSim, RxSimBusy, simVars, session
  <2> QED
    BY <1>2, <1>3, <2>2, <2>3
<1>10. CASE RxOther
  <2>1. PICK cs \in ResultRuns : at' = Complete(SendCommands(Answered(at), cs))
    BY <1>10 DEF RxOther, RxResult
  <2> DEFINE q == Answered(at)
             w == SendCommands(q, cs)
  <2>2. Plain(cs)
    BY RunsAssumption, QuestionsAssumption DEF Plain
  <2>3. q.pool = at.pool /\ Sound(q)
    BY <1>1, <1>10, AnsweredEffect, AnsweredSound DEF RxOther, RxResult, RxFinal
  <2> HIDE DEF q
  <2>4. w.pool = at.pool \o cs /\ Sound(w)
    BY <2>2, <2>3, SendCommandsEffect, SendCommandsSound DEF Plain, Turns, Sound
  <2>5. Sole(w.pool, sim) /\ w.pool \in Seq(Command)
    BY <1>1, <2>2, <2>4, SoleAround DEF AskInv
  <2>6. at' = Complete(w)
    BY <2>1 DEF q
  <2> HIDE DEF w
  <2>7. at'.pool = CmdPoolDel(w.pool, w.cur)
    BY <2>4, <2>6, CompleteEffect DEF Sound, Completed
  <2>8. sim' = sim
    BY <1>10 DEF RxOther, simVars, session
  <2> QED
    BY <2>5, <2>7, <2>8, SoleDel DEF AskInv
<1> QED
  BY <1>5, <1>6, <1>7, <1>8, <1>9, <1>10 DEF SimRxLine

\* A new start and a reset bring the SIM up anew; after AT+CFUN=1,1 the head of the
\* bring-up, which is no question, is completed at once.
LEMMA AnewPool ==
  ASSUME IInv, SimReset \/ SimStart
  PROVE  /\ sim' = "NOT_INSERTED"
         /\ \/ at'.pool = InitCmds
            \/ at'.pool = CmdPoolDel(InitCmds, Head(InitCmds).tag)
<1>1. sim' = "NOT_INSERTED"
  BY DEF SimReset, SimStart, ResetSession, NewSession
<1>2. CASE ResetModem \/ Start
  BY <1>1, <1>2, AnewStep DEF Anew
<1>3. CASE RxRebooted
  <2>1. PICK up \in Opened : at' = Complete(ResetChannel(Answered(at), up))
    BY <1>3 DEF RxRebooted
  <2> DEFINE q == Answered(at)
             w == ResetChannel(q, up)
  <2>2. q \in Channel /\ up \in BOOLEAN
    BY <1>3, AnsweredEffect, OpenedFacts DEF IInv, TypeOK, RxRebooted, RxFinal
  <2> HIDE DEF q
  <2>3. w \in Channel /\ w.pool = InitCmds /\ w.cur = Head(InitCmds).tag
    BY <2>2, ResetEffect, ResetSound DEF Anew, Sound
  <2>4. at' = Complete(w)
    BY <2>1 DEF q
  <2> HIDE DEF w
  <2>5. at'.pool = CmdPoolDel(w.pool, w.cur)
    BY <2>3, <2>4, CompleteEffect DEF Completed
  <2> QED
    BY <1>1, <2>3, <2>5
<1>4. ResetModem \/ Start \/ RxRebooted
  BY DEF SimReset, SimStart, TickRecoveryOver, TickNoAnswer, OnSerialError, OnClientReset
<1> QED
  BY <1>2, <1>3, <1>4

\* Every step keeps the invariant.
LEMMA AskStep ==
  ASSUME IInv, AskInv, [SimNext]_allVars
  PROVE  AskInv'
<1>1. CASE UNCHANGED allVars
  BY <1>1 DEF allVars, vars, simVars, session, AskInv
<1>2. CASE DispatchStep \/ TickStatus
  BY <1>2, PlainStep
<1>3. CASE SimReset \/ SimStart
  BY <1>3, AnewPool, InitQuestions, SoleDel, InitCmdsAssumption DEF AskInv
<1>4. CASE SimRxLine
  BY <1>4, LinesAsk
<1> QED
  BY <1>1, <1>2, <1>3, <1>4 DEF SimNext

\* No question to the SIM is in the pool twice (see AskedOnce).
THEOREM QuestionsAreAskedOnce == SimSpec => []AskedOnce
<1>1. SimInit => AskInv
  <2> SUFFICES ASSUME SimInit PROVE AskInv
    OBVIOUS
  <2>1. PICK up \in Opened : at = InitChannel(<<>>, up)
    BY DEF SimInit, Init
  <2>2. at.pool = InitCmds
    BY <2>1, StartEffect, OpenedFacts, EmptySeq DEF Anew
  <2> QED
    BY <2>2, InitQuestions DEF AskInv
<1>2. IInv /\ AskInv /\ [SimNext]_allVars => AskInv'
  BY AskStep
<1>3. IInv /\ AskInv => AskedOnce
  <2> SUFFICES ASSUME IInv, AskInv, NEW tag \in Questions
               PROVE  Times(at.pool, tag) <= 1
    BY DEF AskedOnce
  <2>1. at.pool \in Seq(Command) /\ Once(at.pool, tag)
    BY ChannelFields DEF IInv, TypeOK, AskInv, Sole
  <2> QED
    BY <2>1, OnceCount DEF Times
<1> QED
  BY <1>1, <1>2, <1>3, SimInvariance, PTL DEF SimSpec

\* An agent that gives a ready SIM up asks for it again (see GivenUpIsAsked).
THEOREM GivenUpSimIsAsked == SimSpec => GivenUpIsAsked
<1>1. ASSUME IInv, [SimNext]_allVars, run', sim = "READY", sim' # "READY"
      PROVE  "AT_CPIN" \in PoolTags(at'.pool)
  <2>1. CASE SimReset \/ SimStart
    <3>1. "AT_CPIN" \in PoolTags(InitCmds) /\ Head(InitCmds).tag # "AT_CPIN"
      BY InitQuestions
    <3>2. PoolTags(InitCmds)
            \subseteq PoolTags(CmdPoolDel(InitCmds, Head(InitCmds).tag)) \cup {Head(InitCmds).tag}
      BY DelTags, InitCmdsAssumption
    <3> QED
      BY <1>1, <2>1, <3>1, <3>2, AnewPool
  <2>2. CASE ~(SimReset \/ SimStart)
    <3>1. sim' = sim \/ sim' = "READY"
      BY <1>1, <2>2 DEF SimNext, DispatchStep, TickStatus, SimRxLine, RxSimReady, RxSimLocked,
           RxNumber, RxTime, RxService, RxRegistration, RxFollowUp, RxEcho, RxOkNoNumber,
           RxNoSim, RxSimBusy, RxOther, allVars, simVars, session
    <3> QED
      BY <1>1, <3>1
  <2> QED
    BY <2>1, <2>2
<1> QED
  BY <1>1, SimInvariance, PTL DEF SimSpec, GivenUpIsAsked

=============================================================================
