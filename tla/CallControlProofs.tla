-------------------------- MODULE CallControlProofs --------------------------
(***************************************************************************)
(* What is proved of voice calls, for all clients, tables of commands and  *)
(* bounds: the handlers implement the dispatcher, and what hides a call    *)
(* from the clients, takes it from its caller, or leaves the agent with    *)
(* the owner of a call that is over.                                       *)
(***************************************************************************)
EXTENDS CallControl, AtDispatcherProofs

-----------------------------------------------------------------------------
(* The handlers implement the dispatcher.                                  *)

\* A final result of the call handlers queues nothing.
LEMMA FinalStep ==
  ASSUME at \in Channel, Final
  PROVE  RxResult
<1> DEFINE q == Answered(at)
<1>1. q \in Channel
  <2>1. at.line \in Seq(Command) /\ at.line # <<>>
    BY ChannelFields DEF Final, RxFinal
  <2>2. Tail(at.line) \in Seq(Command)
    BY <2>1
  <2> QED
    BY <2>2 DEF Answered, Channel
<1>2. RxFinal /\ at' = Complete(q) /\ UNCHANGED <<recovery, stop, run>>
  BY DEF Final
<1>3. at' = Complete(SendCommands(q, <<>>))
  BY <1>1, <1>2, SendNothing
<1>4. <<>> \in ResultRuns /\ Room(Len(<<>>))
  BY CallAssumption DEF Room
<1>5. stop' \in {stop, stop \/ at.cur = "AT_SHDN"}
  BY <1>2
<1> QED
  BY <1>2, <1>3, <1>4, <1>5 DEF RxResult

\* A request that queues one command.
LEMMA RequestStep ==
  ASSUME NEW c \in Clients, NEW kind \in Kinds, Take(c, kind),
         NEW cmd, <<cmd>> \in ClientRuns, Queue(cmd)
  PROVE  OnClientCommand
<1>1. Len(<<cmd>>) = 1
  OBVIOUS
<1> QED
  BY <1>1 DEF Take, Queue, OnClientCommand

\* Every step of the call handlers is one of the dispatcher's, or leaves its
\* variables alone.
LEMMA CallStep ==
  ASSUME IInv, [CallNext]_allVars
  PROVE  [Next]_vars
<1>1. at \in Channel
  BY DEF IInv, TypeOK
<1>2. CASE UNCHANGED allVars
  BY <1>2 DEF allVars
<1>3. ASSUME NEW c \in Clients,
             \/ Dial(c) \/ Answer(c) \/ HangUp(c)
             \/ OnDial(c) \/ RefuseDial(c) \/ OnAnswer(c) \/ OnHangUp(c)
      PROVE  [Next]_vars
  <2>1. CASE Dial(c) \/ Answer(c) \/ HangUp(c)
    BY <2>1 DEF Dial, Answer, HangUp, Ask
  <2>2. CASE RefuseDial(c)
    BY <2>2 DEF RefuseDial, Take, vars
  <2>3. CASE OnDial(c)
    <3>1. Take(c, "dial") /\ Queue(Atd(c)) /\ "dial" \in Kinds
      BY <2>3 DEF OnDial, Kinds
    <3>2. OnClientCommand
      BY <3>1, CallAssumption, RequestStep
    <3> QED
      BY <3>2 DEF Next
  <2>4. CASE OnAnswer(c)
    <3>1. Take(c, "answer") /\ (Queue(Ata) \/ UNCHANGED at) /\ "answer" \in Kinds
      BY <2>4 DEF OnAnswer, Kinds
    <3>2. Queue(Ata) => OnClientCommand
      BY <3>1, CallAssumption, RequestStep
    <3> QED
      BY <3>1, <3>2 DEF Next, Take, vars
  <2>5. CASE OnHangUp(c)
    <3>1. Take(c, "hang up") /\ (Queue(Chup) \/ UNCHANGED at) /\ "hang up" \in Kinds
      BY <2>5 DEF OnHangUp, Kinds
    <3>2. Queue(Chup) => OnClientCommand
      BY <3>1, CallAssumption, RequestStep
    <3> QED
      BY <3>1, <3>2 DEF Next, Take, vars
  <2> QED
    BY <1>3, <2>1, <2>2, <2>3, <2>4, <2>5
<1>4. CASE CallReset
  BY <1>4 DEF CallReset, Next, OnTimer
<1>5. CASE CallKilled \/ CallStart
  BY <1>5 DEF CallKilled, CallStart, Next
<1>6. CASE CallRxLine
  <2>1. CASE RxRing \/ RxConnected \/ RxNoCarrier
    BY <2>1 DEF RxRing, RxConnected, RxNoCarrier
  <2>2. CASE RxNoResult
    BY <2>2 DEF RxNoResult, Answering, ModemLoses, Next
  <2>3. CASE RxCallOk \/ RxCallError \/ RxCallCmeError
    <3>1. Final
      BY <2>3 DEF RxCallOk, RxCallError, RxCallCmeError
    <3> QED
      BY <1>1, <3>1, FinalStep DEF Next, RxLine
  <2> QED
    BY <1>6, <2>1, <2>2, <2>3 DEF CallRxLine
<1>7. CASE CallModemLoses
  BY <1>7 DEF CallModemLoses, Next
<1>8. CASE Unheard
  BY <1>8 DEF Unheard
<1>9. CASE DispatchStep
  BY <1>9 DEF DispatchStep, Next, OnTimer, RxLine
<1> QED
  BY <1>2, <1>3, <1>4, <1>5, <1>6, <1>7, <1>8, <1>9 DEF CallNext

\* The channel of the call handlers is sound in every reachable state.
THEOREM CallInvariance == CallSpec => []IInv
<1>1. CallInit => IInv
  BY InitIInv DEF CallInit
<1>2. IInv /\ [CallNext]_allVars => IInv'
  BY CallStep, NextIInv
<1> QED
  BY <1>1, <1>2, PTL DEF CallSpec

\* The call handlers implement the dispatcher: whatever is proved of its steps
\* holds of theirs.
THEOREM CallsImplementDispatcher == CallSpec => Dispatcher
<1>1. CallInit => Init
  BY DEF CallInit
<1>2. IInv /\ [CallNext]_allVars => [Next]_vars
  BY CallStep
<1> QED
  BY <1>1, <1>2, CallInvariance, PTL DEF CallSpec, Dispatcher

-----------------------------------------------------------------------------
(* Clients see that there is a call.                                       *)

\* Until the order slips, the command the modem answers is the current one.
LEMMA CurrentIsAnswered ==
  ASSUME IInv, Reading, at.line # <<>>, ~at.slipped
  PROVE  at.cur = Head(at.line).tag
  BY DEF IInv, Sound, AnswerMatches, Reading

\* What each step does to a call that clients see.
LEMMA SeenStep ==
  ASSUME IInv, CallSeen, CallNext, ~at.slipped
  PROVE  \/ CallSeen' \/ CallModemLoses \/ CallStart
         \/ RxCallError /\ at.cur = "ATD"
         \/ \E c \in Clients : RefuseDial(c)
<1>1. ASSUME NEW c \in Clients,
             \/ Dial(c) \/ Answer(c) \/ HangUp(c)
             \/ OnDial(c) \/ OnAnswer(c) \/ OnHangUp(c)
      PROVE  CallSeen'
  BY <1>1 DEF CallSeen, Dial, Answer, HangUp, Ask, OnDial, OnAnswer, OnHangUp, Take, vars
<1>2. CASE CallReset
  BY <1>2 DEF CallReset, CallSeen
<1>3. CASE CallKilled
  BY <1>3 DEF CallKilled, Killed, Dead, CallSeen
<1>4. CASE CallRxLine
  <2>1. CASE RxRing \/ RxConnected \/ RxNoCarrier \/ RxNoResult
    BY <2>1 DEF RxRing, RxConnected, RxNoCarrier, RxNoResult, CallSeen
  <2>2. CASE RxCallOk
    <3>1. at.line # <<>> /\ at.cur = Head(at.line).tag /\ run' = run
      BY <2>2, CurrentIsAnswered DEF RxCallOk, Final, RxFinal
    <3>2. CASE at.cur = "ATD"
      BY <2>2, <3>2 DEF RxCallOk, CallSeen
    <3>3. CASE at.cur = "ATA"
      BY <2>2, <3>3 DEF RxCallOk, CallSeen
    <3>4. CASE at.cur = "AT_CHUP"
      <4>1. net' = "none"
        BY <2>2, <3>1, <3>4 DEF RxCallOk, Obeyed, Answering
      <4> QED
        BY <4>1 DEF CallSeen
    <3>5. CASE at.cur \notin {"ATD", "ATA", "AT_CHUP"}
      <4>1. net' = net
        BY <2>2, <3>1, <3>5 DEF RxCallOk, Obeyed, Answering
      <4>2. call' = call
        BY <2>2, <3>5 DEF RxCallOk
      <4> QED
        BY <3>1, <4>1, <4>2 DEF CallSeen
    <3> QED
      BY <3>2, <3>3, <3>4, <3>5
  <2>3. CASE RxCallError \/ RxCallCmeError
    BY <2>3 DEF RxCallError, RxCallCmeError, Final, CallSeen
  <2> QED
    BY <1>4, <2>1, <2>2, <2>3 DEF CallRxLine
<1>5. CASE Unheard
  BY <1>5 DEF Unheard, CallSeen
<1>6. CASE DispatchStep
  <2>1. run' = run
    BY <1>6 DEF DispatchStep, OnPutCommand, TickWaiting, TickRetry, TickIdle, RxQueueHead
  <2> QED
    BY <1>6, <2>1 DEF DispatchStep, callVars, CallSeen
<1> QED
  BY <1>1, <1>2, <1>3, <1>4, <1>5, <1>6 DEF CallNext

\* A call is hidden from the clients only by what CallSeenKept names; it rests
\* on the dispatcher's promise that answers go to their commands.
THEOREM CallIsSeen == CallSpec => CallSeenKept
<1>1. IInv /\ [CallNext]_allVars =>
        [CallSeen => \/ CallSeen' \/ at.slipped \/ CallModemLoses \/ CallStart
                     \/ RxCallError /\ at.cur = "ATD"
                     \/ \E c \in Clients : RefuseDial(c)]_allVars
  BY SeenStep
<1> QED
  BY <1>1, CallInvariance, PTL DEF CallSpec, CallSeenKept
-----------------------------------------------------------------------------
(* What a step does to the pool.                                           *)

\* A request puts its command behind all others.
LEMMA RequestPool ==
  ASSUME IInv, NEW cmd, <<cmd>> \in ClientRuns, Queue(cmd)
  PROVE  /\ cmd \in Command /\ at.pool \in Seq(Command) /\ <<cmd>> \in Seq(Command)
         /\ at'.pool = at.pool \o <<cmd>> /\ at'.port = at.port
<1>1. at \in Channel /\ Sound(at)
  BY DEF IInv, TypeOK, Sound
<1>2. <<cmd>> \in Seq(Command)
  BY RunsAssumption
<1>3. cmd \in Command
  BY <1>2
<1>4. Turns(at, at.pool \o <<cmd>>, SendCommands(at, <<cmd>>))
  BY <1>1, <1>2, SendCommandsEffect
<1> QED
  BY <1>1, <1>2, <1>3, <1>4, ChannelFields DEF Turns, Queue

\* A final result deletes a command of the current tag.
LEMMA FinalPool ==
  ASSUME IInv, Final
  PROVE  /\ at.pool \in Seq(Command)
         /\ at'.pool = CmdPoolDel(at.pool, at.cur) /\ at'.port = at.port
<1>1. at \in Channel /\ at.line # <<>>
  BY DEF IInv, TypeOK, Final, RxFinal
<1>2. Completed(Answered(at), Complete(Answered(at)))
  BY <1>1, AnsweredEffect, CompleteEffect
<1> QED
  BY <1>1, <1>2, AnsweredEffect, ChannelFields DEF Completed, Final

\* The steps in which the call handlers have no part put commands around the
\* pool, but no ATD.
LEMMA DispatchPool ==
  ASSUME IInv, DispatchStep
  PROVE  \E a, b \in Seq(Command) :
           /\ "ATD" \notin PoolTags(a) /\ "ATD" \notin PoolTags(b)
           /\ at.pool \o b \in Seq(Command)
           /\ at'.pool = a \o (at.pool \o b) /\ at'.port = at.port
<1>1. at \in Channel /\ Sound(at) /\ at.pool \in Seq(Command)
  BY ChannelFields DEF IInv, TypeOK, Sound
<1>2. /\ <<>> \in Seq(Command) /\ "ATD" \notin PoolTags(<<>>)
      /\ at.pool \o <<>> = at.pool
      /\ \A p \in Seq(Command) : <<>> \o p = p
  BY <1>1, EmptySeq, ConcatEmptySeq DEF PoolTags
<1>3. CASE OnPutCommand \/ TickWaiting \/ TickRetry
  <2>1. at'.pool = at.pool /\ at'.port = at.port
    BY <1>3, WaitEffect DEF Turns
  <2> QED
    BY <1>1, <1>2, <2>1
<1>4. CASE TickIdle
  <2>1. PICK cs \in Polls \cup {<<>>} :
               at.pool \o cs \in Seq(Command) /\ Turns(at, at.pool \o cs, at')
    BY <1>4, PollEffect
  <2>2. cs \in Seq(Command) /\ "ATD" \notin PoolTags(cs)
    BY <1>2, RunsAssumption, DialAssumption
  <2>3. at'.pool = <<>> \o (at.pool \o cs) /\ at'.port = at.port
    BY <1>2, <2>1 DEF Turns
  <2> QED
    BY <1>2, <2>1, <2>2, <2>3
<1>5. CASE RxQueueHead
  <2>1. PICK c \in HeadCmds, cs \in LineRuns \cup {<<>>} :
               at' = SendCommand(SendCommands(at, cs), c, TRUE)
    BY <1>5 DEF RxQueueHead
  <2> DEFINE q == SendCommands(at, cs)
             a == <<c>>
  <2>2. cs \in Seq(Command) /\ "ATD" \notin PoolTags(cs)
    BY <1>2, RunsAssumption, DialAssumption
  <2>3. /\ at.pool \o cs \in Seq(Command)
        /\ q.pool = at.pool \o cs /\ q.port = at.port /\ Sound(q)
    BY <1>1, <2>2, SendCommandsSound, SendCommandsEffect DEF Turns
  <2>4. c \in Command /\ c.tag # "ATD"
    BY RunsAssumption, DialAssumption
  <2>5. a \in Seq(Command) /\ "ATD" \notin PoolTags(a)
    <3>1. a \in Seq(Command) /\ DOMAIN a = {1} /\ a[1] = c
      BY <2>4
    <3> QED
      BY <2>4, <3>1 DEF PoolTags
  <2> HIDE DEF q
  <2>6. at' = SendCommand(q, c, TRUE)
    BY <2>1 DEF q
  <2>7. at'.pool = CmdPoolPutHead(q.pool, c) /\ at'.port = q.port
    BY <2>3, <2>4, <2>6, SendCommandEffect DEF Turns
  <2>8. at'.pool = a \o (at.pool \o cs) /\ at'.port = at.port
    BY <2>3, <2>7 DEF CmdPoolPutHead, Cons
  <2> QED
    BY <2>2, <2>3, <2>5, <2>8
<1> QED
  BY <1>3, <1>4, <1>5 DEF DispatchStep

-----------------------------------------------------------------------------
(* A call that is dialled belongs to its caller.                           *)

\* The same of a pool and an owner.
OwnedBy(pool, o) ==
  /\ Once(pool, "ATD")
  /\ \A c \in Clients : Atd(c) \in Range(pool) => o = c

\* DialOwned says it of the agent's.
LEMMA DialOwnedIs ==
  ASSUME at.pool \in Seq(Command)
  PROVE  DialOwned <=> OwnedBy(at.pool, owner)
<1>1. Cardinality({k \in DOMAIN at.pool : at.pool[k].tag = "ATD"}) <= 1
        <=> Once(at.pool, "ATD")
  BY OnceCount
<1> QED
  BY <1>1 DEF DialOwned, OwnedBy

\* Without an ATD it holds of every owner.
LEMMA NoAtd ==
  ASSUME NEW pool \in Seq(Command), NEW o, "ATD" \notin PoolTags(pool)
  PROVE  OwnedBy(pool, o)
<1>1. \A k \in DOMAIN pool : pool[k].tag # "ATD"
  BY DEF PoolTags
<1>2. \A c \in Clients : Atd(c) \notin Range(pool)
  BY <1>1 DEF Atd, CmdText, Range
<1> QED
  BY <1>1, <1>2 DEF OwnedBy, Once

\* An ATD of the pool is one of a client, whom the call then belongs to.
LEMMA AtdIsOwned ==
  ASSUME NEW pool \in Seq(Command), NEW o, OwnedBy(pool, o), "ATD" \in PoolTags(pool)
  PROVE  o \in Clients
<1>1. PICK k \in DOMAIN pool : pool[k].tag = "ATD"
  BY DEF PoolTags
<1>2. pool[k] \in Command /\ pool[k] \in Range(pool)
  BY <1>1, ElementOfSeq DEF Range
<1> QED
  BY <1>1, <1>2, DialAssumption DEF OwnedBy

\* Deleting commands leaves it true.
LEMMA OwnedDel ==
  ASSUME NEW pool \in Seq(Command), NEW o, OwnedBy(pool, o), NEW tag
  PROVE  OwnedBy(CmdPoolDel(pool, tag), o)
<1>1. Range(CmdPoolDel(pool, tag)) \subseteq Range(pool)
  BY DelTags
<1>2. Once(CmdPoolDel(pool, tag), "ATD")
  BY OnceDel DEF OwnedBy
<1> QED
  BY <1>1, <1>2 DEF OwnedBy

\* So does putting others around them.
LEMMA OwnedAround ==
  ASSUME NEW pool \in Seq(Command), NEW o, OwnedBy(pool, o),
         NEW a \in Seq(Command), NEW b \in Seq(Command), pool \o b \in Seq(Command),
         "ATD" \notin PoolTags(a), "ATD" \notin PoolTags(b)
  PROVE  OwnedBy(a \o (pool \o b), o)
<1>1. OwnedBy(a, o) /\ OwnedBy(b, o)
  BY NoAtd
<1>2. Once(a \o (pool \o b), "ATD")
  BY <1>1, OnceConcat DEF OwnedBy
<1>3. Range(a \o (pool \o b)) = Range(a) \cup (Range(pool) \cup Range(b))
  <2> DEFINE r == pool \o b
  <2>1. Range(r) = Range(pool) \cup Range(b)
    BY RangeConcat
  <2>2. r \in Seq(Command)
    OBVIOUS
  <2> HIDE DEF r
  <2>3. Range(a \o r) = Range(a) \cup Range(r)
    BY <2>2, RangeConcat
  <2> QED
    BY <2>1, <2>3 DEF r
<1> QED
  BY <1>1, <1>2, <1>3 DEF OwnedBy

\* What each step does to it.
LEMMA DialStep ==
  ASSUME IInv, DialOwned, CallNext
  PROVE  \/ DialOwned' \/ RxNoCarrier \/ RxNoResult
         \/ RxCallOk /\ at.cur = "AT_CHUP"
         \/ \E c \in Clients : OnHangUp(c)
<1>1. at.pool \in Seq(Command) /\ OwnedBy(at.pool, owner)
  BY DialOwnedIs, ChannelFields DEF IInv, TypeOK
<1> DEFINE Own == at'.pool \in Seq(Command) /\ OwnedBy(at'.pool, owner')
<1>2. ASSUME Own PROVE DialOwned'
  <2>1. Cardinality({k \in DOMAIN at'.pool : at'.pool[k].tag = "ATD"}) <= 1
          <=> Once(at'.pool, "ATD")
    BY <1>2, OnceCount
  <2> QED
    BY <1>2, <2>1 DEF DialOwned, OwnedBy
<1>3. ASSUME at'.pool = at.pool, owner' = owner PROVE Own
  BY <1>1, <1>3
<1>4. ASSUME NEW c \in Clients, OnDial(c) PROVE Own
  <2>1. Queue(Atd(c)) /\ owner = NOBODY /\ owner' = c
    BY <1>4 DEF OnDial
  <2>2. /\ <<Atd(c)>> \in Seq(Command) /\ at'.pool = at.pool \o <<Atd(c)>>
        /\ Atd(c) \in Command
    BY <2>1, RequestPool, CallAssumption
  <2>3. "ATD" \notin PoolTags(at.pool)
    BY <1>1, <2>1, AtdIsOwned, CallAssumption
  <2> DEFINE run1 == <<Atd(c)>>
  <2>4. run1 \in Seq(Command) /\ DOMAIN run1 = {1} /\ run1[1] = Atd(c)
    BY <2>2
  <2> HIDE DEF run1
  <2>5. Once(run1, "ATD") /\ Range(run1) = {Atd(c)}
    BY <2>4 DEF Once, Range
  <2>6. at'.pool = at.pool \o run1
    BY <2>2 DEF run1
  <2>7. at'.pool \in Seq(Command) /\ Once(at'.pool, "ATD")
    BY <1>1, <2>3, <2>4, <2>5, <2>6, OnceConcat, ConcatProperties DEF OwnedBy
  <2>8. \A d \in Clients : Atd(d) \notin Range(at.pool)
    BY <1>1, <2>1, CallAssumption DEF OwnedBy
  <2>9. Range(at'.pool) = Range(at.pool) \cup {Atd(c)}
    BY <1>1, <2>4, <2>5, <2>6, RangeConcat
  <2>10. \A d \in Clients : Atd(d) \in Range(at'.pool) => c = d
    BY <2>8, <2>9 DEF Atd, CmdText
  <2> QED
    BY <2>1, <2>7, <2>10 DEF OwnedBy
<1>5. ASSUME NEW c \in Clients, OnAnswer(c) PROVE Own
  <2>1. CASE call = "Ringing" /\ owner = NOBODY
    <3>1. Queue(Ata)
      BY <1>5, <2>1 DEF OnAnswer
    <3>2. <<Ata>> \in Seq(Command) /\ at'.pool = at.pool \o <<Ata>>
      BY <3>1, RequestPool, CallAssumption
    <3> DEFINE run1 == <<Ata>>
    <3>3. run1 \in Seq(Command) /\ DOMAIN run1 = {1} /\ run1[1].tag = "ATA"
      BY <3>2 DEF Ata, Cmd
    <3> HIDE DEF run1
    <3>4. "ATD" \notin PoolTags(run1) /\ "ATD" \notin PoolTags(at.pool)
      BY <1>1, <2>1, <3>3, AtdIsOwned, CallAssumption DEF PoolTags
    <3>5. at'.pool \in Seq(Command) /\ "ATD" \notin PoolTags(at'.pool)
      <4>1. at'.pool = at.pool \o run1
        BY <3>2 DEF run1
      <4> QED
        BY <1>1, <3>3, <3>4, <4>1, TagsConcat, ConcatProperties
    <3> QED
      BY <3>5, NoAtd
  <2>2. CASE ~(call = "Ringing" /\ owner = NOBODY)
    BY <1>3, <1>5, <2>2 DEF OnAnswer
  <2> QED
    BY <2>1, <2>2
<1>6. CASE CallReset \/ CallStart
  <2>1. ResetModem \/ Start
    BY <1>6 DEF CallReset, CallStart, TickRecoveryOver, TickNoAnswer, OnSerialError,
                OnClientReset
  <2>2. at'.pool = InitCmds
    BY <2>1, AnewStep DEF Anew
  <2>3. Own
    BY <2>2, NoAtd, InitCmdsAssumption, DialAssumption
  <2> QED
    BY <1>2, <2>3
<1>7. CASE CallKilled
  <2>1. at'.pool = <<>>
    BY <1>7 DEF CallKilled, Killed, Dead, IdleChannel
  <2>2. <<>> \in Seq(Command) /\ "ATD" \notin PoolTags(<<>>)
    BY EmptySeq DEF PoolTags
  <2>3. Own
    BY <2>1, <2>2, NoAtd
  <2> QED
    BY <1>2, <2>3
<1>8. ASSUME RxCallCmeError \/ (RxCallOk /\ at.cur # "AT_CHUP") PROVE Own
  <2>1. owner' = owner /\ Final
    BY <1>8 DEF RxCallOk, RxCallCmeError
  <2> QED
    BY <1>1, <2>1, FinalPool, OwnedDel, DelTags, CmdPoolDelProperties
<1>9. ASSUME RxCallError PROVE Own
  <2>1. at'.pool = CmdPoolDel(at.pool, at.cur)
    BY <1>9, FinalPool DEF RxCallError
  <2>2. at'.pool \in Seq(Command)
    BY <1>1, <2>1, CmdPoolDelProperties
  <2>3. CASE at.cur = "ATD"
    <3>1. "ATD" \notin PoolTags(CmdPoolDel(at.pool, "ATD"))
      BY <1>1, DelTags DEF OwnedBy
    <3> QED
      BY <2>1, <2>2, <2>3, <3>1, NoAtd
  <2>4. CASE at.cur # "ATD"
    BY <1>1, <1>9, <2>1, <2>2, <2>4, OwnedDel DEF RxCallError
  <2> QED
    BY <2>3, <2>4
<1>10. CASE DispatchStep
  <2>1. owner' = owner
    BY <1>10 DEF DispatchStep, callVars
  <2>2. PICK a, b \in Seq(Command) :
           /\ "ATD" \notin PoolTags(a) /\ "ATD" \notin PoolTags(b)
           /\ at.pool \o b \in Seq(Command)
           /\ at'.pool = a \o (at.pool \o b)
    BY <1>10, DispatchPool
  <2>3. at'.pool \in Seq(Command)
    BY <2>2, ConcatProperties
  <2>4. Own
    BY <1>1, <2>1, <2>2, <2>3, OwnedAround
  <2> QED
    BY <1>2, <2>4
<1>11. ASSUME \/ RxRing \/ RxConnected \/ CallModemLoses \/ Unheard
             \/ \E c \in Clients : Dial(c) \/ Answer(c) \/ HangUp(c) \/ RefuseDial(c)
       PROVE  Own
  <2>1. at.line # <<>> => Answered(at).pool = at.pool
    BY AnsweredEffect DEF IInv, TypeOK
  <2>2. at'.pool = at.pool /\ owner' = owner
    BY <1>11, <2>1 DEF RxRing, RxConnected, CallModemLoses, ModemLoses, Unheard, Dial, Answer,
                       HangUp, Ask, RefuseDial, vars
  <2> QED
    BY <1>3, <2>2
<1> QED
  BY <1>2, <1>4, <1>5, <1>6, <1>7, <1>8, <1>9, <1>10, <1>11 DEF CallNext, CallRxLine

\* A call that is dialled is taken from its caller only by what DialKept names.
THEOREM DialIsKept == CallSpec => DialKept
<1>1. IInv /\ [CallNext]_allVars =>
        [DialOwned => \/ DialOwned' \/ RxNoCarrier \/ RxNoResult
                      \/ RxCallOk /\ at.cur = "AT_CHUP"
                      \/ \E c \in Clients : OnHangUp(c)]_allVars
  BY DialStep
<1> QED
  BY <1>1, CallInvariance, PTL DEF CallSpec, DialKept

-----------------------------------------------------------------------------
(* g_pidOfATD is not left behind.                                          *)

\* A command about the call is in the pool.
AboutCall == Queued("ATD") \/ Queued("ATA") \/ Queued("AT_CHUP")

\* Why a call that ends unheard, or whose AT+CHUP the modem loses, leaves no
\* owner behind: an agent that does not run has none, and while the port is
\* closed nothing leaves the pool.
OwnerInv == /\ ~run => owner = NOBODY
            /\ run /\ ~at.port /\ owner # NOBODY => AboutCall

\* What a step of the dispatcher leaves of the commands about the call.
LEMMA AboutCallStays ==
  ASSUME NEW pool \in Seq(Command), NEW a \in Seq(Command), NEW b \in Seq(Command),
         pool \o b \in Seq(Command)
  PROVE  PoolTags(pool) \subseteq PoolTags(a \o (pool \o b))
<1> DEFINE r == pool \o b
<1>1. PoolTags(r) = PoolTags(pool) \cup PoolTags(b)
  BY TagsConcat
<1>2. r \in Seq(Command)
  OBVIOUS
<1> HIDE DEF r
<1>3. PoolTags(a \o r) = PoolTags(a) \cup PoolTags(r)
  BY <1>2, TagsConcat
<1> QED
  BY <1>1, <1>3 DEF r

\* A request puts a command about the call into the pool and leaves the others.
LEMMA RequestIsAbout ==
  ASSUME IInv, NEW c \in Clients,
         (OnDial(c) \/ OnAnswer(c) \/ OnHangUp(c)) /\ ~UNCHANGED <<at, owner>>
  PROVE  AboutCall' /\ at'.port = at.port
<1> SUFFICES ASSUME NEW cmd \in {Atd(c), Ata, Chup}, Queue(cmd)
             PROVE  AboutCall' /\ at'.port = at.port
  BY DEF OnDial, OnAnswer, OnHangUp
<1>1. <<cmd>> \in ClientRuns
  BY CallAssumption
<1>2. /\ at.pool \in Seq(Command) /\ <<cmd>> \in Seq(Command)
      /\ at'.pool = at.pool \o <<cmd>> /\ at'.port = at.port
  BY <1>1, RequestPool
<1> DEFINE run1 == <<cmd>>
<1>3. run1 \in Seq(Command) /\ run1[1] = cmd /\ 1 \in DOMAIN run1
  BY <1>2
<1>4. at'.pool = at.pool \o run1
  BY <1>2
<1> HIDE DEF run1
<1>5. cmd.tag \in PoolTags(run1)
  BY <1>3 DEF PoolTags
<1>6. cmd.tag \in PoolTags(at'.pool)
  BY <1>2, <1>3, <1>4, <1>5, TagsConcat
<1>7. cmd.tag \in {"ATD", "ATA", "AT_CHUP"}
  BY DEF Atd, Ata, Chup, Cmd, CmdText
<1> QED
  BY <1>2, <1>6, <1>7 DEF AboutCall, Queued

\* Lines that leave the dispatcher's variables, or only its pool, alone.
LEMMA SamePool ==
  ASSUME IInv, RxRing \/ RxConnected \/ RxNoCarrier \/ RxNoResult \/ CallModemLoses \/ Unheard
  PROVE  at'.pool = at.pool /\ at'.port = at.port /\ run' = run
<1>1. at.line # <<>> => Answered(at).pool = at.pool /\ Answered(at).port = at.port
  BY AnsweredEffect DEF IInv, TypeOK
<1> QED
  BY <1>1 DEF RxRing, RxConnected, RxNoCarrier, RxNoResult, Answering, CallModemLoses,
              ModemLoses, Unheard, vars

\* The two parts are kept by every step.
LEMMA OwnerStep ==
  ASSUME IInv, OwnerInv, [CallNext]_allVars
  PROVE  OwnerInv'
<1>1. CASE UNCHANGED allVars
  BY <1>1 DEF OwnerInv, AboutCall, Queued, allVars, vars, callVars
<1>2. ASSUME NEW c \in Clients, OnDial(c) \/ OnAnswer(c) \/ OnHangUp(c) PROVE OwnerInv'
  <2>1. run /\ run' = run
    BY <1>2 DEF OnDial, OnAnswer, OnHangUp, Take
  <2>2. CASE UNCHANGED <<at, owner>>
    BY <2>1, <2>2 DEF OwnerInv, AboutCall, Queued
  <2>3. CASE ~UNCHANGED <<at, owner>>
    BY <1>2, <2>1, <2>3, RequestIsAbout DEF OwnerInv
  <2> QED
    BY <2>2, <2>3
<1>3. ASSUME NEW c \in Clients, Dial(c) \/ Answer(c) \/ HangUp(c) \/ RefuseDial(c)
      PROVE  OwnerInv'
  BY <1>3 DEF Dial, Answer, HangUp, Ask, RefuseDial, Take, vars, OwnerInv, AboutCall, Queued
<1>4. CASE CallReset
  BY <1>4 DEF CallReset, OwnerInv
<1>5. CASE CallKilled
  BY <1>5 DEF CallKilled, OwnerInv
<1>6. CASE CallStart
  BY <1>6 DEF CallStart, Start, OwnerInv
<1>7. CASE RxRing \/ RxConnected \/ RxNoCarrier \/ RxNoResult \/ CallModemLoses \/ Unheard
  <2>1. at'.pool = at.pool /\ at'.port = at.port /\ run' = run
    BY <1>7, SamePool
  <2>2. owner' \in {owner, NOBODY}
    BY <1>7 DEF RxRing, RxConnected, RxNoCarrier, RxNoResult, CallModemLoses, Unheard
  <2> QED
    BY <2>1, <2>2 DEF OwnerInv, AboutCall, Queued
<1>8. CASE RxCallOk \/ RxCallError \/ RxCallCmeError
  <2>1. at'.port = at.port /\ at.port /\ run' = run /\ run
    BY <1>8, FinalPool DEF RxCallOk, RxCallError, RxCallCmeError, Final, RxFinal,
                               Reading
  <2> QED
    BY <2>1 DEF OwnerInv
<1>9. CASE DispatchStep
  <2>1. owner' = owner /\ run' = run
    BY <1>9 DEF DispatchStep, callVars, OnPutCommand, TickWaiting, TickRetry, TickIdle,
                RxQueueHead
  <2>2. PoolTags(at.pool) \subseteq PoolTags(at'.pool) /\ at'.port = at.port
    BY <1>9, DispatchPool, AboutCallStays, ChannelFields DEF IInv, TypeOK
  <2> QED
    BY <2>1, <2>2 DEF OwnerInv, AboutCall, Queued
<1> QED
  BY <1>1, <1>2, <1>3, <1>4, <1>5, <1>6, <1>7, <1>8, <1>9 DEF CallNext, CallRxLine

\* What each step does to an owner that is not left behind.
LEMMA FreeStep ==
  ASSUME IInv, OwnerInv, ~Stuck, CallNext, ~at.slipped
  PROVE  \/ ~Stuck'
         \/ RxCallError /\ at.cur \in {"ATA", "AT_CHUP"}
         \/ RxCallCmeError /\ at.cur \in {"ATD", "ATA", "AT_CHUP"}
         \/ \E c \in Clients : RefuseDial(c)
<1>1. ASSUME NEW c \in Clients, OnDial(c) \/ OnAnswer(c) \/ OnHangUp(c) PROVE ~Stuck'
  <2>1. CASE UNCHANGED <<at, owner>>
    BY <1>1, <2>1 DEF OnDial, OnAnswer, OnHangUp, Take, Stuck, Queued
  <2>2. CASE ~UNCHANGED <<at, owner>>
    BY <1>1, <2>2, RequestIsAbout DEF Stuck, AboutCall
  <2> QED
    BY <2>1, <2>2
<1>2. ASSUME NEW c \in Clients, Dial(c) \/ Answer(c) \/ HangUp(c) PROVE ~Stuck'
  BY <1>2 DEF Dial, Answer, HangUp, Ask, vars, Stuck, Queued
<1>3. CASE CallReset \/ CallKilled
  BY <1>3 DEF CallReset, CallKilled, Stuck
<1>4. CASE CallStart
  BY <1>4 DEF CallStart, Start, OwnerInv, Stuck
<1>5. CASE RxRing \/ RxConnected \/ RxNoCarrier \/ RxNoResult
  BY <1>5 DEF RxRing, RxConnected, RxNoCarrier, RxNoResult, Stuck
<1>6. CASE CallModemLoses \/ Unheard
  <2>1. at'.pool = at.pool /\ run' = run /\ owner' = owner /\ call' = call
    BY <1>6, SamePool DEF CallModemLoses, Unheard
  <2>2. CASE net' = net
    BY <2>1, <2>2 DEF Stuck, Queued
  <2>3. CASE net' # net /\ ~Reading
    BY <2>1, <2>3 DEF Stuck, Queued, OwnerInv, AboutCall, Reading
  <2>4. CASE net' # net /\ Reading
    <3>1. CallModemLoses /\ net' = Obeyed /\ at.line # <<>>
      BY <1>6, <2>4 DEF CallModemLoses, ModemLoses, Unheard
    <3>2. net' \in {"calling", "up"} \/ Answering("AT_CHUP")
      BY <2>4, <3>1 DEF Obeyed
    <3>3. CASE net' \in {"calling", "up"}
      BY <3>3 DEF Stuck
    <3>4. CASE Answering("AT_CHUP")
      <4>1. at.timer > 0 /\ at.cur = "AT_CHUP"
        BY <2>4, <3>4 DEF IInv, Sound, AnswerMatches, Reading, Answering
      <4>2. at.cur \in PoolTags(at.pool)
        BY <4>1 DEF IInv, Sound, TimerCoversCommand
      <4> QED
        BY <2>1, <4>1, <4>2 DEF Stuck, Queued
    <3> QED
      BY <3>2, <3>3, <3>4
  <2> QED
    BY <2>2, <2>3, <2>4
<1>7. CASE RxCallOk
  <2>1. at.line # <<>> /\ at.cur = Head(at.line).tag /\ run' = run
    BY <1>7, CurrentIsAnswered DEF RxCallOk, Final, RxFinal
  <2>2. CASE at.cur \in {"ATD", "ATA"}
    BY <1>7, <2>2 DEF RxCallOk, Stuck
  <2>3. CASE at.cur = "AT_CHUP"
    BY <1>7, <2>3 DEF RxCallOk, Stuck
  <2>4. CASE at.cur \notin {"ATD", "ATA", "AT_CHUP"}
    <3>1. net' = net
      BY <1>7, <2>1, <2>4 DEF RxCallOk, Obeyed, Answering
    <3>2. call' = call /\ owner' = owner
      BY <1>7, <2>4 DEF RxCallOk
    <3>3. PoolTags(at.pool) \subseteq PoolTags(at'.pool) \cup {at.cur}
      BY <1>7, FinalPool, DelTags DEF RxCallOk
    <3> QED
      BY <2>1, <2>4, <3>1, <3>2, <3>3 DEF Stuck, Queued
  <2> QED
    BY <2>2, <2>3, <2>4
<1>8. ASSUME \/ RxCallError /\ at.cur \notin {"ATA", "AT_CHUP"}
             \/ RxCallCmeError /\ at.cur \notin {"ATD", "ATA", "AT_CHUP"}
      PROVE  ~Stuck'
  <2>1. CASE RxCallError /\ at.cur = "ATD"
    BY <2>1 DEF RxCallError, Stuck
  <2>2. CASE at.cur # "ATD"
    <3>1. net' = net /\ call' = call /\ owner' = owner /\ run' = run
      BY <1>8, <2>2 DEF RxCallError, RxCallCmeError, Final
    <3>2. PoolTags(at.pool) \subseteq PoolTags(at'.pool) \cup {at.cur}
      BY <1>8, FinalPool, DelTags DEF RxCallError, RxCallCmeError
    <3> QED
      BY <1>8, <2>2, <3>1, <3>2 DEF Stuck, Queued
  <2> QED
    BY <1>8, <2>1, <2>2
<1>9. CASE DispatchStep
  <2>1. run' = run
    BY <1>9 DEF DispatchStep, OnPutCommand, TickWaiting, TickRetry, TickIdle, RxQueueHead
  <2>2. UNCHANGED callVars
    BY <1>9 DEF DispatchStep
  <2>3. PoolTags(at.pool) \subseteq PoolTags(at'.pool)
    BY <1>9, DispatchPool, AboutCallStays, ChannelFields DEF IInv, TypeOK
  <2> QED
    BY <2>1, <2>2, <2>3 DEF callVars, Stuck, Queued
<1> QED
  BY <1>1, <1>2, <1>3, <1>4, <1>5, <1>6, <1>7, <1>8, <1>9 DEF CallNext, CallRxLine

\* g_pidOfATD is left behind only by what FreeKept names: OnDial would refuse
\* every client from then on.
THEOREM OwnerIsFreed == CallSpec => FreeKept
<1>1. CallInit => OwnerInv
  BY DEF CallInit, OwnerInv
<1>2. IInv /\ OwnerInv /\ [CallNext]_allVars => OwnerInv'
  BY OwnerStep
<1>3. IInv /\ OwnerInv /\ [CallNext]_allVars =>
        [~Stuck => \/ ~Stuck' \/ at.slipped
                   \/ RxCallError /\ at.cur \in {"ATA", "AT_CHUP"}
                   \/ RxCallCmeError /\ at.cur \in {"ATD", "ATA", "AT_CHUP"}
                   \/ \E c \in Clients : RefuseDial(c)]_allVars
  BY FreeStep
<1> QED
  BY <1>1, <1>2, <1>3, CallInvariance, PTL DEF CallSpec, FreeKept

=============================================================================
