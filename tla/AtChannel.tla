----------------------------- MODULE AtChannel -----------------------------
(***************************************************************************)
(* The agent's side of the AT command channel (rild/agent.c): the command  *)
(* pool, the command in flight, the result timer and the dispatch messages *)
(* the agent posts to itself.  A channel is a record, and each function of *)
(* the code that touches it is an operator from channel to channel, so     *)
(* that a handler which makes several calls is the composition of their    *)
(* operators.  The modules that EXTEND this one hold the channel in a      *)
(* variable.                                                               *)
(*                                                                         *)
(*   pool     the command pool                                             *)
(*   cur      m_nATCommandID, the tag answers are attributed to            *)
(*   timer    m_nATResultTimer, seconds left to wait for a final result    *)
(*   misses   m_nNoResultCount, consecutive transmissions with no result   *)
(*   wake     WM_USER_AT_CMD messages in the agent's queue                 *)
(*   port     IsPortOpened()                                               *)
(*   line     commands written to the modem that it has not answered       *)
(*   slipped  history: since the modem last had nothing to answer, a       *)
(*            command became the current one, or a final result was taken  *)
(*            for the current command, while it still owed an earlier      *)
(*            answer                                                       *)
(***************************************************************************)
EXTENDS CmdPool

CONSTANTS
  Command,      \* the commands of the instance, records [tag, val]
  Silent,       \* those with nothing to write: the data of a TCPSend of length 0
  InitCmds,     \* what InitModem(SIM_NOT_INSERTED) queues, in order
  ResultWait,   \* TIMER_AT_COMMAND_RESULT_WAIT
  DirectWait,   \* TIMER_AT_QICLOSE_RESULT_WAIT, for data after a prompt
  MissLimit,    \* unanswered transmissions after which the modem is reset
  LineCap       \* commands the modem buffers; it drops what exceeds that

NONE == "NONE"

ASSUME CommandAssumption ==
  \A c \in Command : c = [tag |-> c.tag, val |-> c.val] /\ c.tag # NONE
ASSUME SilentAssumption == Silent \subseteq Command
ASSUME InitCmdsAssumption == /\ InitCmds \in Seq(Command) /\ InitCmds # <<>>
                             /\ Head(InitCmds) \notin Silent
ASSUME TimerAssumption ==
  /\ ResultWait \in Nat \ {0}
  /\ DirectWait \in Nat \ {0}
  /\ MissLimit \in Nat \ {0, 1}
  /\ LineCap \in Nat \ {0}

Tags == {c.tag : c \in Command}

Channel == [pool : Seq(Command), cur : Tags \cup {NONE}, timer : Nat,
            misses : 0 .. MissLimit - 1, wake : Nat, port : BOOLEAN,
            line : Seq(Command), slipped : BOOLEAN]

-----------------------------------------------------------------------------
(* The operators of the channel.                                           *)

\* The second half of OnPutCommand: the command becomes the current one.  If there
\* is anything to write, it goes out if the port is open, and the timer starts.
Transmit(ch, c, wait) ==
  [ch EXCEPT !.cur = c.tag,
             !.timer = IF c \in Silent THEN @ ELSE wait,
             !.line = IF c \notin Silent /\ ch.port /\ Len(@) < LineCap THEN Append(@, c)
                                                                       ELSE @,
             !.slipped = IF ch.port THEN ch.line # <<>> ELSE @]

\* OnPutCommand(NONE): the head of the pool.
PutHeadCommand(ch) ==
  IF ch.pool = <<>> THEN [ch EXCEPT !.cur = NONE]
                    ELSE Transmit(ch, Head(ch.pool), ResultWait)

\* OnPutCommand(tag) on a prompt: the first entry of the tag, if there is one.
PutDirectCommand(ch, tag) ==
  IF tag \in PoolTags(ch.pool)
    THEN Transmit(ch, CmdPoolGet(ch.pool, tag), DirectWait)
    ELSE ch

\* SendCommand: queue the command; transmit the head if nothing is in flight.
SendCommand(ch, c, atFirst) ==
  LET q == [ch EXCEPT !.pool = IF atFirst THEN CmdPoolPutHead(@, c)
                                          ELSE CmdPoolPut(@, c)]
  IN  IF ch.timer = 0 /\ ch.misses = 0 THEN PutHeadCommand(q) ELSE q

\* SendCommand of each element of cs in turn, at the tail.  Only the first
\* call can find the channel idle, and the head it transmits is then the head
\* of the whole pool (MCAtDispatcher compares this form with the fold of the calls).
SendCommands(ch, cs) ==
  LET q == [ch EXCEPT !.pool = @ \o cs]
  IN  IF cs # <<>> /\ ch.timer = 0 /\ ch.misses = 0 THEN PutHeadCommand(q) ELSE q

\* FAULT: the count is compared with one instead of zero.
NextCommand_LeavesLast(ch) ==
  IF Len(ch.pool) <= 1 THEN [ch EXCEPT !.cur = NONE] ELSE [ch EXCEPT !.wake = @ + 1]

\* SendCommand(NONE): post a dispatch message for the next command.
NextCommand(ch) ==
  IF ch.pool = <<>> THEN [ch EXCEPT !.cur = NONE] ELSE [ch EXCEPT !.wake = @ + 1]

\* FAULT: m_nATResultTimer is not cleared.
Complete_KeepsTimer(ch) ==
  NextCommand([ch EXCEPT !.pool = CmdPoolDel(@, ch.cur), !.misses = 0])

\* FAULT: m_nNoResultCount is not cleared.
Complete_KeepsMisses(ch) ==
  NextCommand([ch EXCEPT !.pool = CmdPoolDel(@, ch.cur), !.timer = 0])

\* What ParseCodes does after the handler of a final result: whatever command
\* is current by then leaves the pool.
Complete(ch) ==
  NextCommand([ch EXCEPT !.pool = CmdPoolDel(@, ch.cur), !.timer = 0, !.misses = 0,
                         !.slipped = @ \/ (ch.port /\ ch.line # <<>>)])

\* FAULT: the head is sent under the tag of the command that was not answered.
Retry_KeepsCurrent(ch) ==
  [PutHeadCommand([ch EXCEPT !.timer = 0, !.misses = @ + 1]) EXCEPT !.cur = ch.cur]

\* OnTimer with the result timer at one, short of the reset: count the missing
\* answer and transmit the head, which need not be the command that was sent.
Retry(ch) == PutHeadCommand([ch EXCEPT !.timer = 0, !.misses = @ + 1])

\* FAULT: InitModem comes before CmdPoolClear.
ResetChannel_ClearsLast(ch, opened) ==
  [SendCommands([ch EXCEPT !.cur = NONE, !.timer = 0, !.misses = 0, !.port = opened],
                InitCmds) EXCEPT !.pool = <<>>]

\* The channel's part of ResetModem; opened is the outcome of OpenATPort.
\* Neither the dispatch messages in the queue nor what the modem holds is lost.
ResetChannel(ch, opened) ==
  SendCommands([ch EXCEPT !.pool = <<>>, !.cur = NONE, !.timer = 0,
                          !.misses = 0, !.port = opened],
               InitCmds)

\* The modem has answered, or dropped, the oldest command it holds.
Answered(ch) == [ch EXCEPT !.line = Tail(@)]

\* The channel of an agent that does not run; the modem runs on.
IdleChannel(held) ==
  [pool |-> <<>>, cur |-> NONE, timer |-> 0, misses |-> 0, wake |-> 0,
   port |-> FALSE, line |-> held, slipped |-> FALSE]

\* The channel after InitAgent, which removes a queue with old messages.
InitChannel(held, opened) ==
  SendCommands([IdleChannel(held) EXCEPT !.port = opened], InitCmds)

-----------------------------------------------------------------------------
(* What every machine that owns a channel keeps true of it.                *)

\* The pool holds a command with nothing to write.  At the head it starts no timer
\* and gets no answer, and no dispatch message passes it; SendCommand then sends
\* only what goes before it, and after a missing answer nothing at all.
Held(ch) == Range(ch.pool) \cap Silent # {}

\* A command that waits while the timer is off has a dispatch message on its
\* way, or waits for a command with nothing to write: nothing else is bound to look
\* at the pool again (with no SIM not even the status poll calls SendCommand).
NoLostWakeup(ch) == ch.pool # <<>> /\ ch.timer = 0 => ch.wake > 0 \/ Held(ch)

\* While the timer runs, the pool holds a command of the current tag: the
\* final result that stops the timer finds something to delete, and the retry
\* finds something to send.
TimerCoversCommand(ch) == ch.timer > 0 => ch.cur \in PoolTags(ch.pool)

\* Missing answers are counted only while the timer runs, unless the retry has found
\* nothing to write.  SendCommand does not transmit when m_nNoResultCount is not
\* zero, so a count left over from a command that is gone would silence the agent.
MissesAreTimed(ch) == ch.misses > 0 => ch.timer > 0 \/ Held(ch)

\* As long as the order has not slipped, the modem owes at most one answer, the
\* timer waits for it, and it belongs to the command it will be attributed to.
AnswerMatches(ch) ==
  ch.port /\ ~ch.slipped =>
    /\ Len(ch.line) <= 1
    /\ ch.line # <<>> => ch.timer > 0 /\ ch.cur = Head(ch.line).tag
=============================================================================
