# Verification of linux-rild

linux-rild is the radio interface layer of an embedded Linux device: an agent
(`src/rild`) drives a Quectel LTE modem with AT commands over a serial port,
and client processes use it through a library (`src/libs`) that talks to the
agent with System V message queues and shared memory. This directory holds TLA+
models of the agent, the TLC configurations that check them, and theorems about
them with proofs for TLAPS.

The repository is built with `SUPPORT_TCP_CMD` and `SUPPORT_VOICE_CALL`;
`SUPPORT_SIM_HOTSWAP` and `SUPPORT_SIMULATION` are not defined, and code under
them is not modelled. `_PPPD_CHILD_` and `_WVDIAL_USED_` are defined in agent.c.

## 1. The system

### Processes and threads

    client --- request ---> agent's queue --> main loop --- AT command ---> modem
    client <-- message ---- clients' queue <--    |    <-- lines (SerRxThread) --
    client <-- reads ------ shared memory  <------+    <-- SIGALRM, once a second
                                                  +--> DunThread, ConnThread, dialer

Everything that matters happens in the agent's main loop (`main`, agent.c): one
thread, which takes a message from the agent's queue and handles it to the end.
The senders are the clients (`WM_USER_MSG_PROC`), the thread that reads the
serial port (`WM_USER_RX_CHAR`, `WM_USER_RX_ERROR`), a timer signal
(`WM_USER_TIMER`), the termination signals (`WM_USER_DESTROY`) and the loop
itself (`WM_USER_AT_CMD`, `WM_USER_DESTROY`). So handlers are atomic, and what is
hard is the order of the messages: what is in flight, queued, counted and posted
when the next one comes. The exceptions are the data connection's own threads
and the shared memory, which clients read at any moment.

### Components

| Component | Source | State | Operations | Correct if |
|---|---|---|---|---|
| Command pool | cmdlist.c | linked list, count | put at tail or head, get, delete by tag, clear | it is a queue; no cell is lost; the count is the length |
| Command channel | agent.c: SendCommand, OnPutCommand, ParseCodes, OnTimer | `m_nATCommandID`, result timer, missing answers | queue, transmit, complete, retry, reset | no command waits for nothing, no timer without a command, an answer goes to the command it answers |
| Main loop | agent.c: main, InitAgent, DeinitAgent, ResetModem, SigHandler | queue, recovery countdown | dispatch of the messages | the channel's promises hold for every order; silence is noticed |
| SIM and network | agent.c, finalresult.c, inforesponse.c, unsolicited.c | `g_eSIMStatus`, `g_eRegistration`, two byte counters, status timer, shared memory | bring-up, questions asked again, status poll | one bring-up at a time; clients see what the agent acts on |
| Result tables | finalresult.c, inforesponse.c, unsolicited.c | none | a handler per line and current command | part of the components the handlers belong to |
| SMS | agent.c, clientIF.c, ril.c | `g_pidOfSMS`, `eSMSState`, line after +CMT | send, result, receive, delete | the sender is told; length and PDU stay together; a message is read before it is deleted |
| Voice calls | agent.c, unsolicited.c, ril.c | `g_pidOfATD`, `eATDState` | dial, answer, hang up, RING, ^DSCI, NO CARRIER | the call belongs to its caller; clients see that there is one; nobody is left owner of no call |
| TCP sockets | agent.c, ril.c | `g_tcpArray`, FIFOs, descriptors, data queue | open, send, close, URCs | a socket has one owner until it is closed; data go with their request; descriptors are not mixed up |
| Clients | agent.c, clientIF.c, ril.c | process list, two queues | attach, detach, send to one or all | who registered is told until it leaves; a process that is gone is not; a client that does not read stops nobody |
| Data connection | agent.c: DUNConnect ... EthMainLoop | connection state, threads, countdown | connect, disconnect, link up, link down, failure | one connection; the client learns the result |
| Client library | libs/ril.c | none of its own | check shared memory, send a request | a request that is accepted can be served |
| PDU codec | sms.c | none | pack, unpack, encode, decode | decoding undoes encoding; lengths fit |
| Text, time | utils.c | none | nth character, nth parameter, calendar | reference definitions |
| Serial port, power | serialport.c, oemlayer.c | file descriptor, pins | open, close, read, write | I/O: an environment of the agent |
| KS C 5601 tables | ksc2ucs.c | tables | look up | data |
| Example client | example/ | menu | calls the library | a program to try the library by hand |

### How they interact

* A client request is checked by the library against the shared memory, sent,
  checked again by the agent, and turned into commands in the pool (`SendCommand`)
  or into a reset (`ResetModem`).
* `SendCommand` transmits at once if no answer is awaited and none was missed;
  otherwise the command waits in the pool. `ParseCodes` gives each line of the
  modem to the tables: final results by the current command, answers by the
  current command, unsolicited results by their text. A final result completes the
  current command: its entry is deleted and a dispatch message is posted.
* Handlers may queue more commands, ask the same one again at the head, change
  the state of SIM, calls, sockets or messages, send messages to clients, and
  reset the modem, all before the completion that follows in `ParseCodes`.
* The timer retries a command with no answer and resets the modem after three
  (`ResetModem`): pool cleared, session state and shared memory put back, the port
  opened anew, and the bring-up started with `InitModem(SIM_NOT_INSERTED)`.

### What is hard

The hazards are listed in `PROJECT.json`, each at its line, with the properties
that cover it or the reason why none does. The central ones:

* Between a completion and the dispatch message it posts the timer is off. A
  request in this window transmits the head itself, and the message that still
  comes transmits the head a second time.
* A result is attributed to the current command, whatever it answers. After a
  retry, a stale dispatch, a reset or a restart the modem owes several answers.
* The retry sends the head of the pool, which need not be the command that was
  not answered.
* A prompt makes a command current that is not the head of the pool.
* OK to `AT+CFUN=1,1` resets the channel in the middle of a completion, and the
  completion then takes the `ATE0` of the reset for what was answered.
* A `TCPSend` of length 0 is accepted and queues data with nothing to write. At the head
  of the pool they start no timer and get no answer, and everything waits behind them.
* `SendCommand` is silent while `m_nNoResultCount` is not zero: a count that
  outlives its command would stop the agent for good.
* SIM, registration, call, message and connection are kept twice, in the agent and
  in shared memory; the library looks at the latter and sends its request afterwards.
* +CPIN: READY, RING, NO CARRIER, +CMT and +QIURC come when they like, also amid a
  command about the same SIM, call, message or socket.
* `g_pidOfSMS` and `g_pidOfATD` say who is told an outcome. Refused requests, errors to
  other commands and stray lines change them too.
* A slot of `g_tcpArray` is given to the next client while an `AT+QICLOSE` of the last
  one is still in the pool, and the data of a request travel in a queue of their own.
* All clients receive from one queue of limited size, and the loop waits in `msgsnd`
  when it is full, in the middle of a handler; signal handlers post to the loop's own
  queue from within the loop's thread.
* The connection's thread and the main loop share variables without a lock, and the
  main loop joins the thread.

## 2. The models

| Module | Lines of the code | Role |
|---|---|---|
| `CmdPool` | cmdlist.c | the pool's operations as operators on sequences |
| `CmdQueue` | cmdlist.h | what the pool promises: the abstract specification |
| `CmdList` | cmdlist.c | cells, links, head and count; refines `CmdQueue` |
| `AtChannel` | agent.c | the channel as a record and its functions as operators |
| `AtDispatcher` | agent.c | the main loop over one channel, environment included |
| `SimBringUp` | agent.c, finalresult.c, inforesponse.c, unsolicited.c | SIM and network handlers; refines `AtDispatcher` |
| `DunLink` | agent.c, clientIF.c, ril.c | the data connection on demand: clients, main loop, thread, dialer |
| `SmsAgent` | agent.c, finalresult.c, inforesponse.c, unsolicited.c, clientIF.c, ril.c | text messages; refines `AtDispatcher` |
| `CallControl` | the same | voice calls; refines `AtDispatcher` |
| `TcpSockets` | the same | sockets, FIFOs and data; refines `AtDispatcher` |
| `ClientMail` | agent.c, clientIF.c, ril.c | process list, message queues, blocking sends, signals |
| `SmsCodec`, `SmsExchange` | sms.c, utils.c, ksc2ucs.c | encoder and decoder of messages; what goes between them |
| `Calendar` | utils.c | conversions of dates and seconds, against the calendar |
| `MC...` | | instances for TLC |
| `HelperProofs` | | the linked list is sound and implements the queue; the conversions agree with the calendar; decoding a message undoes encoding it |
| `AtDispatcherProofs` | | theorems about the operators of the pool and the channel, and the dispatcher's specification |
| `SimBringUpProofs`, `SmsAgentProofs`, `CallControlProofs`, `TcpSocketsProofs` | | the handlers implement the dispatcher, and what is proved of their own state |
| `ClientMailProofs` | | theorems about the process list |
| `DunLinkProofs` | | theorems about the data connection |

**CmdPool, CmdQueue, CmdList.** An entry is a tag (`AT_CPIN`, `AT_CGDCONT_1`, ...)
and its text. `CmdList` has a variable for each piece of state of the C code: the
head, the count, the link and content of each cell and the set of allocated
cells; a function of the code is an action, a failing `malloc` is `MallocFails`.
The refinement maps the list to the sequence of the contents a walk meets.

**AtChannel.** The channel is a record: `pool`, `cur` (`m_nATCommandID`), `timer`
(`m_nATResultTimer`), `misses` (`m_nNoResultCount`), `wake` (dispatch messages in
the queue), `port` (`IsPortOpened`), and of the environment `line`, the commands the
modem has taken and not yet answered. Each C function is an operator from channel
to channel, so a handler that makes several calls is their composition, in the
order of the calls. `slipped` is a history variable: it becomes true when a command
is written, or a result taken, while the modem still owes an earlier answer, and
false when a command is written to a modem that owes none. `Silent` are the commands with
nothing to write, the data of a `TCPSend` of length 0: `OnPutCommand` makes them current,
but writes nothing and leaves the timer alone (`if (xmitLen > 0)`). A pool with one of them
is `Held`: once it is the head, a retry or a dispatch message sends nothing, and what is
queued behind it waits until a late answer completes it or the modem is reset. That is so in
the code, so the properties that say that commands get on except it.

**AtDispatcher.** One action per message of the loop and per way it may go:
`OnPutCommand`, the five branches of `OnTimer`, `OnSerialError`, `OnDestroy`,
`OnClientCommand`, `OnClientReset`, and the lines of the modem (`Rx...`). The
environment loses commands (`ModemLoses`), signals, kills and starts the agent.
What the handlers queue is a choice over constants (`ClientRuns`, `LineRuns`,
`ResultRuns`, `HeadCmds`, `Polls`, `AskAgain`, `Prompts`): the dispatcher is the
abstract specification of every component that queues commands, and the theorems
about it hold for every choice. Only dispatch messages are counted; a message of
anyone else may be handled at any moment, since its sender is not synchronised
with the loop. A line is one step, although one read may bring several: nothing
else runs between them in the code, so the model has more behaviours, not fewer.

**SimBringUp.** The handlers of +CPIN, +CGREG, +QCDS, +CNUM, +CCLK, of OK and +CME
ERROR for `AT+CPIN` and `AT+CNUM`, and the status poll, with the agent's variables
and what clients see of them in the shared memory (`usim`, `network`, `number`). It
EXTENDS `AtDispatcher`, takes over its actions where no handler is involved, and
puts the handlers in place of the choices; `Dispatcher` states that it implements
`AtDispatcher`.

**DunLink.** The four parties of a data connection on demand. A client's request is
two steps, the library's look at `eRASState` (`DataConnect`, `DataDisconnect`) and the
message (`Request`). The main loop takes `DATA_CONNECT`, `DATA_DISCONNECT` and the
results of the thread from one FIFO (`queue`), and is blocked in `pthread_join` between
`OnRasResult` and `Join`. `DunThread` is a sequence of steps, one per call that others
can observe: fork, each message, each round of waiting, `waitpid`. Clearing
`m_nDataCallPID` is one step with the `kill` or `waitpid` before it: a request that
comes between has the effect of one that came before. Whether there is
registration, service or a link is a choice at each look. The dialer ends when it
likes, and after a signal. A dialer that outlives its thread or its agent is not
followed further.

**SmsAgent.** A message is two entries of the pool, `AT_CMGS` and `AT_CMGS_PDU`, with
the client as text. A client's request is again two steps, the library's look at
`eSMSState` (`SendSMS`) and the handler (`OnSendSMS`, `RefuseSMS`). `owner` is
`g_pidOfSMS`, `sms` is `eSMSState`; `EndMessage` clears both with the outcome. The modem's store of received messages is `stored`, with the history
variables `read` and `unread` of what has become of each since it came in.
`astray` remembers that the report of a sent message was lost or taken for another's, or
another's for it (`Mistaken`): +CMT makes `ps_sms_processing` take the next line that is no final result for a PDU.

**CallControl.** `owner` is `g_pidOfATD`, `call` is `eATDState`, `net` is the call as the
modem has it; the difference between the last two is what the properties are about.
RING, ^DSCI and NO CARRIER come when `net` allows them, NO CARRIER also in place of a
result. The three requests are two steps each, as for messages. The commands end in OK, in ERROR
(`RxCallError`) or, since the bring-up sends `AT+CMEE=1`, in +CME ERROR (`RxCallCmeError`),
whose handler has no branch for any of them: after a +CME ERROR to `ATD` the caller is not
told and stays the owner, with no call. (To `AT+CMGS` and its PDU, +CME ERROR does what
one of the two errors in `SmsAgent` does.)

**TcpSockets.** `slot` is `g_tcpArray` with, for each descriptor of the process, what it
stands for: `BuildSockInfo`, `ClearSockInfo` and `ClearAllSockInfo` are functions on it,
with the process number 0 and the stale descriptors the code has. `lib`, `asked`,
`data` and `sending` are the clients' side: the FIFO, the requests in the agent's queue,
the data in theirs, and the moment in `TCPSend` between the two. `link` is the modem's
side. SIGPIPE from a FIFO nobody reads ends the agent (`RxData`). A request to send may be
of length 0 (`full` is FALSE in `LengthAndData`). `TCPSend` queues its request first and then
its data without waiting: if the queue of data, which all clients share, is full or gone,
the call fails and the request stays (`TCPSendDataFails`), so that the data of the next
`TCPSend` meet the earlier request. A +CME ERROR to `AT+QIOPEN` leaves the slot taken
(`RxTcpCmeError`), an ERROR frees it (`RxTcpError`).

**ClientMail.** Here a handler is not atomic. `work` is the list of messages the handler
in progress has still to send, and `Send` sends one if there is room; a signal
(`Interrupt`) makes a waiting `msgsnd` fail, which loses the message, and posts to the
agent's queue itself. What a request or an event means is left open: every handler of
the code sends to nobody, to one process or to all, and may post to the loop. So this
module stands for all of them, where the modules of the components know what is sent.

**SmsCodec, SmsExchange, Calendar.** `EncodePDU` and `DecodePDU` are operators on
sequences of octets: semi-octets of numbers, the alphabet's table with its escapes, the
packing of septets behind a header of any length, and the division of a KS C 5601 text
into characters (a converted character is the pair of its bytes: the tables are
data). A loop of the code is a function on the values of its variables (`PackBody`,
`UnpackBody`, `decode_body`, `GetCharBody`, `ConvertBody`, `ElementsBody`), and `Rounds`
applies it until the loop has ended. `SmsExchange` composes a message key by key, so that
every prefix is a message of its own, as long as text and number fit the arrays of `EncodePDU`
and `DecodePDU` (`Fits`, `NumberFits`), and sends it through both. The arrays of a number have 20
characters, of which an odd number needs one for the fill digit and every number one for
the zero: 18 digits, with a `+` in front or not. What the code does with more is not
modelled. `Calendar` walks through the days of the calendar, which is the reference, and
compares both conversions on each.

A definition under a comment `FAULT` is a variant of the definition that follows
it, with an error of the kind one makes in that code (a reset forgotten, a test
dropped, an order swapped). No specification uses it: put in place of the
original it makes the properties named for it in `PROJECT.json` fail, which shows
that the property depends on that piece of code.

### Bounds

`MaxPool` (commands in the pool), `MaxWake` (dispatch messages), `LineCap`
(commands the modem buffers; it drops what exceeds that), `ByteRange` (256 in the
code), the wait times and limits. The pool of the code has no limit. Three entries
are the current command, one asked again or queued before it, and one behind; with
four, `sms` has two whole messages. Two dispatch messages are one more than an
undisturbed exchange has; the second is the stale one. `ResultWait` is 2 or 1 in place
of 3 s (10 s after a prompt, `DirectWait`), since only "not yet" and "now" differ.
`MissLimit` is 3 as in the code in `requests`, 2 where the number of retries does not
matter. In `requests` the data of `TCPSend` come with and without text (`NothingToWrite`); in
`sim_service`, `sim_reboot`, `sms` and `calls`, which send no data, no command is silent. Two
commands in the modem (`LineCap`, in `requests` and `sms`) are the one that is answered
late and the one that gets its answer. A `ByteRange` of 3 with limits of 2 lets the counters
reach their limit, pass it and wrap.

In `DunLink` two clients and a queue that takes client requests up to three messages
(the thread's own are never refused) give a request in the queue behind a result, a
second one behind that, and a third on its way; `PollLimit` is 2 in place of 20 rounds.
Two clients are enough for messages, calls and sockets: one that owns and one that
disturbs. They are interchangeable (symmetry), since numbers are only compared.
`TcpSockets` bounds the calls of the library (`MaxCalls` is 3: open, close, and the opening of
the next owner of the slot; or three calls of `TCPSend`, of which the last finds the queue of
data full) and what goes wrong (`MaxFaults` is 2: each property names the one fault that may
break it, and a second may come before or behind; data of length 0 count as one). Two slots
in place of ten are all taken at once. The queue of data takes `DataCap` (2) data, whatever
their length, since each message has the size of the largest. In `sms` a VIEW leaves out what
became of messages that are not in the store any more: nothing depends on it.
In `ClientMail` both queues are small enough to fill up (`AgentRoom` 2, `ClientRoom` 1),
`MaxList` bounds the list, `MaxDeaths` the processes killed in one run of the agent.
`SmsExchange` has texts up to the lengths in `TheLengths`, which pass the eighth septet;
elements of lengths 1 to 7 give every position modulo seven. `Calendar` is not reduced:
every day until the year in which TLC's 31 bits of seconds end.

### Fairness

`WF(OnPutCommand)`, `WF(Countdown)` and `WF(OnDestroy)`. The loop takes the messages of
its queue in the order in which they came (`msgrcv` with type 0), so a dispatch or
destroy message is handled; the timer signal comes every second and each handled
one is an `OnTimer` step while the port is open. `Countdown` is an `OnTimer` step with
the result timer or the recovery countdown running; the status poll is not assumed
to happen, since it queues nothing while there is no SIM. No fairness for the modem and
the clients: a modem that never answers and a client that never asks are
behaviours. In `DunLink` the main loop and the thread are fair, and a dialer that got
SIGTERM ends; a dialer with no signal may run for ever. In `ClientMail` the timer's
signal (`Tick`) and the loop's own progress (`Send`) are fair, and clients are not: they
need never read. No strong fairness: none of these is disabled again and again by what
others do, short of the end of the agent.

## 3. What TLC checks

| Run | Shows | States |
|---|---|---|
| `cmd_list` | the list is sound and implements the queue, over all mixes of operations with three cells and two commands of one tag | 1,728 |
| `requests` | the channel's invariants, `OrderKept` and liveness under requests, prompts, polls, commands at the head, questions asked again, lost answers, retries, resets, reboots, restarts | 296,189 |
| `sim_service` | the handlers implement the dispatcher; no question to the SIM is queued twice; the registration clients see is the agent's | 736,296 |
| `sim_reboot` | with a client that reboots the modem amid the bring-up and a UART that may not open, clients see no ready SIM the agent gave up, and a SIM given up is asked for | 2,173,302 |
| `data_link` | the main loop never blocks in `pthread_join`; no thread, no connection; transient states end; a disconnect that finds a dialer works | 186,007 |
| `sms` | two clients send while messages come in: who is told, what a prompt is given, what leaves a message to nobody; read before deleted | 695,707 |
| `calls` | two clients dial, answer and hang up against each other and the network | 357,603 |
| `tcp` | two clients over two slots, with failures, deaths, resets, repeated commands, data of length 0, a full queue of data | 405,984 |
| `client_mail` | processes come, register, leave, die and are numbered again while both queues fill up | 1,260,524 |
| `sms_text` | decoding undoes encoding; headers are skipped; the packing is the one in bits | 21,558 |
| `calendar` | the conversions agree with the calendar on every day from 1980 to 2047 | one per day |
| `idle_is_sent` | the comment in `DUNDisconnect` against the code: violated, see below | |

The properties:

* `NoLostWakeup` (`DispatchKept`): a command that waits while the timer is off has a
  dispatch message on its way, unless the pool holds data of length 0 (`Held`). With no
  SIM nothing else looks at the pool.
* `TimerCoversCommand` (`CoverKept`): while the timer runs the pool holds a command
  of the current tag.
* `AnswerMatches` (`AnswersKept`): until the order slips, the modem owes at most one
  answer and it belongs to the current command.
* `OrderKept`: the order never slips in a request, a poll or a line of the modem,
  except the reboot. What remains are the four causes its comment lists: a stale
  dispatch message, a retry, a reset, and the completion after `AT+CFUN=1,1`. These
  do happen, and a late answer then completes another command: that is how the
  protocol is built, since a result does not name its command.
* `SilenceDetected`, `Served` (`ApnServed`): liveness, up to the moment when the pool holds
  data of length 0. `Served` assumes that from some
  point on the request is not repeated and nothing is put before it: a SIM that
  stays busy has its question asked again at the head without limit, and
  everything else waits. Both are hazards of the code, listed as such.
* `ListIsSound`, `ImplementsQueue`: see `CmdList`. `AskedOnce`, `SimAgrees`,
  `NetworkAgrees`, `GivenUpIsAsked`: see `SimBringUp`. `JoinsItsEnd`, `QuietIsIdle`,
  `ToldInTurn`, `InProgressEnds`, `DisconnectWorks`: see `DunLink`.

Many properties of messages, calls and sockets have the form "good stays good, except
by these steps". The code does lose the owner of a message, hide a call or leave a
socket behind, in corners that its protocol or its shared process numbers give rise to;
the property says that these corners are all there are, and a change that adds another
breaks it. `Agree`, `DialOwned`, `Owned` and so on are the good states.

* `SentIsOwn`, `PromptIsOwn`: while answers go to their commands, `SMS_Sent` goes to the
  client whose message was sent, and a prompt is given the PDU of the message whose
  length was announced.
* `StateKept`, `WorkKept`: `g_pidOfSMS` and `eSMSState` part only when a request is refused
  while a message is under way (the refusal resets the shared state) or a line goes
  astray; a message under way leaves the pool untold only by ERROR to the PDU, or when a
  result of another command or an earlier transmission is taken for its own.
* `DeletedWasRead`: the deletion of a received message does not overtake its reading, even
  when answers slip: the clients were given the message, or its `AT+CMGR` came to nothing,
  because it ended in an error or by another command's result, its line was eaten by the
  flag of +CMT, or `DecodePDU` made nothing of it. So a message may be deleted that nobody has
  seen. Excepted is one that the modem stored in a place whose deletion was still
  outstanding, since that may be asked for a second time.
* `DialKept`, `CallSeenKept`, `FreeKept`: what takes a call from its caller, hides it from
  the clients (who then cannot hang up), or leaves `g_pidOfATD` set with no call
  (every later request to dial is refused). The last is done by an ERROR to `ATA` or `AT+CHUP`,
  a +CME ERROR to these or to `ATD`, a refused request and slipped answers.
* `SlotKept`, `OwnedKept`, `FilesKept`, `InStepKept`, `PairedKept`: what costs a client its
  slot, leaves a socket of the modem to nobody, closes another's descriptor, parts the
  data of a request from it, or lets data be sent to the modem as a command. A full queue
  of data is among what parts data from their request, and OK to an `AT+QISEND` of length 0
  among what leaves data behind.
* `RegistryKept`, `RegisteredOnce`: a registered process stays registered, once, whatever
  others do, and a process that left by `_detach` is off the list in the end.
* `HandlerEnds`: liveness. Clients that never read do not stop the agent for good, since
  the tick interrupts the `msgsnd`; excepted is a full queue of the agent itself.
* `SentIsRead`, `HeaderIsSkipped`, `PackedInBits`, `CalendarAgrees`, `LocalTimeAgrees`:
  operators against reference definitions.

One disagreement between the code and what it says is recorded. `DUNDisconnect`
kills the dialer and says "RAS_Idle will be sent in RasThread!". That is so while
the thread is in `waitpid`; while it still waits for the link it sends `RAS_Error`.
The library refuses `DataDisconnect` while connecting, but it looks at the state
before the request is sent and handled: a request allowed during one connection
can be handled after that has ended and the next one was begun.

Deadlock is checked where the system goes on for ever: the agent can always be killed
and started. It is not checked in `tcp` and `client_mail`, where bounds on calls, faults
and deaths may leave nothing to do, and in `sms_text` and `calendar`, which end.

## 4. What is proved

The proofs are checked by tlapm 1.4.5 with its SMT, Zenon and LS4 backends.

`AtDispatcherProofs` proves for every value of the constants that
`Spec => []IInv`, with `IInv == TypeOK /\ Sound(at)`, and from it `TypeCorrect`,
`DispatchIsKept`, `CoverIsKept`, `AnswersAreKept`, the invariants of the run `requests`,
`MissesAreKept` (missing answers are counted only while the timer runs or the pool is
`Held`, so that `SendCommand` is never silent for nothing else), and `OrderIsKept`, the action property. The
assumptions are those of the modules that declare the constants: commands are records
with a tag that is not `NONE`, the bring-up queues at least one, times and limits are
positive, what handlers queue are commands, and the bring-up begins with one that has
something to write. `InitCmds # <<>>` is needed: an empty
bring-up would leave a reset agent with nothing in flight.

The argument. None of the four parts of `Sound` is inductive by itself. That a
missing answer is counted only while the timer runs needs, at a retry, that the
pool is not empty, which is `TimerCoversCommand`. That needs, at a completion,
nothing but that the timer is cleared, but at a prompt that the data is in the
pool. `NoLostWakeup` needs, at an insertion, that a pool with the timer off is
transmitted, which happens only if no answer was missed: `MissesAreTimed`. Where the head
that is transmitted is silent, neither has its timer, but the pool is then `Held`, and stays
so until that command is out of it; and a completion that takes it out posts a dispatch
message and clears the count. And
`AnswerMatches` needs, when a request transmits, that the modem owes nothing while
the timer is off, which is its own second conjunct. A completion and a reset make
any channel sound, whatever it was before (`CompleteSound`, `ResetSound`), and this is
why the completion that follows the reset inside a result does no harm.
`AtDispatcherProofs` has one theorem per operator of the channel and then one step per
action; before them stand the facts about the pool they rest on (what a deletion by
tag removes and keeps, what remains of two pools put together, how often a tag is there). `OrderIsKept` rests on lemmas that a
call of an `Ordered` step either leaves the line alone or writes to a modem that
owes nothing.

**The linked list.** `HelperProofs` proves `ListIsSound` and `ImplementsQueue` for every
set of commands and every finite set of cells (`HeapAssumption`, which also says that
there is a command). The invariant is that the cells a walk from the head meets are
linked in this order, each of them once, that the last points to nothing, that they are
the allocated ones, and that `count` is their number. One lemma per function says which
cells it leaves linked (`AppendIsLinked`, `ConsIsLinked`, `DroppedIsLinked`), one per
function what entries these hold (`ContentsAppend`, ...), and `WalkIsList` that a walk
from the head meets just the cells that are linked. The walk is a recursive function of
the number of links; that it exists and what it meets is shown with a least
counterexample, since the theorems on induction cannot be applied here.

**The data connection.** `DunLinkProofs` proves `JoinsOnlyLeaving`, `QuietConnectionIsIdle` and
`ConnectionsAreToldInTurn` for any number of clients, rounds and messages. The invariant says of the queue that a final result
in it is the last result there and comes from a thread that does nothing but
leave (`LastWord`), and that a result in the queue means there is a thread
(`NoOrphan`); so when the loop has taken the final result there is nothing left of
the thread (`Joining`), and no result can change the state after the join. For
`ToldInTurn` it says in addition that `Connected` is on its way or told only behind the
thread's report, once at most, and that its end is told before the join (`ToldInv`).

**The handlers implement the dispatcher.** `SimImplementsDispatcher`,
`SmsImplementsDispatcher`, `CallsImplementDispatcher` and `TcpImplementsDispatcher` state that a specification with
its handlers implies `Init /\ [][Next]_vars` of `AtDispatcher`: each action of the handlers
maps to the action of the dispatcher whose choice it makes, or to a stutter. So
everything proved of the dispatcher holds with these handlers, for every table of
commands (the invariance theorems `SimInvariance`, `SmsInvariance`, `CallInvariance`,
`TcpInvariance`). The
steps that matter are the final results: a handler that queues nothing is the choice
`<<>>` (`SendNothing`), and a handler that asks its command again queues it before the
completion, as `RxAskAgain` does.

On top of this `SimIsAgreed` proves that clients are not told of a ready SIM which the agent does
not work with (nor left with the initial state once it does; the converse does not hold, as
clients may be told of a missing number meanwhile) and `NetworkIsAgreed` that they see the
agent's registration (the two are inductive together), `StateIsKept` proves `StateKept` with the additional
invariant that a dead agent has forgotten its owner (`Forgotten`), and `CallIsSeen` proves
`CallSeenKept`; it needs the dispatcher's `AnswerMatches`, since the result of a hanging up
hides a call unless it is the answer to `AT+CHUP`.

**The bring-up.** `QuestionsAreAskedOnce` proves `AskedOnce`. The invariant (`Sole`) adds that
without a ready SIM the pool holds no question of the bring-up proper: so the bring-up that
+CPIN: READY starts, which does not look at the pool, doubles none, whichever way that line
came. It needs what `QuestionsAssumption` says of the tables: the bring-up asks each
question once, and no other table asks any. `GivenUpSimIsAsked` proves `GivenUpIsAsked`: a SIM is
given up only by a reset or a start, and the completion after a reset takes out the head
of the new pool, which is not `AT+CPIN`.

**Messages.** `SmsInv` is behind `SentIsTold`, `PromptIsAnswered` and `WorkIsKept`. It says what
remains of the pool when only the commands of messages are kept (`Shape`): the length and
the PDU of one client's message in turn, what an ERROR to either leaves of it, and before
the next message such a leftover or a message that was reported and waits for its OK.
While the modem has the PDU, that message is the first of them and the owner's (`Ready`,
`Named`), and no PDU is at the head of the pool, where a retry would send it (`Fronted`).
All of that ends with `astray`. `ReadBeforeDeletion` says of every stored message that
nobody was given that its deletion is behind its reading in the pool and not yet at the
modem (`Guarded`); retries, late answers and results taken for another command's keep that,
so `DeletedIsRead` does not depend on the order of answers. It says no more than `DeletedWasRead`:
`unread` takes in the messages whose reading came to nothing. `SmsSourcesAssumption` says
what the code shows: only `OnSendSMS` queues a message, only +CMTI reads and deletes, and
none of the commands is silent, as there are no data for sockets.

The proof found the model's properties too generous: they had excepted every behaviour
in which the order had slipped. What they do depend on is narrower, namely that `AT+CMGS` and
the PDU are completed by their own results. ERROR to another command, or to an earlier
transmission, completes them too: the message is then ended for its sender while the
modem still has it. `Mistaken` is that case, and the properties name it.

**Calls.** `DialIsKept` and `OwnerIsFreed` prove `DialKept` and `FreeKept`. For the first,
`DialAssumption` says that only `OnDial` sends `ATD`, so nothing but a request to dial puts
one in the pool. The second needs that an agent that does not run has no owner, and that
while the port is closed a command about the call is still in the pool (`OwnerInv`).

**Sockets.** `TcpSocketsProofs` proves all five properties of `TcpSockets` for any number of
clients, sockets, calls and faults. Each has an invariant of its own behind it.

* `FilesAreKept` (`FilesKept`) rests on the shape of the table (`TableOK`): a slot in use has
  a descriptor, and every descriptor that is open belongs to a slot in use, so that there is
  a free one for the next. One lemma per function of the table says what it does to it.
* `RequestsStayInStep` (`InStepKept`) counts: the k-th request to send in the queue has the
  number of the k-th data (`Matches`), and what `WriteMsgQueue` appends and `OnReadMsgQue`
  takes keeps that.
* `DataStayPaired` (`PairedKept`) follows the pool through concatenation and deletion
  (`PairsConcat`, `PairsDel`).
* `SlotsAreKept` (`SlotKept`) needs to know whose `AT+QICLOSE` has been answered. The handlers
  do not look at the answer but at the first command of the pool with the current tag;
  `Awaits` says that until the order slips that is the command in flight, and that no
  `AT+QIOPEN` is before the `AT+QICLOSE` in flight. And an `AT+QICLOSE` on its way for a slot in use
  is one its client has asked for, or its predecessor's (`ClosingKnown`).
* `SocketsStayOwned` (`OwnedKept`) needs in addition that, unless one is inherited, no `AT+QICLOSE`
  waits before the `AT+QIOPEN` of its socket (`OpenFirst`): so nothing is left that opens a socket
  again when its `AT+QICLOSE` is answered (`ClosedAtLast`).

`ChannelStep` says once what each kind of step makes of the pool and the modem's line (extends,
completes, drops, renews); the last three invariants follow from it without the operators of
the channel. `TcpSourcesAssumption` says what the code shows: neither the bring-up nor a poll
queues a command of a socket.

These proofs corrected two properties, which had held only because the run's bounds were too
small. `OwnedKept` now excepts a client with two slots, whose second `AT+QICLOSE` frees the first,
an `AT+QICLOSE` that the modem takes for data, and a reset after which the port is taken as not
opened; with more calls the code leaves a socket behind in each of these ways. `FilesKept` excepts
an ERROR to `AT+QIOPEN` whose slot is nobody's any more: `TCPClosed(0, ...)` then closes a
descriptor as it does for the other lines.

**The process list.** `ClientMailProofs` proves `RegisteredOnce` and `RegistryKept` for any
set of process numbers and any room in the queues. Neither is inductive: what is in the
list depends on what is in the queue and in which order. The invariant says of each
number that its entries take turns (`TakesTurns`): an attach that is queued, for a number
that is listed, has a detach before it; between two attaches there is a detach; and a
listed or queued number whose process is gone has a detach behind it. For a living
process that has registered, every detach of its number in the queue has an attach
behind it (`NoneLeaves`); that is what keeps an earlier process's `PROC_DETACH` from
taking it off. One lemma per kind of change (`TurnsAppend`, `TurnsAttach`, `TurnsDetach`,
`TurnsTail`, `TurnsAdd`, `TurnsRemove`) says how these survive it.

**The calendar.** `HelperProofs` proves `CalendarAgrees` (`ConversionsAgree`) and `LocalTimeAgrees`
(`LocalTimeIsRight`) for every hour, every zone from -12 to +14 hours, and every day until the
end of 2099, where TLC stops in 2047. Beyond that they are false: the tables take every fourth
year for a leap year, 2100 too, and this is what `CalendarAssumption` excludes. Until then the
seconds stay below 2^32, the width of the code's counter. The argument is the number of a day.
`ToSecs` and `FromSecs` say that the one conversion puts that number together and the other takes
it apart again, by finding the brackets in the tables (`YearFound`, `MonthFound`); `FollowingDay`
says that the calendar's next day, which knows no tables, has the next number and the next
weekday, within a month and at the ends of months and years. The invariant (`CalendarInv`) is
that the walk's count is the number of its day. `MovedByZone` does the same for the
quarters of an hour of a zone.

**The message PDU.** `SentInBits`, `SentIsAlwaysRead` and `HeaderIsAlwaysSkipped` prove
`PackedInBits`, `SentIsRead` and `HeaderIsSkipped` for every number of up to eighteen digits and
every text of the three codings that fit the arrays, where TLC tries four keys and eight
characters of an alphabet of three. The assumptions say what
can be typed: the keys of a number are digits, `+`, `*` and `#` (`KeyPadAssumption`); a
character of a plain text is a line end, a form feed or printable (`AsciiAssumption`, since
`encode_alphabet` sends the other control characters as septets that stand for something
else); one of KS C 5601 is such a byte or a pair that has an entry in the tables
(`KscAssumption`); one of UCS2 is not zero, which ends the text (`Ucs2Assumption`); and an
opaque element leaves room for a reply address (`BoundsAssumption`). `NumberFits` keeps the number in
the arrays and `Fits` the text, without which the length in front of it would not be an octet.

The inductive invariant (`Composed`, `ComposedOnly`) is only what can be composed: a number and
a text that fit, and for a header at most one opaque element and a reply address. `sms_text`
checks what follows from it; the work is in the operators.

* Loops. `Rounds` is a recursive function. That it unfolds (`RoundsDef`), and that a set of
  numbers that has 0 and the successor of each has them all (`AllNumbers`), is shown with a least
  counterexample; each loop then has an invariant (`PackInv`, `UnpackInv`, `DecodeInv`, ...)
  that says what it has produced after k rounds.
* Bits. `PackIsBits` says that the packing loop makes the octets of the definition in bits,
  for any number of septets, and `UnpackIsInverse` that the unpacking loop takes the septets out
  again behind any number of fill bits, the special case of seven included. Both rest on one fact
  about an octet that begins with bit k of septet i (`OctetOfBits`).
* Alphabet. `DecodeIsInverse`: `decode_alphabet` reads what `encode_alphabet` wrote. A byte has
  one or two septets, an escape is never the second, and so the loop never gets out of step.
* Digits. `BcdIsInverse`: `Bcd2Hex` reads what `Hex2Bcd` wrote except the filling digit, and the
  letters that `*` and `#` are sent as come back as these keys (`KeysSurvive`).
* KS C 5601. The converter reads a text of characters one by one, since the first byte of a
  pair begins no other character (`PairLeads`), and `GetCharLength` counts the same characters.
* Frames. A message is written as a concatenation (`Frame`) whose parts lie where `DecodePDU`
  looks for them; the walk over the elements of a header ends at its end, and takes the reply
  address for the sender's.

The proofs changed three things in the model. `Text` was a CASE whose guards overlapped
(seven-bit data with an octet above 128 matched two of them), where the code has a chain of
`else if`; it now has the chain. An empty reply address replaced the sender's number, where the
code keeps it (`if (0 != len)`, sms.c). And texts longer than the arrays could be composed.

What is proved covers 35 of the 40 properties of the passing runs. Only model-checked is
liveness (`SilenceDetected`, `ApnServed`, `InProgressEnds`, `DisconnectWorks`, `HandlerEnds`):
fairness and ENABLED are out of the prover's reach.

## 5. Not modelled

* The mutex of the pool: one thread uses it.
* The 600 ms test in `OnTimer`, which drops a tick that comes too soon after the
  last: a tick that counts is a step, and no step measures time.
* The automatic modes of the data connection (`-p` and `-e` of the agent: `ConnThread`,
  `DunMainLoop`, `EthMainLoop`). `EthMainLoop` waits for a condition that only
  `OnNetStatus` signals, which nobody calls; this is listed as a hazard.
* Texts of commands and answers, except where a handler decides by them, and the
  search for the n-th parameter of a line in utils.c.
* Values that are stored for display only: signal strength, version, identity, clock,
  volume, band, addresses.
* `SendAlertMsg(0)` addresses process 0; `msgsnd` refuses the type 0, so nobody is told.
  The event masks, by which a process asks for some events only: the agent has no
  case for `PROC_UPDATE`.
* The contents of the KS C 5601 tables: which units a pair of bytes stands for.
* The pins, the watchdog, the serial settings, `/proc` and the network interfaces.
* What happens when the two queues of the TCP data and of the clients are removed
  while a process waits on them.
* The example client.

## 6. Plan

Done: the command pool, channel and dispatcher; SIM and network; the data connection on
demand; messages, calls and sockets; processes and their mail; codec and calendar; the
theorems of section 4.

Next, in this order:

1. The automatic modes of the data connection.
2. A module that composes SIM, messages, calls and sockets over one channel, with the
   shared refusals of a modem that is not registered.
