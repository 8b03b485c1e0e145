------------------------------ MODULE SmsAgent ------------------------------
(***************************************************************************)
(* Text messages.  A client's message becomes two commands of the pool,    *)
(* AT+CMGS with the length and the PDU that follows the modem's prompt.    *)
(* g_pidOfSMS is the client the result belongs to, eSMSState in the shared *)
(* memory is what the library looks at before it sends a request.  A       *)
(* message the modem has received is announced with +CMTI, read with       *)
(* AT+CMGR and deleted with AT+CMGD, or pushed with +CMT.                  *)
(*                                                                         *)
(* Of the modem it is assumed that AT+CMGS ends in a prompt or an error;   *)
(* that the data after a prompt ends in a line +CMGS and OK, or in an      *)
(* error, and a PDU without a prompt in an error; that AT+CMGR gives a     *)
(* stored message before it ends in OK; and that +CMT and its PDU come in  *)
(* one piece.                                                              *)
(***************************************************************************)
EXTENDS AtDispatcher

CONSTANTS
  Clients,      \* the processes that send messages
  Indexes,      \* the places of the modem's memory for received messages
  NOBODY        \* process 0

LengthAndPdu(c) == <<CmdText("AT_CMGS", c), CmdText("AT_CMGS_PDU", c)>>
ReadAndDelete(i) == <<CmdText("AT_CMGR", i), CmdText("AT_CMGD_INDEX", i)>>

ASSUME SmsAssumption ==
  /\ NOBODY \notin Clients
  /\ \A c \in Clients : LengthAndPdu(c) \in ClientRuns
  /\ \A i \in Indexes : ReadAndDelete(i) \in LineRuns
  /\ <<>> \in ResultRuns
  /\ <<"AT_CMGS", "AT_CMGS_PDU">> \in Prompts

\* A message is queued by its client's request only and a deletion by +CMTI only;
\* data for sockets, the only command that may be without text, has no part here.
Without(tags, cs) == \A k \in DOMAIN cs : cs[k].tag \notin tags
Message == {"AT_CMGS", "AT_CMGS_PDU"}
Storage == {"AT_CMGR", "AT_CMGD_INDEX"}

ASSUME SmsSourcesAssumption ==
  /\ Without(Message \cup Storage, InitCmds)
  /\ \A cs \in Polls : Without(Message \cup Storage, cs)
  /\ \A c \in HeadCmds : c.tag \notin Message \cup Storage
  /\ Prompts = {<<"AT_CMGS", "AT_CMGS_PDU">>}
  /\ Silent = {}

VARIABLES
  owner,     \* g_pidOfSMS
  sms,       \* eSMSState in the shared memory
  posted,    \* clients whose SMS_SEND message is in the agent's queue
  entry,     \* what the modem does with the command it answers next
  pushed,    \* ps_sms_processing: the next line is taken for a message
  stored,    \* received messages in the modem's memory
  read,      \* history: those among them that the clients were given
  unread,    \* history: those whose AT+CMGR came to nothing, or that came while
             \* the deletion of an older message in their place was outstanding,
             \* or of which DecodePDU makes nothing
  astray     \* history: the line that reports a message as sent was lost on a
             \* stale ps_sms_processing, another line was taken for it, or the OK
             \* behind it did not reach it and the message is sent once more; or
             \* a final result was mistaken for one of a message's commands

inbox == <<stored, read, unread>>
smsVars == <<owner, sms, posted, entry, pushed, inbox, astray>>
allVars == <<vars, smsVars>>

SmsTypeOK ==
  /\ TypeOK
  /\ owner \in Clients \cup {NOBODY}
  /\ sms \in {"Idle", "Sending"}
  /\ posted \subseteq Clients
  /\ entry \in {"command",   \* read as a command line
                "data",      \* it has asked for data with a prompt
                "told"}      \* it has sent the line that comes before OK
  /\ pushed \in {"no",       \* MSG_NONE
                 "next",     \* +CMT has come and its PDU is the next line
                 "stale"}    \* the PDU was lost in a reset
  /\ stored \subseteq Indexes /\ read \subseteq Indexes /\ unread \subseteq Indexes
  /\ astray \in BOOLEAN

SmsInit ==
  /\ Init
  /\ owner = NOBODY /\ sms = "Idle" /\ posted = {}
  /\ entry = "command" /\ pushed = "no"
  /\ stored = {} /\ read = {} /\ unread = {}
  /\ astray = FALSE

-----------------------------------------------------------------------------
(* Clients.                                                                *)

\* The library looks at the shared memory, then sends its request.
SendSMS(c) ==
  /\ run /\ c \notin posted /\ sms = "Idle"
  /\ posted' = posted \cup {c}
  /\ UNCHANGED <<vars, owner, sms, entry, pushed, inbox, astray>>

\* FAULT: g_pidOfSMS is not tested.
OnSendSMS_Always(c) ==
  /\ c \in posted /\ run
  /\ Room(2) /\ at' = SendCommands(at, LengthAndPdu(c))
  /\ owner' = c /\ sms' = "Sending"
  /\ posted' = posted \ {c}
  /\ UNCHANGED <<recovery, stop, run, entry, pushed, inbox, astray>>

OnSendSMS(c) ==
  /\ c \in posted /\ run /\ owner = NOBODY
  /\ Room(2) /\ at' = SendCommands(at, LengthAndPdu(c))
  /\ owner' = c /\ sms' = "Sending"
  /\ posted' = posted \ {c}
  /\ UNCHANGED <<recovery, stop, run, entry, pushed, inbox, astray>>

\* A message is under way, there is no registration, or EncodePDU gave up.  The
\* client is told SMS_Error, which also sets the shared state to idle.
RefuseSMS(c) ==
  /\ c \in posted /\ run
  /\ sms' = "Idle"
  /\ posted' = posted \ {c}
  /\ UNCHANGED <<vars, owner, entry, pushed, inbox, astray>>

\* The SMS part of ResetModem; ps_sms_processing is left as it is.
SmsReset ==
  /\ TickRecoveryOver \/ TickNoAnswer \/ OnSerialError \/ OnClientReset
  /\ owner' = NOBODY /\ sms' = "Idle" /\ astray' = FALSE
  /\ pushed' = IF pushed = "no" THEN "no" ELSE "stale"
  /\ UNCHANGED <<posted, entry, inbox>>

\* The queue is removed; the shared memory stays as it was.  (The end by a signal
\* is left out: it comes to the same.)
SmsKilled ==
  /\ Killed
  /\ owner' = NOBODY /\ posted' = {} /\ pushed' = "no" /\ astray' = FALSE
  /\ UNCHANGED <<sms, entry, inbox>>

SmsStart ==
  /\ Start
  /\ sms' = "Idle"
  /\ UNCHANGED <<owner, posted, entry, pushed, inbox, astray>>

-----------------------------------------------------------------------------
(* Lines of the modem.                                                     *)

\* A line that is not the one announced by +CMT; one that is neither a final
\* result is seen by its handler only if ps_sms_processing is not set.
Line == Reading /\ pushed # "next"
Seen == Reading /\ pushed = "no"

Answering(tag) == at.line # <<>> /\ Head(at.line).tag = tag

\* The line with the reference of the message sent, or with a stored message.
SentDue == Answering("AT_CMGS_PDU") /\ entry = "data"
MessageDue ==
  Answering("AT_CMGR") /\ entry # "told" /\ Head(at.line).val \in stored

RxSmsPrompt ==
  /\ Line /\ RxPrompt
  /\ entry' = "data"
  /\ UNCHANGED <<owner, sms, posted, pushed, inbox, astray>>

\* FAULT: g_pidOfSMS is not cleared.
EndMessage_KeepsOwner == UNCHANGED owner /\ sms' = "Idle"

\* SetSMSState(g_pidOfSMS, SMS_Sent or SMS_Error) and g_pidOfSMS = 0.
EndMessage == owner' = NOBODY /\ sms' = "Idle"

\* +CMGS while the PDU is current: the client is told SMS_Sent.
RxSent ==
  /\ Seen /\ SentDue /\ at.cur = "AT_CMGS_PDU"
  /\ EndMessage /\ entry' = "told"
  /\ UNCHANGED <<vars, posted, pushed, inbox, astray>>

\* +CMGR and the PDU while AT+CMGR is current: the clients are given the message, if
\* it is a text and its TP-PID is 0.
RxMessage ==
  /\ Seen /\ MessageDue /\ at.cur = "AT_CMGR"
  /\ \/ read' = read \cup {Head(at.line).val} /\ UNCHANGED unread
     \/ unread' = unread \cup {Head(at.line).val} /\ UNCHANGED read
  /\ entry' = "told"
  /\ UNCHANGED <<vars, owner, sms, posted, pushed, stored, astray>>

\* Either of them while another command is current.  (+CMGS while AT+CMGR is
\* current makes ParseCodes follow a null pointer: Killed.)
RxUnclaimed ==
  /\ Seen /\ (SentDue \/ MessageDue)
  /\ at.cur \notin {"AT_CMGR", Head(at.line).tag}
  /\ entry' = "told"
  /\ owner' = IF at.cur = "AT_CMGS_PDU" THEN NOBODY ELSE owner
  /\ astray' = (astray \/ owner' # owner)
  /\ UNCHANGED <<vars, sms, posted, pushed, inbox>>

\* Any other line that no table knows while the PDU is current, for instance one
\* that stands behind a prompt nobody waited for.
RxStray ==
  /\ Seen /\ at.cur = "AT_CMGS_PDU"
  /\ owner' = NOBODY /\ astray' = (astray \/ owner # NOBODY)
  /\ UNCHANGED <<vars, sms, posted, entry, pushed, inbox>>

\* A deletion that was carried out is asked for once more if its answer was lost.
Doubted(i) ==
  IF CmdText("AT_CMGD_INDEX", i) \in Range(at.pool) \cup Range(at.line)
    THEN unread \cup {i} ELSE unread \ {i}

\* FAULT: the message is deleted before it is read.
RxAnnounced_DeletesFirst ==
  /\ Seen /\ Room(2)
  /\ \E i \in Indexes \ stored :
       /\ at' = SendCommands(at, <<CmdText("AT_CMGD_INDEX", i), CmdText("AT_CMGR", i)>>)
       /\ stored' = stored \cup {i} /\ read' = read \ {i} /\ unread' = Doubted(i)
  /\ UNCHANGED <<recovery, stop, run, owner, sms, posted, entry, pushed, astray>>

\* +CMTI.
RxAnnounced ==
  /\ Seen /\ Room(2)
  /\ \E i \in Indexes \ stored :
       /\ at' = SendCommands(at, ReadAndDelete(i))
       /\ stored' = stored \cup {i} /\ read' = read \ {i} /\ unread' = Doubted(i)
  /\ UNCHANGED <<recovery, stop, run, owner, sms, posted, entry, pushed, astray>>

\* +CMT.
RxPush == /\ Seen /\ pushed' = "next"
          /\ UNCHANGED <<vars, owner, sms, posted, entry, inbox, astray>>

\* The line after +CMT is given to the clients as a message if it begins with a
\* digit, and to nobody if not.
RxPushed == /\ Reading /\ pushed = "next" /\ pushed' = "no"
            /\ UNCHANGED <<vars, owner, sms, posted, entry, inbox, astray>>

\* After a reset between the two lines it is whatever comes next.
RxEaten ==
  /\ Reading /\ pushed = "stale" /\ pushed' = "no"
  /\ \/ SentDue /\ entry' = "told" /\ astray' = TRUE /\ UNCHANGED unread
     \/ /\ MessageDue /\ entry' = "told" /\ UNCHANGED astray
        /\ unread' = unread \cup {Head(at.line).val}
     \/ UNCHANGED <<entry, unread, astray>>
  /\ UNCHANGED <<vars, owner, sms, posted, stored, read>>

-----------------------------------------------------------------------------
(* Final results.                                                          *)

\* FAULT: AT+CMGS is left in the pool.
WithoutLength_KeepsIt(ch) == ch

\* CmdPoolDel(AT_CMGS) in frc_ok and frc_cms_error.
WithoutLength(ch) ==
  IF ch.cur = "AT_CMGS_PDU" THEN [ch EXCEPT !.pool = CmdPoolDel(@, "AT_CMGS")] ELSE ch

\* FAULT: the completion comes before the handler.
SmsFinal_CompletesFirst(ends) ==
  /\ Line /\ RxFinal
  /\ at' = IF ends THEN WithoutLength(Complete(Answered(at))) ELSE Complete(Answered(at))
  /\ entry' = "command"
  /\ UNCHANGED <<recovery, stop, run, posted, pushed, read>>

\* A command of a message is completed by the result of another, or of an earlier
\* transmission: the modem owes its own result still.
Mistaken ==
  /\ at.cur \in Message
  /\ Len(at.line) > 1 \/ Head(at.line).tag # at.cur

\* ends: the handler takes AT+CMGS out of the pool.
SmsFinal(ends) ==
  /\ Line /\ RxFinal
  /\ at' = Complete(IF ends THEN WithoutLength(Answered(at)) ELSE Answered(at))
  /\ entry' = "command"
  /\ UNCHANGED <<recovery, stop, run, posted, pushed, read>>

\* The message whose AT+CMGR is completed without its lines.
Missed == IF at.cur = "AT_CMGR" /\ "AT_CMGR" \in PoolTags(at.pool)
            THEN {CmdPoolGet(at.pool, "AT_CMGR").val} ELSE {}

RxSmsOk ==
  /\ ~Answering("AT_CMGS") /\ ~MessageDue
  /\ Answering("AT_CMGS_PDU") => entry = "told"
  /\ SmsFinal(TRUE)
  /\ stored' = IF Answering("AT_CMGD_INDEX") THEN stored \ {Head(at.line).val} ELSE stored
  /\ unread' = IF at.slipped THEN unread \cup Missed ELSE unread
  /\ astray' = (astray \/ Mistaken \/ (Answering("AT_CMGS_PDU") /\ at.cur # "AT_CMGS_PDU"))
  /\ UNCHANGED <<owner, sms>>

\* ERROR: it ends the message if it answers AT+CMGS, whose PDU stays in the pool,
\* and means nothing if it answers the PDU.  (+CME ERROR means nothing to either: it
\* does what ERROR does to the PDU, and to AT+CMGS what +CMS ERROR does.)
RxSmsError ==
  /\ entry # "told"
  /\ SmsFinal(FALSE)
  /\ IF at.cur = "AT_CMGS" THEN EndMessage ELSE UNCHANGED <<owner, sms>>
  /\ unread' = unread \cup Missed
  /\ astray' = (astray \/ Mistaken)
  /\ UNCHANGED stored

\* +CMS ERROR: it ends the message if it answers the PDU, and means nothing if it
\* answers AT+CMGS.
RxCmsError ==
  /\ entry # "told"
  /\ SmsFinal(TRUE)
  /\ IF at.cur = "AT_CMGS_PDU" THEN EndMessage ELSE UNCHANGED <<owner, sms>>
  /\ unread' = unread \cup Missed
  /\ astray' = (astray \/ Mistaken)
  /\ UNCHANGED stored

\* A deletion may have been carried out although its answer is lost.
SmsModemLoses ==
  /\ ModemLoses
  /\ stored' \in {stored, stored \ {Head(at.line).val}}
  /\ stored' # stored => Answering("AT_CMGD_INDEX")
  /\ astray' = (astray \/ (Answering("AT_CMGS_PDU") /\ entry = "told"))
  /\ entry' = "command"
  /\ UNCHANGED <<owner, sms, posted, pushed, read, unread>>

SmsRxLine ==
  \/ RxSmsPrompt \/ RxSent \/ RxMessage \/ RxUnclaimed \/ RxStray \/ RxAnnounced
  \/ RxPush \/ RxPushed \/ RxEaten \/ RxSmsOk \/ RxSmsError \/ RxCmsError

\* An echoed command line, or one of another handler that jumps the queue.
RxAtHead ==
  /\ Line /\ Room(1)
  /\ \E c \in HeadCmds : at' = SendCommand(at, c, TRUE)
  /\ UNCHANGED <<recovery, stop, run>>

\* The steps of the dispatcher in which messages have no part.
DispatchStep ==
  /\ OnPutCommand \/ TickWaiting \/ TickRetry \/ TickIdle \/ RxAtHead
  /\ UNCHANGED smsVars

SmsNext ==
  \/ \E c \in Clients : SendSMS(c) \/ OnSendSMS(c) \/ RefuseSMS(c)
  \/ SmsReset \/ SmsKilled \/ SmsStart
  \/ SmsRxLine \/ SmsModemLoses \/ DispatchStep

SmsSpec == SmsInit /\ [][SmsNext]_allVars

-----------------------------------------------------------------------------
(* Properties.                                                             *)

\* The dispatcher's promises hold with these handlers.
Dispatcher == Init /\ [][Next]_vars

\* SMS_Sent goes to the client whose message the modem reports as sent, unless
\* the modem owes a second answer, a line took g_pidOfSMS away or a result was
\* mistaken, however requests, refusals, retries and the leftovers of failed
\* messages interleave.
SentIsOwn ==
  Seen /\ SentDue /\ at.cur = "AT_CMGS_PDU" /\ Len(at.line) = 1 /\ ~astray
    => owner = Head(at.line).val

\* The data given to a prompt is the message whose length was announced: the pool
\* never holds an AT+CMGS of one message before the PDU of another.
PromptIsOwn ==
  [][RxSmsPrompt /\ ~at.slipped /\ ~astray /\ at'.line # <<>> /\ at'.cur = "AT_CMGS_PDU"
       => Last(at'.line) = CmdText("AT_CMGS_PDU", Head(at.line).val)]_allVars

\* g_pidOfSMS and the state that clients see agree until a request is refused
\* while a message is under way or a stray line takes g_pidOfSMS away.
Agree == run => (sms = "Sending" <=> owner # NOBODY)
StateKept ==
  [][Agree => Agree' \/ RxStray \/ RxUnclaimed \/ \E c \in Clients : RefuseSMS(c)]_allVars

\* A message that is under way stays in the pool until its client is told the
\* outcome, also while commands are retried and answers slip; only ERROR to the
\* PDU itself, and a result that is mistaken, leave g_pidOfSMS to nobody who
\* could clear it.
UnderWay == owner # NOBODY => CmdText("AT_CMGS_PDU", owner) \in Range(at.pool)
WorkKept == [][UnderWay => UnderWay' \/ astray'
                        \/ (RxSmsError /\ at.cur = "AT_CMGS_PDU")]_allVars

\* A received message is deleted after the clients were given it, or after its AT+CMGR
\* came to nothing: it ended in an error or by another command's result, the line with
\* the message was eaten by the flag of +CMT, or DecodePDU made nothing of it.  So the
\* deletion does not overtake the reading, whatever is retried, slips or is lost.
\* Excepted is a place whose last deletion was still outstanding when the message came:
\* repeated, it may delete the message that is there by now.
DeletedWasRead == [][stored \ stored' \subseteq read \cup unread]_allVars
=============================================================================
