---------------------------- MODULE CallControl ----------------------------
(***************************************************************************)
(* Voice calls.  There is one call: g_pidOfATD is the client its outcome   *)
(* belongs to, eATDState in the shared memory is what the library looks at *)
(* before it sends a request to dial, answer or hang up.  Both are changed *)
(* by requests, by the results of ATD, ATA and AT+CHUP, and by RING, ^DSCI *)
(* and NO CARRIER, which come when they like.                              *)
(*                                                                         *)
(* Of the modem it is assumed that it dials only without a call and        *)
(* answers only a ringing one; that it reports what happens in the order   *)
(* in which it happens; and that it may say NO CARRIER in place of a       *)
(* result.                                                                 *)
(***************************************************************************)
EXTENDS AtDispatcher

CONSTANTS
  Clients,      \* the processes that make and take calls
  NOBODY        \* process 0

Atd(c) == CmdText("ATD", c)
Ata == Cmd("ATA")
Chup == Cmd("AT_CHUP")

ASSUME CallAssumption ==
  /\ NOBODY \notin Clients
  /\ \A c \in Clients : <<Atd(c)>> \in ClientRuns
  /\ <<Ata>> \in ClientRuns /\ <<Chup>> \in ClientRuns
  /\ <<>> \in ResultRuns
  /\ <<>> \in LineRuns

\* Only OnDial sends ATD (and retries send what is in the pool).
ASSUME DialAssumption ==
  /\ \A cmd \in Command : cmd.tag = "ATD" => \E c \in Clients : cmd = Atd(c)
  /\ \A cs \in {InitCmds} \cup LineRuns \cup Polls : "ATD" \notin PoolTags(cs)
  /\ \A cmd \in HeadCmds : cmd.tag # "ATD"

VARIABLES
  owner,     \* g_pidOfATD
  call,      \* eATDState in the shared memory
  asked,     \* requests in the agent's queue, pairs of a client and a kind
  net        \* the call as the modem has it

callVars == <<owner, call, asked, net>>
allVars == <<vars, callVars>>

Kinds == {"dial", "answer", "hang up"}

CallTypeOK ==
  /\ TypeOK
  /\ owner \in Clients \cup {NOBODY}
  /\ call \in {"Idle", "Dialing", "Ringing", "Connected"}
  /\ asked \subseteq Clients \X Kinds
  /\ net \in {"none", "ringing", "calling", "up"}

CallInit == /\ Init
            /\ owner = NOBODY /\ call = "Idle" /\ asked = {} /\ net = "none"

-----------------------------------------------------------------------------
(* Requests: the library's look at the shared memory, and the agent's.     *)

NotAsking(c) == \A k \in Kinds : <<c, k>> \notin asked

Ask(c, kind) == /\ run /\ NotAsking(c)
                /\ asked' = asked \cup {<<c, kind>>}
                /\ UNCHANGED <<vars, owner, call, net>>

Dial(c) == call = "Idle" /\ Ask(c, "dial")
Answer(c) == call = "Ringing" /\ Ask(c, "answer")
HangUp(c) == call # "Idle" /\ Ask(c, "hang up")

Take(c, kind) == /\ run /\ <<c, kind>> \in asked
                 /\ asked' = asked \ {<<c, kind>>}
                 /\ UNCHANGED <<recovery, stop, run, net>>

Queue(cmd) == Room(1) /\ at' = SendCommands(at, <<cmd>>)

\* FAULT: g_pidOfATD is not tested.
OnDial_Always(c) == /\ Take(c, "dial")
                    /\ Queue(Atd(c)) /\ owner' = c
                    /\ UNCHANGED call

OnDial(c) == /\ Take(c, "dial") /\ owner = NOBODY
             /\ Queue(Atd(c)) /\ owner' = c
             /\ UNCHANGED call

\* There is a call, or no registration.  The client is told ATD_Error, which also
\* sets the shared state to idle.
RefuseDial(c) == /\ Take(c, "dial")
                 /\ call' = "Idle"
                 /\ UNCHANGED <<at, owner>>

OnAnswer(c) == /\ Take(c, "answer")
               /\ IF call = "Ringing" /\ owner = NOBODY
                    THEN Queue(Ata) /\ owner' = c
                    ELSE UNCHANGED <<at, owner>>
               /\ UNCHANGED call

\* FAULT: the shared state is set to idle at once.
OnHangUp_IdleAtOnce(c) == /\ Take(c, "hang up")
                          /\ IF call # "Idle"
                               THEN Queue(Chup) /\ owner' = c
                               ELSE UNCHANGED <<at, owner>>
                          /\ call' = "Idle"

\* The call is taken over by whoever hangs up.
OnHangUp(c) == /\ Take(c, "hang up")
               /\ IF call # "Idle"
                    THEN Queue(Chup) /\ owner' = c
                    ELSE UNCHANGED <<at, owner>>
               /\ UNCHANGED call

\* The calls' part of ResetModem.  The modem is switched off and on.
CallReset ==
  /\ TickRecoveryOver \/ TickNoAnswer \/ OnSerialError \/ OnClientReset
  /\ owner' = NOBODY /\ call' = "Idle" /\ net' = "none"
  /\ UNCHANGED asked

CallKilled == /\ Killed
              /\ owner' = NOBODY /\ asked' = {}
              /\ UNCHANGED <<call, net>>

CallStart == /\ Start
             /\ call' = "Idle"
             /\ UNCHANGED <<owner, asked, net>>

-----------------------------------------------------------------------------
(* Lines of the modem.                                                     *)

Answering(tag) == at.line # <<>> /\ Head(at.line).tag = tag

\* RING, also while a request to dial is in the pool.
RxRing == /\ Reading /\ net \in {"none", "ringing"}
          /\ net' = "ringing" /\ call' = "Ringing"
          /\ UNCHANGED <<vars, owner, asked>>

\* ^DSCI of an outgoing call that was answered.
RxConnected == /\ Reading /\ net = "calling"
               /\ net' = "up" /\ call' = "Connected"
               /\ UNCHANGED <<vars, owner, asked>>

\* NO CARRIER: the other side has hung up or was not reached.
RxNoCarrier == /\ Reading /\ net # "none"
               /\ net' = "none" /\ call' = "Idle" /\ owner' = NOBODY
               /\ UNCHANGED <<vars, asked>>

\* NO CARRIER in place of the result of ATD or ATA.  It is no final result, so the
\* command is completed by none, and retried.
RxNoResult == /\ Reading /\ (Answering("ATD") \/ Answering("ATA"))
              /\ at' = Answered(at)
              /\ net # "up" /\ net' = "none"
              /\ call' = "Idle" /\ owner' = NOBODY
              /\ UNCHANGED <<recovery, stop, run, asked>>

\* What the modem makes of the command it answers.
Obeyed == CASE Answering("ATD") /\ net = "none" -> "calling"
            [] Answering("ATA") /\ net = "ringing" -> "up"
            [] Answering("AT_CHUP") -> "none"
            [] OTHER -> net

Final == /\ RxFinal /\ at' = Complete(Answered(at))
         /\ UNCHANGED <<recovery, stop, run, asked>>

RxCallOk ==
  /\ Final
  /\ Answering("ATD") => net = "none"
  /\ Answering("ATA") => net = "ringing"
  /\ net' = Obeyed
  /\ call' = CASE at.cur = "ATD" -> "Dialing"
               [] at.cur = "ATA" -> "Connected"
               [] at.cur = "AT_CHUP" -> "Idle"
               [] OTHER -> call
  /\ owner' = IF at.cur = "AT_CHUP" THEN NOBODY ELSE owner

\* FAULT: g_pidOfATD is not cleared.
RxCallError_KeepsOwner ==
  /\ Final
  /\ call' = IF at.cur = "ATD" THEN "Idle" ELSE call
  /\ UNCHANGED <<owner, net>>

\* ERROR ends the call only if it answers ATD.
RxCallError ==
  /\ Final
  /\ IF at.cur = "ATD" THEN call' = "Idle" /\ owner' = NOBODY
                       ELSE UNCHANGED <<call, owner>>
  /\ UNCHANGED net

\* +CME ERROR, which AT+CMEE=1 asks for in place of ERROR.  Its handler has a branch
\* for no command about a call, ATD included: nobody is told and the owner stays.
RxCallCmeError ==
  /\ Final
  /\ UNCHANGED <<call, owner, net>>

CallModemLoses == /\ ModemLoses
                  /\ net' \in {net, Obeyed}
                  /\ UNCHANGED <<owner, call, asked>>

\* The call ends while nobody reads what the modem says.
Unheard == /\ ~Reading /\ net' = "none" /\ net # "none"
           /\ UNCHANGED <<vars, owner, call, asked>>

CallRxLine == \/ RxRing \/ RxConnected \/ RxNoCarrier \/ RxNoResult
              \/ RxCallOk \/ RxCallError \/ RxCallCmeError

DispatchStep ==
  /\ OnPutCommand \/ TickWaiting \/ TickRetry \/ TickIdle \/ RxQueueHead
  /\ UNCHANGED callVars

CallNext ==
  \/ \E c \in Clients : \/ Dial(c) \/ Answer(c) \/ HangUp(c)
                        \/ OnDial(c) \/ RefuseDial(c) \/ OnAnswer(c) \/ OnHangUp(c)
  \/ CallReset \/ CallKilled \/ CallStart
  \/ CallRxLine \/ CallModemLoses \/ Unheard \/ DispatchStep

CallSpec == CallInit /\ [][CallNext]_allVars

-----------------------------------------------------------------------------
(* Properties.                                                             *)

\* The dispatcher's promises hold with these handlers.
Dispatcher == Init /\ [][Next]_vars

Queued(tag) == tag \in PoolTags(at.pool)

\* A call that is dialled belongs to its caller, and no other is dialled, as long
\* as its ATD is in the pool: only a NO CARRIER, which may be about another call, a
\* client that hangs up, and a hanging up that was asked for before, take it away.
DialOwned ==
  /\ \A c \in Clients : Atd(c) \in Range(at.pool) => owner = c
  /\ Cardinality({k \in DOMAIN at.pool : at.pool[k].tag = "ATD"}) <= 1
DialKept ==
  [][DialOwned => \/ DialOwned' \/ RxNoCarrier \/ RxNoResult
                  \/ RxCallOk /\ at.cur = "AT_CHUP"
                  \/ \E c \in Clients : OnHangUp(c)]_allVars

\* Clients see that there is a call (HangUp in the library does nothing without):
\* it is hidden from them only by a request to dial that is refused, by an answer
\* that is lost or taken for another, by an ATD that is refused because its first
\* transmission was obeyed, and by a new start of the agent.
CallSeen == run /\ net \in {"calling", "up"} => call # "Idle"
CallSeenKept ==
  [][CallSeen => \/ CallSeen' \/ at.slipped \/ CallModemLoses \/ CallStart
                 \/ RxCallError /\ at.cur = "ATD"
                 \/ \E c \in Clients : RefuseDial(c)]_allVars

\* g_pidOfATD is not left behind when there is neither a call nor a command about
\* one (OnDial would refuse every client from then on); only an ERROR to ATA or
\* AT+CHUP, a +CME ERROR to any of the three commands, a refused request and slipped
\* answers do that.
Stuck == /\ run /\ owner # NOBODY /\ call = "Idle" /\ net = "none"
         /\ ~Queued("ATD") /\ ~Queued("ATA") /\ ~Queued("AT_CHUP")
FreeKept == [][~Stuck => \/ ~Stuck' \/ at.slipped
                         \/ RxCallError /\ at.cur \in {"ATA", "AT_CHUP"}
                         \/ RxCallCmeError /\ at.cur \in {"ATD", "ATA", "AT_CHUP"}
                         \/ \E c \in Clients : RefuseDial(c)]_allVars
=============================================================================
