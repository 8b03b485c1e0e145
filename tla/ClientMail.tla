----------------------------- MODULE ClientMail -----------------------------
(***************************************************************************)
(* The agent and its clients: the list of processes that are told of       *)
(* events (parent_proc), the agent's message queue, and the one queue all  *)
(* clients receive from, each the messages with its process number.        *)
(*                                                                         *)
(* Here handlers are not atomic: the loop waits in msgsnd while a queue is *)
(* full.  A signal interrupts it, SendToClient then gives its message up,  *)
(* and the handler of the signal posts to the agent's queue itself, which  *)
(* only the loop empties.  What a request, a line of the modem or a tick   *)
(* means is left open: it may be answered, now or later, be told to        *)
(* everybody, and post a message to the loop itself.                       *)
(*                                                                         *)
(* Every process wants every event; the agent has no case for PROC_UPDATE, *)
(* by which a process would change its mask.  A queue's limit in bytes is  *)
(* a limit in messages.                                                    *)
(***************************************************************************)
EXTENDS Naturals, SequencesExt

CONSTANTS
  Pids,         \* process numbers; a number may be used again
  LOOP,         \* the agent's own number
  AgentRoom,    \* messages the agent's queue has room for
  ClientRoom,   \* messages the clients' queue has room for
  MaxList,      \* bound: registered processes
  MaxDeaths     \* bound: processes killed in one run of the agent

ASSUME MailAssumption ==
  /\ LOOP \notin Pids /\ IsFiniteSet(Pids)
  /\ AgentRoom \in Nat \ {0} /\ ClientRoom \in Nat \ {0} /\ MaxList \in Nat /\ MaxDeaths \in Nat

VARIABLES
  proc,         \* the process with this number
  lib,          \* its s_queueID
  agentQue,     \* the agent's queue, pairs of a sender and what it sends
  mail,         \* the clients' queue: the number of messages for each process
  parent_proc,  \* the registered processes
  owed,         \* those whose request is yet to be answered
  work,         \* whom the handler has still to send a message
  alarm,        \* a signal's handler waits for room
  run,          \* the agent is running
  died          \* history: processes that ended without PROC_DETACH since the
                \* agent was started

clientVars == <<proc, lib, died>>
vars == <<clientVars, agentQue, mail, parent_proc, owed, work, alarm, run>>

TypeOK ==
  /\ proc \in [Pids -> {"none", "lives",
                        "leaves"}]      \* in _detach, behind its PROC_DETACH
  /\ lib \in [Pids -> {"unset", "set",
                       "stale"}]        \* the queue was removed
  /\ agentQue \in Seq((Pids \cup {LOOP}) \X {"attach", "detach", "update", "ask", "event", "stop"})
  /\ Len(agentQue) <= AgentRoom
  /\ mail \in [Pids -> 0 .. ClientRoom]
  /\ parent_proc \in Seq(Pids) /\ owed \subseteq Pids
  /\ work \in Seq(Pids \cup {LOOP})
  /\ alarm \in BOOLEAN /\ run \in BOOLEAN /\ died \subseteq Pids

Init ==
  /\ proc = [p \in Pids |-> "none"] /\ lib = [p \in Pids |-> "unset"]
  /\ agentQue = <<>> /\ mail = [p \in Pids |-> 0]
  /\ parent_proc = <<>> /\ owed = {} /\ work = <<>> /\ alarm = FALSE
  /\ run = FALSE /\ died = {}

-----------------------------------------------------------------------------
(* The queues.  While the agent does not run, its queue is gone, or is     *)
(* thrown away with what is in it by the next start.                       *)

RoomInAgentQue == Len(agentQue) < AgentRoom
RoomInClientQue == MapThenSumSet(LAMBDA p : mail[p], Pids) < ClientRoom

Post(from, what) ==
  /\ run => RoomInAgentQue              \* msgsnd waits
  /\ agentQue' = IF run THEN Append(agentQue, <<from, what>>) ELSE agentQue

-----------------------------------------------------------------------------
(* The library in a client.                                                *)

Come(p) ==
  /\ proc[p] = "none"
  /\ proc' = [proc EXCEPT ![p] = "lives"]
  /\ UNCHANGED <<lib, died, agentQue, mail, parent_proc, owed, work, alarm, run>>

\* FAULT: every event mask registers.
SetEventMask_Again(p) ==
  /\ proc[p] = "lives" /\ Post(p, "attach")
  /\ lib' = [lib EXCEPT ![p] = IF @ = "unset" THEN "set" ELSE @]
  /\ UNCHANGED <<proc, died, mail, parent_proc, owed, work, alarm, run>>

\* The library registers with its first event mask only.
SetEventMask(p) ==
  /\ proc[p] = "lives"
  /\ Post(p, IF lib[p] = "unset" THEN "attach" ELSE "update")
  /\ lib' = [lib EXCEPT ![p] = IF @ = "unset" THEN "set" ELSE @]
  /\ UNCHANGED <<proc, died, mail, parent_proc, owed, work, alarm, run>>

\* Any of the library's requests.
WriteMsgQueue(p) ==
  /\ proc[p] = "lives" /\ Post(p, "ask")
  /\ UNCHANGED <<clientVars, mail, parent_proc, owed, work, alarm, run>>

WaitEvent(p) ==
  /\ proc[p] = "lives" /\ lib[p] = "set" /\ mail[p] > 0
  /\ mail' = [mail EXCEPT ![p] = @ - 1]
  /\ UNCHANGED <<clientVars, agentQue, parent_proc, owed, work, alarm, run>>

\* _detach, up to PROC_DETACH.
Detach(p) ==
  /\ proc[p] = "lives"
  /\ proc' = [proc EXCEPT ![p] = IF lib[p] = "unset" THEN "none" ELSE "leaves"]
  /\ IF lib[p] = "unset" THEN UNCHANGED agentQue ELSE Post(p, "detach")
  /\ UNCHANGED <<lib, died, mail, parent_proc, owed, work, alarm, run>>

\* _detach takes what is in the queue at this moment, and the process ends.
Drain(p) ==
  /\ proc[p] = "leaves"
  /\ mail' = [mail EXCEPT ![p] = IF lib[p] = "set" THEN 0 ELSE @]
  /\ proc' = [proc EXCEPT ![p] = "none"] /\ lib' = [lib EXCEPT ![p] = "unset"]
  /\ UNCHANGED <<died, agentQue, parent_proc, owed, work, alarm, run>>

\* A process is killed: no destructor runs.
Die(p) ==
  /\ proc[p] = "lives" /\ Cardinality(died) < MaxDeaths   \* bound
  /\ proc' = [proc EXCEPT ![p] = "none"] /\ lib' = [lib EXCEPT ![p] = "unset"]
  /\ died' = IF lib[p] = "unset" THEN died ELSE died \cup {p}
  /\ UNCHANGED <<agentQue, mail, parent_proc, owed, work, alarm, run>>

-----------------------------------------------------------------------------
(* The handlers of the agent's loop.                                       *)

AddProcess(p) ==
  /\ Len(parent_proc) < MaxList         \* bound
  /\ parent_proc' = Append(parent_proc, p)

\* FAULT: the root is freed, whoever it is.
RemoveProcess_Root(p) ==
  parent_proc' = IF \E i \in 1 .. Len(parent_proc) : parent_proc[i] = p
                 THEN Tail(parent_proc) ELSE parent_proc

\* The first node with this number is freed, if there is one.
RemoveProcess(p) ==
  LET found == {i \in 1 .. Len(parent_proc) : parent_proc[i] = p}
  IN parent_proc' = IF found = {} THEN parent_proc ELSE RemoveAt(parent_proc, Min(found))

\* To one process, to all registered ones, or to nobody; SetSMSState and its
\* kind tell one process if they are given one, and everybody for process 0.
Told(p) == {<<>>, <<p>>, parent_proc}

OnRequest(p) ==
  /\ UNCHANGED parent_proc
  /\ \E post \in {<<>>, <<LOOP>>} :
       \/ owed' = owed /\ \E told \in Told(p) : work' = told \o post
       \/ owed' = owed \cup {p} /\ work' = post

\* A line of the modem, a tick, or the loop's own message: nothing comes of
\* it, an answer that was owed is given, or all requests are forgotten
\* (ResetModem).
OnEvent ==
  /\ UNCHANGED parent_proc
  /\ \E post \in {<<>>, <<LOOP>>} :
       \/ owed' = owed /\ work' \in {post, parent_proc \o post}
       \/ owed' = {} /\ work' = parent_proc \o post
       \/ \E p \in owed : owed' = owed \ {p} /\ work' = <<p>> \o post

\* The loop ends; its queues are removed.
Deinit ==
  /\ run' = FALSE /\ agentQue' = <<>> /\ mail' = [p \in Pids |-> 0]
  /\ lib' = [p \in Pids |-> IF lib[p] = "set" THEN "stale" ELSE lib[p]]
  /\ parent_proc' = <<>> /\ owed' = {} /\ work' = <<>>
  /\ UNCHANGED <<proc, died, alarm>>

\* One turn of the loop: msgrcv, and the handler up to its first message.
Take ==
  /\ run /\ ~alarm /\ work = <<>> /\ agentQue # <<>>
  /\ LET p == Head(agentQue)[1]
         m == Head(agentQue)[2]
     IN \/ /\ \/ m = "attach" /\ AddProcess(p) /\ UNCHANGED <<owed, work>>
              \/ m = "detach" /\ RemoveProcess(p) /\ UNCHANGED <<owed, work>>
              \/ m = "update" /\ UNCHANGED <<parent_proc, owed, work>>
              \/ m = "ask" /\ OnRequest(p)
              \/ m = "event" /\ OnEvent
           /\ agentQue' = Tail(agentQue)
           /\ UNCHANGED <<clientVars, mail, alarm, run>>
        \/ m = "stop" /\ Deinit

\* SendToClient, or SendMsgQue from a handler.
Send ==
  /\ run /\ ~alarm /\ work # <<>>
  /\ \/ /\ Head(work) \in Pids /\ RoomInClientQue
        /\ mail' = [mail EXCEPT ![Head(work)] = @ + 1] /\ UNCHANGED agentQue
     \/ /\ Head(work) = LOOP /\ RoomInAgentQue
        /\ agentQue' = Append(agentQue, <<LOOP, "event">>) /\ UNCHANGED mail
  /\ work' = Tail(work)
  /\ UNCHANGED <<clientVars, parent_proc, owed, alarm, run>>

\* The loop waits in SendToClient's msgsnd.
Waits == work # <<>> /\ Head(work) \in Pids /\ ~RoomInClientQue

\* A signal's handler runs in the loop's thread: it posts, and the msgsnd it
\* interrupted fails; or it waits itself, for room that nobody makes.
Interrupt(what) ==
  /\ run /\ ~alarm
  /\ IF RoomInAgentQue
     THEN /\ agentQue' = Append(agentQue, <<LOOP, what>>)
          /\ work' = IF Waits THEN Tail(work) ELSE work
          /\ UNCHANGED alarm
     ELSE alarm' = TRUE /\ UNCHANGED <<agentQue, work>>
  /\ UNCHANGED <<clientVars, mail, parent_proc, owed, run>>

\* FAULT: the tick comes from a thread of its own (_THREAD_TICK_).
Tick_FromThread ==
  /\ run /\ Post(LOOP, "event")
  /\ UNCHANGED <<clientVars, mail, parent_proc, owed, work, alarm, run>>

\* TmrHandler, every second.
Tick == Interrupt("event")

\* SigHandler.
Stop == Interrupt("stop")

\* SerRxThread posts from its own thread, and waits there.
SerRxThread ==
  /\ run /\ Post(LOOP, "event")
  /\ UNCHANGED <<clientVars, mail, parent_proc, owed, work, alarm, run>>

\* The agent is killed: the clients' queue stays.
Killed ==
  /\ run /\ run' = FALSE
  /\ agentQue' = <<>> /\ parent_proc' = <<>> /\ owed' = {} /\ work' = <<>> /\ alarm' = FALSE
  /\ UNCHANGED <<clientVars, mail>>

\* InitAgent and Initialize.
Start ==
  /\ ~run /\ run' = TRUE /\ died' = {}
  /\ UNCHANGED <<proc, lib, agentQue, mail, parent_proc, owed, work, alarm>>

Next ==
  \/ \E p \in Pids : \/ Come(p) \/ SetEventMask(p) \/ WriteMsgQueue(p)
                     \/ WaitEvent(p) \/ Detach(p) \/ Drain(p) \/ Die(p)
  \/ Take \/ Send \/ Tick \/ Stop \/ SerRxThread \/ Killed \/ Start

\* The timer's signal comes every second, and the loop's thread is scheduled;
\* clients need not read.
Spec == Init /\ [][Next]_vars /\ WF_vars(Tick) /\ WF_vars(Send)

-----------------------------------------------------------------------------
(* Properties.                                                             *)

IsQueued(p, what) == <<p, what>> \in Range(agentQue)
Registered(p) == {i \in 1 .. Len(parent_proc) : parent_proc[i] = p}

\* A process the agent was told of is in the list, or is on its way there.
Attached(p) ==
  proc[p] = "lives" /\ lib[p] # "unset" /\ (Registered(p) # {} \/ IsQueued(p, "attach"))

\* Whatever other processes do, come, leave, die, or use a number again, a
\* process that set its event mask while the agent ran is told of events
\* until it leaves or the agent ends: the PROC_DETACH of an earlier process
\* with its number does not take it off the list, nor does another's.
RegistryKept ==
  [][\A p \in Pids : Attached(p) /\ run' /\ proc'[p] = "lives" => Attached(p)']_vars

\* The list holds every number once, and only numbers of processes that run
\* or whose PROC_DETACH is on its way: nothing is sent for ever to a process
\* that has ended, which would fill the queue all clients share.  That is so
\* as long as processes end through _detach (died).
RegisteredOnce ==
  \A p \in Pids \ died : Registered(p) # {} =>
    /\ Cardinality(Registered(p)) = 1
    /\ proc[p] = "lives" \/ IsQueued(p, "detach")

\* Nobody gets the loop out of this: it waits for room in its own queue.
Stuck == alarm \/ (work # <<>> /\ Head(work) = LOOP /\ ~RoomInAgentQue)

\* Clients that never read do not stop the agent: their queue is full, but
\* SendToClient's msgsnd ends with the next tick and every handler comes to
\* its end, unless the agent's own queue was full when the tick came.
HandlerEnds == work # <<>> ~> (work = <<>> \/ Stuck)
=============================================================================
