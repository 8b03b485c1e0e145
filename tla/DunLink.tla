------------------------------ MODULE DunLink ------------------------------
(***************************************************************************)
(* The data connection on demand (rild/agent.c without -p and -e): clients *)
(* that ask for it through the library (libs/ril.c), the agent's main      *)
(* loop, the thread that runs the dialer (DunThread), and the dialer.      *)
(*                                                                         *)
(* The loop handles one message in a step, except where it waits for the   *)
(* thread to end.  Each call by which the thread can be seen from outside  *)
(* is a step of its own, and so are the library's look at the shared       *)
(* memory and the request that follows from it.                            *)
(***************************************************************************)
EXTENDS Naturals, Sequences, SequencesExt

CONSTANTS
  Client,     \* processes that use the library
  PollLimit,  \* rounds DunThread waits for the link (20)
  MaxQueue    \* bound: messages in the agent's queue when a client sends one

ASSUME LinkAssumption == PollLimit \in Nat \ {0} /\ MaxQueue \in Nat \ {0}

VARIABLES
  run,      \* the agent runs
  main,     \* the main loop: "loop", or "joining" in pthread_join
  queue,    \* DATA_CONNECT, DATA_DISCONNECT and the values of WM_USER_RAS_RES
  ras,      \* eRASState in the shared memory
  created,  \* m_hWanThread is set
  thread,   \* where DunThread is
  tries,    \* its round of waiting for the link
  pid,      \* m_nDataCallPID: none, that of the child, or -1
  child,    \* the dialer
  client,   \* what each client is about to request
  told,     \* history: the last event this agent sent to the clients
  asked     \* history: a request has killed the dialer of this thread

agentVars == <<run, main, queue, ras, created, told, asked>>
threadVars == <<thread, tries, pid>>
vars == <<agentVars, threadVars, child, client>>

Results == {"Connecting", "Connected", "Idle", "Error"}
Requests == {"DATA_CONNECT", "DATA_DISCONNECT"}

TypeOK ==
  /\ run \in BOOLEAN /\ main \in {"loop", "joining"}
  /\ queue \in Seq(Results \cup Requests)
  /\ ras \in {"Idle", "Connecting", "Connected", "Disconnecting"}
  /\ created \in BOOLEAN
  /\ thread \in {"none", "fork", "noFork", "announce", "poll", "report", "wait",
                 "idle", "error", "exit", "done"}
  /\ tries \in 0 .. PollLimit
  /\ pid \in {"none", "child", "failed"}
  /\ child \in {"none", "alive", "killed", "gone"}
  /\ client \in [Client -> Requests \cup {"none"}]
  /\ told \in Results \cup {"nothing"}
  /\ asked \in BOOLEAN

Init == /\ run = TRUE /\ ras = "Idle"
        /\ main = "loop" /\ queue = <<>> /\ created = FALSE /\ thread = "none"
        /\ tries = 0 /\ pid = "none" /\ child = "none" /\ told = "nothing" /\ asked = FALSE
        /\ client = [p \in Client |-> "none"]

-----------------------------------------------------------------------------
(* Clients.  A request is sent on what the state was when the library      *)
(* looked.                                                                 *)

Wants(p, request) == /\ client[p] = "none"
                     /\ client' = [client EXCEPT ![p] = request]
                     /\ UNCHANGED <<agentVars, threadVars, child>>

DataConnect(p) == ras \notin {"Disconnecting", "Connected"} /\ Wants(p, "DATA_CONNECT")

DataDisconnect(p) == ras \notin {"Connecting", "Idle"} /\ Wants(p, "DATA_DISCONNECT")

\* WriteMsgQueue; the queue of an agent that is gone takes nothing.
Request(p) ==
  /\ client[p] # "none" /\ Len(queue) < MaxQueue
  /\ client' = [client EXCEPT ![p] = "none"]
  /\ queue' = IF run THEN Append(queue, client[p]) ELSE queue
  /\ UNCHANGED <<run, main, ras, created, told, asked, threadVars, child>>

-----------------------------------------------------------------------------
(* The main loop.                                                          *)

Take(message) == /\ run /\ main = "loop"
                 /\ queue # <<>> /\ Head(queue) = message
                 /\ queue' = Tail(queue)
                 /\ UNCHANGED <<run, client>>

\* SetRASState(0, stat): an error is stored as idle, and clients with the event
\* mask hear of everything but the changes in progress.
SetRASState(stat) ==
  /\ ras' = IF stat = "Error" THEN "Idle" ELSE stat
  /\ told' = IF stat \in {"Connecting", "Disconnecting"} THEN told ELSE stat

\* No registration, no port for the connection, or no thread.
RefuseConnect == /\ Take("DATA_CONNECT")
                 /\ SetRASState("Error")
                 /\ UNCHANGED <<main, created, asked, threadVars, child>>

\* FAULT: DUNConnect does not look at m_hWanThread.
DUNConnect_Again ==
  /\ Take("DATA_CONNECT")
  /\ created' = TRUE /\ thread' = "fork" /\ asked' = FALSE
  /\ UNCHANGED <<main, ras, told, tries, pid, child>>

\* DUNConnect; a request that finds the thread there is not answered.
DUNConnect ==
  /\ Take("DATA_CONNECT")
  /\ IF created THEN UNCHANGED <<created, thread, asked>>
                ELSE created' = TRUE /\ thread' = "fork" /\ asked' = FALSE
  /\ UNCHANGED <<main, ras, told, tries, pid, child>>

Terminated(c) == IF c = "alive" THEN "killed" ELSE c

\* FAULT: the state is changed whether there is a dialer or not.
DUNDisconnect_Always ==
  /\ Take("DATA_DISCONNECT")
  /\ SetRASState("Disconnecting")
  /\ child' = (IF pid = "child" THEN Terminated(child) ELSE child)
  /\ asked' = (asked \/ pid = "child")
  /\ UNCHANGED <<main, created, threadVars>>

\* FAULT: the dialer is not killed.
DUNDisconnect_NoKill ==
  /\ Take("DATA_DISCONNECT")
  /\ IF pid = "child" THEN SetRASState("Disconnecting") /\ asked' = TRUE
                      ELSE UNCHANGED <<ras, told, asked>>
  /\ UNCHANGED <<main, created, threadVars, child>>

\* Only a dialer that is known is terminated; otherwise nothing happens.
DUNDisconnect ==
  /\ Take("DATA_DISCONNECT")
  /\ IF pid = "child"
       THEN SetRASState("Disconnecting") /\ child' = Terminated(child) /\ asked' = TRUE
       ELSE UNCHANGED <<ras, told, child, asked>>
  /\ UNCHANGED <<main, created, threadVars>>

\* After an error or the end of the connection the loop waits for the thread.
\* (With an error and no command port ResetModem comes before: ras is idle.)
OnRasResult(stat) ==
  /\ Take(stat)
  /\ SetRASState(stat)
  /\ main' = IF stat \in {"Error", "Idle"} /\ created THEN "joining" ELSE "loop"
  /\ UNCHANGED <<created, asked, threadVars, child>>

Join == /\ main = "joining" /\ thread = "done"
        /\ main' = "loop" /\ created' = FALSE /\ thread' = "none"
        /\ UNCHANGED <<run, queue, ras, told, asked, tries, pid, child, client>>

\* ResetSharedData, in a reset of the modem for whatever cause.
ResetModem == /\ run /\ main = "loop"
              /\ ras' = "Idle"
              /\ UNCHANGED <<run, main, queue, created, told, asked, threadVars, child, client>>

\* The agent ends (DeinitDataIntf stores RAS_Idle) or is killed (the state
\* stays); its thread and its queue go with it.  The dialer may run on.
Ends == /\ run
        /\ run' = FALSE
        /\ ras' \in {"Idle", ras}
        /\ main' = "loop" /\ queue' = <<>> /\ created' = FALSE /\ thread' = "none"
        /\ tries' = 0 /\ pid' = "none" /\ child' = "none" /\ told' = "nothing" /\ asked' = FALSE
        /\ UNCHANGED client

\* Initialize clears the shared memory.
Start == /\ ~run
         /\ run' = TRUE /\ ras' = "Idle"
         /\ UNCHANGED <<main, queue, created, told, asked, threadVars, child, client>>

-----------------------------------------------------------------------------
(* DunThread.                                                              *)

Goes(from, to) == /\ run /\ thread = from /\ thread' = to
                  /\ UNCHANGED <<run, main, ras, created, told, asked, client>>

Sends(stat) == queue' = Append(queue, stat)

Fork == /\ Goes("fork", "announce")
        /\ pid' = "child" /\ child' = "alive"
        /\ UNCHANGED <<tries, queue>>

ForkFails == /\ Goes("fork", "noFork")
             /\ pid' = "failed"
             /\ UNCHANGED <<tries, queue, child>>

NoFork == Goes("noFork", "exit") /\ Sends("Error") /\ UNCHANGED <<tries, pid, child>>

Announce == /\ Goes("announce", "poll") /\ Sends("Connecting")
            /\ tries' = 0
            /\ UNCHANGED <<pid, child>>

LinkUp == /\ Goes("poll", "report") /\ tries < PollLimit
          /\ UNCHANGED <<queue, tries, pid, child>>

NotYet == /\ Goes("poll", "poll") /\ tries < PollLimit
          /\ tries' = tries + 1
          /\ UNCHANGED <<queue, pid, child>>

\* FAULT: m_nDataCallPID is not cleared.
GiveUp_KeepsPid == /\ Goes("poll", "error")
                   /\ child' = Terminated(child)
                   /\ UNCHANGED <<queue, tries, pid>>

\* The service is lost, or it has taken too long: kill, and forget the dialer.
GiveUp == /\ Goes("poll", "error")
          /\ child' = Terminated(child) /\ pid' = "none"
          /\ UNCHANGED <<queue, tries>>

Failed == Goes("error", "exit") /\ Sends("Error") /\ UNCHANGED <<tries, pid, child>>

Report == Goes("report", "wait") /\ Sends("Connected") /\ UNCHANGED <<tries, pid, child>>

\* FAULT: waitpid is interrupted, and the thread starts over.
Waited_Not == /\ Goes("wait", "poll")
              /\ UNCHANGED <<queue, tries, pid, child>>

\* waitpid returns once the dialer is gone.
Waited == /\ Goes("wait", "idle") /\ child = "gone"
          /\ pid' = "none"
          /\ UNCHANGED <<queue, tries, child>>

Ended == Goes("idle", "exit") /\ Sends("Idle") /\ UNCHANGED <<tries, pid, child>>

Exit == Goes("exit", "done") /\ UNCHANGED <<queue, tries, pid, child>>

DunThread == \/ Fork \/ ForkFails \/ NoFork \/ Announce \/ LinkUp \/ GiveUp \/ NotYet
             \/ Report \/ Waited \/ Failed \/ Ended \/ Exit

\* The dialer ends by itself or because it was told to.
DialerEnds == /\ child \in {"alive", "killed"}
              /\ child' = "gone"
              /\ UNCHANGED <<agentVars, threadVars, client>>

-----------------------------------------------------------------------------
MainLoop == \/ RefuseConnect \/ DUNConnect \/ DUNDisconnect \/ Join
            \/ \E stat \in Results : OnRasResult(stat)

Next ==
  \/ \E p \in Client : DataConnect(p) \/ DataDisconnect(p) \/ Request(p)
  \/ MainLoop \/ ResetModem \/ Ends \/ Start
  \/ DunThread \/ DialerEnds

\* The loop and the thread run on; a dialer that is terminated ends.
Fairness == /\ WF_vars(MainLoop) /\ WF_vars(DunThread)
            /\ WF_vars(child = "killed" /\ DialerEnds)

Spec == Init /\ [][Next]_vars /\ Fairness

-----------------------------------------------------------------------------
(* Properties.                                                             *)

\* pthread_join in the main loop does not block it: the loop joins only a
\* thread that has sent its last message, so there is never a second one, and
\* m_hWanThread is set exactly while there is one (OnRasResult, DUNConnect).
JoinsItsEnd == /\ main = "joining" => thread \in {"exit", "done"}
               /\ created <=> thread # "none"

\* With no thread clients see an idle connection and may ask for one, whatever
\* requests, resets and late results came in between (eRASState).
QuietIsIdle == run /\ thread = "none" => ras = "Idle"

\* Clients hear the end of a connection before they hear of the next one.
ToldInTurn == [][OnRasResult("Connected") => told # "Connected"]_vars

\* The states in which the library refuses requests are left again: connecting
\* ends (DataDisconnect), and so does disconnecting (DataConnect).
InProgressEnds ==
  run /\ ras \in {"Connecting", "Disconnecting"} ~> ~run \/ ras \in {"Idle", "Connected"}

\* A request to disconnect that finds a dialer ends its connection.
DisconnectWorks ==
  run /\ main = "loop" /\ pid = "child" /\ queue # <<>> /\ Head(queue) = "DATA_DISCONNECT"
    ~> thread = "none"

\* "RAS_Idle will be sent in RasThread!" (agent.c, DUNDisconnect): the answer to
\* a request that has terminated the dialer is not an error.
IdleIsSent == asked => "Error" \notin Range(queue)
=============================================================================
