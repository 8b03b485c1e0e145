--------------------------- MODULE DunLinkProofs ---------------------------
(***************************************************************************)
(* The main loop joins only a thread that has nothing more to say, clients *)
(* see an idle connection when there is no thread, and hear the end of a   *)
(* connection before the next, for any number of clients, rounds and       *)
(* messages.                                                               *)
(***************************************************************************)
EXTENDS DunLink, TLAPS

Message == Results \cup Requests
Final == {"Idle", "Error"}
Leaving == {"exit", "done"}

\* What the proof needs of the types.
Typed == /\ queue \in Seq(Message)
         /\ client \in [Client -> Requests \cup {"none"}]
         /\ run \in BOOLEAN /\ created \in BOOLEAN

\* A final result in the queue is the last result there, and the thread that
\* sent it does nothing but leave.
LastWord ==
  /\ \A i \in 1 .. Len(queue) : queue[i] \in Final => thread \in Leaving
  /\ \A i, j \in 1 .. Len(queue) :
       queue[i] \in Final /\ queue[j] \in Results => j <= i

\* Results do not outlive their thread.
NoOrphan == \A i \in 1 .. Len(queue) : queue[i] \in Results => thread # "none"

\* While the loop joins the thread no result is on its way.
Joining == main = "joining" =>
  /\ thread \in Leaving /\ ras = "Idle"
  /\ \A i \in 1 .. Len(queue) : queue[i] \notin Results

\* The dialer is known only to a thread that waits for it.
Known == pid = "child" => thread \in {"announce", "poll", "report", "wait"}

IInv == /\ Typed /\ LastWord /\ NoOrphan /\ Joining /\ Known
        /\ created <=> thread # "none"
        /\ main \in {"loop", "joining"}
        /\ QuietIsIdle

-----------------------------------------------------------------------------
\* The message the loop takes, and what is left in the queue.
LEMMA TakeQueue ==
  ASSUME NEW q \in Seq(Message), q # <<>>
  PROVE  /\ Tail(q) \in Seq(Message)
         /\ Len(q) \in Nat /\ Len(q) >= 1 /\ Len(Tail(q)) = Len(q) - 1
         /\ Head(q) = q[1]
         /\ \A i \in 1 .. Len(Tail(q)) : Tail(q)[i] = q[i + 1]
  OBVIOUS

\* What is in the queue after a message is sent.
LEMMA SendQueue ==
  ASSUME NEW q \in Seq(Message), NEW m \in Message
  PROVE  /\ Append(q, m) \in Seq(Message)
         /\ Len(q) \in Nat /\ Len(Append(q, m)) = Len(q) + 1
         /\ Append(q, m)[Len(q) + 1] = m
         /\ \A i \in 1 .. Len(q) : Append(q, m)[i] = q[i]
  OBVIOUS

\* The initial state.
LEMMA LinkInit == Init => IInv
  <1> SUFFICES ASSUME Init PROVE IInv
    OBVIOUS
  <1>1. queue = <<>> /\ Len(queue) = 0 /\ client = [p \in Client |-> "none"]
    BY DEF Init
  <1>2. Typed
    <2>1. queue \in Seq(Message)
      BY <1>1
    <2>2. client \in [Client -> Requests \cup {"none"}]
      BY <1>1
    <2> QED
      BY <2>1, <2>2 DEF Init, Typed
  <1>3. LastWord /\ NoOrphan
    BY <1>1 DEF LastWord, NoOrphan
  <1>4. Joining /\ Known /\ QuietIsIdle
    BY DEF Init, Joining, Known, QuietIsIdle
  <1> QED
    BY <1>2, <1>3, <1>4 DEF Init, IInv

\* The queue's part of the invariant holds of what is left when a message is
\* taken, and nothing is left of a thread whose last word was taken.
LEMMA TakeKeeps ==
  ASSUME IInv, NEW message, Take(message)
  PROVE  /\ queue' \in Seq(Message)
         /\ \A i \in 1 .. Len(queue') : queue'[i] \in Final => thread \in Leaving
         /\ \A i, j \in 1 .. Len(queue') :
              queue'[i] \in Final /\ queue'[j] \in Results => j <= i
         /\ \A i \in 1 .. Len(queue') : queue'[i] \in Results => thread # "none"
         /\ message \in Results => thread # "none"
         /\ message \in Final =>
              thread \in Leaving /\ \A i \in 1 .. Len(queue') : queue'[i] \notin Results
  <1>1. /\ queue \in Seq(Message) /\ queue # <<>> /\ queue' = Tail(queue) /\ message = Head(queue)
    BY DEF Take, IInv, Typed
  <1>2. /\ Tail(queue) \in Seq(Message)
        /\ Len(queue) \in Nat /\ Len(queue) >= 1 /\ Len(Tail(queue)) = Len(queue) - 1
        /\ message = queue[1]
        /\ \A i \in 1 .. Len(Tail(queue)) : Tail(queue)[i] = queue[i + 1]
    BY <1>1, TakeQueue
  <1>3. \A i \in 1 .. Len(queue') : i + 1 \in 1 .. Len(queue) /\ queue'[i] = queue[i + 1]
    BY <1>1, <1>2
  <1>4. LastWord /\ NoOrphan
    BY DEF IInv
  <1>5. 1 \in 1 .. Len(queue)
    BY <1>2
  <1>6. \A i, j \in 1 .. Len(queue') : queue'[i] \in Final /\ queue'[j] \in Results => j <= i
    BY <1>2, <1>3, <1>4, <1>1 DEF LastWord
  <1>7. message \in Final => \A i \in 1 .. Len(queue') : queue'[i] \notin Results
    BY <1>1, <1>2, <1>3, <1>4, <1>5 DEF LastWord
  <1> QED
    BY <1>1, <1>2, <1>3, <1>4, <1>5, <1>6, <1>7 DEF LastWord, NoOrphan

\* Steps of the clients.
LEMMA ClientKeeps ==
  ASSUME IInv, NEW p \in Client, DataConnect(p) \/ DataDisconnect(p) \/ Request(p)
  PROVE  IInv'
  <1>1. CASE DataConnect(p) \/ DataDisconnect(p)
    BY <1>1 DEF DataConnect, DataDisconnect, Wants, IInv, Typed, LastWord, NoOrphan, Joining,
                Known, QuietIsIdle, agentVars, threadVars, Requests
  <1>2. CASE Request(p)
    <2>1. /\ client[p] \in Requests /\ client[p] \in Message /\ client[p] \notin Results
          /\ queue \in Seq(Message) /\ Final \subseteq Results
      BY <1>2 DEF Request, IInv, Typed, Message, Requests, Results, Final
    <2>2. queue' \in Seq(Message) /\ client' \in [Client -> Requests \cup {"none"}]
      BY <1>2, <2>1, SendQueue DEF Request, IInv, Typed
    <2>3. \A i \in 1 .. Len(queue') :
            queue'[i] \in Results => i \in 1 .. Len(queue) /\ queue[i] = queue'[i]
      <3>1. CASE queue' = queue
        BY <3>1
      <3>2. CASE queue' = Append(queue, client[p])
        BY <3>2, <2>1, SendQueue
      <3> QED BY <3>1, <3>2, <1>2 DEF Request
    <2>4. /\ UNCHANGED <<run, main, ras, created, thread, pid>>
          /\ IInv
      BY <1>2 DEF Request, threadVars
    <2>5. LastWord' /\ NoOrphan' /\ Joining'
      BY <2>1, <2>3, <2>4 DEF IInv, LastWord, NoOrphan, Joining
    <2> QED
      BY <2>2, <2>4, <2>5 DEF IInv, Typed, Known, QuietIsIdle
  <1> QED BY <1>1, <1>2

\* Steps of the main loop.
LEMMA MainKeeps ==
  ASSUME IInv, MainLoop
  PROVE  IInv'
  <1>1. CASE RefuseConnect
    BY <1>1, TakeKeeps DEF RefuseConnect, SetRASState, Take, IInv, Typed, LastWord, NoOrphan,
                           Joining, Known, QuietIsIdle, threadVars
  <1>2. CASE DUNConnect
    <2>1. Take("DATA_CONNECT") BY <1>2 DEF DUNConnect
    <2>2. CASE created
      BY <1>2, <2>1, <2>2, TakeKeeps DEF DUNConnect, Take, IInv, Typed, LastWord, NoOrphan,
                                         Joining, Known, QuietIsIdle
    <2>3. CASE ~created
      <3>1. thread = "none" /\ "none" \notin Leaving /\ Final \subseteq Results
        BY <2>3 DEF IInv, Leaving, Final, Results
      <3>2. /\ created' = TRUE /\ thread' = "fork"
            /\ UNCHANGED <<main, ras, pid, run, client>> /\ main = "loop"
        BY <1>2, <2>1, <2>3 DEF DUNConnect, Take
      <3>3. \A i \in 1 .. Len(queue') : queue'[i] \notin Results
        BY <3>1, <2>1, TakeKeeps
      <3> QED
        BY <3>1, <3>2, <3>3, <2>1, TakeKeeps DEF IInv, Typed, LastWord, NoOrphan, Joining,
                                                Known, QuietIsIdle
    <2> QED BY <2>2, <2>3
  <1>3. CASE DUNDisconnect
    <2>1. Take("DATA_DISCONNECT") /\ main = "loop" BY <1>3 DEF DUNDisconnect, Take
    <2>2. UNCHANGED <<main, created, thread, pid, run, client>>
      BY <1>3 DEF DUNDisconnect, Take, threadVars
    <2>3. QuietIsIdle'
      <3>1. CASE pid = "child"
        BY <3>1, <2>2 DEF IInv, Known, QuietIsIdle
      <3>2. CASE pid # "child"
        BY <3>2, <1>3, <2>2 DEF DUNDisconnect, IInv, QuietIsIdle
      <3> QED BY <3>1, <3>2
    <2> QED
      BY <2>1, <2>2, <2>3, TakeKeeps DEF IInv, Typed, LastWord, NoOrphan, Joining, Known
  <1>4. CASE Join
    BY <1>4 DEF Join, IInv, Typed, LastWord, NoOrphan, Joining, Known, QuietIsIdle, Leaving,
                Final, Results
  <1>5. ASSUME NEW stat \in Results, OnRasResult(stat) PROVE IInv'
    <2>1. Take(stat) /\ main = "loop" BY <1>5 DEF OnRasResult, Take
    <2>2. thread # "none" /\ created
      BY <2>1, TakeKeeps DEF IInv
    <2>3. /\ UNCHANGED <<created, thread, pid, run, client>>
          /\ main' = IF stat \in Final THEN "joining" ELSE "loop"
      BY <1>5, <2>2 DEF OnRasResult, Take, threadVars, Final
    <2>4. stat \in Final => ras' = "Idle"
      BY <1>5 DEF OnRasResult, SetRASState, Final
    <2>5. Joining'
      BY <2>1, <2>3, <2>4, TakeKeeps DEF Joining
    <2> QED
      BY <2>1, <2>2, <2>3, <2>5, TakeKeeps DEF IInv, Typed, LastWord, NoOrphan, Known, QuietIsIdle
  <1> QED BY <1>1, <1>2, <1>3, <1>4, <1>5 DEF MainLoop

\* A step of the thread that sends nothing and does not begin to leave.
LEMMA SilentKeeps ==
  ASSUME IInv, NEW from, NEW to, Goes(from, to), UNCHANGED queue,
         from \notin Leaving \/ to \in Leaving, from # "none", to # "none",
         pid' = "child" => to \in {"announce", "poll", "report", "wait"}
  PROVE  IInv'
  <1>1. \A i \in 1 .. Len(queue) : queue[i] \in Final => thread' \in Leaving
    BY DEF IInv, LastWord, Goes
  <1>2. main = "joining" => thread' \in Leaving
    BY DEF IInv, Joining, Goes
  <1> QED
    BY <1>1, <1>2 DEF Goes, IInv, Typed, LastWord, NoOrphan, Joining, Known, QuietIsIdle

\* A step of the thread that sends a result; after a final one it leaves.
LEMMA ResultKeeps ==
  ASSUME IInv, NEW from, NEW to, NEW stat \in Results, Goes(from, to), Sends(stat),
         from \notin Leaving \cup {"none"}, to # "none",
         stat \in Final => to \in Leaving,
         pid' = "child" => to \in {"announce", "poll", "report", "wait"}
  PROVE  IInv'
  <1>1. /\ queue \in Seq(Message) /\ stat \in Message /\ queue' = Append(queue, stat)
        /\ Final \subseteq Results
    BY DEF IInv, Typed, Message, Sends, Final, Results
  <1>2. /\ queue' \in Seq(Message) /\ Len(queue) \in Nat /\ Len(queue') = Len(queue) + 1
        /\ queue'[Len(queue) + 1] = stat
        /\ \A i \in 1 .. Len(queue) : queue'[i] = queue[i]
    BY <1>1, SendQueue
  <1>3. \A i \in 1 .. Len(queue) : queue[i] \notin Final
    BY DEF IInv, LastWord, Goes
  <1>4. \A i \in 1 .. Len(queue') : queue'[i] \in Final => i = Len(queue') /\ stat \in Final
    BY <1>2, <1>3
  <1>5. main # "joining"
    BY DEF IInv, Joining, Goes
  <1>6. LastWord'
    BY <1>2, <1>4 DEF LastWord, Goes
  <1> QED
    BY <1>2, <1>5, <1>6 DEF Goes, IInv, Typed, NoOrphan, Joining, Known, QuietIsIdle

\* Steps of the thread.
LEMMA ThreadKeeps ==
  ASSUME IInv, DunThread
  PROVE  IInv'
  <1> USE DEF Leaving, Final, Results
  <1>1. CASE Fork BY <1>1, SilentKeeps DEF Fork
  <1>2. CASE ForkFails BY <1>2, SilentKeeps DEF ForkFails
  <1>3. CASE NoFork
    <2>1. pid' # "child" BY <1>3 DEF NoFork, Goes, IInv, Known
    <2> QED BY <1>3, <2>1, ResultKeeps DEF NoFork
  <1>4. CASE Announce BY <1>4, ResultKeeps DEF Announce
  <1>5. CASE LinkUp BY <1>5, SilentKeeps DEF LinkUp
  <1>6. CASE NotYet BY <1>6, SilentKeeps DEF NotYet
  <1>7. CASE GiveUp BY <1>7, SilentKeeps DEF GiveUp
  <1>8. CASE Failed
    <2>1. pid' # "child" BY <1>8 DEF Failed, Goes, IInv, Known
    <2> QED BY <1>8, <2>1, ResultKeeps DEF Failed
  <1>9. CASE Report BY <1>9, ResultKeeps DEF Report
  <1>10. CASE Waited BY <1>10, SilentKeeps DEF Waited
  <1>11. CASE Ended
    <2>1. pid' # "child" BY <1>11 DEF Ended, Goes, IInv, Known
    <2> QED BY <1>11, <2>1, ResultKeeps DEF Ended
  <1>12. CASE Exit
    <2>1. pid' # "child" BY <1>12 DEF Exit, Goes, IInv, Known
    <2> QED BY <1>12, <2>1, SilentKeeps DEF Exit
  <1> QED
    BY <1>1, <1>2, <1>3, <1>4, <1>5, <1>6, <1>7, <1>8, <1>9, <1>10, <1>11, <1>12 DEF DunThread

\* Every step keeps the invariant.
LEMMA LinkStep == IInv /\ [Next]_vars => IInv'
  <1> SUFFICES ASSUME IInv, [Next]_vars PROVE IInv'
    OBVIOUS
  <1>1. CASE \E p \in Client : DataConnect(p) \/ DataDisconnect(p) \/ Request(p)
    BY <1>1, ClientKeeps
  <1>2. CASE MainLoop BY <1>2, MainKeeps
  <1>3. CASE DunThread BY <1>3, ThreadKeeps
  <1>4. CASE ResetModem
    BY <1>4 DEF ResetModem, IInv, Typed, LastWord, NoOrphan, Joining, Known, QuietIsIdle, threadVars
  <1>5. CASE Ends
    <2>1. queue' = <<>> /\ Len(queue') = 0 /\ run' = FALSE /\ UNCHANGED client
      BY <1>5 DEF Ends
    <2>2. Typed'
      <3>1. queue' \in Seq(Message)
        BY <2>1
      <3>2. client' \in [Client -> Requests \cup {"none"}] /\ run' \in BOOLEAN /\ created' \in BOOLEAN
        BY <2>1, <1>5 DEF Ends, IInv, Typed
      <3> QED
        BY <3>1, <3>2 DEF Typed
    <2>3. LastWord' /\ NoOrphan'
      BY <2>1 DEF LastWord, NoOrphan
    <2>4. Joining' /\ Known' /\ QuietIsIdle'
      BY <1>5, <2>1 DEF Ends, Joining, Known, QuietIsIdle
    <2> QED
      BY <1>5, <2>2, <2>3, <2>4 DEF Ends, IInv
  <1>6. CASE Start
    BY <1>6 DEF Start, IInv, Typed, LastWord, NoOrphan, Joining, Known, QuietIsIdle, threadVars
  <1>7. CASE DialerEnds
    BY <1>7 DEF DialerEnds, IInv, Typed, LastWord, NoOrphan, Joining, Known, QuietIsIdle,
                agentVars, threadVars
  <1>8. CASE UNCHANGED vars
    BY <1>8 DEF vars, IInv, Typed, LastWord, NoOrphan, Joining, Known, QuietIsIdle,
                agentVars, threadVars
  <1> QED BY <1>1, <1>2, <1>3, <1>4, <1>5, <1>6, <1>7, <1>8 DEF Next

-----------------------------------------------------------------------------
\* The invariant holds in every reachable state.
THEOREM LinkInvariance == Spec => []IInv
  BY LinkInit, LinkStep, PTL DEF Spec

\* pthread_join in OnRasResult waits only for a thread that has sent its last
\* message, and m_hWanThread is set exactly while there is a thread.
THEOREM JoinsOnlyLeaving == Spec => []JoinsItsEnd
  <1>1. IInv => JoinsItsEnd
    BY DEF IInv, Joining, JoinsItsEnd, Leaving
  <1> QED BY <1>1, LinkInvariance, PTL

\* Without a thread clients see an idle connection.
THEOREM QuietConnectionIsIdle == Spec => []QuietIsIdle
  <1>1. IInv => QuietIsIdle
    BY DEF IInv
  <1> QED BY <1>1, LinkInvariance, PTL

-----------------------------------------------------------------------------
(* Clients hear the end of a connection before the next.                   *)

\* Where the thread is once it has reported the connection.
Reported == {"wait", "idle", "exit", "done"}

\* The connection is reported once by each thread: it is on its way or told only
\* behind Report, once at most, and the loop has told its end before it joins the
\* thread.
ToldInv ==
  /\ \A i \in 1 .. Len(queue) : queue[i] = "Connected" => thread \in Reported
  /\ \A i, j \in 1 .. Len(queue) :
       queue[i] = "Connected" /\ queue[j] = "Connected" => i = j
  /\ told = "Connected" =>
       /\ thread \in Reported /\ main # "joining"
       /\ \A i \in 1 .. Len(queue) : queue[i] # "Connected"

\* What is left of it when the loop has taken a message.
LEMMA TakeTold ==
  ASSUME IInv, ToldInv, NEW message, Take(message)
  PROVE  /\ \A i \in 1 .. Len(queue') : queue'[i] = "Connected" => thread \in Reported
         /\ \A i, j \in 1 .. Len(queue') :
              queue'[i] = "Connected" /\ queue'[j] = "Connected" => i = j
         /\ told = "Connected" \/ message = "Connected" =>
              \A i \in 1 .. Len(queue') : queue'[i] # "Connected"
         /\ message = "Connected" => thread \in Reported /\ told # "Connected"
  <1>1. /\ queue \in Seq(Message) /\ queue # <<>> /\ queue' = Tail(queue) /\ message = Head(queue)
    BY DEF Take, IInv, Typed
  <1>2. /\ Len(queue) \in Nat /\ Len(queue) >= 1 /\ Len(Tail(queue)) = Len(queue) - 1
        /\ message = queue[1]
        /\ \A i \in 1 .. Len(Tail(queue)) : Tail(queue)[i] = queue[i + 1]
    BY <1>1, TakeQueue
  <1>3. 1 \in 1 .. Len(queue)
    BY <1>2
  <1>4. \A i \in 1 .. Len(queue') :
          i + 1 \in 1 .. Len(queue) /\ i + 1 # 1 /\ queue'[i] = queue[i + 1]
    BY <1>1, <1>2
  <1>5. \A i, j \in 1 .. Len(queue') :
          queue'[i] = "Connected" /\ queue'[j] = "Connected" => i = j
    <2> SUFFICES ASSUME NEW i \in 1 .. Len(queue'), NEW j \in 1 .. Len(queue'),
                        queue'[i] = "Connected", queue'[j] = "Connected"
                 PROVE  i = j
      OBVIOUS
    <2>1. i + 1 = j + 1
      BY <1>4 DEF ToldInv
    <2> QED
      BY <2>1, <1>1, <1>2
  <1> QED
    BY <1>2, <1>3, <1>4, <1>5 DEF ToldInv

\* Nothing in the queue but a result of the thread tells of a connection.
LEMMA ToldStep ==
  ASSUME IInv, ToldInv, [Next]_vars
  PROVE  ToldInv'
  <1>1. CASE UNCHANGED <<queue, thread, told, main>>
    BY <1>1 DEF ToldInv
  <1>2. ASSUME NEW p \in Client, Request(p) PROVE ToldInv'
    <2>1. /\ client[p] \in Message /\ client[p] # "Connected" /\ queue \in Seq(Message)
          /\ UNCHANGED <<thread, told, main>>
      BY <1>2 DEF Request, IInv, Typed, Message, Requests, threadVars
    <2>2. CASE queue' = queue
      BY <1>1, <2>1, <2>2
    <2>3. CASE queue' = Append(queue, client[p])
      <3>1. \A i \in 1 .. Len(queue') :
              queue'[i] = "Connected" => i \in 1 .. Len(queue) /\ queue[i] = "Connected"
        BY <2>1, <2>3, SendQueue
      <3> QED
        BY <2>1, <3>1 DEF ToldInv
    <2> QED
      BY <1>2, <2>2, <2>3 DEF Request
  <1>3. CASE MainLoop
    <2>1. CASE RefuseConnect \/ DUNDisconnect
      <3>1. PICK message : Take(message)
        BY <2>1 DEF RefuseConnect, DUNDisconnect
      <3>2. UNCHANGED <<thread, main>> /\ (told' = "Connected" => told = "Connected")
        BY <2>1 DEF RefuseConnect, DUNDisconnect, SetRASState, threadVars
      <3> QED
        BY <3>1, <3>2, TakeTold DEF ToldInv
    <2>2. CASE DUNConnect
      <3>1. Take("DATA_CONNECT") /\ UNCHANGED <<main, told>>
        BY <2>2 DEF DUNConnect
      <3>2. CASE created
        <4>1. UNCHANGED thread
          BY <2>2, <3>2 DEF DUNConnect
        <4> QED
          BY <3>1, <4>1, TakeTold DEF ToldInv
      <3>3. CASE ~created
        <4>1. thread = "none"
          BY <3>3 DEF IInv
        <4>2. \A i \in 1 .. Len(queue') : queue'[i] # "Connected"
          BY <3>1, <4>1, TakeTold DEF Reported
        <4>3. told # "Connected"
          BY <4>1 DEF ToldInv, Reported
        <4> QED
          BY <3>1, <4>2, <4>3 DEF ToldInv
      <3> QED
        BY <3>2, <3>3
    <2>3. CASE Join
      <3>1. UNCHANGED <<queue, told>> /\ main = "joining"
        BY <2>3 DEF Join
      <3>2. told # "Connected"
        BY <3>1 DEF ToldInv
      <3>3. \A i \in 1 .. Len(queue) : queue[i] # "Connected"
        BY <3>1 DEF IInv, Joining, Results
      <3> QED
        BY <3>1, <3>2, <3>3 DEF ToldInv
    <2>4. ASSUME NEW stat \in Results, OnRasResult(stat) PROVE ToldInv'
      <3>1. Take(stat) /\ UNCHANGED thread /\ (told' = "Connected" => stat = "Connected" \/ told = "Connected")
        BY <2>4 DEF OnRasResult, SetRASState, threadVars
      <3>2. main' = "joining" => told' # "Connected"
        BY <2>4 DEF OnRasResult, SetRASState
      <3> QED
        BY <3>1, <3>2, TakeTold DEF ToldInv
    <2> QED
      BY <1>3, <2>1, <2>2, <2>3, <2>4 DEF MainLoop
  <1>4. ASSUME NEW from, NEW to, Goes(from, to), UNCHANGED queue,
               from \in Reported => to \in Reported
        PROVE  ToldInv'
    BY <1>4 DEF Goes, ToldInv
  <1>5. ASSUME NEW from, NEW to, NEW stat \in Results \ {"Connected"}, Goes(from, to), Sends(stat),
               from \in Reported => to \in Reported
        PROVE  ToldInv'
    <2>1. queue \in Seq(Message) /\ stat \in Message /\ queue' = Append(queue, stat)
      BY <1>5 DEF IInv, Typed, Message, Sends
    <2>2. \A i \in 1 .. Len(queue') :
            queue'[i] = "Connected" => i \in 1 .. Len(queue) /\ queue[i] = "Connected"
      BY <1>5, <2>1, SendQueue
    <2> QED
      BY <1>5, <2>2 DEF Goes, ToldInv
  <1>6. CASE Report
    <2>1. /\ thread = "report" /\ thread' = "wait" /\ UNCHANGED <<main, told>>
          /\ queue \in Seq(Message) /\ queue' = Append(queue, "Connected")
      BY <1>6 DEF Report, Goes, Sends, IInv, Typed
    <2>2. told # "Connected" /\ \A i \in 1 .. Len(queue) : queue[i] # "Connected"
      BY <2>1 DEF ToldInv, Reported
    <2>3. \A i \in 1 .. Len(queue') : queue'[i] = "Connected" => i = Len(queue) + 1
      BY <2>1, <2>2, SendQueue DEF Message, Results
    <2> QED
      BY <2>1, <2>2, <2>3 DEF ToldInv, Reported
  <1>7. CASE DunThread /\ ~Report
    <2>1. CASE Fork \/ ForkFails \/ LinkUp \/ NotYet \/ GiveUp \/ Waited \/ Exit
      BY <1>4, <2>1 DEF Fork, ForkFails, LinkUp, NotYet, GiveUp, Waited, Exit, Reported
    <2>2. CASE NoFork \/ Announce \/ Failed \/ Ended
      BY <1>5, <2>2 DEF NoFork, Announce, Failed, Ended, Reported, Results
    <2> QED
      BY <1>7, <2>1, <2>2 DEF DunThread
  <1>8. CASE Ends
    <2>1. queue' = <<>> /\ told' = "nothing"
      BY <1>8 DEF Ends
    <2>2. Len(queue') = 0
      BY <2>1
    <2> QED
      BY <2>1, <2>2 DEF ToldInv
  <1>9. CASE \/ UNCHANGED vars \/ ResetModem \/ Start \/ DialerEnds
             \/ \E p \in Client : DataConnect(p) \/ DataDisconnect(p)
    BY <1>1, <1>9 DEF vars, agentVars, threadVars, ResetModem, Start, DialerEnds, DataConnect,
                      DataDisconnect, Wants
  <1> QED
    BY <1>2, <1>3, <1>6, <1>7, <1>8, <1>9 DEF Next

\* No connection is reported to the clients on top of another (see ToldInTurn).
THEOREM ConnectionsAreToldInTurn == Spec => ToldInTurn
  <1>1. Init => ToldInv
    <2> SUFFICES ASSUME Init PROVE ToldInv
      OBVIOUS
    <2>1. Len(queue) = 0 /\ told = "nothing"
      BY DEF Init
    <2> QED
      BY <2>1 DEF ToldInv
  <1>2. IInv /\ ToldInv /\ [Next]_vars => ToldInv'
    BY ToldStep
  <1>3. IInv /\ ToldInv => [OnRasResult("Connected") => told # "Connected"]_vars
    BY TakeTold DEF OnRasResult
  <1> QED
    BY <1>1, <1>2, <1>3, LinkInvariance, PTL DEF Spec, ToldInTurn

=============================================================================
