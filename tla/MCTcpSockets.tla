---------------------------- MODULE MCTcpSockets ----------------------------
(***************************************************************************)
(* An instance of TcpSockets: two clients and two sockets.                 *)
(***************************************************************************)
EXTENDS TcpSockets

Echo == Cmd("ATE0")
OrNone == Socks \cup {None}
TcpClosings == {Closes(n, s) : n \in 0 .. LastSock + 1, s \in OrNone}
TcpRequests == {<<Open(s)>> : s \in Socks} \cup {<<Close(s)>> : s \in OrNone}
               \cup {LengthAndData(s, full) : s \in OrNone, full \in BOOLEAN}
NothingToWrite == {Data(s, FALSE) : s \in OrNone}
TcpCommands == {Echo, NewContext} \cup UNION {Range(cs) : cs \in TcpRequests}
TcpInitCmds == <<Echo>>
TcpHead == {Echo, NewContext}
TcpPrompts == {Prompt}
AnyClient == Permutations(Clients)
=============================================================================
