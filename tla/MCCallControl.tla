--------------------------- MODULE MCCallControl ---------------------------
(***************************************************************************)
(* An instance of CallControl: two clients.                                *)
(***************************************************************************)
EXTENDS CallControl

Echo == Cmd("ATE0")
CallCommands == {Echo, Ata, Chup} \cup {Atd(c) : c \in Clients}
CallInitCmds == <<Echo>>
CallRequests == {<<cmd>> : cmd \in CallCommands \ {Echo}}
NoRuns == {<<>>}
EchoAtHead == {Echo}
AnyClient == Permutations(Clients)
=============================================================================
