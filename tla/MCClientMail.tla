---------------------------- MODULE MCClientMail ----------------------------
(* Two process numbers, two messages for the agent, one for the clients.   *)
EXTENDS ClientMail
=============================================================================
