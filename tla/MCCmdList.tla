----------------------------- MODULE MCCmdList -----------------------------
(***************************************************************************)
(* CmdList with two commands of one tag, which CmdPoolDel does not tell    *)
(* apart, and one of another.                                              *)
(***************************************************************************)
EXTENDS CmdList

Entries == {Cmd("AT_CPIN"), CmdText("AT_QISEND", "one"), CmdText("AT_QISEND", "two")}
=============================================================================
