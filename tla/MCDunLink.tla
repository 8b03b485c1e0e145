----------------------------- MODULE MCDunLink -----------------------------
(***************************************************************************)
(* DunLink with two clients, which can hold what they saw until it is no   *)
(* longer so.                                                              *)
(***************************************************************************)
EXTENDS DunLink
=============================================================================
