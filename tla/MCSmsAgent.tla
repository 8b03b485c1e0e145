----------------------------- MODULE MCSmsAgent -----------------------------
(***************************************************************************)
(* An instance of SmsAgent: two clients, one place for received messages.  *)
(***************************************************************************)
EXTENDS SmsAgent

Echo == Cmd("ATE0")
SmsCommands ==
  {Echo} \cup UNION {Range(LengthAndPdu(c)) : c \in Clients}
         \cup UNION {Range(ReadAndDelete(i)) : i \in Indexes}
SmsInitCmds == <<Echo>>
SmsRequests == {LengthAndPdu(c) : c \in Clients}
SmsAnnounced == {ReadAndDelete(i) : i \in Indexes}
NoRuns == {<<>>}
EchoAtHead == {Echo}
SmsPrompt == {<<"AT_CMGS", "AT_CMGS_PDU">>}
AnyClient == Permutations(Clients)

\* What became of a message before is of no account once it is out of the store: the
\* next one in its place starts anew (Doubted).
StoredOnly ==
  <<vars, owner, sms, posted, entry, pushed, stored, read \cap stored, unread \cap stored,
    astray>>
=============================================================================
