------------------------------ MODULE CmdPool ------------------------------
(***************************************************************************)
(* The command pool of rild/cmdlist.c as a value: a FIFO of AT commands    *)
(* that are waiting for the modem or for its final result.  An entry is    *)
(* one CMD_Tlv, a record with the command's tag (AT_CPIN, ATD, ...) and    *)
(* the text it was formatted with (val; NoText for the commands whose      *)
(* text is in cmd_table).  The operations are pure operators on the        *)
(* sequence; CmdList shows that the linked list implements them.           *)
(***************************************************************************)
EXTENDS SequencesExt

NoText == "NoText"

\* An entry whose text comes from cmd_table (tags below 0x80).
Cmd(tag) == [tag |-> tag, val |-> NoText]

\* An entry formatted by its sender (tags from 0x80 on).
CmdText(tag, text) == [tag |-> tag, val |-> text]

PoolTags(pool) == {pool[i].tag : i \in DOMAIN pool}

\* CmdPoolGet: the first entry that carries the tag (callers test PoolTags).
CmdPoolGet(pool, tag) ==
  pool[SelectInSeq(pool, LAMBDA c : c.tag = tag)]

CmdPoolPut(pool, c) == Append(pool, c)

CmdPoolPutHead(pool, c) == Cons(c, pool)

\* CmdPoolDel removes the first entry with the tag, wherever it stands.
CmdPoolDel(pool, tag) == RemoveFirstMatch(pool, LAMBDA c : c.tag = tag)

CmdPoolDelHead(pool) == IF pool = <<>> THEN pool ELSE Tail(pool)
=============================================================================
