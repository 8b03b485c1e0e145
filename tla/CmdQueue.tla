------------------------------ MODULE CmdQueue ------------------------------
(***************************************************************************)
(* What the command pool promises its callers (rild/cmdlist.h): a sequence *)
(* of commands with the operations of CmdPool, each of them in one step,   *)
(* except that storing a command may fail and then leaves no trace.        *)
(***************************************************************************)
EXTENDS CmdPool

CONSTANT Entry   \* the commands that are stored

VARIABLE pool

QueueInit == pool = <<>>

Stored == \E c \in Entry : pool' = CmdPoolPut(pool, c) \/ pool' = CmdPoolPutHead(pool, c)

Deleted == \E c \in Entry : pool' = CmdPoolDel(pool, c.tag)

HeadDeleted == pool' = CmdPoolDelHead(pool)

Cleared == pool' = <<>>

QueueNext == Stored \/ Deleted \/ HeadDeleted \/ Cleared

QueueSpec == QueueInit /\ [][QueueNext]_pool
=============================================================================
