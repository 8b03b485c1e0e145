------------------------------- MODULE CmdList -------------------------------
(***************************************************************************)
(* The linked list behind the command pool (rild/cmdlist.c): cells of the  *)
(* heap, their links, the head and the count.  Only the agent's main       *)
(* thread calls these functions, so each of them is one step.  A freed     *)
(* cell keeps its content until malloc hands it out again, and malloc may  *)
(* fail.  CmdList implements CmdQueue.                                     *)
(***************************************************************************)
EXTENDS CmdPool

CONSTANTS
  Entry,   \* the commands that are stored
  Cell,    \* the cells malloc can return
  NULL     \* the null pointer

ASSUME NullAssumption == NULL \notin Cell
ASSUME HeapAssumption == IsFiniteSet(Cell) /\ Entry # {}

VARIABLES
  head,    \* cmd_pool.head
  count,   \* cmd_pool.count
  next,    \* the link of each cell
  entry,   \* the tag and text of each cell
  heap     \* the cells that are allocated

vars == <<head, count, next, entry, heap>>

Pointer == Cell \cup {NULL}

TypeOK == /\ head \in Pointer /\ count \in 0 .. Cardinality(Cell)
          /\ next \in [Cell -> Pointer] /\ entry \in [Cell -> Entry]
          /\ heap \subseteq Cell

\* InitCmdList.
Init == /\ head = NULL /\ count = 0
        /\ next \in [Cell -> {NULL}] /\ entry \in [Cell -> {CHOOSE c \in Entry : TRUE}]
        /\ heap = {}

\* The pointers a walk from h meets, in turn; it stops after Cardinality(Cell)
\* links even if the list does not.
Met(h, nx) ==
  LET p[i \in 0 .. Cardinality(Cell)] ==
        IF i = 0 THEN h ELSE IF p[i - 1] = NULL THEN NULL ELSE nx[p[i - 1]]
  IN  p

\* The cells it meets up to and without the null pointer.
WalkFrom(h, nx) ==
  [i \in 1 .. Cardinality({k \in 1 .. Cardinality(Cell) : Met(h, nx)[k - 1] # NULL}) |->
     Met(h, nx)[i - 1]]

Walk == WalkFrom(head, next)

\* Any cell that is free; content and link are written before it is used.
Malloc(cell, c) == /\ cell \in Cell \ heap
                   /\ heap' = heap \cup {cell}
                   /\ entry' = [entry EXCEPT ![cell] = c]

CmdPoolPutCell(cell, c) ==
  /\ Malloc(cell, c)
  /\ IF head = NULL
       THEN head' = cell /\ next' = [next EXCEPT ![cell] = NULL]
       ELSE next' = [next EXCEPT ![cell] = NULL, ![Last(Walk)] = cell] /\ UNCHANGED head
  /\ count' = count + 1

\* FAULT: the new head is not linked to the old one.
CmdPoolPutHeadCell_LosesTail(cell, c) ==
  /\ Malloc(cell, c)
  /\ head' = cell /\ next' = [next EXCEPT ![cell] = NULL]
  /\ count' = count + 1

CmdPoolPutHeadCell(cell, c) ==
  /\ Malloc(cell, c)
  /\ head' = cell /\ next' = [next EXCEPT ![cell] = head]
  /\ count' = count + 1

\* malloc returns no memory: -1, which SendCommand ignores.
MallocFails == UNCHANGED vars

\* FAULT: a cell behind the head is freed but not unlinked.
Unlink_LeavesLink(i) ==
  /\ IF i = 1 THEN head' = next[head] ELSE UNCHANGED head
  /\ heap' = heap \ {Walk[i]}
  /\ count' = count - 1
  /\ UNCHANGED <<next, entry>>

\* FAULT: the count is only taken down with the head.
Unlink_MissesCount(i) ==
  /\ IF i = 1 THEN head' = next[head] /\ UNCHANGED next
              ELSE next' = [next EXCEPT ![Walk[i - 1]] = next[Walk[i]]] /\ UNCHANGED head
  /\ heap' = heap \ {Walk[i]}
  /\ count' = (IF i = 1 THEN count - 1 ELSE count)
  /\ UNCHANGED entry

Unlink(i) ==
  /\ IF i = 1 THEN head' = next[head] /\ UNCHANGED next
              ELSE next' = [next EXCEPT ![Walk[i - 1]] = next[Walk[i]]] /\ UNCHANGED head
  /\ heap' = heap \ {Walk[i]}
  /\ count' = count - 1
  /\ UNCHANGED entry

\* With an empty list the count is set to zero.
NothingThere == count' = (IF head = NULL THEN 0 ELSE count)
                /\ UNCHANGED <<head, next, entry, heap>>

CmdPoolDelTag(tag) ==
  LET at == {i \in DOMAIN Walk : entry[Walk[i]].tag = tag}
  IN  IF at = {} THEN NothingThere ELSE Unlink(Min(at))

CmdPoolDelFirst == IF head = NULL THEN NothingThere ELSE Unlink(1)

CmdPoolClear == /\ heap' = heap \ Range(Walk)
                /\ head' = NULL /\ count' = 0
                /\ UNCHANGED <<next, entry>>

Next == \/ \E cell \in Cell, c \in Entry : CmdPoolPutCell(cell, c) \/ CmdPoolPutHeadCell(cell, c)
        \/ \E c \in Entry : CmdPoolDelTag(c.tag)
        \/ CmdPoolDelFirst \/ CmdPoolClear \/ MallocFails

Spec == Init /\ [][Next]_vars

-----------------------------------------------------------------------------
(* Properties.                                                             *)

\* The list is the queue its callers take it for: CmdQueue, with the entries
\* that a walk from the head meets as the pool.
Queue == INSTANCE CmdQueue WITH pool <- [i \in DOMAIN Walk |-> entry[Walk[i]]]

ImplementsQueue == Queue!QueueSpec

OwnsItsCells == Range(Walk) = heap /\ IsInjective(Walk)
CountIsLength == count = Len(Walk)

\* No cell leaks, none is in the list twice and none is used after free: the
\* walk meets every allocated cell once and no other.  GetCmdCount, by which
\* SendCommand(NONE) decides whether to post a dispatch message, is its length.
ListIsSound == OwnsItsCells /\ CountIsLength
=============================================================================
