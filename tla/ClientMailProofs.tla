--------------------------- MODULE ClientMailProofs ---------------------------
(***************************************************************************)
(* What is proved of the agent's list of processes, for all process        *)
(* numbers and any room in the queues: who is in it, and once.             *)
(***************************************************************************)
EXTENDS ClientMail, SequenceTheorems, FiniteSetTheorems, WellFoundedInduction, TLAPS

Message == (Pids \X {"attach", "detach", "update", "ask"}) \cup ({LOOP} \X {"event", "stop"})

\* The message at a place of the queue.
Has(q, i, p, what) == i \in 1 .. Len(q) /\ q[i] = <<p, what>>
Lists(list, i, p) == i \in 1 .. Len(list) /\ list[i] = p
InList(list, p) == \E i \in Nat : Lists(list, i, p)

\* A process the library has registered: there is an attach behind every detach
\* of an earlier process with its number.
NoneLeaves(p, q) ==
  \A i \in Nat : Has(q, i, p, "detach") => \E j \in Nat : i < j /\ Has(q, j, p, "attach")

\* The entries of one number in queue and list take turns: what is in the list,
\* or comes into it, is taken off before it is put there once more, and in the
\* end is taken off if the number's process (on) is no longer there.
TakesTurns(p, q, list, on) ==
  /\ \A i, j \in Nat : Lists(list, i, p) /\ Lists(list, j, p) => i = j
  /\ \A j \in Nat : InList(list, p) /\ Has(q, j, p, "attach") =>
       \E k \in Nat : k < j /\ Has(q, k, p, "detach")
  /\ \A i, j \in Nat : i < j /\ Has(q, i, p, "attach") /\ Has(q, j, p, "attach") =>
       \E k \in Nat : i < k /\ k < j /\ Has(q, k, p, "detach")
  /\ InList(list, p) /\ ~on => \E k \in Nat : Has(q, k, p, "detach")
  /\ \A i \in Nat : Has(q, i, p, "attach") /\ ~on =>
       \E k \in Nat : i < k /\ Has(q, k, p, "detach")

Types ==
  /\ proc \in [Pids -> {"none", "lives", "leaves"}]
  /\ lib \in [Pids -> {"unset", "set", "stale"}]
  /\ agentQue \in Seq(Message) /\ parent_proc \in Seq(Pids)
  /\ run \in BOOLEAN /\ died \subseteq Pids

On(p) == proc[p] = "lives" /\ lib[p] = "set"

\* The inductive invariant.
IInv ==
  /\ Types
  /\ ~run => agentQue = <<>> /\ parent_proc = <<>>
  /\ \A p \in Pids : proc[p] = "none" => lib[p] = "unset"
  /\ \A p \in Pids : proc[p] = "lives" /\ lib[p] # "unset" => NoneLeaves(p, agentQue)
  /\ \A p \in Pids \ died : TakesTurns(p, agentQue, parent_proc, On(p))

-----------------------------------------------------------------------------
(* Places in the queue and in the list.                                    *)

\* A set of places has a first one.
LEMMA FirstPlace ==
  ASSUME NEW I, I \subseteq Nat, I # {}
  PROVE  Min(I) \in I
<1>1. PICK m \in I : \A j \in I : <<j, m>> \notin OpToRel(<, Nat)
  BY NatLessThanWellFounded, WFMin
<1>2. \A j \in I : ~(j < m)
  BY <1>1, Zenon DEF OpToRel
<1>3. \A j \in I : m <= j
  BY <1>2
<1> QED
  BY <1>3 DEF Min

\* An empty queue or list has nothing anywhere.
LEMMA HasEmpty ==
  ASSUME NEW i \in Nat, NEW p, NEW w
  PROVE  ~Has(<<>>, i, p, w) /\ ~Lists(<<>>, i, p)
  BY DEF Has, Lists

\* The places of a longer queue.
LEMMA HasAppend ==
  ASSUME NEW q \in Seq(Message), NEW m \in Message
  PROVE  /\ Append(q, m) \in Seq(Message)
         /\ \A i \in Nat : \A p, w : Has(Append(q, m), i, p, w)
                 <=> Has(q, i, p, w) \/ (i = Len(q) + 1 /\ m = <<p, w>>)
         /\ \A i \in Nat : \A p, w : Has(q, i, p, w) => i < Len(q) + 1
<1>1. /\ Append(q, m) \in Seq(Message) /\ Len(Append(q, m)) = Len(q) + 1 /\ Len(q) \in Nat
      /\ \A i \in 1 .. Len(q) : Append(q, m)[i] = q[i]
      /\ Append(q, m)[Len(q) + 1] = m
  BY AppendProperties
<1>2. \A i \in Nat : \A p, w : Has(Append(q, m), i, p, w)
         <=> Has(q, i, p, w) \/ (i = Len(q) + 1 /\ m = <<p, w>>)
  <2> TAKE i \in Nat
  <2> TAKE p, w
  <2> DEFINE r == Append(q, m)
             e == <<p, w>>
  <2>1. i \in 1 .. Len(r) <=> i \in 1 .. Len(q) \/ i = Len(q) + 1
    BY <1>1
  <2>2. (i \in 1 .. Len(q) => r[i] = q[i]) /\ r[Len(q) + 1] = m
    BY <1>1
  <2> HIDE DEF r, e
  <2>3. Has(r, i, p, w) <=> i \in 1 .. Len(r) /\ r[i] = e
    BY DEF Has, e
  <2>4. Has(q, i, p, w) <=> i \in 1 .. Len(q) /\ q[i] = e
    BY DEF Has, e
  <2>5. Len(q) + 1 \notin 1 .. Len(q)
    BY <1>1
  <2>6. Has(r, i, p, w) <=> Has(q, i, p, w) \/ (i = Len(q) + 1 /\ m = e)
    BY <2>1, <2>2, <2>3, <2>4, <2>5
  <2> QED
    BY <2>6 DEF r, e
<1>3. \A i \in Nat : \A p, w : Has(q, i, p, w) => i < Len(q) + 1
  BY <1>1 DEF Has
<1> QED
  BY <1>1, <1>2, <1>3

\* The places of a queue without its head.
LEMMA HasTail ==
  ASSUME NEW q \in Seq(Message), q # <<>>
  PROVE  /\ Tail(q) \in Seq(Message)
         /\ \A i \in Nat : \A p, w : Has(Tail(q), i, p, w) <=> i # 0 /\ Has(q, i + 1, p, w)
         /\ \A i \in Nat : \A p, w : Has(q, i, p, w) =>
               \/ i = 1 /\ Head(q) = <<p, w>>
               \/ i > 1 /\ i - 1 \in Nat /\ Has(Tail(q), i - 1, p, w)
  BY DEF Has

\* The places of a longer list.
LEMMA ListsAppend ==
  ASSUME NEW list \in Seq(Pids), NEW p \in Pids
  PROVE  /\ Append(list, p) \in Seq(Pids)
         /\ \A i \in Nat : \A r : Lists(Append(list, p), i, r)
                 <=> Lists(list, i, r) \/ (i = Len(list) + 1 /\ r = p)
  BY DEF Lists

\* The places of a list that lost one.
LEMMA ListsRemoveAt ==
  ASSUME NEW list \in Seq(Pids), NEW n \in 1 .. Len(list)
  PROVE  /\ RemoveAt(list, n) \in Seq(Pids)
         /\ \A i \in Nat : \A r : Lists(RemoveAt(list, n), i, r)
                 <=> IF i < n THEN Lists(list, i, r) ELSE i # 0 /\ Lists(list, i + 1, r)
<1> DEFINE a == SubSeq(list, 1, n - 1)
           b == SubSeq(list, n + 1, Len(list))
<1>1. a \in Seq(Pids) /\ Len(a) = n - 1 /\ \A i \in 1 .. n - 1 : a[i] = list[i]
  BY SubSeqProperties
<1>2. b \in Seq(Pids) /\ Len(b) = Len(list) - n /\ \A i \in 1 .. Len(list) - n : b[i] = list[n + i]
  BY SubSeqProperties
<1>3. RemoveAt(list, n) = a \o b
  BY DEF RemoveAt
<1> HIDE DEF a, b
<1>4. /\ a \o b \in Seq(Pids) /\ Len(a \o b) = Len(a) + Len(b)
      /\ \A i \in 1 .. Len(a) + Len(b) :
           (a \o b)[i] = IF i <= Len(a) THEN a[i] ELSE b[i - Len(a)]
  BY <1>1, <1>2, ConcatProperties
<1>5. Len(list) \in Nat /\ n \in Nat /\ Len(a \o b) = Len(list) - 1
  BY <1>1, <1>2, <1>4
<1>6. \A i \in 1 .. Len(list) - 1 : (a \o b)[i] = IF i < n THEN list[i] ELSE list[i + 1]
  BY <1>1, <1>2, <1>4, <1>5
<1> QED
  BY <1>3, <1>4, <1>5, <1>6 DEF Lists

-----------------------------------------------------------------------------
(* What the messages do to the entries of one number.                      *)

\* Nothing is in an empty queue and an empty list.
LEMMA TurnsEmpty ==
  ASSUME NEW p, NEW on
  PROVE  TakesTurns(p, <<>>, <<>>, on) /\ NoneLeaves(p, <<>>)
  BY HasEmpty DEF TakesTurns, NoneLeaves, InList

\* A message that neither registers the number nor takes it off.
LEMMA TurnsAppend ==
  ASSUME NEW p, NEW q \in Seq(Message), NEW list, NEW on \in BOOLEAN,
         NEW m \in Message, m # <<p, "attach">>, m # <<p, "detach">>
  PROVE  /\ TakesTurns(p, q, list, on) => TakesTurns(p, Append(q, m), list, on)
         /\ NoneLeaves(p, q) => NoneLeaves(p, Append(q, m))
<1> DEFINE r == Append(q, m)
<1>1. \A i \in Nat : /\ Has(r, i, p, "attach") <=> Has(q, i, p, "attach")
                     /\ Has(r, i, p, "detach") <=> Has(q, i, p, "detach")
  BY HasAppend
<1> HIDE DEF r
<1>2. TakesTurns(p, q, list, on) => TakesTurns(p, r, list, on)
  BY <1>1 DEF TakesTurns
<1>3. NoneLeaves(p, q) => NoneLeaves(p, r)
  BY <1>1 DEF NoneLeaves
<1> QED
  BY <1>2, <1>3 DEF r

\* The number registers, which it does only when its last process is gone.
LEMMA TurnsAttach ==
  ASSUME NEW p, NEW q \in Seq(Message), NEW list, <<p, "attach">> \in Message
  PROVE  /\ TakesTurns(p, q, list, FALSE) =>
              TakesTurns(p, Append(q, <<p, "attach">>), list, TRUE)
         /\ NoneLeaves(p, Append(q, <<p, "attach">>))
<1> DEFINE r == Append(q, <<p, "attach">>)
           n == Len(q) + 1
<1>1. /\ n \in Nat
      /\ \A i \in Nat : /\ Has(r, i, p, "attach") <=> Has(q, i, p, "attach") \/ i = n
                        /\ Has(r, i, p, "detach") <=> Has(q, i, p, "detach")
                        /\ Has(q, i, p, "detach") \/ Has(q, i, p, "attach") => i < n
  BY HasAppend, LenProperties
<1> HIDE DEF r, n
<1>2. TakesTurns(p, q, list, FALSE) => TakesTurns(p, r, list, TRUE)
  BY <1>1 DEF TakesTurns
<1>3. NoneLeaves(p, r)
  BY <1>1 DEF NoneLeaves
<1> QED
  BY <1>2, <1>3 DEF r

\* The number's process leaves.
LEMMA TurnsDetach ==
  ASSUME NEW p, NEW q \in Seq(Message), NEW list, NEW on \in BOOLEAN, NEW off \in BOOLEAN,
         <<p, "detach">> \in Message, TakesTurns(p, q, list, on)
  PROVE  TakesTurns(p, Append(q, <<p, "detach">>), list, off)
<1> DEFINE r == Append(q, <<p, "detach">>)
           n == Len(q) + 1
<1>1. /\ n \in Nat
      /\ \A i \in Nat : /\ Has(r, i, p, "attach") <=> Has(q, i, p, "attach")
                        /\ Has(r, i, p, "detach") <=> Has(q, i, p, "detach") \/ i = n
                        /\ Has(q, i, p, "detach") \/ Has(q, i, p, "attach") => i < n
  BY HasAppend, LenProperties
<1> HIDE DEF r, n
<1> QED
  BY <1>1 DEF TakesTurns, r

\* A message of another kind, or of another number, is handled.
LEMMA TurnsTail ==
  ASSUME NEW p, NEW q \in Seq(Message), q # <<>>, NEW list, NEW on \in BOOLEAN,
         Head(q) # <<p, "attach">>, Head(q) # <<p, "detach">>
  PROVE  /\ TakesTurns(p, q, list, on) => TakesTurns(p, Tail(q), list, on)
         /\ NoneLeaves(p, q) => NoneLeaves(p, Tail(q))
<1> DEFINE r == Tail(q)
<1>1. /\ \A i \in Nat : \A w : Has(r, i, p, w) <=> i # 0 /\ Has(q, i + 1, p, w)
      /\ \A i \in Nat, w \in {"attach", "detach"} :
            Has(q, i, p, w) => i > 1 /\ i - 1 \in Nat /\ Has(r, i - 1, p, w)
  BY HasTail
<1> HIDE DEF r
<1>2. NoneLeaves(p, q) => NoneLeaves(p, r)
  <2> SUFFICES ASSUME NoneLeaves(p, q), NEW i \in Nat, Has(r, i, p, "detach")
               PROVE  \E j \in Nat : i < j /\ Has(r, j, p, "attach")
    BY DEF NoneLeaves
  <2>1. PICK j \in Nat : i + 1 < j /\ Has(q, j, p, "attach")
    BY <1>1 DEF NoneLeaves
  <2> QED
    BY <1>1, <2>1
<1>3. ASSUME TakesTurns(p, q, list, on)
      PROVE  TakesTurns(p, r, list, on)
  <2>1. \A j \in Nat : InList(list, p) /\ Has(r, j, p, "attach") =>
          \E k \in Nat : k < j /\ Has(r, k, p, "detach")
    <3> SUFFICES ASSUME NEW j \in Nat, InList(list, p), Has(r, j, p, "attach")
                 PROVE  \E k \in Nat : k < j /\ Has(r, k, p, "detach")
      OBVIOUS
    <3>1. PICK k \in Nat : k < j + 1 /\ Has(q, k, p, "detach")
      BY <1>1, <1>3 DEF TakesTurns
    <3> QED
      BY <1>1, <3>1
  <2>2. \A i, j \in Nat : i < j /\ Has(r, i, p, "attach") /\ Has(r, j, p, "attach") =>
          \E k \in Nat : i < k /\ k < j /\ Has(r, k, p, "detach")
    <3> SUFFICES ASSUME NEW i \in Nat, NEW j \in Nat, i < j,
                        Has(r, i, p, "attach"), Has(r, j, p, "attach")
                 PROVE  \E k \in Nat : i < k /\ k < j /\ Has(r, k, p, "detach")
      OBVIOUS
    <3>1. PICK k \in Nat : i + 1 < k /\ k < j + 1 /\ Has(q, k, p, "detach")
      BY <1>1, <1>3 DEF TakesTurns
    <3> QED
      BY <1>1, <3>1
  <2>3. InList(list, p) /\ ~on => \E k \in Nat : Has(r, k, p, "detach")
    BY <1>1, <1>3 DEF TakesTurns
  <2>4. \A i \in Nat : Has(r, i, p, "attach") /\ ~on =>
          \E k \in Nat : i < k /\ Has(r, k, p, "detach")
    <3> SUFFICES ASSUME NEW i \in Nat, Has(r, i, p, "attach"), ~on
                 PROVE  \E k \in Nat : i < k /\ Has(r, k, p, "detach")
      OBVIOUS
    <3>1. PICK k \in Nat : i + 1 < k /\ Has(q, k, p, "detach")
      BY <1>1, <1>3 DEF TakesTurns
    <3> QED
      BY <1>1, <3>1
  <2> QED
    BY <1>3, <2>1, <2>2, <2>3, <2>4 DEF TakesTurns
<1> QED
  BY <1>2, <1>3 DEF r

Once(list, p) == \A i, j \in Nat : Lists(list, i, p) /\ Lists(list, j, p) => i = j

\* What is done to other numbers' places in the list.
LEMMA TurnsList ==
  ASSUME NEW p, NEW q, NEW list, NEW other, NEW on \in BOOLEAN, TakesTurns(p, q, list, on),
         Once(other, p), InList(other, p) <=> InList(list, p)
  PROVE  TakesTurns(p, q, other, on)
  BY DEF TakesTurns, Once

\* The number is put into the list.
LEMMA TurnsAdd ==
  ASSUME NEW p \in Pids, NEW q \in Seq(Message), q # <<>>, Head(q) = <<p, "attach">>,
         NEW list \in Seq(Pids), NEW on \in BOOLEAN, TakesTurns(p, q, list, on)
  PROVE  TakesTurns(p, Tail(q), Append(list, p), on)
<1> DEFINE r == Tail(q)
           add == Append(list, p)
<1>1. /\ \A i \in Nat : \A w : Has(r, i, p, w) <=> i # 0 /\ Has(q, i + 1, p, w)
      /\ \A i \in Nat : Has(q, i, p, "detach") => i > 1 /\ i - 1 \in Nat /\ Has(r, i - 1, p, "detach")
  BY HasTail
<1>2. Has(q, 1, p, "attach")
  BY HeadTailProperties DEF Has
<1>3. ~InList(list, p)
  <2> SUFFICES ASSUME InList(list, p) PROVE FALSE
    OBVIOUS
  <2>1. PICK k \in Nat : k < 1 /\ Has(q, k, p, "detach")
    BY <1>2 DEF TakesTurns
  <2> QED
    BY <1>1, <2>1
<1>4. Len(list) + 1 \in Nat /\ \A i \in Nat : Lists(add, i, p) <=> Lists(list, i, p) \/ i = Len(list) + 1
  BY ListsAppend, LenProperties
<1>5. Once(add, p)
  BY <1>3, <1>4 DEF Once, InList
<1> HIDE DEF r, add
<1>6. \A i \in Nat : Has(r, i, p, "attach") => \E k \in Nat : k < i /\ Has(r, k, p, "detach")
  <2> SUFFICES ASSUME NEW i \in Nat, Has(r, i, p, "attach")
               PROVE  \E k \in Nat : k < i /\ Has(r, k, p, "detach")
    OBVIOUS
  <2>1. i + 1 \in Nat /\ 1 < i + 1 /\ Has(q, i + 1, p, "attach")
    BY <1>1
  <2>2. PICK k \in Nat : 1 < k /\ k < i + 1 /\ Has(q, k, p, "detach")
    BY <1>2, <2>1 DEF TakesTurns
  <2> QED
    BY <1>1, <2>2
<1>7. \A i, j \in Nat : i < j /\ Has(r, i, p, "attach") /\ Has(r, j, p, "attach") =>
        \E k \in Nat : i < k /\ k < j /\ Has(r, k, p, "detach")
  <2> SUFFICES ASSUME NEW i \in Nat, NEW j \in Nat, i < j,
                      Has(r, i, p, "attach"), Has(r, j, p, "attach")
               PROVE  \E k \in Nat : i < k /\ k < j /\ Has(r, k, p, "detach")
    OBVIOUS
  <2>1. PICK k \in Nat : i + 1 < k /\ k < j + 1 /\ Has(q, k, p, "detach")
    BY <1>1 DEF TakesTurns
  <2> QED
    BY <1>1, <2>1
<1>8. ~on => \E k \in Nat : Has(r, k, p, "detach")
  <2> SUFFICES ASSUME ~on PROVE \E k \in Nat : Has(r, k, p, "detach")
    OBVIOUS
  <2>1. PICK k \in Nat : 1 < k /\ Has(q, k, p, "detach")
    BY <1>2 DEF TakesTurns
  <2> QED
    BY <1>1, <2>1
<1>9. \A i \in Nat : Has(r, i, p, "attach") /\ ~on =>
        \E k \in Nat : i < k /\ Has(r, k, p, "detach")
  <2> SUFFICES ASSUME NEW i \in Nat, Has(r, i, p, "attach"), ~on
               PROVE  \E k \in Nat : i < k /\ Has(r, k, p, "detach")
    OBVIOUS
  <2>1. PICK k \in Nat : i + 1 < k /\ Has(q, k, p, "detach")
    BY <1>1 DEF TakesTurns
  <2> QED
    BY <1>1, <2>1
<1> QED
  BY <1>5, <1>6, <1>7, <1>8, <1>9 DEF TakesTurns, Once, r, add

\* The number is taken off the list.
LEMMA TurnsRemove ==
  ASSUME NEW p \in Pids, NEW q \in Seq(Message), q # <<>>, Head(q) = <<p, "detach">>,
         NEW list, NEW less, NEW on \in BOOLEAN, TakesTurns(p, q, list, on),
         ~InList(less, p)
  PROVE  TakesTurns(p, Tail(q), less, on)
<1> DEFINE r == Tail(q)
<1>1. /\ \A i \in Nat : \A w : Has(r, i, p, w) <=> i # 0 /\ Has(q, i + 1, p, w)
      /\ \A i \in Nat : Has(q, i, p, "detach") /\ i > 1 => i - 1 \in Nat /\ Has(r, i - 1, p, "detach")
  BY HasTail
<1> HIDE DEF r
<1>2. \A i, j \in Nat : i < j /\ Has(r, i, p, "attach") /\ Has(r, j, p, "attach") =>
        \E k \in Nat : i < k /\ k < j /\ Has(r, k, p, "detach")
  <2> SUFFICES ASSUME NEW i \in Nat, NEW j \in Nat, i < j,
                      Has(r, i, p, "attach"), Has(r, j, p, "attach")
               PROVE  \E k \in Nat : i < k /\ k < j /\ Has(r, k, p, "detach")
    OBVIOUS
  <2>1. PICK k \in Nat : i + 1 < k /\ k < j + 1 /\ Has(q, k, p, "detach")
    BY <1>1 DEF TakesTurns
  <2> QED
    BY <1>1, <2>1
<1>3. \A i \in Nat : Has(r, i, p, "attach") /\ ~on =>
        \E k \in Nat : i < k /\ Has(r, k, p, "detach")
  <2> SUFFICES ASSUME NEW i \in Nat, Has(r, i, p, "attach"), ~on
               PROVE  \E k \in Nat : i < k /\ Has(r, k, p, "detach")
    OBVIOUS
  <2>1. PICK k \in Nat : i + 1 < k /\ Has(q, k, p, "detach")
    BY <1>1 DEF TakesTurns
  <2> QED
    BY <1>1, <2>1
<1>4. Once(less, p)
  BY DEF Once, InList
<1> QED
  BY <1>2, <1>3, <1>4 DEF TakesTurns, Once, InList, r

\* A registered process stays so when the head of the queue is taken: only an
\* earlier process's PROC_DETACH comes before its PROC_ATTACH.
LEMMA NoneLeavesTail ==
  ASSUME NEW p, NEW q \in Seq(Message), q # <<>>, NoneLeaves(p, q)
  PROVE  /\ NoneLeaves(p, Tail(q))
         /\ Head(q) = <<p, "detach">> => \E j \in Nat : Has(Tail(q), j, p, "attach")
<1> DEFINE r == Tail(q)
<1>1. /\ \A i \in Nat : \A w : Has(r, i, p, w) <=> i # 0 /\ Has(q, i + 1, p, w)
      /\ \A i \in Nat : Has(q, i, p, "attach") /\ i > 1 => i - 1 \in Nat /\ Has(r, i - 1, p, "attach")
  BY HasTail
<1>2. Head(q) = <<p, "detach">> => Has(q, 1, p, "detach")
  BY HeadTailProperties DEF Has
<1> HIDE DEF r
<1>3. NoneLeaves(p, r)
  <2> SUFFICES ASSUME NEW i \in Nat, Has(r, i, p, "detach")
               PROVE  \E j \in Nat : i < j /\ Has(r, j, p, "attach")
    BY DEF NoneLeaves
  <2>1. PICK j \in Nat : i + 1 < j /\ Has(q, j, p, "attach")
    BY <1>1 DEF NoneLeaves
  <2> QED
    BY <1>1, <2>1
<1>4. Head(q) = <<p, "detach">> => \E j \in Nat : Has(r, j, p, "attach")
  <2> SUFFICES ASSUME Head(q) = <<p, "detach">> PROVE \E j \in Nat : Has(r, j, p, "attach")
    OBVIOUS
  <2>1. PICK j \in Nat : 1 < j /\ Has(q, j, p, "attach")
    BY <1>2 DEF NoneLeaves
  <2> QED
    BY <1>1, <2>1
<1> QED
  BY <1>3, <1>4 DEF r

-----------------------------------------------------------------------------
(* The list.                                                               *)

\* Adding a number changes nothing for the others.
LEMMA AddOthers ==
  ASSUME NEW list \in Seq(Pids), NEW p \in Pids, NEW r, r # p
  PROVE  /\ InList(Append(list, p), r) <=> InList(list, r)
         /\ Once(list, r) => Once(Append(list, p), r)
  BY ListsAppend DEF InList, Once

Less(list, p) ==
  LET found == {i \in 1 .. Len(list) : list[i] = p}
  IN  IF found = {} THEN list ELSE RemoveAt(list, Min(found))

\* RemoveProcess takes the number off, and no other.
LEMMA RemoveOthers ==
  ASSUME NEW list \in Seq(Pids), NEW p
  PROVE  /\ Less(list, p) \in Seq(Pids)
         /\ Once(list, p) => ~InList(Less(list, p), p)
         /\ \A r : r # p => /\ InList(Less(list, p), r) <=> InList(list, r)
                            /\ Once(list, r) => Once(Less(list, p), r)
<1> DEFINE found == {i \in 1 .. Len(list) : list[i] = p}
<1>1. CASE found = {}
  <2>1. Less(list, p) = list
    BY <1>1 DEF Less
  <2>2. ~InList(list, p)
    BY <1>1 DEF InList, Lists
  <2> QED
    BY <2>1, <2>2
<1>2. CASE found # {}
  <2> DEFINE n == Min(found)
             less == RemoveAt(list, n)
  <2>1. n \in found
    <3>1. found \subseteq Nat
      OBVIOUS
    <3> HIDE DEF found
    <3> QED
      BY <1>2, <3>1, FirstPlace
  <2>2. n \in 1 .. Len(list) /\ n \in Nat /\ Lists(list, n, p)
    BY <2>1, LenProperties DEF Lists
  <2>3. Less(list, p) = less
    BY <1>2 DEF Less
  <2> HIDE DEF found, n
  <2>4. /\ less \in Seq(Pids)
        /\ \A i \in Nat : \A r : Lists(less, i, r)
              <=> IF i < n THEN Lists(list, i, r) ELSE i # 0 /\ Lists(list, i + 1, r)
    BY <2>2, ListsRemoveAt
  <2> HIDE DEF less
  <2>5. ASSUME Once(list, p) PROVE ~InList(less, p)
    <3>1. \A i \in Nat : Lists(list, i, p) => i = n
      BY <2>2, <2>5 DEF Once
    <3>2. \A i \in Nat : ~Lists(less, i, p)
      BY <2>2, <2>4, <3>1
    <3> QED
      BY <3>2 DEF InList
  <2>6. ASSUME NEW r, r # p
        PROVE  /\ InList(less, r) <=> InList(list, r)
               /\ Once(list, r) => Once(less, r)
    <3>1. ~Lists(list, n, r)
      BY <2>2, <2>6 DEF Lists
    <3>2. ASSUME NEW i \in Nat, Lists(list, i, r) PROVE InList(less, r)
      <4>1. CASE i < n
        BY <2>4, <3>2, <4>1 DEF InList
      <4>2. CASE i > n
        <5>1. i - 1 \in Nat /\ ~(i - 1 < n) /\ i - 1 # 0 /\ i - 1 + 1 = i
          BY <2>2, <4>2
        <5>2. Lists(less, i - 1, r)
          BY <2>4, <3>2, <5>1
        <5> QED
          BY <5>1, <5>2 DEF InList
      <4> QED
        BY <2>2, <3>1, <3>2, <4>1, <4>2
    <3>3. InList(less, r) => InList(list, r)
      BY <2>4 DEF InList
    <3>4. Once(list, r) => Once(less, r)
      <4> SUFFICES ASSUME Once(list, r), NEW i \in Nat, NEW j \in Nat,
                          Lists(less, i, r), Lists(less, j, r)
                   PROVE  i = j
        BY DEF Once
      <4>1. Lists(list, IF i < n THEN i ELSE i + 1, r) /\ Lists(list, IF j < n THEN j ELSE j + 1, r)
        BY <2>4
      <4>2. (IF i < n THEN i ELSE i + 1) = (IF j < n THEN j ELSE j + 1)
        BY <4>1 DEF Once
      <4> QED
        BY <2>2, <4>2
    <3> QED
      BY <3>2, <3>3, <3>4 DEF InList
  <2> QED
    BY <2>3, <2>4, <2>5, <2>6
<1> QED
  BY <1>1, <1>2

-----------------------------------------------------------------------------
(* The invariant.                                                          *)

\* The invariant holds initially.
LEMMA InitIInv == Init => IInv
<1> SUFFICES ASSUME Init PROVE IInv
  OBVIOUS
<1>1. <<>> \in Seq(Message) /\ <<>> \in Seq(Pids)
  OBVIOUS
<1>2. Types
  BY <1>1 DEF Init, Types
<1> QED
  BY <1>2, TurnsEmpty DEF Init, IInv

\* The messages of the queue and the places of the list, for a step that leaves
\* the processes alone and changes the queue only by what registers nobody.
LEMMA OtherMessage ==
  ASSUME IInv, NEW m \in Message, m[2] \notin {"attach", "detach"},
         agentQue' \in {agentQue, Append(agentQue, m)},
         run, run', UNCHANGED <<clientVars, parent_proc>>
  PROVE  IInv'
<1>1. \A p : m # <<p, "attach">> /\ m # <<p, "detach">>
  OBVIOUS
<1>2. agentQue \in Seq(Message) /\ \A p \in Pids : On(p) \in BOOLEAN
  BY DEF IInv, Types, On
<1>3. agentQue' \in Seq(Message)
  BY <1>2
<1>4. ASSUME NEW p \in Pids
      PROVE  /\ TakesTurns(p, agentQue, parent_proc, On(p)) =>
                   TakesTurns(p, agentQue', parent_proc, On(p))
             /\ NoneLeaves(p, agentQue) => NoneLeaves(p, agentQue')
  <2>1. CASE agentQue' = agentQue
    BY <2>1
  <2>2. CASE agentQue' = Append(agentQue, m)
    BY <1>1, <1>2, <2>2, TurnsAppend
  <2> QED
    BY <2>1, <2>2
<1>5. Types'
  BY <1>3 DEF IInv, Types, clientVars
<1>6. proc' = proc /\ lib' = lib /\ died' = died /\ parent_proc' = parent_proc
  BY DEF clientVars
<1>7. \A p \in Pids : On(p)' = On(p)
  BY <1>6 DEF On
<1>8. \A p \in Pids : proc'[p] = "lives" /\ lib'[p] # "unset" => NoneLeaves(p, agentQue')
  BY <1>4, <1>6, Zenon DEF IInv
<1>9. \A p \in Pids \ died' : TakesTurns(p, agentQue', parent_proc', On(p)')
  <2> TAKE p \in Pids \ died'
  <2>1. p \in Pids /\ p \in Pids \ died
    BY <1>6
  <2>3. TakesTurns(p, agentQue, parent_proc, On(p))
    BY <2>1, Zenon DEF IInv
  <2>2. TakesTurns(p, agentQue', parent_proc, On(p))
    BY <1>4, <2>1, <2>3, Zenon
  <2> QED
    BY <1>6, <1>7, <2>1, <2>2, Zenon
<1>10. /\ ~run' => agentQue' = <<>> /\ parent_proc' = <<>>
       /\ \A p \in Pids : proc'[p] = "none" => lib'[p] = "unset"
  BY <1>6 DEF IInv
<1> QED
  BY <1>5, <1>8, <1>9, <1>10, Zenon DEF IInv

\* A step of one process, while the agent runs: the others keep their turns.
LEMMA ProcessStep ==
  ASSUME IInv, Types', NEW p \in Pids,
         \A r \in Pids \ {p} : proc'[r] = proc[r] /\ lib'[r] = lib[r],
         died' \in {died, died \cup {p}}, run', parent_proc' = parent_proc,
         NEW w \in {"attach", "detach", "update", "ask"},
         agentQue' \in {agentQue, Append(agentQue, <<p, w>>)},
         proc'[p] = "none" => lib'[p] = "unset",
         proc'[p] = "lives" /\ lib'[p] # "unset" => NoneLeaves(p, agentQue'),
         p \notin died' => TakesTurns(p, agentQue', parent_proc, On(p)')
  PROVE  IInv'
<1>1. /\ agentQue \in Seq(Message) /\ <<p, w>> \in Message
      /\ \A r \in Pids : On(r) \in BOOLEAN
  BY DEF IInv, Types, On, Message
<1>2. ASSUME NEW r \in Pids \ {p}
      PROVE  /\ TakesTurns(r, agentQue, parent_proc, On(r)) =>
                   TakesTurns(r, agentQue', parent_proc, On(r))
             /\ NoneLeaves(r, agentQue) => NoneLeaves(r, agentQue')
  <2>1. <<p, w>> # <<r, "attach">> /\ <<p, w>> # <<r, "detach">>
    BY <1>2
  <2>2. CASE agentQue' = agentQue
    BY <2>2
  <2>3. CASE agentQue' = Append(agentQue, <<p, w>>)
    BY <1>1, <2>1, <2>3, TurnsAppend
  <2> QED
    BY <2>2, <2>3
<1>3. ASSUME NEW r \in Pids
      PROVE  /\ proc'[r] = "none" => lib'[r] = "unset"
             /\ proc'[r] = "lives" /\ lib'[r] # "unset" => NoneLeaves(r, agentQue')
  <2>1. CASE r = p
    BY <2>1, Zenon
  <2>2. CASE r # p
    <3>1. proc'[r] = proc[r] /\ lib'[r] = lib[r] /\ r \in Pids \ {p}
      BY <2>2
    <3> QED
      BY <1>2, <3>1, Zenon DEF IInv
  <2> QED
    BY <2>1, <2>2
<1>4. ASSUME NEW r \in Pids \ died'
      PROVE  TakesTurns(r, agentQue', parent_proc', On(r)')
  <2>1. CASE r = p
    BY <1>4, <2>1, Zenon
  <2>2. CASE r # p
    <3>1. On(r)' = On(r) /\ r \in Pids \ {p} /\ r \in Pids \ died
      BY <1>4, <2>2 DEF On
    <3>2. TakesTurns(r, agentQue, parent_proc, On(r))
      BY <3>1, Zenon DEF IInv
    <3>3. TakesTurns(r, agentQue', parent_proc, On(r))
      BY <1>2, <3>1, <3>2, Zenon
    <3> QED
      BY <3>1, <3>3, Zenon
  <2> QED
    BY <2>1, <2>2
<1> QED
  BY <1>3, <1>4, Zenon DEF IInv

\* A step behind which queue and list are empty.
LEMMA EmptyStep ==
  ASSUME Types', agentQue' = <<>>, parent_proc' = <<>>,
         \A p \in Pids : proc'[p] = "none" => lib'[p] = "unset"
  PROVE  IInv'
<1>1. ASSUME NEW p \in Pids
      PROVE  TakesTurns(p, agentQue', parent_proc', On(p)') /\ NoneLeaves(p, agentQue')
  BY TurnsEmpty
<1> QED
  BY <1>1, Zenon DEF IInv

\* The head of the queue is handled.
LEMMA TakeStep ==
  ASSUME IInv, Take
  PROVE  IInv'
<1> DEFINE p == Head(agentQue)[1]
           m == Head(agentQue)[2]
<1>1. /\ agentQue \in Seq(Message) /\ agentQue # <<>> /\ parent_proc \in Seq(Pids)
      /\ Head(agentQue) \in Message /\ Tail(agentQue) \in Seq(Message)
  BY HeadTailProperties DEF IInv, Types, Take
<1>2. Head(agentQue) = <<p, m>> /\ (m \in {"attach", "detach"} => p \in Pids)
  BY <1>1 DEF Message
<1>3. \A r \in Pids : On(r) \in BOOLEAN
  BY DEF On
<1> HIDE DEF p, m
<1>4. CASE Deinit
  <2>1. <<>> \in Seq(Message) /\ <<>> \in Seq(Pids)
    OBVIOUS
  <2>2. /\ proc' = proc /\ died' = died /\ run' = FALSE
        /\ agentQue' = <<>> /\ parent_proc' = <<>>
        /\ lib' = [r \in Pids |-> IF lib[r] = "set" THEN "stale" ELSE lib[r]]
    BY <1>4 DEF Deinit
  <2>3. lib' \in [Pids -> {"unset", "set", "stale"}]
    BY <2>2 DEF IInv, Types
  <2>4. Types'
    BY <2>1, <2>2, <2>3 DEF IInv, Types
  <2>5. \A r \in Pids : proc'[r] = "none" => lib'[r] = "unset"
    BY <2>2 DEF IInv, Types
  <2> QED
    BY <2>2, <2>4, <2>5, EmptyStep
<1>5. CASE ~Deinit
  <2>1. /\ run /\ agentQue' = Tail(agentQue)
        /\ proc' = proc /\ lib' = lib /\ died' = died /\ run' = run
    BY <1>5 DEF Take, clientVars
  <2>2. \/ m = "attach" /\ parent_proc' = Append(parent_proc, p)
        \/ m = "detach" /\ parent_proc' = Less(parent_proc, p)
        \/ m \notin {"attach", "detach"} /\ parent_proc' = parent_proc
    BY <1>5 DEF Take, AddProcess, RemoveProcess, OnRequest, OnEvent, Less, p, m
  <2>3. parent_proc' \in Seq(Pids)
    BY <1>1, <1>2, <2>2, ListsAppend, RemoveOthers
  <2>4. Types'
    BY <1>1, <2>1, <2>3 DEF IInv, Types
  <2>5. ASSUME NEW r \in Pids, NoneLeaves(r, agentQue)
        PROVE  NoneLeaves(r, agentQue')
    BY <1>1, <2>1, <2>5, NoneLeavesTail
  <2>6. ASSUME NEW r \in Pids, NEW on \in BOOLEAN, TakesTurns(r, agentQue, parent_proc, on)
        PROVE  TakesTurns(r, agentQue', parent_proc', on)
    <3>1. Once(parent_proc, r)
      BY <2>6 DEF TakesTurns, Once
    <3>2. CASE r = p /\ m = "attach"
      BY <1>1, <1>2, <2>1, <2>2, <2>6, <3>2, TurnsAdd
    <3>3. CASE r = p /\ m = "detach"
      <4>1. ~InList(parent_proc', r)
        BY <1>1, <2>2, <3>1, <3>3, RemoveOthers
      <4> QED
        BY <1>1, <1>2, <2>1, <2>6, <3>3, <4>1, TurnsRemove
    <3>4. CASE ~(r = p /\ m \in {"attach", "detach"})
      <4>1. Head(agentQue) # <<r, "attach">> /\ Head(agentQue) # <<r, "detach">>
        BY <1>2, <3>4
      <4>2. TakesTurns(r, Tail(agentQue), parent_proc, on)
        BY <1>1, <2>6, <4>1, TurnsTail
      <4>3. Once(parent_proc', r) /\ (InList(parent_proc', r) <=> InList(parent_proc, r))
        <5>1. CASE m = "attach" /\ parent_proc' = Append(parent_proc, p)
          BY <1>1, <1>2, <3>1, <3>4, <5>1, AddOthers
        <5>2. CASE m = "detach" /\ parent_proc' = Less(parent_proc, p)
          BY <1>1, <3>1, <3>4, <5>2, RemoveOthers
        <5>3. CASE parent_proc' = parent_proc
          BY <3>1, <5>3
        <5> QED
          BY <2>2, <5>1, <5>2, <5>3
      <4> QED
        BY <2>1, <4>2, <4>3, TurnsList
    <3> QED
      BY <3>2, <3>3, <3>4
  <2>7. ASSUME NEW r \in Pids \ died'
        PROVE  TakesTurns(r, agentQue', parent_proc', On(r)')
    <3>1. On(r)' = On(r) /\ r \in Pids \ died /\ On(r) \in BOOLEAN
      BY <1>3, <2>1, <2>7 DEF On
    <3>2. TakesTurns(r, agentQue, parent_proc, On(r))
      BY <3>1, Zenon DEF IInv
    <3>3. TakesTurns(r, agentQue', parent_proc', On(r))
      BY <2>6, <3>1, <3>2, Zenon
    <3> QED
      BY <3>1, <3>3, Zenon
  <2>8. ASSUME NEW r \in Pids
        PROVE  /\ proc'[r] = "none" => lib'[r] = "unset"
               /\ proc'[r] = "lives" /\ lib'[r] # "unset" => NoneLeaves(r, agentQue')
    BY <2>1, <2>5, Zenon DEF IInv
  <2> QED
    BY <2>1, <2>4, <2>7, <2>8, Zenon DEF IInv
<1> QED
  BY <1>4, <1>5

\* A step that concerns neither processes nor queue nor list.
LEMMA StillStep ==
  ASSUME IInv, UNCHANGED <<proc, lib, died, agentQue, parent_proc, run>>
  PROVE  IInv'
<1>1. Types'
  BY DEF IInv, Types
<1>2. \A p \in Pids : On(p)' = On(p)
  BY DEF On
<1>3. ASSUME NEW p \in Pids \ died'
      PROVE  TakesTurns(p, agentQue', parent_proc', On(p)')
  <2>1. p \in Pids \ died /\ agentQue' = agentQue /\ parent_proc' = parent_proc
    OBVIOUS
  <2>2. TakesTurns(p, agentQue, parent_proc, On(p))
    BY <2>1, Zenon DEF IInv
  <2> QED
    BY <1>2, <2>1, <2>2, Zenon
<1>4. /\ ~run' => agentQue' = <<>> /\ parent_proc' = <<>>
      /\ \A p \in Pids : proc'[p] = "none" => lib'[p] = "unset"
  BY DEF IInv
<1>5. ASSUME NEW p \in Pids, proc'[p] = "lives", lib'[p] # "unset"
      PROVE  NoneLeaves(p, agentQue')
  <2>1. proc[p] = "lives" /\ lib[p] # "unset" /\ agentQue' = agentQue
    BY <1>5
  <2> QED
    BY <2>1, Zenon DEF IInv
<1> QED
  BY <1>1, <1>3, <1>4, <1>5, Zenon DEF IInv

\* A process that is not registered, and will not be by this step, and whose
\* number the step adds nothing to the queue for.
LEMMA OffStep ==
  ASSUME IInv, Types', NEW p \in Pids, run',
         \A r \in Pids \ {p} : proc'[r] = proc[r] /\ lib'[r] = lib[r],
         died' \in {died, died \cup {p}},
         p \notin died' => lib[p] = "unset" \/ proc[p] # "lives",
         lib'[p] = "unset", parent_proc' = parent_proc, agentQue' = agentQue
  PROVE  IInv'
<1>1. On(p)' = FALSE
  BY DEF On
<1>2. ASSUME p \notin died' PROVE TakesTurns(p, agentQue', parent_proc, On(p)')
  <2>1. On(p) = FALSE /\ p \in Pids \ died
    BY <1>2 DEF On
  <2>2. TakesTurns(p, agentQue, parent_proc, On(p))
    BY <2>1, Zenon DEF IInv
  <2> QED
    BY <1>1, <2>1, <2>2, Zenon
<1> QED
  BY <1>2, ProcessStep

\* What one process does while the agent runs.
LEMMA ClientStep ==
  ASSUME IInv, run, NEW p \in Pids,
         \/ Come(p) \/ SetEventMask(p) \/ WriteMsgQueue(p)
         \/ WaitEvent(p) \/ Detach(p) \/ Drain(p) \/ Die(p)
  PROVE  IInv'
<1>1. /\ proc \in [Pids -> {"none", "lives", "leaves"}]
      /\ lib \in [Pids -> {"unset", "set", "stale"}]
      /\ agentQue \in Seq(Message) /\ parent_proc \in Seq(Pids) /\ died \subseteq Pids
  BY DEF IInv, Types
<1>2. \A w \in {"attach", "detach", "update", "ask"} :
        <<p, w>> \in Message /\ Append(agentQue, <<p, w>>) \in Seq(Message)
  BY <1>1 DEF Message
<1>3. CASE Come(p)
  <2>1. Types' /\ lib'[p] = "unset" /\ lib[p] = "unset"
    BY <1>1, <1>3 DEF IInv, Types, Come
  <2> QED
    BY <1>1, <1>3, <2>1, OffStep DEF Come
<1>4. CASE SetEventMask(p) /\ lib[p] = "unset"
  <2>1. /\ agentQue' = Append(agentQue, <<p, "attach">>) /\ proc[p] = "lives"
        /\ lib' = [lib EXCEPT ![p] = "set"]
        /\ proc' = proc /\ died' = died /\ parent_proc' = parent_proc /\ run' = run
    BY <1>4 DEF SetEventMask, Post
  <2>2. Types'
    BY <1>1, <1>2, <2>1 DEF Types
  <2>3. On(p) = FALSE /\ On(p)' = TRUE
    BY <1>1, <1>4, <2>1 DEF On
  <2>4. NoneLeaves(p, agentQue')
    BY <1>1, <1>2, <2>1, TurnsAttach
  <2>5. ASSUME p \notin died' PROVE TakesTurns(p, agentQue', parent_proc, On(p)')
    <3>1. p \in Pids \ died
      BY <2>1, <2>5
    <3>2. TakesTurns(p, agentQue, parent_proc, FALSE)
      BY <2>3, <3>1, Zenon DEF IInv
    <3>3. TakesTurns(p, agentQue', parent_proc, TRUE)
      BY <1>1, <1>2, <2>1, <3>2, TurnsAttach
    <3> QED
      BY <2>3, <3>3, Zenon
  <2>6. \A r \in Pids \ {p} : proc'[r] = proc[r] /\ lib'[r] = lib[r]
    BY <1>1, <2>1
  <2> QED
    BY <2>1, <2>2, <2>4, <2>5, <2>6, ProcessStep
<1>5. CASE SetEventMask(p) /\ lib[p] # "unset"
  <2>1. lib' = lib
    BY <1>1, <1>5 DEF SetEventMask
  <2> QED
    BY <1>2, <1>5, <2>1, OtherMessage DEF SetEventMask, Post, clientVars
<1>6. CASE WriteMsgQueue(p)
  BY <1>2, <1>6, OtherMessage DEF WriteMsgQueue, Post
<1>7. CASE WaitEvent(p)
  BY <1>7, StillStep DEF WaitEvent, clientVars
<1>8. CASE Detach(p) /\ lib[p] = "unset"
  <2>1. Types'
    BY <1>1, <1>8 DEF IInv, Types, Detach
  <2> QED
    BY <1>1, <1>8, <2>1, OffStep DEF Detach
<1>9. CASE Detach(p) /\ lib[p] # "unset"
  <2>1. /\ agentQue' = Append(agentQue, <<p, "detach">>)
        /\ proc' = [proc EXCEPT ![p] = "leaves"]
        /\ lib' = lib /\ died' = died /\ parent_proc' = parent_proc /\ run' = run
    BY <1>9 DEF Detach, Post
  <2>2. Types' /\ proc'[p] = "leaves"
    BY <1>1, <1>2, <2>1 DEF Types
  <2>3. On(p) \in BOOLEAN /\ On(p)' \in BOOLEAN
    BY DEF On
  <2>4. ASSUME p \notin died' PROVE TakesTurns(p, agentQue', parent_proc, On(p)')
    <3>1. p \in Pids \ died
      BY <2>1, <2>4
    <3>2. TakesTurns(p, agentQue, parent_proc, On(p))
      BY <3>1, Zenon DEF IInv
    <3> QED
      BY <1>1, <1>2, <2>1, <2>3, <3>2, TurnsDetach
  <2>5. \A r \in Pids \ {p} : proc'[r] = proc[r] /\ lib'[r] = lib[r]
    BY <1>1, <2>1
  <2> QED
    BY <2>1, <2>2, <2>4, <2>5, ProcessStep
<1>10. CASE Drain(p)
  <2>1. Types'
    BY <1>1, <1>10 DEF IInv, Types, Drain
  <2> QED
    BY <1>1, <1>10, <2>1, OffStep DEF Drain
<1>11. CASE Die(p)
  <2>1. Types'
    BY <1>1, <1>11 DEF IInv, Types, Die
  <2> QED
    BY <1>1, <1>11, <2>1, OffStep DEF Die
<1> QED
  BY <1>3, <1>4, <1>5, <1>6, <1>7, <1>8, <1>9, <1>10, <1>11

\* What one process does while the agent does not run: its messages are lost.
LEMMA ClientAlone ==
  ASSUME IInv, ~run, NEW p \in Pids,
         \/ Come(p) \/ SetEventMask(p) \/ WriteMsgQueue(p)
         \/ WaitEvent(p) \/ Detach(p) \/ Drain(p) \/ Die(p)
  PROVE  IInv'
<1>1. /\ proc \in [Pids -> {"none", "lives", "leaves"}]
      /\ lib \in [Pids -> {"unset", "set", "stale"}]
      /\ agentQue \in Seq(Message) /\ parent_proc \in Seq(Pids) /\ died \subseteq Pids
      /\ agentQue = <<>> /\ parent_proc = <<>>
  BY DEF IInv, Types
<1>2. agentQue' = agentQue /\ parent_proc' = parent_proc /\ run' = run
  BY DEF Come, SetEventMask, WriteMsgQueue, WaitEvent, Detach, Drain, Die, Post, clientVars
<1>3. /\ proc' \in [Pids -> {"none", "lives", "leaves"}]
      /\ lib' \in [Pids -> {"unset", "set", "stale"}]
      /\ died' \subseteq Pids
  BY <1>1 DEF Come, SetEventMask, WriteMsgQueue, WaitEvent, Detach, Drain, Die, clientVars
<1>4. \A r \in Pids : proc'[r] = "none" => lib'[r] = "unset"
  BY <1>1 DEF IInv, Come, SetEventMask, WriteMsgQueue, WaitEvent, Detach, Drain, Die, clientVars
<1>5. Types'
  BY <1>1, <1>2, <1>3 DEF IInv, Types
<1> QED
  BY <1>1, <1>2, <1>4, <1>5, EmptyStep

\* Every step keeps it.
LEMMA NextIInv == IInv /\ [Next]_vars => IInv'
<1> SUFFICES ASSUME IInv, [Next]_vars PROVE IInv'
  OBVIOUS
<1>1. CASE UNCHANGED vars
  BY <1>1, StillStep DEF vars, clientVars
<1>2. CASE \E p \in Pids : \/ Come(p) \/ SetEventMask(p) \/ WriteMsgQueue(p)
                           \/ WaitEvent(p) \/ Detach(p) \/ Drain(p) \/ Die(p)
  BY <1>2, ClientStep, ClientAlone
<1>3. CASE Take
  BY <1>3, TakeStep
<1>4. \A w \in {"event", "stop"} : <<LOOP, w>> \in Message
  BY DEF Message
<1>5. CASE Send
  <2>1. CASE agentQue' = agentQue
    BY <1>5, <2>1, StillStep DEF Send, clientVars
  <2>2. CASE agentQue' = Append(agentQue, <<LOOP, "event">>)
    BY <1>4, <1>5, <2>2, OtherMessage DEF Send
  <2> QED
    BY <1>5, <2>1, <2>2 DEF Send
<1>6. CASE Tick \/ Stop
  <2>1. PICK w \in {"event", "stop"} : Interrupt(w)
    BY <1>6 DEF Tick, Stop
  <2> QED
    BY <1>4, <2>1, OtherMessage DEF Interrupt
<1>7. CASE SerRxThread
  BY <1>4, <1>7, OtherMessage DEF SerRxThread, Post
<1>8. CASE Killed \/ Start
  <2>1. agentQue' = <<>> /\ parent_proc' = <<>> /\ proc' = proc /\ lib' = lib
    BY <1>8 DEF IInv, Killed, Start, clientVars
  <2>2. <<>> \in Seq(Message) /\ <<>> \in Seq(Pids)
    OBVIOUS
  <2>3. died' \subseteq Pids /\ run' \in BOOLEAN
    BY <1>8 DEF IInv, Types, Killed, Start, clientVars
  <2>4. Types' /\ \A p \in Pids : proc'[p] = "none" => lib'[p] = "unset"
    BY <2>1, <2>2, <2>3 DEF IInv, Types
  <2> QED
    BY <2>1, <2>4, EmptyStep
<1> QED
  BY <1>1, <1>2, <1>3, <1>5, <1>6, <1>7, <1>8 DEF Next

\* The turns of registering and leaving hold in every reachable state.
THEOREM MailInvariance == Spec => []IInv
  BY InitIInv, NextIInv, PTL DEF Spec

-----------------------------------------------------------------------------
(* The properties.                                                         *)

\* What is in the queue has a place there.
LEMMA QueuedPlace ==
  ASSUME NEW q \in Seq(Message), NEW p, NEW w
  PROVE  <<p, w>> \in Range(q) <=> \E i \in Nat : Has(q, i, p, w)
<1>1. DOMAIN q = 1 .. Len(q) /\ Len(q) \in Nat
  BY LenProperties
<1> QED
  BY <1>1 DEF Range, Has

\* And what is in the list has one in the list.
LEMMA RegisteredPlace ==
  ASSUME NEW p
  PROVE  /\ Registered(p) # {} <=> InList(parent_proc, p)
         /\ \A i : i \in Registered(p) => i \in Nat /\ Lists(parent_proc, i, p)
  BY DEF Registered, InList, Lists

\* While processes end through _detach, the list holds every number once, and no
\* number whose process is gone for good (see RegisteredOnce).
THEOREM OnceIsKept == Spec => []RegisteredOnce
<1>1. ASSUME IInv, NEW p \in Pids \ died, Registered(p) # {}
      PROVE  /\ Cardinality(Registered(p)) = 1
             /\ proc[p] = "lives" \/ IsQueued(p, "detach")
  <2>1. TakesTurns(p, agentQue, parent_proc, On(p))
    BY <1>1, Zenon DEF IInv
  <2>2. \A i, j \in Registered(p) : i = j
    BY <2>1, RegisteredPlace DEF TakesTurns
  <2>3. PICK i \in Registered(p) : Registered(p) = {i}
    BY <1>1, <2>2
  <2>4. Cardinality(Registered(p)) = 1
    BY <2>3, FS_Singleton
  <2>5. CASE On(p)
    BY <2>4, <2>5 DEF On
  <2>6. CASE ~On(p)
    <3>1. InList(parent_proc, p)
      BY <1>1, RegisteredPlace
    <3>2. \E k \in Nat : Has(agentQue, k, p, "detach")
      BY <2>1, <2>6, <3>1, Zenon DEF TakesTurns
    <3>3. agentQue \in Seq(Message)
      BY <1>1 DEF IInv, Types
    <3> QED
      BY <2>4, <3>2, <3>3, QueuedPlace DEF IsQueued
  <2> QED
    BY <2>5, <2>6
<1>2. IInv => RegisteredOnce
  BY <1>1 DEF RegisteredOnce
<1> QED
  BY <1>2, MailInvariance, PTL

\* A registered process stays so when a message is taken from the queue.
LEMMA AttachedTake ==
  ASSUME IInv, Take, run', NEW p \in Pids, Attached(p)
  PROVE  Attached(p)'
<1> DEFINE h == Head(agentQue)[1]
           m == Head(agentQue)[2]
<1>1. /\ agentQue \in Seq(Message) /\ agentQue # <<>> /\ parent_proc \in Seq(Pids)
      /\ Head(agentQue) \in Message /\ Tail(agentQue) \in Seq(Message)
  BY HeadTailProperties DEF IInv, Types, Take
<1>2. Head(agentQue) = <<h, m>> /\ (m \in {"attach", "detach"} => h \in Pids)
  BY <1>1 DEF Message
<1>3. agentQue' = Tail(agentQue) /\ proc' = proc /\ lib' = lib
  BY DEF Take, Deinit, clientVars
<1>4. \/ m = "attach" /\ parent_proc' = Append(parent_proc, h)
      \/ m = "detach" /\ parent_proc' = Less(parent_proc, h)
      \/ m \notin {"attach", "detach"} /\ parent_proc' = parent_proc
  BY DEF Take, Deinit, AddProcess, RemoveProcess, OnRequest, OnEvent, Less
<1>5. proc[p] = "lives" /\ lib[p] # "unset"
  BY DEF Attached
<1>6. NoneLeaves(p, agentQue)
  BY <1>5, Zenon DEF IInv
<1>7. InList(parent_proc, p) \/ \E i \in Nat : Has(agentQue, i, p, "attach")
  BY <1>1, QueuedPlace, RegisteredPlace DEF Attached, IsQueued
<1> HIDE DEF h, m
<1>8. InList(parent_proc', p) \/ \E i \in Nat : Has(Tail(agentQue), i, p, "attach")
  <2>1. CASE Head(agentQue) = <<p, "detach">>
    BY <1>1, <1>6, <2>1, NoneLeavesTail
  <2>2. CASE Head(agentQue) = <<p, "attach">>
    <3>1. parent_proc' = Append(parent_proc, p) /\ Len(parent_proc) + 1 \in Nat
      BY <1>1, <1>2, <1>4, <2>2, LenProperties
    <3> QED
      BY <1>1, <3>1, ListsAppend DEF InList
  <2>3. CASE Head(agentQue) # <<p, "detach">> /\ Head(agentQue) # <<p, "attach">>
    <3>1. (\E i \in Nat : Has(agentQue, i, p, "attach")) =>
            \E i \in Nat : Has(Tail(agentQue), i, p, "attach")
      BY <1>1, <2>3, HasTail
    <3>2. InList(parent_proc, p) => InList(parent_proc', p)
      <4>1. CASE m = "attach" /\ parent_proc' = Append(parent_proc, h)
        BY <1>1, <1>2, <2>3, <4>1, AddOthers
      <4>2. CASE m = "detach" /\ parent_proc' = Less(parent_proc, h)
        BY <1>1, <1>2, <2>3, <4>2, RemoveOthers
      <4>3. CASE parent_proc' = parent_proc
        BY <4>3
      <4> QED
        BY <1>4, <4>1, <4>2, <4>3
    <3> QED
      BY <1>7, <3>1, <3>2
  <2> QED
    BY <2>1, <2>2, <2>3
<1>9. Registered(p)' # {} <=> InList(parent_proc', p)
  BY DEF Registered, InList, Lists
<1>10. IsQueued(p, "attach")' <=> \E i \in Nat : Has(Tail(agentQue), i, p, "attach")
  BY <1>1, <1>3, QueuedPlace DEF IsQueued
<1> QED
  BY <1>3, <1>5, <1>8, <1>9, <1>10 DEF Attached

\* Every other step leaves the list alone and takes nothing from the queue.
LEMMA AttachedStep ==
  ASSUME IInv, Next, run', NEW p \in Pids, Attached(p), proc'[p] = "lives"
  PROVE  Attached(p)'
<1>1. agentQue \in Seq(Message) /\ proc \in [Pids -> {"none", "lives", "leaves"}]
      /\ lib \in [Pids -> {"unset", "set", "stale"}]
  BY DEF IInv, Types
<1>2. CASE Take
  BY <1>2, AttachedTake
<1>3. CASE ~Take
  <2>1. parent_proc' = parent_proc
    BY <1>3 DEF Next, Come, SetEventMask, WriteMsgQueue, WaitEvent, Detach, Drain, Die,
                Send, Tick, Stop, Interrupt, SerRxThread, Killed, Start
  <2>2. agentQue' = agentQue \/ \E m \in Message : agentQue' = Append(agentQue, m)
    BY <1>3 DEF Next, Come, SetEventMask, WriteMsgQueue, WaitEvent, Detach, Drain, Die, Post,
                Send, Tick, Stop, Interrupt, SerRxThread, Killed, Start, clientVars, Message
  <2>3. lib'[p] # "unset"
    BY <1>1, <1>3 DEF Attached, Next, Come, SetEventMask, WriteMsgQueue, WaitEvent, Detach,
                Drain, Die, Send, Tick, Stop, Interrupt, SerRxThread, Killed, Start, clientVars
  <2>4. Registered(p)' = Registered(p)
    BY <2>1 DEF Registered
  <2>5. IsQueued(p, "attach") => IsQueued(p, "attach")'
    <3>1. CASE agentQue' = agentQue
      BY <3>1 DEF IsQueued
    <3>2. ASSUME NEW m \in Message, agentQue' = Append(agentQue, m)
          PROVE  IsQueued(p, "attach") => IsQueued(p, "attach")'
      BY <1>1, <3>2, HasAppend, QueuedPlace DEF IsQueued
    <3> QED
      BY <2>2, <3>1, <3>2
  <2> QED
    BY <2>3, <2>4, <2>5 DEF Attached
<1> QED
  BY <1>2, <1>3

\* A process that set its event mask while the agent ran is told of events until
\* it leaves or the agent ends, whatever other processes do (see RegistryKept).
THEOREM RegistryIsKept == Spec => RegistryKept
<1>1. IInv /\ [Next]_vars =>
        [\A p \in Pids : Attached(p) /\ run' /\ proc'[p] = "lives" => Attached(p)']_vars
  BY AttachedStep
<1> QED
  BY <1>1, MailInvariance, PTL DEF Spec, RegistryKept
=============================================================================
