------------------------- MODULE AtDispatcherProofs -------------------------
(***************************************************************************)
(* The dispatcher keeps its channel sound, for every set of commands,      *)
(* every choice of the handlers and every setting of the timers and        *)
(* bounds.  The inductive invariant is the type invariant with the four    *)
(* parts of Sound.  The module first says what the operators of CmdPool    *)
(* return, for every set of commands: what they keep, and where and how    *)
(* often the commands of some tags stand in the result; then what each     *)
(* operator of AtChannel preserves and changes.  The proof of a step       *)
(* composes the calls of its handler.                                      *)
(***************************************************************************)
EXTENDS AtDispatcher, SequenceTheorems, FiniteSetTheorems, WellFoundedInduction, TLAPS

-----------------------------------------------------------------------------
(* The operators of CmdPool.                                               *)

\* A set of positions has a least one.
LEMMA LeastPosition ==
  ASSUME NEW I, I \subseteq Nat, I # {}
  PROVE  Min(I) \in I /\ \A j \in I : Min(I) <= j
<1>1. PICK m \in I : \A j \in I : <<j, m>> \notin OpToRel(<, Nat)
  BY NatLessThanWellFounded, WFMin
<1>2. \A j \in I : ~(j < m)
  BY <1>1, Zenon DEF OpToRel
<1>3. \A j \in I : m <= j
  BY <1>2
<1> QED
  BY <1>3 DEF Min

\* The position of the entry that CmdPoolGet finds and CmdPoolDel removes.
Place(pool, tag) == SelectInSeq(pool, LAMBDA c : c.tag = tag)

\* It is the first one that carries the tag, if any does.
LEMMA PlaceProperties ==
  ASSUME NEW S, NEW pool \in Seq(S), NEW tag, tag \in PoolTags(pool)
  PROVE  /\ Place(pool, tag) \in 1 .. Len(pool)
         /\ pool[Place(pool, tag)].tag = tag
         /\ \A j \in 1 .. Place(pool, tag) - 1 : pool[j].tag # tag
<1> DEFINE I == {i \in 1 .. Len(pool) : pool[i].tag = tag}
<1>1. I \subseteq Nat /\ I # {}
  BY LenProperties DEF PoolTags
<1>2. Place(pool, tag) = Min(I)
  BY <1>1 DEF Place, SelectInSeq
<1>3. Min(I) \in I /\ \A j \in I : Min(I) <= j
  BY <1>1, LeastPosition
<1> HIDE DEF I
<1>4. \A i \in I : i \in 1 .. Len(pool) /\ pool[i].tag = tag
  BY DEF I
<1>5. \A j \in 1 .. Min(I) - 1 : pool[j].tag # tag
  BY <1>1, <1>3, <1>4, LenProperties DEF I
<1> QED
  BY <1>2, <1>3, <1>4, <1>5

\* CmdPoolDel removes one entry, of the tag, and leaves the order of the
\* others; without the tag it changes nothing.
THEOREM CmdPoolDelProperties ==
  ASSUME NEW S, NEW pool \in Seq(S), NEW tag
  PROVE  /\ CmdPoolDel(pool, tag) \in Seq(S)
         /\ tag \notin PoolTags(pool) => CmdPoolDel(pool, tag) = pool
         /\ tag \in PoolTags(pool) =>
              \E i \in 1 .. Len(pool) :
                /\ pool[i].tag = tag
                /\ \A j \in 1 .. i - 1 : pool[j].tag # tag
                /\ Len(CmdPoolDel(pool, tag)) = Len(pool) - 1
                /\ \A j \in 1 .. Len(pool) - 1 :
                     CmdPoolDel(pool, tag)[j] = IF j < i THEN pool[j] ELSE pool[j + 1]
<1>1. CASE tag \notin PoolTags(pool)
  BY <1>1, LenProperties DEF CmdPoolDel, RemoveFirstMatch, PoolTags
<1>2. CASE tag \in PoolTags(pool)
  <2> DEFINE i == Place(pool, tag)
             a == SubSeq(pool, 1, i - 1)
             b == SubSeq(pool, i + 1, Len(pool))
  <2>1. /\ i \in 1 .. Len(pool) /\ pool[i].tag = tag
        /\ \A j \in 1 .. i - 1 : pool[j].tag # tag
    BY <1>2, PlaceProperties
  <2>2. CmdPoolDel(pool, tag) = a \o b
    BY <1>2, LenProperties DEF CmdPoolDel, RemoveFirstMatch, RemoveAt, Place, PoolTags
  <2> HIDE DEF i
  <2>3. Len(pool) \in Nat /\ \A j \in 1 .. Len(pool) : pool[j] \in S
    BY LenProperties, ElementOfSeq
  <2>4. /\ a \in Seq(S) /\ Len(a) = i - 1
        /\ \A j \in 1 .. i - 1 : a[j] = pool[j]
    BY <2>1, <2>3, SubSeqProperties
  <2>5. /\ b \in Seq(S) /\ Len(b) = Len(pool) - i
        /\ \A j \in 1 .. Len(pool) - i : b[j] = pool[i + j]
    BY <2>1, <2>3, SubSeqProperties
  <2> HIDE DEF a, b
  <2>6. /\ a \o b \in Seq(S) /\ Len(a \o b) = Len(a) + Len(b)
        /\ \A j \in 1 .. Len(a) + Len(b) :
             (a \o b)[j] = IF j <= Len(a) THEN a[j] ELSE b[j - Len(a)]
    BY <2>4, <2>5, ConcatProperties
  <2>7. Len(a) + Len(b) = Len(pool) - 1
    BY <2>1, <2>3, <2>4, <2>5
  <2>8. ASSUME NEW j \in 1 .. Len(pool) - 1
        PROVE  (a \o b)[j] = IF j < i THEN pool[j] ELSE pool[j + 1]
    <3>1. CASE j < i
      BY <2>1, <2>3, <2>4, <2>6, <2>7, <3>1
    <3>2. CASE ~(j < i)
      <4>1. j - Len(a) \in 1 .. Len(pool) - i /\ i + (j - Len(a)) = j + 1 /\ ~(j <= Len(a))
        BY <2>1, <2>3, <2>4, <3>2
      <4> QED
        BY <2>5, <2>6, <2>7, <3>2, <4>1
    <3> QED
      BY <3>1, <3>2
  <2> QED
    BY <1>2, <2>1, <2>2, <2>6, <2>7, <2>8
<1> QED
  BY <1>1, <1>2

\* CmdPoolGet finds an entry of the pool with the tag it looks for.
LEMMA CmdPoolGetProperties ==
  ASSUME NEW S, NEW pool \in Seq(S), NEW tag, tag \in PoolTags(pool)
  PROVE  /\ CmdPoolGet(pool, tag) \in S /\ CmdPoolGet(pool, tag).tag = tag
         /\ CmdPoolGet(pool, tag) \in Range(pool)
<1>1. CmdPoolGet(pool, tag) = pool[Place(pool, tag)]
  BY DEF CmdPoolGet, Place
<1>2. CmdPoolGet(pool, tag) \in S /\ CmdPoolGet(pool, tag).tag = tag
  BY <1>1, PlaceProperties, ElementOfSeq
<1>3. Place(pool, tag) \in DOMAIN pool
  BY PlaceProperties
<1> QED
  BY <1>1, <1>2, <1>3 DEF Range

\* Queuing adds tags, at either end.
LEMMA PutProperties ==
  ASSUME NEW S, NEW pool \in Seq(S), NEW c \in S
  PROVE  /\ CmdPoolPut(pool, c) \in Seq(S) /\ CmdPoolPut(pool, c) # <<>>
         /\ CmdPoolPutHead(pool, c) \in Seq(S) /\ CmdPoolPutHead(pool, c) # <<>>
         /\ PoolTags(CmdPoolPut(pool, c)) = PoolTags(pool) \cup {c.tag}
         /\ PoolTags(CmdPoolPutHead(pool, c)) = PoolTags(pool) \cup {c.tag}
<1>1. /\ Append(pool, c) \in Seq(S) /\ Len(Append(pool, c)) = Len(pool) + 1
      /\ \A i \in 1 .. Len(pool) : Append(pool, c)[i] = pool[i]
      /\ Append(pool, c)[Len(pool) + 1] = c
  BY LenProperties
<1>2. <<c>> \in Seq(S) /\ Len(<<c>>) = 1 /\ <<c>>[1] = c
  OBVIOUS
<1>3. /\ <<c>> \o pool \in Seq(S) /\ Len(<<c>> \o pool) = Len(pool) + 1
      /\ (<<c>> \o pool)[1] = c
      /\ \A i \in 1 .. Len(pool) : (<<c>> \o pool)[i + 1] = pool[i]
  <2>1. \A i \in 1 .. 1 + Len(pool) :
          (<<c>> \o pool)[i] = IF i <= 1 THEN <<c>>[i] ELSE pool[i - 1]
    BY <1>2, ConcatProperties
  <2>2. Len(pool) \in Nat
    BY LenProperties
  <2> QED
    BY <1>2, <2>1, <2>2, ConcatProperties
<1>4. PoolTags(Append(pool, c)) = PoolTags(pool) \cup {c.tag}
  BY <1>1, LenProperties DEF PoolTags
<1>5. PoolTags(<<c>> \o pool) = PoolTags(pool) \cup {c.tag}
  <2> DEFINE q == <<c>> \o pool
  <2>1. q \in Seq(S) /\ Len(q) = Len(pool) + 1 /\ q[1] = c
        /\ \A i \in 1 .. Len(pool) : q[i + 1] = pool[i]
    BY <1>3
  <2> HIDE DEF q
  <2>2. Len(pool) \in Nat /\ DOMAIN q = 1 .. Len(pool) + 1 /\ DOMAIN pool = 1 .. Len(pool)
    BY <2>1, LenProperties
  <2>3. \A i \in DOMAIN pool : q[i + 1].tag = pool[i].tag /\ i + 1 \in DOMAIN q
    BY <2>1, <2>2
  <2>4. \A i \in DOMAIN q : i = 1 \/ (i - 1 \in DOMAIN pool /\ q[i] = pool[i - 1])
    BY <2>1, <2>2
  <2>5. PoolTags(q) \subseteq PoolTags(pool) \cup {c.tag}
    BY <2>1, <2>4 DEF PoolTags
  <2>6. PoolTags(pool) \cup {c.tag} \subseteq PoolTags(q)
    BY <2>1, <2>2, <2>3 DEF PoolTags
  <2> QED
    BY <2>5, <2>6 DEF q
<1> QED
  BY <1>1, <1>3, <1>4, <1>5, EmptySeq, LenProperties DEF CmdPoolPut, CmdPoolPutHead, Cons

\* So does queuing several commands in turn.
LEMMA ConcatTags ==
  ASSUME NEW S, NEW pool \in Seq(S), NEW cs \in Seq(S)
  PROVE  /\ pool \o cs \in Seq(S)
         /\ pool \o cs = <<>> <=> pool = <<>> /\ cs = <<>>
         /\ PoolTags(pool) \subseteq PoolTags(pool \o cs)
<1> DEFINE q == pool \o cs
<1>1. /\ q \in Seq(S) /\ Len(q) = Len(pool) + Len(cs)
      /\ \A i \in 1 .. Len(pool) + Len(cs) :
           q[i] = IF i <= Len(pool) THEN pool[i] ELSE cs[i - Len(pool)]
  BY ConcatProperties
<1>2. q = <<>> <=> pool = <<>> /\ cs = <<>>
  BY ConcatEqualIffEmpty
<1> HIDE DEF q
<1>3. Len(pool) \in Nat /\ Len(cs) \in Nat
      /\ DOMAIN q = 1 .. Len(q) /\ DOMAIN pool = 1 .. Len(pool)
  BY <1>1, LenProperties
<1>4. PoolTags(pool) \subseteq PoolTags(q)
  BY <1>1, <1>3 DEF PoolTags
<1> QED
  BY <1>1, <1>2, <1>4 DEF q

\* The head of a pool is one of its commands.
LEMMA HeadProperties ==
  ASSUME NEW S, NEW pool \in Seq(S), pool # <<>>
  PROVE  Head(pool) \in S /\ Head(pool).tag \in PoolTags(pool)
<1>1. Len(pool) \in Nat \ {0} /\ DOMAIN pool = 1 .. Len(pool)
  BY EmptySeq, LenProperties
<1>2. Head(pool) = pool[1]
  BY <1>1
<1> QED
  BY <1>1, <1>2, ElementOfSeq DEF PoolTags

-----------------------------------------------------------------------------
(* Where the commands of some tags stand in a pool.                         *)

\* Where the entries of a pool stand after the deletion, and where those of the
\* shorter pool stood before.
LEMMA DelPlaces ==
  ASSUME NEW S, NEW pool \in Seq(S), NEW tag, tag \in PoolTags(pool)
  PROVE  LET i == Place(pool, tag)
             d == CmdPoolDel(pool, tag)
         IN  /\ i \in 1 .. Len(pool) /\ pool[i].tag = tag /\ pool[i] = CmdPoolGet(pool, tag)
             /\ \A j \in 1 .. i - 1 : pool[j].tag # tag
             /\ d \in Seq(S) /\ Len(d) = Len(pool) - 1
             /\ \A j \in 1 .. i - 1 : j \in 1 .. Len(d) /\ d[j] = pool[j]
             /\ \A j \in i + 1 .. Len(pool) : j - 1 \in 1 .. Len(d) /\ d[j - 1] = pool[j]
             /\ \A j \in 1 .. Len(d) :
                  \/ j < i /\ d[j] = pool[j]
                  \/ j >= i /\ j + 1 \in 1 .. Len(pool) /\ d[j] = pool[j + 1]
<1> DEFINE i == Place(pool, tag)
           d == CmdPoolDel(pool, tag)
           n == Len(pool)
<1>1. /\ i \in 1 .. n /\ pool[i].tag = tag
      /\ \A j \in 1 .. i - 1 : pool[j].tag # tag
  BY PlaceProperties
<1>2. pool[i] = CmdPoolGet(pool, tag)
  BY DEF Place, CmdPoolGet
<1>3. PICK k \in 1 .. n :
        /\ pool[k].tag = tag
        /\ \A j \in 1 .. k - 1 : pool[j].tag # tag
        /\ Len(d) = n - 1
        /\ \A j \in 1 .. n - 1 : d[j] = IF j < k THEN pool[j] ELSE pool[j + 1]
  BY CmdPoolDelProperties
<1>4. d \in Seq(S) /\ n \in Nat
  BY CmdPoolDelProperties, LenProperties
<1> HIDE DEF i, d, n
<1>5. k = i
  BY <1>1, <1>3, <1>4
<1>6. \A j \in 1 .. i - 1 : j \in 1 .. Len(d) /\ d[j] = pool[j]
  BY <1>1, <1>3, <1>4, <1>5
<1>7. \A j \in i + 1 .. n : j - 1 \in 1 .. Len(d) /\ d[j - 1] = pool[j]
  <2> SUFFICES ASSUME NEW j \in i + 1 .. n
               PROVE  j - 1 \in 1 .. Len(d) /\ d[j - 1] = pool[j]
    OBVIOUS
  <2>1. j - 1 \in 1 .. n - 1 /\ ~(j - 1 < i) /\ (j - 1) + 1 = j
    BY <1>1, <1>4
  <2> QED
    BY <1>3, <1>5, <2>1
<1>8. \A j \in 1 .. Len(d) :
        \/ j < i /\ d[j] = pool[j]
        \/ j >= i /\ j + 1 \in 1 .. n /\ d[j] = pool[j + 1]
  BY <1>1, <1>3, <1>4, <1>5
<1> QED
  BY <1>1, <1>2, <1>3, <1>4, <1>6, <1>7, <1>8 DEF i, d, n

\* At most one command of the pool carries the tag.
Once(pool, tag) ==
  \A i, j \in DOMAIN pool : pool[i].tag = tag /\ pool[j].tag = tag => i = j

\* A deletion makes no second one.
LEMMA OnceDel ==
  ASSUME NEW S, NEW pool \in Seq(S), NEW tag, NEW t, Once(pool, tag)
  PROVE  Once(CmdPoolDel(pool, t), tag)
<1>1. CASE t \notin PoolTags(pool)
  BY <1>1, CmdPoolDelProperties
<1>2. CASE t \in PoolTags(pool)
  <2> DEFINE i == Place(pool, t)
             d == CmdPoolDel(pool, t)
  <2>1. /\ i \in 1 .. Len(pool) /\ d \in Seq(S)
        /\ \A j \in 1 .. Len(d) :
             \/ j < i /\ d[j] = pool[j]
             \/ j >= i /\ j + 1 \in 1 .. Len(pool) /\ d[j] = pool[j + 1]
    BY <1>2, DelPlaces
  <2> HIDE DEF i, d
  <2>2. DOMAIN d = 1 .. Len(d) /\ DOMAIN pool = 1 .. Len(pool)
        /\ Len(pool) \in Nat /\ Len(d) \in Nat
    BY <2>1, LenProperties
  <2> SUFFICES ASSUME NEW j \in DOMAIN d, NEW k \in DOMAIN d, d[j].tag = tag, d[k].tag = tag
               PROVE  j = k
    BY DEF Once, d
  <2> DEFINE from(m) == IF m < i THEN m ELSE m + 1
  <2>3. from(j) \in DOMAIN pool /\ d[j] = pool[from(j)]
    BY <2>1, <2>2
  <2>4. from(k) \in DOMAIN pool /\ d[k] = pool[from(k)]
    BY <2>1, <2>2
  <2>5. from(j) = from(k)
    BY <2>3, <2>4 DEF Once
  <2> QED
    BY <2>1, <2>2, <2>5
<1> QED
  BY <1>1, <1>2

\* Queuing commands of other tags makes none either; nor does queuing one where
\* there was none.
LEMMA OnceConcat ==
  ASSUME NEW S, NEW p \in Seq(S), NEW q \in Seq(S), NEW tag, Once(p, tag), Once(q, tag),
         tag \notin PoolTags(p) \/ tag \notin PoolTags(q)
  PROVE  Once(p \o q, tag)
<1>1. /\ p \o q \in Seq(S) /\ Len(p \o q) = Len(p) + Len(q)
      /\ \A i \in 1 .. Len(p) + Len(q) :
           (p \o q)[i] = IF i <= Len(p) THEN p[i] ELSE q[i - Len(p)]
  BY ConcatProperties
<1>2. /\ DOMAIN p = 1 .. Len(p) /\ DOMAIN q = 1 .. Len(q)
      /\ DOMAIN (p \o q) = 1 .. Len(p) + Len(q)
      /\ Len(p) \in Nat /\ Len(q) \in Nat
  BY <1>1, LenProperties
<1> SUFFICES ASSUME NEW i \in DOMAIN (p \o q), NEW j \in DOMAIN (p \o q),
                    (p \o q)[i].tag = tag, (p \o q)[j].tag = tag
             PROVE  i = j
  BY DEF Once
<1> DEFINE r == p \o q
<1> HIDE DEF r
<1>3. \A k \in DOMAIN r : \/ k \in DOMAIN p /\ r[k] = p[k]
                          \/ k > Len(p) /\ k - Len(p) \in DOMAIN q /\ r[k] = q[k - Len(p)]
  BY <1>1, <1>2 DEF r
<1>4. CASE i \in DOMAIN p /\ r[i] = p[i] /\ j \in DOMAIN p /\ r[j] = p[j]
  BY <1>4 DEF Once, r
<1>5. CASE /\ i > Len(p) /\ i - Len(p) \in DOMAIN q /\ r[i] = q[i - Len(p)]
           /\ j > Len(p) /\ j - Len(p) \in DOMAIN q /\ r[j] = q[j - Len(p)]
  <2>1. i - Len(p) = j - Len(p)
    BY <1>5 DEF Once, r
  <2> QED
    BY <1>2, <2>1
<1>6. ASSUME \E k \in DOMAIN p : p[k].tag = tag, \E k \in DOMAIN q : q[k].tag = tag
      PROVE  FALSE
  BY <1>6 DEF PoolTags
<1> QED
  BY <1>3, <1>4, <1>5, <1>6 DEF r

-----------------------------------------------------------------------------
(* One command stands before another.                                      *)

\* Every entry b of the pool stands somewhere behind an entry a.
Before(pool, a, b) == \A k \in DOMAIN pool : pool[k] = b => \E j \in 1 .. k - 1 : pool[j] = a

\* It stays so unless the deletion takes an a.
LEMMA BeforeDel ==
  ASSUME NEW S, NEW pool \in Seq(S), NEW tag, NEW a, NEW b, Before(pool, a, b),
         tag \in PoolTags(pool) => CmdPoolGet(pool, tag) # a
  PROVE  Before(CmdPoolDel(pool, tag), a, b)
<1>1. CASE tag \notin PoolTags(pool)
  BY <1>1, CmdPoolDelProperties
<1>2. CASE tag \in PoolTags(pool)
  <2> DEFINE i == Place(pool, tag)
             d == CmdPoolDel(pool, tag)
  <2>1. /\ i \in 1 .. Len(pool) /\ pool[i] # a
        /\ d \in Seq(S) /\ Len(d) = Len(pool) - 1
        /\ \A j \in 1 .. i - 1 : j \in 1 .. Len(d) /\ d[j] = pool[j]
        /\ \A j \in i + 1 .. Len(pool) : j - 1 \in 1 .. Len(d) /\ d[j - 1] = pool[j]
        /\ \A j \in 1 .. Len(d) :
             \/ j < i /\ d[j] = pool[j]
             \/ j >= i /\ j + 1 \in 1 .. Len(pool) /\ d[j] = pool[j + 1]
    BY <1>2, DelPlaces
  <2> HIDE DEF i, d
  <2>2. DOMAIN d = 1 .. Len(d) /\ DOMAIN pool = 1 .. Len(pool)
        /\ Len(pool) \in Nat /\ Len(d) \in Nat
    BY <2>1, LenProperties
  <2> SUFFICES ASSUME NEW k \in DOMAIN d, d[k] = b
               PROVE  \E j \in 1 .. k - 1 : d[j] = a
    BY DEF Before, d
  <2> DEFINE m == IF k < i THEN k ELSE k + 1
  <2>3. m \in DOMAIN pool /\ pool[m] = b
    BY <2>1, <2>2
  <2>4. PICK j \in 1 .. m - 1 : pool[j] = a
    BY <2>3 DEF Before
  <2>5. j # i
    BY <2>1, <2>4
  <2>6. CASE j < i
    <3>1. j \in 1 .. i - 1 /\ j \in 1 .. k - 1
      BY <2>1, <2>2, <2>4, <2>6
    <3> QED
      BY <2>1, <2>4, <3>1
  <2>7. CASE j > i
    <3>1. j \in i + 1 .. Len(pool) /\ j - 1 \in 1 .. k - 1
      BY <2>1, <2>2, <2>3, <2>4, <2>7
    <3> QED
      BY <2>1, <2>4, <3>1
  <2> QED
    BY <2>1, <2>2, <2>4, <2>5, <2>6, <2>7
<1> QED
  BY <1>1, <1>2

\* And it stays so when commands are queued among which it is so.
LEMMA BeforeConcat ==
  ASSUME NEW S, NEW p \in Seq(S), NEW q \in Seq(S), NEW a, NEW b,
         Before(p, a, b), Before(q, a, b)
  PROVE  Before(p \o q, a, b)
<1> DEFINE r == p \o q
<1>1. /\ r \in Seq(S) /\ Len(r) = Len(p) + Len(q)
      /\ \A i \in 1 .. Len(p) + Len(q) : r[i] = IF i <= Len(p) THEN p[i] ELSE q[i - Len(p)]
  BY ConcatProperties
<1>2. /\ DOMAIN p = 1 .. Len(p) /\ DOMAIN q = 1 .. Len(q) /\ DOMAIN r = 1 .. Len(p) + Len(q)
      /\ Len(p) \in Nat /\ Len(q) \in Nat
  BY <1>1, LenProperties
<1> HIDE DEF r
<1> SUFFICES ASSUME NEW k \in DOMAIN r, r[k] = b
             PROVE  \E j \in 1 .. k - 1 : r[j] = a
  BY DEF Before, r
<1>3. CASE k <= Len(p)
  <2>1. k \in DOMAIN p /\ p[k] = b
    BY <1>1, <1>2, <1>3
  <2>2. PICK j \in 1 .. k - 1 : p[j] = a
    BY <2>1 DEF Before
  <2> QED
    BY <1>1, <1>2, <1>3, <2>2
<1>4. CASE k > Len(p)
  <2> DEFINE m == k - Len(p)
  <2>1. m \in DOMAIN q /\ q[m] = b /\ k = Len(p) + m
    BY <1>1, <1>2, <1>4
  <2> HIDE DEF m
  <2>2. PICK j \in 1 .. m - 1 : q[j] = a
    BY <2>1 DEF Before
  <2>3. Len(p) + j \in 1 .. k - 1 /\ Len(p) + j \in 1 .. Len(p) + Len(q)
        /\ ~(Len(p) + j <= Len(p)) /\ (Len(p) + j) - Len(p) = j
    BY <1>2, <2>1, <2>2
  <2>4. r[Len(p) + j] = a
    BY <1>1, <2>2, <2>3
  <2> QED
    BY <2>3, <2>4
<1> QED
  BY <1>2, <1>3, <1>4

\* The head stands behind nothing.
LEMMA BeforeHead ==
  ASSUME NEW S, NEW pool \in Seq(S), pool # <<>>, NEW a, NEW b, Before(pool, a, b)
  PROVE  Head(pool) # b
<1>1. 1 \in DOMAIN pool /\ Head(pool) = pool[1]
  BY EmptySeq, LenProperties
<1>2. 1 .. 1 - 1 = {}
  OBVIOUS
<1> QED
  BY <1>1, <1>2 DEF Before

\* A pool with no b, for which it holds.
LEMMA BeforeNone ==
  ASSUME NEW S, NEW pool \in Seq(S), NEW a, NEW b, b \notin Range(pool)
  PROVE  Before(pool, a, b)
  BY DEF Before, Range

-----------------------------------------------------------------------------
(* The commands of some tags.                                              *)

\* w is what remains of the pool when only commands with these tags are kept.
Remains(pool, tags, w) ==
  \E f \in [1 .. Len(w) -> 1 .. Len(pool)] :
    /\ \A i, j \in 1 .. Len(w) : i < j => f[i] < f[j]
    /\ \A i \in 1 .. Len(w) : pool[f[i]] = w[i] /\ w[i].tag \in tags
    /\ \A k \in 1 .. Len(pool) : pool[k].tag \in tags => \E i \in 1 .. Len(w) : f[i] = k

\* A pool without such commands, and one with no others.
LEMMA RemainsNone ==
  ASSUME NEW S, NEW pool \in Seq(S), NEW tags, \A k \in DOMAIN pool : pool[k].tag \notin tags
  PROVE  Remains(pool, tags, <<>>)
<1>1. 1 .. Len(<<>>) = {} /\ DOMAIN pool = 1 .. Len(pool)
  BY LenProperties
<1> DEFINE f == [i \in 1 .. Len(<<>>) |-> 1]
<1>2. f \in [1 .. Len(<<>>) -> 1 .. Len(pool)]
  BY <1>1
<1> QED
  BY <1>1, <1>2 DEF Remains

\* All of them.
LEMMA RemainsAll ==
  ASSUME NEW S, NEW pool \in Seq(S), NEW tags, \A k \in DOMAIN pool : pool[k].tag \in tags
  PROVE  Remains(pool, tags, pool)
<1> DEFINE f == [i \in 1 .. Len(pool) |-> i]
<1>1. f \in [1 .. Len(pool) -> 1 .. Len(pool)] /\ DOMAIN pool = 1 .. Len(pool)
  BY LenProperties
<1>2. \A i \in 1 .. Len(pool) : f[i] = i
  OBVIOUS
<1> HIDE DEF f
<1> QED
  BY <1>1, <1>2 DEF Remains

\* Of two sequences together there remain the remains of each.
LEMMA RemainsConcat ==
  ASSUME NEW S, NEW p \in Seq(S), NEW q \in Seq(S), NEW v \in Seq(S), NEW w \in Seq(S),
         NEW tags, Remains(p, tags, v), Remains(q, tags, w)
  PROVE  Remains(p \o q, tags, v \o w)
<1>1. PICK f \in [1 .. Len(v) -> 1 .. Len(p)] :
        /\ \A i, j \in 1 .. Len(v) : i < j => f[i] < f[j]
        /\ \A i \in 1 .. Len(v) : p[f[i]] = v[i] /\ v[i].tag \in tags
        /\ \A k \in 1 .. Len(p) : p[k].tag \in tags => \E i \in 1 .. Len(v) : f[i] = k
  BY DEF Remains
<1>2. PICK g \in [1 .. Len(w) -> 1 .. Len(q)] :
        /\ \A i, j \in 1 .. Len(w) : i < j => g[i] < g[j]
        /\ \A i \in 1 .. Len(w) : q[g[i]] = w[i] /\ w[i].tag \in tags
        /\ \A k \in 1 .. Len(q) : q[k].tag \in tags => \E i \in 1 .. Len(w) : g[i] = k
  BY DEF Remains
<1> DEFINE r == p \o q
           u == v \o w
           a == Len(p)
           b == Len(q)
           c == Len(v)
           d == Len(w)
           h == [i \in 1 .. c + d |-> IF i <= c THEN f[i] ELSE a + g[i - c]]
<1>3. /\ Len(r) = a + b
      /\ \A i \in 1 .. a + b : r[i] = IF i <= a THEN p[i] ELSE q[i - a]
  BY ConcatProperties
<1>4. /\ Len(u) = c + d
      /\ \A i \in 1 .. c + d : u[i] = IF i <= c THEN v[i] ELSE w[i - c]
  BY ConcatProperties
<1>5. a \in Nat /\ b \in Nat /\ c \in Nat /\ d \in Nat
  BY LenProperties
<1>6. /\ \A i \in 1 .. c : f[i] \in 1 .. a
      /\ \A i \in 1 .. d : g[i] \in 1 .. b
  BY <1>1, <1>2
<1>7. /\ \A i \in 1 .. c : h[i] = f[i]
      /\ \A i \in 1 .. d : h[c + i] = a + g[i]
  <2>1. \A i \in 1 .. d : c + i \in 1 .. c + d /\ ~(c + i <= c) /\ (c + i) - c = i
    BY <1>5
  <2>2. \A i \in 1 .. c : i \in 1 .. c + d /\ i <= c
    BY <1>5
  <2> QED
    BY <2>1, <2>2
<1>8. \A i \in 1 .. c + d : i \in 1 .. c \/ \E m \in 1 .. d : i = c + m
  <2> SUFFICES ASSUME NEW i \in 1 .. c + d, i \notin 1 .. c
               PROVE  \E m \in 1 .. d : i = c + m
    OBVIOUS
  <2>1. i - c \in 1 .. d /\ i = c + (i - c)
    BY <1>5
  <2> QED
    BY <2>1
<1>9. h \in [1 .. c + d -> 1 .. a + b]
  <2> SUFFICES ASSUME NEW i \in 1 .. c + d
               PROVE  h[i] \in 1 .. a + b
    OBVIOUS
  <2> HIDE DEF h, a, b, c, d
  <2>1. CASE i \in 1 .. c
    <3>1. h[i] = f[i] /\ f[i] \in 1 .. a
      BY <1>6, <1>7, <2>1
    <3> QED
      BY <1>5, <3>1
  <2>2. ASSUME NEW m \in 1 .. d, i = c + m PROVE h[i] \in 1 .. a + b
    <3>1. h[i] = a + g[m] /\ g[m] \in 1 .. b
      BY <1>6, <1>7, <2>2
    <3> QED
      BY <1>5, <3>1
  <2> QED
    BY <1>8, <2>1, <2>2
<1> HIDE DEF h, r, u, a, b, c, d
<1>10. ASSUME NEW i \in 1 .. c + d, NEW j \in 1 .. c + d, i < j
       PROVE  h[i] < h[j]
  <2>1. CASE i \in 1 .. c /\ j \in 1 .. c
    BY <1>1, <1>7, <1>10, <2>1 DEF c
  <2>2. ASSUME NEW m \in 1 .. d, j = c + m, i \in 1 .. c PROVE h[i] < h[j]
    <3>1. h[i] = f[i] /\ f[i] \in 1 .. a /\ h[j] = a + g[m] /\ g[m] \in 1 .. b
      BY <1>6, <1>7, <2>2
    <3> QED
      BY <1>5, <3>1
  <2>3. ASSUME NEW k \in 1 .. d, i = c + k, NEW m \in 1 .. d, j = c + m PROVE h[i] < h[j]
    <3>1. k < m
      BY <1>5, <1>10, <2>3
    <3>2. g[k] < g[m]
      BY <1>2, <3>1 DEF d
    <3>3. h[i] = a + g[k] /\ g[k] \in 1 .. b /\ h[j] = a + g[m] /\ g[m] \in 1 .. b
      BY <1>6, <1>7, <2>3
    <3> QED
      BY <1>5, <3>2, <3>3
  <2>4. ASSUME NEW k \in 1 .. d, i = c + k, j \in 1 .. c PROVE FALSE
    BY <1>5, <1>10, <2>4
  <2> QED
    BY <1>8, <2>1, <2>2, <2>3, <2>4
<1>11. ASSUME NEW i \in 1 .. c + d
       PROVE  r[h[i]] = u[i] /\ u[i].tag \in tags
  <2>1. CASE i \in 1 .. c
    <3>1. h[i] = f[i] /\ f[i] \in 1 .. a
      BY <1>6, <1>7, <2>1
    <3>2. r[f[i]] = p[f[i]] /\ u[i] = v[i]
      BY <1>3, <1>4, <1>5, <2>1, <3>1
    <3> QED
      BY <1>1, <2>1, <3>1, <3>2 DEF c
  <2>2. ASSUME NEW m \in 1 .. d, i = c + m PROVE r[h[i]] = u[i] /\ u[i].tag \in tags
    <3>1. h[i] = a + g[m] /\ g[m] \in 1 .. b
      BY <1>6, <1>7, <2>2
    <3>2. /\ a + g[m] \in 1 .. a + b /\ ~(a + g[m] <= a) /\ (a + g[m]) - a = g[m]
          /\ ~(i <= c) /\ i - c = m
      BY <1>5, <2>2, <3>1
    <3>3. r[a + g[m]] = q[g[m]] /\ u[i] = w[m]
      BY <1>3, <1>4, <3>2
    <3> QED
      BY <1>2, <3>1, <3>3 DEF d
  <2> QED
    BY <1>8, <2>1, <2>2
<1>12. ASSUME NEW k \in 1 .. a + b, r[k].tag \in tags
       PROVE  \E i \in 1 .. c + d : h[i] = k
  <2>1. CASE k <= a
    <3>1. k \in 1 .. a /\ r[k] = p[k]
      BY <1>3, <1>5, <2>1
    <3>2. PICK i \in 1 .. c : f[i] = k
      BY <1>1, <1>12, <3>1 DEF a, c
    <3>3. i \in 1 .. c + d /\ h[i] = k
      BY <1>5, <1>7, <3>2
    <3> QED
      BY <3>3
  <2>2. CASE ~(k <= a)
    <3>1. k - a \in 1 .. b /\ r[k] = q[k - a] /\ a + (k - a) = k
      BY <1>3, <1>5, <2>2
    <3>2. PICK m \in 1 .. d : g[m] = k - a
      BY <1>2, <1>12, <3>1 DEF b, d
    <3>3. c + m \in 1 .. c + d /\ h[c + m] = k
      BY <1>5, <1>7, <3>1, <3>2
    <3> QED
      BY <3>3
  <2> QED
    BY <2>1, <2>2
<1>13. Len(r) = a + b /\ Len(u) = c + d
  BY <1>3, <1>4
<1>14. /\ h \in [1 .. Len(u) -> 1 .. Len(r)]
       /\ \A i, j \in 1 .. Len(u) : i < j => h[i] < h[j]
       /\ \A i \in 1 .. Len(u) : r[h[i]] = u[i] /\ u[i].tag \in tags
       /\ \A k \in 1 .. Len(r) : r[k].tag \in tags => \E i \in 1 .. Len(u) : h[i] = k
  BY <1>9, <1>10, <1>11, <1>12, <1>13
<1>15. Remains(r, tags, u)
  BY <1>14 DEF Remains
<1> QED
  BY <1>15 DEF r, u

\* What remains has the tags, the commands and the head of the pool, as far as
\* they are of these tags.
LEMMA RemainsTags ==
  ASSUME NEW S, NEW pool \in Seq(S), NEW w \in Seq(S), NEW tags, Remains(pool, tags, w),
         NEW tag \in tags
  PROVE  tag \in PoolTags(pool) <=> tag \in PoolTags(w)
<1>1. PICK f \in [1 .. Len(w) -> 1 .. Len(pool)] :
        /\ \A i \in 1 .. Len(w) : pool[f[i]] = w[i] /\ w[i].tag \in tags
        /\ \A k \in 1 .. Len(pool) : pool[k].tag \in tags => \E i \in 1 .. Len(w) : f[i] = k
  BY DEF Remains
<1>2. DOMAIN pool = 1 .. Len(pool) /\ DOMAIN w = 1 .. Len(w)
  BY LenProperties
<1>3. ASSUME NEW i \in 1 .. Len(w), w[i].tag = tag
      PROVE  tag \in PoolTags(pool)
  <2>1. f[i] \in 1 .. Len(pool) /\ pool[f[i]].tag = tag
    BY <1>1, <1>3
  <2> QED
    BY <1>2, <2>1 DEF PoolTags
<1>4. ASSUME NEW k \in 1 .. Len(pool), pool[k].tag = tag
      PROVE  tag \in PoolTags(w)
  <2>1. PICK i \in 1 .. Len(w) : f[i] = k
    BY <1>1, <1>4
  <2>2. w[i].tag = tag
    BY <1>1, <1>4, <2>1
  <2> QED
    BY <1>2, <2>2 DEF PoolTags
<1> QED
  BY <1>2, <1>3, <1>4 DEF PoolTags

\* A command of such a tag is in one if it is in the other.
LEMMA RemainsRange ==
  ASSUME NEW S, NEW pool \in Seq(S), NEW w \in Seq(S), NEW tags, Remains(pool, tags, w),
         NEW c, c.tag \in tags
  PROVE  c \in Range(pool) <=> c \in Range(w)
<1>1. PICK f \in [1 .. Len(w) -> 1 .. Len(pool)] :
        /\ \A i \in 1 .. Len(w) : pool[f[i]] = w[i] /\ w[i].tag \in tags
        /\ \A k \in 1 .. Len(pool) : pool[k].tag \in tags => \E i \in 1 .. Len(w) : f[i] = k
  BY DEF Remains
<1>2. DOMAIN pool = 1 .. Len(pool) /\ DOMAIN w = 1 .. Len(w)
  BY LenProperties
<1>3. ASSUME NEW i \in 1 .. Len(w), w[i] = c
      PROVE  c \in Range(pool)
  <2>1. f[i] \in 1 .. Len(pool) /\ pool[f[i]] = c
    BY <1>1, <1>3
  <2> QED
    BY <1>2, <2>1 DEF Range
<1>4. ASSUME NEW k \in 1 .. Len(pool), pool[k] = c
      PROVE  c \in Range(w)
  <2>1. PICK i \in 1 .. Len(w) : f[i] = k
    BY <1>1, <1>4
  <2>2. w[i] = c
    BY <1>1, <1>4, <2>1
  <2> QED
    BY <1>2, <2>2 DEF Range
<1> QED
  BY <1>2, <1>3, <1>4 DEF Range

\* The head of the pool is the head of what remains, if it is of these tags.
LEMMA RemainsHead ==
  ASSUME NEW S, NEW pool \in Seq(S), NEW w \in Seq(S), NEW tags, Remains(pool, tags, w),
         pool # <<>>, Head(pool).tag \in tags
  PROVE  w # <<>> /\ w[1] = Head(pool)
<1>1. PICK f \in [1 .. Len(w) -> 1 .. Len(pool)] :
        /\ \A i, j \in 1 .. Len(w) : i < j => f[i] < f[j]
        /\ \A i \in 1 .. Len(w) : pool[f[i]] = w[i] /\ w[i].tag \in tags
        /\ \A k \in 1 .. Len(pool) : pool[k].tag \in tags => \E i \in 1 .. Len(w) : f[i] = k
  BY DEF Remains
<1>2. Head(pool) = pool[1] /\ 1 \in 1 .. Len(pool)
  BY EmptySeq, LenProperties
<1>3. PICK i \in 1 .. Len(w) : f[i] = 1
  BY <1>1, <1>2
<1>4. Len(w) \in Nat /\ Len(pool) \in Nat
  BY LenProperties
<1>5. i = 1
  <2>1. ASSUME 1 < i PROVE FALSE
    <3>1. 1 \in 1 .. Len(w)
      BY <1>4, <2>1
    <3>2. f[1] < 1 /\ f[1] \in 1 .. Len(pool)
      BY <1>1, <1>3, <2>1, <3>1
    <3> QED
      BY <1>4, <3>2
  <2> QED
    BY <1>4, <2>1
<1> QED
  BY <1>1, <1>2, <1>3, <1>4, <1>5, EmptySeq

\* What CmdPoolGet finds in the one it finds in the other.
LEMMA RemainsGet ==
  ASSUME NEW S, NEW pool \in Seq(S), NEW w \in Seq(S), NEW tags, Remains(pool, tags, w),
         NEW tag \in tags, tag \in PoolTags(pool)
  PROVE  CmdPoolGet(pool, tag) = CmdPoolGet(w, tag)
<1>1. PICK f \in [1 .. Len(w) -> 1 .. Len(pool)] :
        /\ \A i, j \in 1 .. Len(w) : i < j => f[i] < f[j]
        /\ \A i \in 1 .. Len(w) : pool[f[i]] = w[i] /\ w[i].tag \in tags
        /\ \A k \in 1 .. Len(pool) : pool[k].tag \in tags => \E i \in 1 .. Len(w) : f[i] = k
  BY DEF Remains
<1> DEFINE i == Place(pool, tag)
           m == Place(w, tag)
<1>2. /\ i \in 1 .. Len(pool) /\ pool[i].tag = tag /\ pool[i] = CmdPoolGet(pool, tag)
      /\ \A j \in 1 .. i - 1 : pool[j].tag # tag
  BY DelPlaces
<1>3. tag \in PoolTags(w)
  BY RemainsTags
<1>4. /\ m \in 1 .. Len(w) /\ w[m].tag = tag /\ w[m] = CmdPoolGet(w, tag)
      /\ \A j \in 1 .. m - 1 : w[j].tag # tag
  BY <1>3, DelPlaces
<1> HIDE DEF i, m
<1>5. PICK k \in 1 .. Len(w) : f[k] = i
  BY <1>1, <1>2
<1>6. Len(w) \in Nat /\ Len(pool) \in Nat
  BY LenProperties
<1>7. w[k].tag = tag
  BY <1>1, <1>2, <1>5
<1>8. ~(k < m)
  BY <1>4, <1>6, <1>7
<1>9. ASSUME m < k PROVE FALSE
  <2>1. f[m] < i /\ f[m] \in 1 .. Len(pool) /\ pool[f[m]].tag = tag
    BY <1>1, <1>4, <1>5, <1>9
  <2> QED
    BY <1>2, <1>6, <2>1
<1> QED
  BY <1>1, <1>2, <1>4, <1>5, <1>6, <1>8, <1>9

\* A deletion of another tag leaves what remains as it is.
LEMMA RemainsDelOther ==
  ASSUME NEW S, NEW pool \in Seq(S), NEW w \in Seq(S), NEW tags, Remains(pool, tags, w),
         NEW tag, tag \notin tags
  PROVE  Remains(CmdPoolDel(pool, tag), tags, w)
<1>1. CASE tag \notin PoolTags(pool)
  BY <1>1, CmdPoolDelProperties
<1>2. CASE tag \in PoolTags(pool)
  <2>1. PICK f \in [1 .. Len(w) -> 1 .. Len(pool)] :
          /\ \A i, j \in 1 .. Len(w) : i < j => f[i] < f[j]
          /\ \A i \in 1 .. Len(w) : pool[f[i]] = w[i] /\ w[i].tag \in tags
          /\ \A k \in 1 .. Len(pool) : pool[k].tag \in tags => \E i \in 1 .. Len(w) : f[i] = k
    BY DEF Remains
  <2> DEFINE i == Place(pool, tag)
             d == CmdPoolDel(pool, tag)
             n == Len(pool)
             g == [m \in 1 .. Len(w) |-> IF f[m] < i THEN f[m] ELSE f[m] - 1]
  <2>2. /\ i \in 1 .. n /\ pool[i].tag = tag
        /\ d \in Seq(S) /\ Len(d) = n - 1
        /\ \A j \in 1 .. i - 1 : j \in 1 .. Len(d) /\ d[j] = pool[j]
        /\ \A j \in i + 1 .. n : j - 1 \in 1 .. Len(d) /\ d[j - 1] = pool[j]
        /\ \A j \in 1 .. Len(d) :
             \/ j < i /\ d[j] = pool[j]
             \/ j >= i /\ j + 1 \in 1 .. n /\ d[j] = pool[j + 1]
    BY <1>2, DelPlaces
  <2>3. n \in Nat /\ Len(w) \in Nat
    BY LenProperties
  <2>4. \A m \in 1 .. Len(w) : f[m] \in 1 .. n /\ f[m] # i
    <3> SUFFICES ASSUME NEW m \in 1 .. Len(w) PROVE f[m] \in 1 .. n /\ f[m] # i
      OBVIOUS
    <3> HIDE DEF i, d, g
    <3>1. f[m] \in 1 .. n /\ pool[f[m]].tag # tag
      BY <2>1
    <3> QED
      BY <2>2, <3>1
  <2>5. \A m \in 1 .. Len(w) : g[m] = IF f[m] < i THEN f[m] ELSE f[m] - 1
    OBVIOUS
  <2> HIDE DEF i, d, n
  <2>6. \A m \in 1 .. Len(w) : IF f[m] < i THEN f[m] \in 1 .. i - 1 ELSE f[m] \in i + 1 .. n
    BY <2>2, <2>3, <2>4
  <2>7. \A m \in 1 .. Len(w) : g[m] \in 1 .. Len(d) /\ d[g[m]] = pool[f[m]]
    <3> SUFFICES ASSUME NEW m \in 1 .. Len(w)
                 PROVE  g[m] \in 1 .. Len(d) /\ d[g[m]] = pool[f[m]]
      OBVIOUS
    <3> HIDE DEF g
    <3>1. CASE f[m] < i
      BY <2>2, <2>5, <2>6, <3>1
    <3>2. CASE ~(f[m] < i)
      BY <2>2, <2>5, <2>6, <3>2
    <3> QED
      BY <3>1, <3>2
  <2>8. g \in [1 .. Len(w) -> 1 .. Len(d)]
    BY <2>7
  <2> HIDE DEF g
  <2>9. \A k, m \in 1 .. Len(w) : k < m => g[k] < g[m]
    <3> SUFFICES ASSUME NEW k \in 1 .. Len(w), NEW m \in 1 .. Len(w), k < m
                 PROVE  g[k] < g[m]
      OBVIOUS
    <3>1. f[k] < f[m] /\ f[k] \in 1 .. n /\ f[m] \in 1 .. n /\ f[k] # i /\ f[m] # i
      BY <2>1, <2>4
    <3>2. /\ g[k] = IF f[k] < i THEN f[k] ELSE f[k] - 1
          /\ g[m] = IF f[m] < i THEN f[m] ELSE f[m] - 1
      BY <2>5
    <3> QED
      BY <2>2, <2>3, <3>1, <3>2
  <2>10. ASSUME NEW k \in 1 .. Len(d), d[k].tag \in tags
         PROVE  \E m \in 1 .. Len(w) : g[m] = k
    <3>1. CASE k < i /\ d[k] = pool[k]
      <4>1. k \in 1 .. n
        BY <2>2, <2>3, <3>1
      <4>2. PICK m \in 1 .. Len(w) : f[m] = k
        BY <2>1, <2>10, <3>1, <4>1 DEF n
      <4> QED
        BY <2>5, <3>1, <4>2
    <3>2. CASE k >= i /\ k + 1 \in 1 .. n /\ d[k] = pool[k + 1]
      <4>1. PICK m \in 1 .. Len(w) : f[m] = k + 1
        BY <2>1, <2>10, <3>2 DEF n
      <4>2. ~(k + 1 < i) /\ (k + 1) - 1 = k
        BY <2>2, <3>2
      <4> QED
        BY <2>5, <4>1, <4>2
    <3> QED
      BY <2>2, <3>1, <3>2
  <2>11. \A m \in 1 .. Len(w) : d[g[m]] = w[m] /\ w[m].tag \in tags
    BY <2>1, <2>7
  <2>12. Remains(d, tags, w)
    BY <2>8, <2>9, <2>10, <2>11 DEF Remains
  <2> QED
    BY <2>12 DEF d
<1> QED
  BY <1>1, <1>2

\* A deletion of one of the tags is one in what remains.
LEMMA RemainsDel ==
  ASSUME NEW S, NEW pool \in Seq(S), NEW w \in Seq(S), NEW tags, Remains(pool, tags, w),
         NEW tag \in tags
  PROVE  Remains(CmdPoolDel(pool, tag), tags, CmdPoolDel(w, tag))
<1>1. CASE tag \notin PoolTags(pool)
  <2>1. tag \notin PoolTags(w)
    BY <1>1, RemainsTags
  <2> QED
    BY <1>1, <2>1, CmdPoolDelProperties
<1>2. CASE tag \in PoolTags(pool)
  <2>1. PICK f \in [1 .. Len(w) -> 1 .. Len(pool)] :
          /\ \A i, j \in 1 .. Len(w) : i < j => f[i] < f[j]
          /\ \A i \in 1 .. Len(w) : pool[f[i]] = w[i] /\ w[i].tag \in tags
          /\ \A k \in 1 .. Len(pool) : pool[k].tag \in tags => \E i \in 1 .. Len(w) : f[i] = k
    BY DEF Remains
  <2> DEFINE i == Place(pool, tag)
             d == CmdPoolDel(pool, tag)
             n == Len(pool)
             p == Place(w, tag)
             e == CmdPoolDel(w, tag)
             l == Len(w)
             g == [m \in 1 .. l - 1 |-> IF m < p THEN f[m] ELSE f[m + 1] - 1]
  <2>2. /\ i \in 1 .. n /\ pool[i].tag = tag
        /\ \A j \in 1 .. i - 1 : pool[j].tag # tag
        /\ d \in Seq(S) /\ Len(d) = n - 1
        /\ \A j \in 1 .. i - 1 : j \in 1 .. Len(d) /\ d[j] = pool[j]
        /\ \A j \in i + 1 .. n : j - 1 \in 1 .. Len(d) /\ d[j - 1] = pool[j]
        /\ \A j \in 1 .. Len(d) :
             \/ j < i /\ d[j] = pool[j]
             \/ j >= i /\ j + 1 \in 1 .. n /\ d[j] = pool[j + 1]
    BY <1>2, DelPlaces
  <2>3. tag \in PoolTags(w)
    BY <1>2, RemainsTags
  <2>4. /\ p \in 1 .. l /\ w[p].tag = tag
        /\ \A j \in 1 .. p - 1 : w[j].tag # tag
        /\ e \in Seq(S) /\ Len(e) = l - 1
        /\ \A j \in 1 .. Len(e) :
             \/ j < p /\ e[j] = w[j]
             \/ j >= p /\ j + 1 \in 1 .. l /\ e[j] = w[j + 1]
    BY <2>3, DelPlaces
  <2>5. n \in Nat /\ l \in Nat
    BY LenProperties
  <2>6. /\ f \in [1 .. l -> 1 .. n]
        /\ \A j, k \in 1 .. l : j < k => f[j] < f[k]
        /\ \A j \in 1 .. l : pool[f[j]] = w[j] /\ w[j].tag \in tags
        /\ \A k \in 1 .. n : pool[k].tag \in tags => \E j \in 1 .. l : f[j] = k
    BY <2>1
  <2>7. \A m \in 1 .. l - 1 : g[m] = IF m < p THEN f[m] ELSE f[m + 1] - 1
    OBVIOUS
  <2> HIDE DEF i, d, n, p, e, l
  <2>8. f[p] = i
    <3>1. PICK k \in 1 .. l : f[k] = i
      BY <2>2, <2>6
    <3>2. ~(k < p)
      <4>1. w[k].tag = tag
        BY <2>2, <2>6, <3>1
      <4>2. k < p => k \in 1 .. p - 1
        BY <2>4, <2>5, <3>1
      <4> QED
        BY <2>4, <4>1, <4>2
    <3>3. ASSUME p < k PROVE FALSE
      <4>1. f[p] < i /\ f[p] \in 1 .. n /\ pool[f[p]].tag = tag
        BY <2>4, <2>6, <3>1, <3>3
      <4> QED
        BY <2>2, <2>5, <4>1
    <3> QED
      BY <2>4, <2>5, <3>1, <3>2, <3>3
  <2>9. /\ \A m \in 1 .. p - 1 : m \in 1 .. l /\ f[m] \in 1 .. i - 1
        /\ \A m \in p + 1 .. l : m \in 1 .. l /\ f[m] \in i + 1 .. n
    <3>1. ASSUME NEW m \in 1 .. p - 1 PROVE m \in 1 .. l /\ f[m] \in 1 .. i - 1
      <4>1. m \in 1 .. l /\ m < p
        BY <2>4, <2>5
      <4>2. f[m] < i /\ f[m] \in 1 .. n
        BY <2>4, <2>6, <2>8, <4>1
      <4> QED
        BY <2>2, <2>5, <4>1, <4>2
    <3>2. ASSUME NEW m \in p + 1 .. l PROVE m \in 1 .. l /\ f[m] \in i + 1 .. n
      <4>1. m \in 1 .. l /\ p < m
        BY <2>4, <2>5
      <4>2. i < f[m] /\ f[m] \in 1 .. n
        BY <2>4, <2>6, <2>8, <4>1
      <4> QED
        BY <2>2, <2>5, <4>1, <4>2
    <3> QED
      BY <3>1, <3>2
  <2>10. ASSUME NEW m \in 1 .. l - 1
         PROVE  g[m] \in 1 .. Len(d) /\ d[g[m]] = e[m] /\ e[m].tag \in tags
    <3> HIDE DEF g
    <3>1. CASE m < p
      <4>1. m \in 1 .. p - 1 /\ g[m] = f[m]
        BY <2>4, <2>5, <2>7, <3>1
      <4>2. f[m] \in 1 .. i - 1 /\ m \in 1 .. l
        BY <2>9, <4>1
      <4>3. d[f[m]] = pool[f[m]] /\ f[m] \in 1 .. Len(d)
        BY <2>2, <4>2
      <4>4. e[m] = w[m]
        BY <2>4, <2>5, <3>1
      <4> QED
        BY <2>6, <4>1, <4>2, <4>3, <4>4
    <3>2. CASE ~(m < p)
      <4>1. m + 1 \in p + 1 .. l /\ g[m] = f[m + 1] - 1
        BY <2>4, <2>5, <2>7, <3>2
      <4>2. f[m + 1] \in i + 1 .. n /\ m + 1 \in 1 .. l
        BY <2>9, <4>1
      <4>3. d[f[m + 1] - 1] = pool[f[m + 1]] /\ f[m + 1] - 1 \in 1 .. Len(d)
        BY <2>2, <4>2
      <4>4. e[m] = w[m + 1]
        BY <2>4, <2>5, <3>2
      <4> QED
        BY <2>6, <4>1, <4>2, <4>3, <4>4
    <3> QED
      BY <3>1, <3>2
  <2>11. g \in [1 .. l - 1 -> 1 .. Len(d)]
    BY <2>10
  <2> HIDE DEF g
  <2>12. ASSUME NEW j \in 1 .. l - 1, NEW k \in 1 .. l - 1, j < k
         PROVE  g[j] < g[k]
    <3>1. CASE k < p
      <4>1. g[j] = f[j] /\ g[k] = f[k] /\ j \in 1 .. l /\ k \in 1 .. l
        BY <2>4, <2>5, <2>7, <2>12, <3>1
      <4> QED
        BY <2>6, <2>12, <4>1
    <3>2. CASE j < p /\ ~(k < p)
      <4>1. g[j] = f[j] /\ g[k] = f[k + 1] - 1 /\ j \in 1 .. p - 1 /\ k + 1 \in p + 1 .. l
        BY <2>4, <2>5, <2>7, <3>2
      <4>2. f[j] \in 1 .. i - 1 /\ f[k + 1] \in i + 1 .. n
        BY <2>9, <4>1
      <4> QED
        BY <2>2, <2>5, <4>1, <4>2
    <3>3. CASE ~(j < p)
      <4>1. /\ g[j] = f[j + 1] - 1 /\ g[k] = f[k + 1] - 1
            /\ j + 1 \in p + 1 .. l /\ k + 1 \in p + 1 .. l /\ j + 1 < k + 1
        BY <2>4, <2>5, <2>7, <2>12, <3>3
      <4>2. /\ f[j + 1] \in i + 1 .. n /\ f[k + 1] \in i + 1 .. n
            /\ j + 1 \in 1 .. l /\ k + 1 \in 1 .. l
        BY <2>9, <4>1
      <4>3. f[j + 1] < f[k + 1]
        BY <2>6, <4>1, <4>2
      <4> QED
        BY <2>2, <2>5, <4>1, <4>2, <4>3
    <3> QED
      BY <2>12, <3>1, <3>2, <3>3
  <2>13. ASSUME NEW k \in 1 .. Len(d), d[k].tag \in tags
         PROVE  \E m \in 1 .. l - 1 : g[m] = k
    <3>1. CASE k < i /\ d[k] = pool[k]
      <4>1. k \in 1 .. n
        BY <2>2, <2>5, <3>1
      <4>2. PICK m \in 1 .. l : f[m] = k
        BY <2>6, <2>13, <3>1, <4>1
      <4>3. m < p
        <5>1. m # p
          BY <2>8, <3>1, <4>2
        <5>2. ASSUME p < m PROVE FALSE
          <6>1. f[p] < f[m]
            BY <2>4, <2>6, <5>2
          <6> QED
            BY <2>2, <2>5, <2>8, <3>1, <4>2, <6>1
        <5> QED
          BY <2>4, <2>5, <5>1, <5>2
      <4>4. m \in 1 .. l - 1
        BY <2>4, <2>5, <4>3
      <4> QED
        BY <2>7, <4>2, <4>3, <4>4
    <3>2. CASE k >= i /\ k + 1 \in 1 .. n /\ d[k] = pool[k + 1]
      <4>1. PICK m \in 1 .. l : f[m] = k + 1
        BY <2>6, <2>13, <3>2
      <4>2. m > p
        <5>1. m # p
          BY <2>2, <2>5, <2>8, <3>2, <4>1
        <5>2. ASSUME m < p PROVE FALSE
          <6>1. f[m] < f[p]
            BY <2>4, <2>6, <5>2
          <6> QED
            BY <2>2, <2>5, <2>8, <3>2, <4>1, <6>1
        <5> QED
          BY <2>4, <2>5, <5>1, <5>2
      <4>3. m - 1 \in 1 .. l - 1 /\ ~(m - 1 < p) /\ (m - 1) + 1 = m /\ (k + 1) - 1 = k
        BY <2>2, <2>4, <2>5, <3>2, <4>2
      <4>4. g[m - 1] = k
        BY <2>7, <4>1, <4>3
      <4> QED
        BY <4>3, <4>4
    <3> QED
      BY <2>2, <3>1, <3>2
  <2>14. /\ g \in [1 .. Len(e) -> 1 .. Len(d)]
         /\ \A j, k \in 1 .. Len(e) : j < k => g[j] < g[k]
         /\ \A m \in 1 .. Len(e) : d[g[m]] = e[m] /\ e[m].tag \in tags
         /\ \A k \in 1 .. Len(d) : d[k].tag \in tags => \E m \in 1 .. Len(e) : g[m] = k
    BY <2>4, <2>10, <2>11, <2>12, <2>13
  <2>15. Remains(d, tags, e)
    BY <2>14 DEF Remains
  <2> QED
    BY <2>15 DEF d, e
<1> QED
  BY <1>1, <1>2

\* Commands of other tags at either end change nothing of what remains.
LEMMA RemainsAround ==
  ASSUME NEW S, NEW pool \in Seq(S), NEW w \in Seq(S), NEW tags, Remains(pool, tags, w),
         NEW cs \in Seq(S), \A k \in DOMAIN cs : cs[k].tag \notin tags
  PROVE  Remains(pool \o cs, tags, w) /\ Remains(cs \o pool, tags, w)
<1>1. Remains(cs, tags, <<>>) /\ <<>> \in Seq(S)
  BY RemainsNone, EmptySeq
<1>2. Remains(pool \o cs, tags, w \o <<>>) /\ Remains(cs \o pool, tags, <<>> \o w)
  BY <1>1, RemainsConcat
<1> QED
  BY <1>2, ConcatEmptySeq

\* The head of a pool that was put together.
LEMMA HeadConcat ==
  ASSUME NEW S, NEW p \in Seq(S), NEW q \in Seq(S), p \o q # <<>>
  PROVE  /\ p # <<>> => Head(p \o q) = Head(p)
         /\ p = <<>> => q # <<>> /\ Head(p \o q) = Head(q)
<1>1. /\ p \o q \in Seq(S) /\ Len(p \o q) = Len(p) + Len(q)
      /\ \A i \in 1 .. Len(p) + Len(q) :
           (p \o q)[i] = IF i <= Len(p) THEN p[i] ELSE q[i - Len(p)]
  BY ConcatProperties
<1>2. CASE p # <<>>
  <2>1. Len(p) \in Nat \ {0} /\ Len(q) \in Nat
    BY <1>2, EmptySeq, LenProperties
  <2>2. (p \o q)[1] = p[1]
    BY <1>1, <2>1
  <2> QED
    BY <1>1, <1>2, <2>2
<1>3. CASE p = <<>>
  BY <1>3, ConcatEmptySeq
<1> QED
  BY <1>2, <1>3

\* CmdPoolGet finds the first command of the tag.
LEMMA GetFirst ==
  ASSUME NEW S, NEW pool \in Seq(S), NEW i \in 1 .. Len(pool), NEW tag, pool[i].tag = tag,
         \A j \in 1 .. i - 1 : pool[j].tag # tag
  PROVE  tag \in PoolTags(pool) /\ CmdPoolGet(pool, tag) = pool[i]
<1>1. tag \in PoolTags(pool)
  BY LenProperties DEF PoolTags
<1> DEFINE p == Place(pool, tag)
<1>2. /\ p \in 1 .. Len(pool) /\ pool[p].tag = tag
      /\ \A j \in 1 .. p - 1 : pool[j].tag # tag
  BY <1>1, PlaceProperties
<1>3. CmdPoolGet(pool, tag) = pool[p]
  BY DEF CmdPoolGet, Place
<1> HIDE DEF p
<1>4. Len(pool) \in Nat
  BY LenProperties
<1>5. p = i
  BY <1>2, <1>4
<1> QED
  BY <1>1, <1>3, <1>5

\* It is the head, if the head carries the tag.
LEMMA GetHead ==
  ASSUME NEW S, NEW pool \in Seq(S), pool # <<>>
  PROVE  CmdPoolGet(pool, Head(pool).tag) = Head(pool)
<1>1. Len(pool) \in Nat \ {0} /\ Head(pool) = pool[1]
  BY EmptySeq, LenProperties
<1>2. \A j \in 1 .. 1 - 1 : pool[j].tag # Head(pool).tag
  OBVIOUS
<1>3. 1 \in 1 .. Len(pool)
  BY <1>1
<1> QED
  BY <1>1, <1>2, <1>3, GetFirst

\* It is the same after a command of another tag at the head or any at the tail.
LEMMA GetConcat ==
  ASSUME NEW S, NEW p \in Seq(S), NEW q \in Seq(S), NEW tag
  PROVE  /\ tag \in PoolTags(p) => CmdPoolGet(p \o q, tag) = CmdPoolGet(p, tag)
         /\ tag \notin PoolTags(p) /\ tag \in PoolTags(q)
              => CmdPoolGet(p \o q, tag) = CmdPoolGet(q, tag)
<1> DEFINE r == p \o q
<1>1. /\ r \in Seq(S) /\ Len(r) = Len(p) + Len(q)
      /\ \A i \in 1 .. Len(p) + Len(q) :
           r[i] = IF i <= Len(p) THEN p[i] ELSE q[i - Len(p)]
  BY ConcatProperties
<1>2. Len(p) \in Nat /\ Len(q) \in Nat
  BY LenProperties
<1> HIDE DEF r
<1>3. CASE tag \in PoolTags(p)
  <2> DEFINE i == Place(p, tag)
  <2>1. i \in 1 .. Len(p) /\ p[i].tag = tag /\ \A j \in 1 .. i - 1 : p[j].tag # tag
    BY <1>3, PlaceProperties
  <2>2. CmdPoolGet(p, tag) = p[i]
    BY DEF CmdPoolGet, Place
  <2> HIDE DEF i
  <2>3. i \in 1 .. Len(r) /\ r[i] = p[i] /\ \A j \in 1 .. i - 1 : r[j] = p[j]
    BY <1>1, <1>2, <2>1
  <2>4. CmdPoolGet(r, tag) = r[i]
    <3>1. r[i].tag = tag /\ \A j \in 1 .. i - 1 : r[j].tag # tag
      BY <2>1, <2>3
    <3> QED
      BY <1>1, <2>3, <3>1, GetFirst
  <2> QED
    BY <1>3, <2>2, <2>3, <2>4 DEF r
<1>4. CASE tag \notin PoolTags(p) /\ tag \in PoolTags(q)
  <2> DEFINE i == Place(q, tag)
  <2>1. i \in 1 .. Len(q) /\ q[i].tag = tag /\ \A j \in 1 .. i - 1 : q[j].tag # tag
    BY <1>4, PlaceProperties
  <2>2. CmdPoolGet(q, tag) = q[i]
    BY DEF CmdPoolGet, Place
  <2> HIDE DEF i
  <2>3. \A j \in 1 .. Len(p) : p[j].tag # tag
    BY <1>4, LenProperties DEF PoolTags
  <2>4. i + Len(p) \in 1 .. Len(r) /\ r[i + Len(p)] = q[i]
    <3>1. /\ i + Len(p) \in 1 .. Len(p) + Len(q) /\ ~(i + Len(p) <= Len(p))
          /\ (i + Len(p)) - Len(p) = i
      BY <1>2, <2>1
    <3> QED
      BY <1>1, <3>1
  <2>5. ASSUME NEW j \in 1 .. (i + Len(p)) - 1 PROVE r[j].tag # tag
    <3> j \in 1 .. Len(p) + Len(q)
      BY <1>2, <2>1
    <3>1. CASE j <= Len(p)
      <4>1. r[j] = p[j] /\ j \in 1 .. Len(p)
        BY <1>1, <1>2, <3>1
      <4> QED
        BY <2>3, <4>1
    <3>2. CASE ~(j <= Len(p))
      <4>1. j - Len(p) \in 1 .. i - 1 /\ r[j] = q[j - Len(p)]
        BY <1>1, <1>2, <2>1, <3>2
      <4> QED
        BY <2>1, <4>1
    <3> QED
      BY <3>1, <3>2
  <2>6. CmdPoolGet(r, tag) = r[i + Len(p)]
    BY <1>1, <2>1, <2>4, <2>5, GetFirst
  <2> QED
    BY <1>4, <2>2, <2>4, <2>6 DEF r
<1> QED
  BY <1>3, <1>4 DEF r

\* Deleting the tag of the head leaves the tail.
LEMMA DelFirst ==
  ASSUME NEW S, NEW pool \in Seq(S), pool # <<>>
  PROVE  CmdPoolDel(pool, Head(pool).tag) = Tail(pool)
<1> DEFINE tag == Head(pool).tag
           d == CmdPoolDel(pool, tag)
<1>1. Len(pool) \in Nat \ {0} /\ Head(pool) = pool[1] /\ tag \in PoolTags(pool)
  BY EmptySeq, LenProperties DEF PoolTags
<1>2. PICK i \in 1 .. Len(pool) :
        /\ pool[i].tag = tag
        /\ \A j \in 1 .. i - 1 : pool[j].tag # tag
        /\ Len(d) = Len(pool) - 1
        /\ \A j \in 1 .. Len(pool) - 1 : d[j] = IF j < i THEN pool[j] ELSE pool[j + 1]
  BY <1>1, CmdPoolDelProperties
<1>3. i = 1
  BY <1>1, <1>2
<1>4. d \in Seq(S) /\ Tail(pool) \in Seq(S) /\ Len(Tail(pool)) = Len(pool) - 1
      /\ \A j \in 1 .. Len(pool) - 1 : Tail(pool)[j] = pool[j + 1]
  BY CmdPoolDelProperties, HeadTailProperties
<1> HIDE DEF d, tag
<1>5. \A j \in 1 .. Len(d) : d[j] = Tail(pool)[j]
  BY <1>1, <1>2, <1>3, <1>4
<1>6. d = Tail(pool)
  BY <1>2, <1>4, <1>5, SeqEqual
<1> QED
  BY <1>6 DEF d, tag

\* Deleting another tag keeps the head.
LEMMA DelLater ==
  ASSUME NEW S, NEW c \in S, NEW pool \in Seq(S), NEW tag, c.tag # tag
  PROVE  CmdPoolDel(<<c>> \o pool, tag) = <<c>> \o CmdPoolDel(pool, tag)
<1> DEFINE p == <<c>> \o pool
           d == CmdPoolDel(p, tag)
           e == CmdPoolDel(pool, tag)
           n == Len(pool)
<1>1. <<c>> \in Seq(S) /\ Len(<<c>>) = 1 /\ <<c>>[1] = c
  OBVIOUS
<1>2. /\ p \in Seq(S) /\ Len(p) = 1 + n
      /\ \A i \in 1 .. 1 + n : p[i] = IF i <= 1 THEN <<c>>[i] ELSE pool[i - 1]
  BY <1>1, ConcatProperties
<1>3. n \in Nat /\ d \in Seq(S) /\ e \in Seq(S)
  BY <1>2, LenProperties, CmdPoolDelProperties
<1>4. p[1] = c /\ \A i \in 2 .. 1 + n : p[i] = pool[i - 1]
  BY <1>1, <1>2, <1>3
<1>5. /\ <<c>> \o e \in Seq(S) /\ Len(<<c>> \o e) = 1 + Len(e)
      /\ \A i \in 1 .. 1 + Len(e) : (<<c>> \o e)[i] = IF i <= 1 THEN <<c>>[i] ELSE e[i - 1]
  BY <1>1, <1>3, ConcatProperties
<1>6. CASE tag \notin PoolTags(pool)
  <2>1. \A i \in 1 .. n : pool[i].tag # tag
    BY <1>6, LenProperties DEF PoolTags
  <2> HIDE DEF p, n
  <2>2. ASSUME NEW i \in DOMAIN p PROVE p[i].tag # tag
    <3>1. i = 1 \/ (i \in 2 .. 1 + n /\ i - 1 \in 1 .. n)
      BY <1>2, <1>3, LenProperties
    <3> QED
      BY <1>4, <2>1, <3>1
  <2>3. tag \notin PoolTags(p)
    BY <2>2 DEF PoolTags
  <2>4. d = p /\ e = pool
    BY <1>2, <1>6, <2>3, CmdPoolDelProperties
  <2> QED
    BY <2>4 DEF p
<1>7. CASE tag \in PoolTags(pool)
  <2>1. PICK k \in 1 .. n :
          /\ pool[k].tag = tag
          /\ \A j \in 1 .. k - 1 : pool[j].tag # tag
          /\ Len(e) = n - 1
          /\ \A j \in 1 .. n - 1 : e[j] = IF j < k THEN pool[j] ELSE pool[j + 1]
    BY <1>7, CmdPoolDelProperties
  <2> HIDE DEF n
  <2>2. tag \in PoolTags(p)
    <3> HIDE DEF p
    <3>1. k + 1 \in DOMAIN p /\ k + 1 \in 2 .. 1 + n
      BY <1>2, <1>3, <2>1, LenProperties
    <3>2. p[k + 1].tag = tag
      <4>1. (k + 1) - 1 = k
        BY <2>1
      <4> QED
        BY <1>4, <2>1, <3>1, <4>1
    <3> QED
      BY <3>1, <3>2 DEF PoolTags
  <2> HIDE DEF p, e
  <2>3. PICK m \in 1 .. 1 + n :
          /\ p[m].tag = tag
          /\ \A j \in 1 .. m - 1 : p[j].tag # tag
          /\ Len(d) = n
          /\ \A j \in 1 .. n : d[j] = IF j < m THEN p[j] ELSE p[j + 1]
    <3>1. (1 + n) - 1 = n
      BY <1>3
    <3>2. p \in Seq(S)
      BY <1>2
    <3>3. \E m \in 1 .. Len(p) :
            /\ p[m].tag = tag
            /\ \A j \in 1 .. m - 1 : p[j].tag # tag
            /\ Len(d) = Len(p) - 1
            /\ \A j \in 1 .. Len(p) - 1 : d[j] = IF j < m THEN p[j] ELSE p[j + 1]
      BY <2>2, <3>2, CmdPoolDelProperties
    <3> HIDE DEF d
    <3> QED
      BY <1>2, <3>1, <3>3
  <2> HIDE DEF d
  <2>4. m = k + 1
    <3>1. m # 1
      BY <1>4, <2>3
    <3>2. m \in 2 .. 1 + n /\ m - 1 \in 1 .. n /\ pool[m - 1].tag = tag
      BY <1>3, <1>4, <2>3, <3>1
    <3>3. ~(m - 1 < k)
      BY <1>3, <2>1, <3>2
    <3>4. ASSUME k + 1 < m PROVE FALSE
      <4>1. k + 1 \in 2 .. 1 + n /\ k + 1 \in 1 .. m - 1 /\ (k + 1) - 1 = k
        BY <1>3, <2>1, <2>3, <3>4
      <4> QED
        BY <1>4, <2>1, <2>3, <4>1
    <3> QED
      BY <1>3, <2>1, <2>3, <3>2, <3>3, <3>4
  <2>5. ASSUME NEW j \in 1 .. n PROVE d[j] = (<<c>> \o e)[j]
    <3>1. CASE j = 1
      BY <1>1, <1>3, <1>4, <1>5, <2>1, <2>3, <2>4, <3>1
    <3>2. CASE j # 1
      <4>1. j - 1 \in 1 .. n - 1 /\ (j - 1) + 1 = j /\ j \in 2 .. 1 + n
            /\ (j + 1) - 1 = j /\ j + 1 \in 2 .. 1 + n
            /\ (j < m <=> j - 1 < k)
        BY <1>3, <2>1, <2>4, <3>2
      <4>2. (<<c>> \o e)[j] = e[j - 1]
        BY <1>3, <1>5, <2>1, <3>2, <4>1
      <4>3. d[j] = IF j < m THEN pool[j - 1] ELSE pool[j]
        BY <1>4, <2>3, <4>1
      <4>4. e[j - 1] = IF j - 1 < k THEN pool[j - 1] ELSE pool[j]
        BY <2>1, <4>1
      <4> QED
        BY <4>1, <4>2, <4>3, <4>4
    <3> QED
      BY <3>1, <3>2
  <2>6. Len(<<c>> \o e) = Len(d) /\ \A j \in 1 .. Len(d) : d[j] = (<<c>> \o e)[j]
    BY <1>3, <1>5, <2>1, <2>3, <2>5
  <2>7. d = <<c>> \o e
    BY <1>3, <1>5, <2>6, SeqEqual
  <2> QED
    BY <2>7 DEF d, e, p
<1> QED
  BY <1>6, <1>7

\* Short pools that are put together.
LEMMA ShortConcat ==
  ASSUME NEW S, NEW a \in S, NEW b \in S, NEW c \in S
  PROVE  /\ <<a>> \o <<>> = <<a>>
         /\ <<a>> \o <<b>> = <<a, b>>
         /\ <<a>> \o <<b, c>> = <<a, b, c>>
<1>1. /\ <<>> \in Seq(S) /\ <<a>> \in Seq(S) /\ <<b>> \in Seq(S)
      /\ Len(<<a>>) = 1 /\ Len(<<b>>) = 1 /\ <<a>>[1] = a /\ <<b>>[1] = b
  OBVIOUS
<1>2. /\ <<a, b>> \in Seq(S) /\ <<b, c>> \in Seq(S)
      /\ Len(<<a, b>>) = 2 /\ <<a, b>>[1] = a /\ <<a, b>>[2] = b
      /\ Len(<<b, c>>) = 2 /\ <<b, c>>[1] = b /\ <<b, c>>[2] = c
  OBVIOUS
<1>3. /\ <<a, b, c>> \in Seq(S) /\ Len(<<a, b, c>>) = 3
      /\ <<a, b, c>>[1] = a /\ <<a, b, c>>[2] = b /\ <<a, b, c>>[3] = c
  OBVIOUS
<1>4. <<a>> \o <<b>> = <<a, b>>
  <2> DEFINE p == <<a>>
             q == <<b>>
             r == <<a, b>>
  <2> HIDE DEF p, q, r
  <2>1. /\ p \o q \in Seq(S) /\ Len(p \o q) = Len(p) + Len(q)
        /\ \A i \in 1 .. Len(p) + Len(q) :
             (p \o q)[i] = IF i <= Len(p) THEN p[i] ELSE q[i - Len(p)]
    BY <1>1, ConcatProperties DEF p, q
  <2>2. Len(p) = 1 /\ Len(q) = 1 /\ p[1] = a /\ q[1] = b
    BY <1>1 DEF p, q
  <2>3. r \in Seq(S) /\ Len(r) = 2 /\ r[1] = a /\ r[2] = b
    BY <1>2 DEF r
  <2>4. \A i \in 1 .. Len(r) : (p \o q)[i] = r[i]
    BY <2>1, <2>2, <2>3
  <2>5. p \o q = r
    BY <2>1, <2>2, <2>3, <2>4, SeqEqual
  <2> QED
    BY <2>5 DEF p, q, r
<1>5. <<a>> \o <<b, c>> = <<a, b, c>>
  <2> DEFINE p == <<a>>
             q == <<b, c>>
             r == <<a, b, c>>
  <2> HIDE DEF p, q, r
  <2>1. /\ p \o q \in Seq(S) /\ Len(p \o q) = Len(p) + Len(q)
        /\ \A i \in 1 .. Len(p) + Len(q) :
             (p \o q)[i] = IF i <= Len(p) THEN p[i] ELSE q[i - Len(p)]
    BY <1>1, <1>2, ConcatProperties DEF p, q
  <2>2. Len(p) = 1 /\ Len(q) = 2 /\ p[1] = a /\ q[1] = b /\ q[2] = c
    BY <1>1, <1>2 DEF p, q
  <2>3. r \in Seq(S) /\ Len(r) = 3 /\ r[1] = a /\ r[2] = b /\ r[3] = c
    BY <1>3 DEF r
  <2>4. \A i \in 1 .. Len(r) : (p \o q)[i] = r[i]
    BY <2>1, <2>2, <2>3
  <2>5. p \o q = r
    BY <2>1, <2>2, <2>3, <2>4, SeqEqual
  <2> QED
    BY <2>5 DEF p, q, r
<1> QED
  BY <1>1, <1>4, <1>5, ConcatEmptySeq

\* The commands of two sequences together.
LEMMA RangeConcat ==
  ASSUME NEW S, NEW p \in Seq(S), NEW q \in Seq(S)
  PROVE  Range(p \o q) = Range(p) \cup Range(q)
<1> DEFINE r == p \o q
<1>1. /\ r \in Seq(S) /\ Len(r) = Len(p) + Len(q)
      /\ \A i \in 1 .. Len(p) + Len(q) : r[i] = IF i <= Len(p) THEN p[i] ELSE q[i - Len(p)]
  BY ConcatProperties
<1>2. /\ DOMAIN r = 1 .. Len(p) + Len(q) /\ DOMAIN p = 1 .. Len(p) /\ DOMAIN q = 1 .. Len(q)
      /\ Len(p) \in Nat /\ Len(q) \in Nat
  BY <1>1, LenProperties
<1> HIDE DEF r
<1>3. ASSUME NEW c \in Range(r) PROVE c \in Range(p) \cup Range(q)
  <2>1. PICK i \in 1 .. Len(p) + Len(q) : r[i] = c
    BY <1>2, <1>3 DEF Range
  <2>2. CASE i <= Len(p)
    <3>1. i \in 1 .. Len(p) /\ p[i] = c
      BY <1>1, <1>2, <2>1, <2>2
    <3> QED
      BY <1>2, <3>1 DEF Range
  <2>3. CASE ~(i <= Len(p))
    <3>1. i - Len(p) \in 1 .. Len(q) /\ q[i - Len(p)] = c
      BY <1>1, <1>2, <2>1, <2>3
    <3> QED
      BY <1>2, <3>1 DEF Range
  <2> QED
    BY <2>2, <2>3
<1>4. ASSUME NEW c \in Range(p) PROVE c \in Range(r)
  <2>1. PICK i \in 1 .. Len(p) : p[i] = c
    BY <1>2, <1>4 DEF Range
  <2>2. i \in 1 .. Len(p) + Len(q) /\ r[i] = c
    BY <1>1, <1>2, <2>1
  <2> QED
    BY <1>2, <2>2 DEF Range
<1>5. ASSUME NEW c \in Range(q) PROVE c \in Range(r)
  <2>1. PICK i \in 1 .. Len(q) : q[i] = c
    BY <1>2, <1>5 DEF Range
  <2>2. /\ Len(p) + i \in 1 .. Len(p) + Len(q) /\ ~(Len(p) + i <= Len(p))
        /\ Len(p) + i - Len(p) = i
    BY <1>2, <2>1
  <2>3. r[Len(p) + i] = c
    BY <1>1, <2>1, <2>2
  <2> QED
    BY <1>2, <2>2, <2>3 DEF Range
<1> QED
  BY <1>3, <1>4, <1>5 DEF r

\* And of one more at the tail.
LEMMA RangeAppend ==
  ASSUME NEW S, NEW p \in Seq(S), NEW c \in S
  PROVE  Range(Append(p, c)) = Range(p) \cup {c}
<1> DEFINE r == Append(p, c)
           n == Len(p)
<1>1. /\ DOMAIN p = 1 .. n /\ DOMAIN r = 1 .. n + 1 /\ n \in Nat
      /\ \A i \in 1 .. n : r[i] = p[i]
      /\ r[n + 1] = c
  BY AppendProperties, LenProperties
<1> HIDE DEF r, n
<1>2. \A i \in 1 .. n + 1 : i \in 1 .. n \/ i = n + 1
  BY <1>1
<1>3. n + 1 \in 1 .. n + 1 /\ 1 .. n \subseteq 1 .. n + 1
  BY <1>1
<1>4. Range(r) = Range(p) \cup {c}
  BY <1>1, <1>2, <1>3 DEF Range
<1> QED
  BY <1>4 DEF r

\* Two pairs that are put together.
LEMMA PairConcat ==
  ASSUME NEW S, NEW a \in S, NEW b \in S, NEW c \in S, NEW d \in S
  PROVE  <<a, b>> \o <<c, d>> = <<a, b, c, d>>
<1> DEFINE p == <<a, b>>
           q == <<c, d>>
           r == <<a, b, c, d>>
<1>1. /\ p \in Seq(S) /\ q \in Seq(S)
      /\ Len(p) = 2 /\ p[1] = a /\ p[2] = b
      /\ Len(q) = 2 /\ q[1] = c /\ q[2] = d
  OBVIOUS
<1>2. /\ r \in Seq(S) /\ Len(r) = 4
      /\ r[1] = a /\ r[2] = b /\ r[3] = c /\ r[4] = d
  OBVIOUS
<1> HIDE DEF p, q, r
<1>3. /\ p \o q \in Seq(S) /\ Len(p \o q) = Len(p) + Len(q)
      /\ \A i \in 1 .. Len(p) + Len(q) :
           (p \o q)[i] = IF i <= Len(p) THEN p[i] ELSE q[i - Len(p)]
  BY <1>1, ConcatProperties
<1>4. \A i \in 1 .. Len(r) : (p \o q)[i] = r[i]
  BY <1>1, <1>2, <1>3
<1>5. p \o q = r
  BY <1>1, <1>2, <1>3, <1>4, SeqEqual
<1> QED
  BY <1>5 DEF p, q, r

\* Nothing can be deleted from an empty pool.
LEMMA DelNothing ==
  ASSUME NEW tag
  PROVE  CmdPoolDel(<<>>, tag) = <<>>
<1>1. tag \notin PoolTags(<<>>)
  BY DEF PoolTags
<1>2. <<>> \in Seq({})
  BY EmptySeq
<1> QED
  BY <1>1, <1>2, CmdPoolDelProperties

\* A concatenation has the tags of both.
LEMMA TagsConcat ==
  ASSUME NEW S, NEW p \in Seq(S), NEW q \in Seq(S)
  PROVE  PoolTags(p \o q) = PoolTags(p) \cup PoolTags(q)
<1> DEFINE r == p \o q
<1>1. /\ r \in Seq(S) /\ Len(r) = Len(p) + Len(q)
      /\ \A k \in 1 .. Len(p) : k \in 1 .. Len(r) /\ r[k] = p[k]
      /\ \A k \in 1 .. Len(q) : Len(p) + k \in 1 .. Len(r) /\ r[Len(p) + k] = q[k]
      /\ \A k \in 1 .. Len(r) : \/ k \in 1 .. Len(p) /\ r[k] = p[k]
                                \/ k - Len(p) \in 1 .. Len(q) /\ r[k] = q[k - Len(p)]
  BY ConcatProperties
<1>2. DOMAIN p = 1 .. Len(p) /\ DOMAIN q = 1 .. Len(q) /\ DOMAIN r = 1 .. Len(r)
  BY <1>1
<1> HIDE DEF r
<1>3. PoolTags(r) \subseteq PoolTags(p) \cup PoolTags(q)
  BY <1>1, <1>2 DEF PoolTags
<1>4. PoolTags(p) \subseteq PoolTags(r) /\ PoolTags(q) \subseteq PoolTags(r)
  BY <1>1, <1>2 DEF PoolTags
<1> QED
  BY <1>3, <1>4 DEF r

\* A deletion takes away at most its own tag, and takes that away if it stands once.
LEMMA DelTags ==
  ASSUME NEW S, NEW pool \in Seq(S), NEW tag
  PROVE  LET d == CmdPoolDel(pool, tag)
         IN  /\ PoolTags(d) \subseteq PoolTags(pool)
             /\ PoolTags(pool) \subseteq PoolTags(d) \cup {tag}
             /\ Range(d) \subseteq Range(pool)
             /\ Once(pool, tag) => tag \notin PoolTags(d)
<1> DEFINE d == CmdPoolDel(pool, tag)
<1>1. CASE tag \notin PoolTags(pool)
  BY <1>1, CmdPoolDelProperties
<1>2. CASE tag \in PoolTags(pool)
  <2> DEFINE i == Place(pool, tag)
  <2>1. /\ i \in 1 .. Len(pool) /\ pool[i].tag = tag
        /\ d \in Seq(S) /\ Len(d) = Len(pool) - 1
        /\ \A j \in 1 .. i - 1 : j \in 1 .. Len(d) /\ d[j] = pool[j]
        /\ \A j \in i + 1 .. Len(pool) : j - 1 \in 1 .. Len(d) /\ d[j - 1] = pool[j]
        /\ \A j \in 1 .. Len(d) :
             \/ j < i /\ d[j] = pool[j]
             \/ j >= i /\ j + 1 \in 1 .. Len(pool) /\ d[j] = pool[j + 1]
    BY <1>2, DelPlaces
  <2> HIDE DEF i, d
  <2>2. DOMAIN d = 1 .. Len(d) /\ DOMAIN pool = 1 .. Len(pool)
    BY <2>1
  <2>3. \A j \in DOMAIN d : \E k \in DOMAIN pool : k # i /\ d[j] = pool[k]
    <3> SUFFICES ASSUME NEW j \in DOMAIN d
                 PROVE  \E k \in DOMAIN pool : k # i /\ d[j] = pool[k]
      OBVIOUS
    <3>1. CASE j < i /\ d[j] = pool[j]
      <4>1. j \in DOMAIN pool /\ j # i
        BY <2>1, <2>2, <3>1
      <4> QED
        BY <3>1, <4>1
    <3>2. CASE j >= i /\ j + 1 \in 1 .. Len(pool) /\ d[j] = pool[j + 1]
      <4>1. j + 1 \in DOMAIN pool /\ j + 1 # i
        BY <2>1, <2>2, <3>2
      <4> QED
        BY <3>2, <4>1
    <3> QED
      BY <2>1, <2>2, <3>1, <3>2
  <2>4. \A k \in DOMAIN pool : k # i => \E j \in DOMAIN d : d[j] = pool[k]
    <3> SUFFICES ASSUME NEW k \in DOMAIN pool, k # i
                 PROVE  \E j \in DOMAIN d : d[j] = pool[k]
      OBVIOUS
    <3>1. k \in 1 .. i - 1 \/ k \in i + 1 .. Len(pool)
      BY <2>1, <2>2
    <3> QED
      BY <2>1, <2>2, <3>1
  <2>5. PoolTags(d) \subseteq PoolTags(pool)
    BY <2>3 DEF PoolTags
  <2>6. PoolTags(pool) \subseteq PoolTags(d) \cup {tag}
    BY <2>1, <2>4 DEF PoolTags
  <2>7. Range(d) \subseteq Range(pool)
    BY <2>3 DEF Range
  <2>8. ASSUME Once(pool, tag) PROVE tag \notin PoolTags(d)
    BY <2>1, <2>2, <2>3, <2>8 DEF Once, PoolTags
  <2> QED
    BY <2>5, <2>6, <2>7, <2>8 DEF d
<1> QED
  BY <1>1, <1>2

\* Counting the commands of a tag.
LEMMA OnceCount ==
  ASSUME NEW S, NEW pool \in Seq(S), NEW tag
  PROVE  LET n == Cardinality({k \in DOMAIN pool : pool[k].tag = tag})
         IN  /\ n \in Nat
             /\ n <= 1 <=> Once(pool, tag)
             /\ n = 0 <=> tag \notin PoolTags(pool)
<1> DEFINE P == {k \in DOMAIN pool : pool[k].tag = tag}
<1>1. IsFiniteSet(P)
  <2>1. IsFiniteSet(1 .. Len(pool)) /\ P \subseteq 1 .. Len(pool)
    BY FS_Interval
  <2> QED
    BY <2>1, FS_Subset
<1>2. Once(pool, tag) <=> \A i, j \in P : i = j
  BY DEF Once
<1>3. P = {} <=> tag \notin PoolTags(pool)
  BY DEF PoolTags
<1> HIDE DEF P
<1>4. ASSUME Once(pool, tag) PROVE Cardinality(P) <= 1
  <2>1. CASE P = {}
    BY <2>1, FS_EmptySet
  <2>2. CASE P # {}
    <3>1. PICK k : k \in P
      BY <2>2
    <3>2. P = {k}
      BY <1>2, <1>4, <3>1
    <3>3. Cardinality({k}) = 1
      BY FS_Singleton
    <3> QED
      BY <3>2, <3>3
  <2> QED
    BY <2>1, <2>2
<1>5. ASSUME Cardinality(P) <= 1 PROVE Once(pool, tag)
  <2>1. Cardinality(P) \in Nat
    BY <1>1, FS_CardinalityType
  <2>2. Cardinality(P) = 0 \/ Cardinality(P) = 1
    BY <1>5, <2>1
  <2>3. \A i, j \in P : i = j
    <3>1. CASE Cardinality(P) = 0
      BY <1>1, <3>1, FS_EmptySet
    <3>2. CASE Cardinality(P) = 1
      <4>1. \E k : P = {k}
        BY <1>1, <3>2, FS_Singleton
      <4> QED
        BY <4>1
    <3> QED
      BY <2>2, <3>1, <3>2
  <2> QED
    BY <1>2, <2>3
<1>6. Cardinality(P) \in Nat /\ (Cardinality(P) = 0 <=> P = {})
  BY <1>1, FS_CardinalityType, FS_EmptySet
<1> QED
  BY <1>4, <1>5, <1>3, <1>6 DEF P

-----------------------------------------------------------------------------
(* The operators of the channel.                                           *)

\* What the dispatcher keeps true of its channel.  The four parts need each
\* other: a retry finds a command because the timer covers one, and a command
\* that finds the channel idle finds no answer outstanding because an
\* outstanding answer is timed.
Sound(ch) == /\ ch \in Channel
             /\ NoLostWakeup(ch)
             /\ TimerCoversCommand(ch)
             /\ MissesAreTimed(ch)
             /\ AnswerMatches(ch)

\* The tags are those of the commands, and none is NONE.
LEMMA TagFacts == NONE \notin Tags /\ \A c \in Command : c.tag \in Tags
  BY CommandAssumption DEF Tags

\* The fields of a channel have their types, and changing one keeps the others.
LEMMA ChannelFields ==
  ASSUME NEW ch \in Channel
  PROVE  /\ ch.pool \in Seq(Command) /\ ch.line \in Seq(Command)
         /\ ch.timer \in Nat /\ ch.misses \in 0 .. MissLimit - 1 /\ ch.wake \in Nat
         /\ ch.port \in BOOLEAN /\ ch.slipped \in BOOLEAN
         /\ ch.cur \in Tags \cup {NONE}
  BY DEF Channel

\* What the modem holds when a command has been written to it.
Written(ch, c) ==
  IF c \notin Silent /\ ch.port /\ Len(ch.line) < LineCap THEN Append(ch.line, c) ELSE ch.line

\* Whatever the channel was, transmitting a command of the pool leaves a sound
\* one: the timer runs for that command, or there is nothing to write of it, and
\* unless the modem was still busy its answer is the only one due.
LEMMA TransmitSound ==
  ASSUME NEW ch \in Channel, NEW c \in Range(ch.pool), NEW wait \in Nat \ {0}
  PROVE  Sound(Transmit(ch, c, wait))
<1> DEFINE t == Transmit(ch, c, wait)
           timer == IF c \in Silent THEN ch.timer ELSE wait
           line == Written(ch, c)
           slipped == IF ch.port THEN ch.line # <<>> ELSE ch.slipped
<1>1. t = [ch EXCEPT !.cur = c.tag, !.timer = timer, !.line = line, !.slipped = slipped]
  BY DEF Transmit, Written
<1>c. c \in Command /\ c.tag \in PoolTags(ch.pool)
  BY ChannelFields DEF Range, PoolTags
<1>2. line \in Seq(Command) /\ timer \in Nat /\ (timer = 0 => c \in Silent)
  BY <1>c DEF Channel, Written
<1>3. slipped \in BOOLEAN
  <2>1. ch.slipped \in BOOLEAN
    BY DEF Channel
  <2> QED
    BY <2>1, Zenon
<1>4. ch.port /\ ~slipped => ch.line = <<>>
  BY Zenon
<1>5. ch.port /\ ch.line = <<>> => line = <<>> \/ (c \notin Silent /\ line = <<c>>)
  BY TimerAssumption DEF Written
<1> HIDE DEF t, line, slipped, timer
<1>6. t \in Channel
  BY <1>1, <1>2, <1>3, <1>c, TagFacts DEF Channel
<1>7. /\ t.pool = ch.pool /\ t.cur = c.tag /\ t.timer = timer
      /\ t.port = ch.port /\ t.line = line /\ t.slipped = slipped
  BY <1>1 DEF Channel
<1>8. ASSUME t.port, ~t.slipped
      PROVE  Len(t.line) <= 1 /\ (t.line # <<>> => Head(t.line) = c /\ t.timer > 0)
  <2>1. t.line = <<>> \/ (t.line = <<c>> /\ c \notin Silent)
    BY <1>4, <1>5, <1>7, <1>8
  <2>2. CASE t.line = <<>>
    BY <2>2
  <2>3. CASE t.line = <<c>> /\ c \notin Silent
    <3>1. t.timer > 0
      BY <1>2, <1>7, <2>3
    <3>2. Len(t.line) = 1 /\ Head(t.line) = c
      BY <2>3
    <3> QED
      BY <3>1, <3>2
  <2> QED
    BY <2>1, <2>2, <2>3
<1>9. AnswerMatches(t)
  BY <1>7, <1>8 DEF AnswerMatches
<1>10. t.timer > 0 \/ Held(t)
  BY <1>2, <1>7 DEF Held
<1>11. NoLostWakeup(t) /\ TimerCoversCommand(t) /\ MissesAreTimed(t)
  BY <1>2, <1>7, <1>10, <1>c DEF NoLostWakeup, TimerCoversCommand, MissesAreTimed
<1> QED
  BY <1>6, <1>9, <1>11 DEF Sound, t

\* Dispatching the head of a pool that is not empty, from any channel.
LEMMA PutHeadSound ==
  ASSUME NEW ch \in Channel, ch.pool # <<>>
  PROVE  Sound(PutHeadCommand(ch))
<1>1. Head(ch.pool) \in Range(ch.pool)
  <2>1. ch.pool \in Seq(Command)
    BY ChannelFields
  <2>2. Head(ch.pool) = ch.pool[1] /\ 1 \in DOMAIN ch.pool
    BY <2>1, HeadProperties, EmptySeq
  <2> QED
    BY <2>2 DEF Range
<1> QED
  BY <1>1, TransmitSound, TimerAssumption DEF PutHeadCommand

\* An empty pool is one where nothing is timed and nothing was missed.
LEMMA EmptyIsIdle ==
  ASSUME NEW ch, Sound(ch), ch.pool = <<>>
  PROVE  ch.timer = 0 /\ ch.misses = 0
<1>1. PoolTags(ch.pool) = {}
  BY DEF PoolTags
<1>2. ch.timer \in Nat /\ ch.misses \in Nat
  BY DEF Sound, Channel
<1>3. ch.timer > 0 => ch.cur \in PoolTags(ch.pool)
  BY DEF Sound, TimerCoversCommand
<1>4. ch.misses > 0 => ch.timer > 0
  <2>1. Range(ch.pool) = {}
    BY DEF Range
  <2> QED
    BY <2>1 DEF Sound, MissesAreTimed, Held
<1> QED
  BY <1>1, <1>2, <1>3, <1>4

\* WM_USER_AT_CMD, however stale: with an empty pool it only forgets the
\* current command.
LEMMA DispatchSound ==
  ASSUME NEW ch, Sound(ch), ch.wake > 0
  PROVE  Sound(PutHeadCommand([ch EXCEPT !.wake = @ - 1]))
<1> DEFINE q == [ch EXCEPT !.wake = @ - 1]
<1>1. ch \in Channel
  BY DEF Sound
<1>2. q \in Channel /\ q.pool = ch.pool /\ q.cur = ch.cur /\ q.timer = ch.timer
      /\ q.misses = ch.misses /\ q.port = ch.port /\ q.line = ch.line
      /\ q.slipped = ch.slipped
  BY <1>1 DEF Channel
<1> HIDE DEF q
<1>3. CASE q.pool # <<>>
  BY <1>2, <1>3, PutHeadSound DEF q
<1>4. CASE q.pool = <<>>
  <2> DEFINE e == [q EXCEPT !.cur = NONE]
  <2>1. PutHeadCommand(q) = e
    BY <1>4 DEF PutHeadCommand
  <2>2. e \in Channel /\ e.pool = <<>> /\ e.timer = 0 /\ e.misses = 0
        /\ e.port = ch.port /\ e.line = ch.line /\ e.slipped = ch.slipped
    BY <1>2, <1>4, EmptyIsIdle DEF Channel
  <2> HIDE DEF e
  <2>3. ch.timer = 0
    BY <1>2, <1>4, EmptyIsIdle
  <2>4. ch.port /\ ~ch.slipped => Len(ch.line) <= 1 /\ ch.line = <<>>
    BY <2>3 DEF Sound, AnswerMatches
  <2>5. AnswerMatches(e)
    BY <2>2, <2>4 DEF AnswerMatches
  <2>6. NoLostWakeup(e) /\ TimerCoversCommand(e) /\ MissesAreTimed(e)
    BY <2>2 DEF NoLostWakeup, TimerCoversCommand, MissesAreTimed
  <2> QED
    BY <2>1, <2>2, <2>5, <2>6 DEF Sound, q
<1> QED
  BY <1>3, <1>4

\* Adding commands to the pool of a channel that is not idle.
LEMMA QueueSound ==
  ASSUME NEW ch, Sound(ch), ch.timer # 0 \/ ch.misses # 0,
         NEW pool \in Seq(Command), PoolTags(ch.pool) \subseteq PoolTags(pool),
         Range(ch.pool) \subseteq Range(pool)
  PROVE  Sound([ch EXCEPT !.pool = pool])
<1> DEFINE q == [ch EXCEPT !.pool = pool]
<1>1. ch \in Channel
  BY DEF Sound
<1>2. q \in Channel /\ q.pool = pool /\ q.cur = ch.cur /\ q.timer = ch.timer
      /\ q.misses = ch.misses /\ q.port = ch.port /\ q.line = ch.line
      /\ q.slipped = ch.slipped
  BY <1>1 DEF Channel
<1> HIDE DEF q
<1>3. ch.timer > 0 \/ Held(q)
  BY <1>1, <1>2, ChannelFields DEF Sound, MissesAreTimed, Held
<1>4. AnswerMatches(q)
  BY <1>2 DEF Sound, AnswerMatches
<1>5. NoLostWakeup(q) /\ TimerCoversCommand(q) /\ MissesAreTimed(q)
  BY <1>2, <1>3 DEF Sound, NoLostWakeup, TimerCoversCommand, MissesAreTimed
<1> QED
  BY <1>2, <1>4, <1>5 DEF Sound, q

\* Queuing a command, at either end.
LEMMA EitherEnd ==
  ASSUME NEW p \in Seq(Command), NEW c \in Command, NEW r,
         r = CmdPoolPutHead(p, c) \/ r = CmdPoolPut(p, c)
  PROVE  /\ r \in Seq(Command) /\ r # <<>>
         /\ PoolTags(p) \subseteq PoolTags(r) /\ Range(p) \subseteq Range(r)
<1>1. CASE r = CmdPoolPutHead(p, c)
  <2> DEFINE h == <<c>>
  <2>1. r = h \o p
    BY <1>1 DEF CmdPoolPutHead, Cons
  <2>2. h \in Seq(Command)
    OBVIOUS
  <2> HIDE DEF h
  <2>3. Range(p) \subseteq Range(r)
    BY <2>1, <2>2, RangeConcat
  <2>4. r \in Seq(Command) /\ r # <<>> /\ PoolTags(p) \subseteq PoolTags(r)
    BY <1>1, PutProperties
  <2> QED
    BY <2>3, <2>4
<1>2. CASE r = CmdPoolPut(p, c)
  <2>1. Range(Append(p, c)) = Range(p) \cup {c}
    BY RangeAppend
  <2>2. Range(p) \subseteq Range(r)
    BY <1>2, <2>1 DEF CmdPoolPut
  <2>3. r \in Seq(Command) /\ r # <<>> /\ PoolTags(p) \subseteq PoolTags(r)
    BY <1>2, PutProperties
  <2> QED
    BY <2>2, <2>3
<1> QED
  BY <1>1, <1>2

\* SendCommand, at either end.
THEOREM SendCommandSound ==
  ASSUME NEW ch, Sound(ch), NEW c \in Command, NEW atFirst \in BOOLEAN
  PROVE  Sound(SendCommand(ch, c, atFirst))
<1> DEFINE pool == IF atFirst THEN CmdPoolPutHead(ch.pool, c) ELSE CmdPoolPut(ch.pool, c)
           q == [ch EXCEPT !.pool = pool]
<1>1. ch \in Channel
  BY DEF Sound
<1>2. /\ pool \in Seq(Command) /\ pool # <<>>
      /\ PoolTags(ch.pool) \subseteq PoolTags(pool) /\ Range(ch.pool) \subseteq Range(pool)
  <2>1. ch.pool \in Seq(Command)
    BY <1>1, ChannelFields
  <2>2. pool = CmdPoolPutHead(ch.pool, c) \/ pool = CmdPoolPut(ch.pool, c)
    BY Zenon
  <2> HIDE DEF pool
  <2> QED
    BY <2>1, <2>2, EitherEnd
<1>3. SendCommand(ch, c, atFirst) =
        IF ch.timer = 0 /\ ch.misses = 0 THEN PutHeadCommand(q) ELSE q
  BY DEF SendCommand
<1> HIDE DEF pool
<1>4. q \in Channel /\ q.pool = pool
  BY <1>1, <1>2 DEF Channel
<1>5. Sound(PutHeadCommand(q))
  BY <1>2, <1>4, PutHeadSound
<1>6. ch.timer # 0 \/ ch.misses # 0 => Sound(q)
  BY <1>2, QueueSound
<1> QED
  BY <1>3, <1>5, <1>6

\* Queueing nothing changes nothing.
LEMMA SendNothing ==
  ASSUME NEW ch \in Channel
  PROVE  SendCommands(ch, <<>>) = ch
<1>1. ch.pool \in Seq(Command)
  BY ChannelFields
<1>2. ch.pool \o <<>> = ch.pool
  BY <1>1
<1>3. [ch EXCEPT !.pool = ch.pool] = ch
  BY DEF Channel
<1> QED
  BY <1>2, <1>3 DEF SendCommands

\* Several commands in turn, also from a channel that has just been reset: one
\* that is idle need not be sound before.
THEOREM SendCommandsSound ==
  ASSUME NEW ch \in Channel, NEW cs \in Seq(Command),
         Sound(ch) \/ (cs # <<>> /\ ch.timer = 0 /\ ch.misses = 0)
  PROVE  Sound(SendCommands(ch, cs))
<1> DEFINE pool == ch.pool \o cs
           q == [ch EXCEPT !.pool = pool]
<1>1. /\ pool \in Seq(Command) /\ PoolTags(ch.pool) \subseteq PoolTags(pool)
      /\ Range(ch.pool) \subseteq Range(pool)
      /\ cs # <<>> => pool # <<>>
      /\ cs = <<>> => pool = ch.pool
  BY ChannelFields, ConcatTags, ConcatEmptySeq, RangeConcat
<1>2. SendCommands(ch, cs) =
        IF cs # <<>> /\ ch.timer = 0 /\ ch.misses = 0 THEN PutHeadCommand(q) ELSE q
  BY DEF SendCommands
<1> HIDE DEF pool
<1>3. q \in Channel /\ q.pool = pool
  BY <1>1 DEF Channel
<1>4. CASE cs # <<>> /\ ch.timer = 0 /\ ch.misses = 0
  BY <1>1, <1>2, <1>3, <1>4, PutHeadSound
<1>5. CASE cs = <<>>
  <2>1. q = ch
    BY <1>1, <1>5 DEF Channel
  <2> QED
    BY <1>2, <1>5, <2>1
<1>6. CASE cs # <<>> /\ (ch.timer # 0 \/ ch.misses # 0)
  BY <1>1, <1>2, <1>6, QueueSound
<1> QED
  BY <1>4, <1>5, <1>6

\* The modem has answered: nothing else changes, and in an order that has not
\* slipped nothing more is due.
LEMMA AnsweredSound ==
  ASSUME NEW ch, Sound(ch), ch.line # <<>>
  PROVE  /\ Sound(Answered(ch))
         /\ ch.port /\ ~ch.slipped => Answered(ch).line = <<>>
<1> DEFINE q == Answered(ch)
<1>1. ch \in Channel
  BY DEF Sound
<1>2. Tail(ch.line) \in Seq(Command) /\ Len(Tail(ch.line)) = Len(ch.line) - 1
  BY <1>1, ChannelFields, HeadTailProperties
<1>3. q \in Channel /\ q.pool = ch.pool /\ q.cur = ch.cur /\ q.timer = ch.timer
      /\ q.misses = ch.misses /\ q.wake = ch.wake /\ q.port = ch.port
      /\ q.line = Tail(ch.line) /\ q.slipped = ch.slipped
  BY <1>1, <1>2 DEF Channel, Answered
<1> HIDE DEF q
<1>4. ch.port /\ ~ch.slipped => Len(ch.line) <= 1
  BY DEF Sound, AnswerMatches
<1>5. ch.port /\ ~ch.slipped => Tail(ch.line) = <<>>
  BY <1>1, <1>2, <1>4, ChannelFields, EmptySeq
<1>6. AnswerMatches(q)
  <2>1. ch.port /\ ~ch.slipped => Len(Tail(ch.line)) <= 1
    BY <1>1, <1>2, <1>4, ChannelFields, LenProperties
  <2> QED
    BY <1>3, <1>5, <2>1 DEF AnswerMatches
<1>7. NoLostWakeup(q) /\ TimerCoversCommand(q) /\ MissesAreTimed(q)
  BY <1>3 DEF Sound, NoLostWakeup, TimerCoversCommand, MissesAreTimed, Held
<1> QED
  BY <1>3, <1>5, <1>6, <1>7 DEF Sound, q

\* Completing the current command makes any channel sound: what is left has a
\* dispatch message, and no timer runs.
THEOREM CompleteSound ==
  ASSUME NEW ch \in Channel
  PROVE  Sound(Complete(ch))
<1> DEFINE pool == CmdPoolDel(ch.pool, ch.cur)
           slipped == ch.slipped \/ (ch.port /\ ch.line # <<>>)
           q == [ch EXCEPT !.pool = pool, !.timer = 0, !.misses = 0, !.slipped = slipped]
           e == NextCommand(q)
<1>1. pool \in Seq(Command)
  BY ChannelFields, CmdPoolDelProperties
<1>2. slipped \in BOOLEAN
  BY Zenon
<1>3. Complete(ch) = e
  BY DEF Complete
<1>4. ch.port /\ ~slipped => ch.line = <<>>
  BY Zenon
<1> HIDE DEF pool, slipped
<1>5. 0 \in 0 .. MissLimit - 1
  BY TimerAssumption
<1>6. q \in Channel /\ q.pool = pool /\ q.timer = 0 /\ q.misses = 0
      /\ q.port = ch.port /\ q.line = ch.line /\ q.slipped = slipped
  BY <1>1, <1>2, <1>5 DEF Channel
<1> HIDE DEF q
<1>7. /\ e \in Channel /\ e.timer = 0 /\ e.misses = 0
      /\ e.port = ch.port /\ e.line = ch.line /\ e.slipped = slipped
      /\ e.pool # <<>> => e.wake > 0
  <2>1. CASE q.pool = <<>>
    BY <1>6, <2>1 DEF NextCommand, Channel
  <2>2. CASE q.pool # <<>>
    <3>1. e = [q EXCEPT !.wake = @ + 1]
      BY <2>2 DEF NextCommand
    <3>2. q.wake \in Nat
      BY <1>6, ChannelFields
    <3> HIDE DEF e
    <3>3. q.wake + 1 \in Nat /\ q.wake + 1 > 0
      BY <3>2
    <3>4. e \in Channel
      BY <1>6, <3>1, <3>3 DEF Channel
    <3>5. /\ e.timer = q.timer /\ e.misses = q.misses /\ e.port = q.port
          /\ e.line = q.line /\ e.slipped = q.slipped /\ e.wake = q.wake + 1
      BY <1>6, <3>1 DEF Channel
    <3> QED
      BY <1>6, <3>3, <3>4, <3>5
  <2> QED
    BY <2>1, <2>2
<1> HIDE DEF e
<1>8. AnswerMatches(e)
  BY <1>4, <1>7 DEF AnswerMatches
<1>9. NoLostWakeup(e) /\ TimerCoversCommand(e) /\ MissesAreTimed(e)
  BY <1>7 DEF NoLostWakeup, TimerCoversCommand, MissesAreTimed
<1> QED
  BY <1>3, <1>7, <1>8, <1>9 DEF Sound

\* The retry finds a command to send, since the timer ran for one.
LEMMA RetrySound ==
  ASSUME NEW ch, Sound(ch), ch.timer > 0, ch.misses + 1 < MissLimit
  PROVE  Sound(Retry(ch))
<1> DEFINE q == [ch EXCEPT !.timer = 0, !.misses = @ + 1]
<1>1. ch \in Channel /\ ch.pool # <<>>
  BY EmptyIsIdle DEF Sound
<1>2. ch.misses + 1 \in 0 .. MissLimit - 1
  BY <1>1, ChannelFields, TimerAssumption
<1>3. q \in Channel /\ q.pool # <<>>
  BY <1>1, <1>2 DEF Channel
<1> HIDE DEF q
<1>4. Sound(PutHeadCommand(q))
  BY <1>3, PutHeadSound
<1> QED
  BY <1>4 DEF Retry, q

\* A reset makes any channel sound, whatever the modem still holds and whether
\* or not the port opens.
THEOREM ResetSound ==
  ASSUME NEW ch \in Channel, NEW opened \in BOOLEAN
  PROVE  Sound(ResetChannel(ch, opened))
<1> DEFINE q == [ch EXCEPT !.pool = <<>>, !.cur = NONE, !.timer = 0,
                           !.misses = 0, !.port = opened]
<1>1. 0 \in 0 .. MissLimit - 1
  BY TimerAssumption
<1>2. q \in Channel /\ q.timer = 0 /\ q.misses = 0
  <2>1. <<>> \in Seq(Command) /\ NONE \in Tags \cup {NONE}
    BY EmptySeq
  <2> QED
    BY <1>1, <2>1 DEF Channel
<1> HIDE DEF q
<1>3. Sound(SendCommands(q, InitCmds))
  BY <1>2, InitCmdsAssumption, SendCommandsSound
<1> QED
  BY <1>3 DEF ResetChannel, q

\* An agent that does not run, and one that starts, have sound channels.
LEMMA StartSound ==
  ASSUME NEW held \in Seq(Command), NEW opened \in BOOLEAN
  PROVE  Sound(IdleChannel(held)) /\ Sound(InitChannel(held, opened))
<1>1. 0 \in 0 .. MissLimit - 1
  BY TimerAssumption
<1>2. IdleChannel(held) \in Channel
  BY <1>1 DEF IdleChannel, Channel
<1>3. Sound(IdleChannel(held))
  BY <1>2 DEF Sound, IdleChannel, NoLostWakeup, TimerCoversCommand, MissesAreTimed,
              AnswerMatches
<1> DEFINE q == [IdleChannel(held) EXCEPT !.port = opened]
<1>4. q \in Channel /\ q.timer = 0 /\ q.misses = 0
  BY <1>2 DEF IdleChannel, Channel
<1> HIDE DEF q
<1>5. Sound(SendCommands(q, InitCmds))
  BY <1>4, InitCmdsAssumption, SendCommandsSound
<1> QED
  BY <1>3, <1>5 DEF InitChannel, q

-----------------------------------------------------------------------------
(* What the operators change.                                              *)

\* The command has become the current one.
Dispatched(ch, c, r) ==
  /\ r.cur = c.tag /\ (c \notin Silent => r.timer > 0)
  /\ r.line = Written(ch, c)
  /\ r.port => (r.slipped <=> ch.line # <<>>)

\* The channel goes on with another pool: nothing else happens, time passes, or
\* the head of the pool is dispatched.
Turns(ch, pool, r) ==
  /\ r.pool = pool /\ r.port = ch.port
  /\ \/ /\ r.cur \in {ch.cur, NONE} /\ (ch.timer > 0 => r.timer > 0)
        /\ r.line = ch.line /\ (r.slipped <=> ch.slipped)
     \/ pool # <<>> /\ Dispatched(ch, Head(pool), r)

\* A final result has completed the current command.
Completed(ch, r) ==
  /\ r.pool = CmdPoolDel(ch.pool, ch.cur) /\ r.port = ch.port
  /\ r.cur \in {ch.cur, NONE} /\ r.timer = 0
  /\ r.line = ch.line
  /\ r.slipped <=> ch.slipped \/ (ch.port /\ ch.line # <<>>)

\* The bring-up has begun over a modem that holds this line.
Anew(line, r) ==
  /\ r.pool = InitCmds /\ r.cur = Head(InitCmds).tag /\ r.timer > 0
  /\ \/ r.line = line
     \/ Len(line) < LineCap /\ r.line = Append(line, Head(InitCmds))
  /\ r.port => (r.slipped <=> line # <<>>)

\* Transmitting leaves the pool alone.
LEMMA TransmitEffect ==
  ASSUME NEW ch \in Channel, NEW c, NEW wait \in Nat \ {0}
  PROVE  LET r == Transmit(ch, c, wait)
         IN  Dispatched(ch, c, r) /\ r.pool = ch.pool /\ r.port = ch.port
<1> DEFINE r == Transmit(ch, c, wait)
           timer == IF c \in Silent THEN ch.timer ELSE wait
           line == Written(ch, c)
           slipped == IF ch.port THEN ch.line # <<>> ELSE ch.slipped
<1>1. r = [ch EXCEPT !.cur = c.tag, !.timer = timer, !.line = line, !.slipped = slipped]
  BY DEF Transmit, Written
<1>2. ch.port => (slipped <=> ch.line # <<>>)
  BY Zenon
<1>w. c \notin Silent => timer > 0
  OBVIOUS
<1> HIDE DEF r, line, slipped, timer
<1>3. /\ r.pool = ch.pool /\ r.cur = c.tag /\ r.timer = timer
      /\ r.port = ch.port /\ r.line = line /\ r.slipped = slipped
  BY <1>1 DEF Channel
<1>4. r.port => (r.slipped <=> ch.line # <<>>)
  BY <1>2, <1>3, Zenon
<1>5. Dispatched(ch, c, r)
  BY <1>3, <1>4, <1>w DEF Dispatched, line
<1> QED
  BY <1>3, <1>5 DEF r

\* So does dispatching the head.
LEMMA PutHeadEffect ==
  ASSUME NEW ch \in Channel
  PROVE  LET r == PutHeadCommand(ch)
         IN  Turns(ch, ch.pool, r) /\ (ch.pool # <<>> => Dispatched(ch, Head(ch.pool), r))
<1>1. CASE ch.pool = <<>>
  BY <1>1 DEF PutHeadCommand, Turns, Channel
<1>2. CASE ch.pool # <<>>
  BY <1>2, TransmitEffect, TimerAssumption DEF PutHeadCommand, Turns
<1> QED
  BY <1>1, <1>2

\* Queuing dispatches the head if nothing is in flight, and else does nothing more.
LEMMA QueueEffect ==
  ASSUME NEW ch, Sound(ch), NEW pool \in Seq(Command), pool # <<>>, NEW r,
         LET q == [ch EXCEPT !.pool = pool]
         IN  r = IF ch.timer = 0 /\ ch.misses = 0 THEN PutHeadCommand(q) ELSE q
  PROVE  /\ Turns(ch, pool, r)
         /\ ch.timer = 0 /\ ch.misses = 0 => Dispatched(ch, Head(pool), r)
<1> DEFINE q == [ch EXCEPT !.pool = pool]
<1>1. ch \in Channel /\ ch.timer \in Nat /\ ch.misses \in Nat
  BY ChannelFields DEF Sound
<1>2. q \in Channel /\ q.pool = pool /\ q.cur = ch.cur /\ q.timer = ch.timer
      /\ q.misses = ch.misses /\ q.port = ch.port /\ q.line = ch.line
      /\ q.slipped = ch.slipped
  BY <1>1 DEF Channel
<1>3. r = IF ch.timer = 0 /\ ch.misses = 0 THEN PutHeadCommand(q) ELSE q
  OBVIOUS
<1> HIDE DEF q
<1>4. CASE ch.timer = 0 /\ ch.misses = 0
  <2>1. Turns(q, pool, r) /\ Dispatched(q, Head(pool), r)
    BY <1>2, <1>3, <1>4, PutHeadEffect
  <2> QED
    BY <1>2, <2>1 DEF Turns, Dispatched, Written
<1>5. CASE ~(ch.timer = 0 /\ ch.misses = 0)
  BY <1>2, <1>3, <1>5 DEF Turns
<1> QED
  BY <1>4, <1>5

\* SendCommand, at either end.
LEMMA SendCommandEffect ==
  ASSUME NEW ch, Sound(ch), NEW c \in Command, NEW atFirst \in BOOLEAN
  PROVE  LET pool == IF atFirst THEN CmdPoolPutHead(ch.pool, c) ELSE CmdPoolPut(ch.pool, c)
             r == SendCommand(ch, c, atFirst)
         IN  /\ Turns(ch, pool, r)
             /\ ch.timer = 0 /\ ch.misses = 0 => Dispatched(ch, Head(pool), r)
<1> DEFINE pool == IF atFirst THEN CmdPoolPutHead(ch.pool, c) ELSE CmdPoolPut(ch.pool, c)
           r == SendCommand(ch, c, atFirst)
<1>1. ch.pool \in Seq(Command)
  BY ChannelFields DEF Sound
<1>2. pool = CmdPoolPutHead(ch.pool, c) \/ pool = CmdPoolPut(ch.pool, c)
  BY Zenon
<1>3. r = IF ch.timer = 0 /\ ch.misses = 0 THEN PutHeadCommand([ch EXCEPT !.pool = pool])
                                           ELSE [ch EXCEPT !.pool = pool]
  BY DEF SendCommand
<1> HIDE DEF pool, r
<1>4. pool \in Seq(Command) /\ pool # <<>>
  BY <1>1, <1>2, EitherEnd
<1>5. Turns(ch, pool, r) /\ (ch.timer = 0 /\ ch.misses = 0 => Dispatched(ch, Head(pool), r))
  BY <1>3, <1>4, QueueEffect
<1> QED
  BY <1>5 DEF pool, r

\* Several commands in turn, or none.
LEMMA SendCommandsEffect ==
  ASSUME NEW ch, Sound(ch), NEW cs \in Seq(Command)
  PROVE  LET pool == ch.pool \o cs
             r == SendCommands(ch, cs)
         IN  /\ pool \in Seq(Command) /\ Turns(ch, pool, r)
             /\ ch.timer = 0 /\ ch.misses = 0 /\ cs # <<>> => Dispatched(ch, Head(pool), r)
<1> DEFINE pool == ch.pool \o cs
           r == SendCommands(ch, cs)
<1>1. ch \in Channel /\ ch.pool \in Seq(Command)
  BY ChannelFields DEF Sound
<1>2. pool \in Seq(Command) /\ (cs # <<>> => pool # <<>>)
  BY <1>1, ConcatTags
<1>3. CASE cs = <<>>
  <2>1. pool = ch.pool /\ r = ch
    BY <1>1, <1>3, SendNothing, ConcatEmptySeq
  <2> HIDE DEF pool, r
  <2>2. Turns(ch, pool, r)
    BY <2>1 DEF Turns
  <2> QED
    BY <1>2, <1>3, <2>2 DEF pool, r
<1>4. CASE cs # <<>>
  <2>1. r = IF ch.timer = 0 /\ ch.misses = 0 THEN PutHeadCommand([ch EXCEPT !.pool = pool])
                                             ELSE [ch EXCEPT !.pool = pool]
    BY <1>4 DEF SendCommands
  <2> HIDE DEF pool, r
  <2>2. Turns(ch, pool, r) /\ (ch.timer = 0 /\ ch.misses = 0 => Dispatched(ch, Head(pool), r))
    BY <1>2, <1>4, <2>1, QueueEffect
  <2> QED
    BY <1>2, <2>2 DEF pool, r
<1> QED
  BY <1>3, <1>4

\* An answer shortens the line.
LEMMA AnsweredEffect ==
  ASSUME NEW ch \in Channel, ch.line # <<>>
  PROVE  LET q == Answered(ch)
         IN  /\ q \in Channel /\ q.pool = ch.pool /\ q.cur = ch.cur /\ q.timer = ch.timer
             /\ q.port = ch.port /\ q.slipped = ch.slipped
             /\ q.line = Tail(ch.line) /\ q.line \in Seq(Command)
             /\ Len(q.line) = Len(ch.line) - 1
<1>1. Tail(ch.line) \in Seq(Command) /\ Len(Tail(ch.line)) = Len(ch.line) - 1
  BY ChannelFields, HeadTailProperties
<1> QED
  BY <1>1 DEF Answered, Channel

\* A completion takes the first command of the current tag out of the pool.
LEMMA CompleteEffect ==
  ASSUME NEW ch \in Channel
  PROVE  Completed(ch, Complete(ch))
<1> DEFINE pool == CmdPoolDel(ch.pool, ch.cur)
           slipped == ch.slipped \/ (ch.port /\ ch.line # <<>>)
           q == [ch EXCEPT !.pool = pool, !.timer = 0, !.misses = 0, !.slipped = slipped]
           e == Complete(ch)
<1>1. e = NextCommand(q)
  BY DEF Complete
<1> HIDE DEF pool, slipped
<1>2. q.pool = pool /\ q.cur = ch.cur /\ q.timer = 0 /\ q.line = ch.line
      /\ q.port = ch.port /\ q.slipped = slipped
  BY DEF Channel
<1>3. /\ [q EXCEPT !.cur = NONE].pool = pool /\ [q EXCEPT !.cur = NONE].cur = NONE
      /\ [q EXCEPT !.cur = NONE].timer = 0 /\ [q EXCEPT !.cur = NONE].line = ch.line
      /\ [q EXCEPT !.cur = NONE].port = ch.port /\ [q EXCEPT !.cur = NONE].slipped = slipped
  BY DEF Channel
<1>4. /\ [q EXCEPT !.wake = @ + 1].pool = pool /\ [q EXCEPT !.wake = @ + 1].cur = ch.cur
      /\ [q EXCEPT !.wake = @ + 1].timer = 0 /\ [q EXCEPT !.wake = @ + 1].line = ch.line
      /\ [q EXCEPT !.wake = @ + 1].port = ch.port
      /\ [q EXCEPT !.wake = @ + 1].slipped = slipped
  BY DEF Channel
<1> HIDE DEF q
<1>5. e = [q EXCEPT !.cur = NONE] \/ e = [q EXCEPT !.wake = @ + 1]
  BY <1>1 DEF NextCommand
<1> HIDE DEF e
<1>6. /\ e.pool = pool /\ e.cur \in {ch.cur, NONE} /\ e.timer = 0
      /\ e.line = ch.line /\ e.port = ch.port /\ e.slipped = slipped
  BY <1>3, <1>4, <1>5
<1>7. e.slipped <=> ch.slipped \/ (ch.port /\ ch.line # <<>>)
  BY <1>6, Zenon DEF slipped
<1> QED
  BY <1>6, <1>7 DEF Completed, pool, e

\* The head of an idle channel with an empty pool is that of the bring-up.
LEMMA BringUpEffect ==
  ASSUME NEW ch \in Channel, ch.pool = <<>>, ch.timer = 0, ch.misses = 0
  PROVE  Anew(ch.line, SendCommands(ch, InitCmds))
<1> DEFINE q == [ch EXCEPT !.pool = InitCmds]
           r == SendCommands(ch, InitCmds)
<1>1. ch.pool \o InitCmds = InitCmds
  BY InitCmdsAssumption, ConcatEmptySeq
<1>2. r = PutHeadCommand(q)
  BY <1>1, InitCmdsAssumption DEF SendCommands
<1>3. q \in Channel /\ q.pool = InitCmds /\ q.line = ch.line /\ q.port = ch.port
  BY InitCmdsAssumption DEF Channel
<1> HIDE DEF q, r
<1>4. Turns(q, InitCmds, r) /\ Dispatched(q, Head(InitCmds), r)
  BY <1>2, <1>3, PutHeadEffect, InitCmdsAssumption
<1>5. r.pool = InitCmds /\ r.port = ch.port
  BY <1>3, <1>4 DEF Turns
<1> QED
  BY <1>3, <1>4, <1>5, InitCmdsAssumption DEF Dispatched, Written, Anew, r

\* A reset begins it.
LEMMA ResetEffect ==
  ASSUME NEW ch \in Channel, NEW opened \in BOOLEAN
  PROVE  Anew(ch.line, ResetChannel(ch, opened))
<1> DEFINE q == [ch EXCEPT !.pool = <<>>, !.cur = NONE, !.timer = 0,
                           !.misses = 0, !.port = opened]
<1>1. 0 \in 0 .. MissLimit - 1 /\ <<>> \in Seq(Command)
  BY TimerAssumption
<1>2. q \in Channel /\ q.pool = <<>> /\ q.timer = 0 /\ q.misses = 0 /\ q.line = ch.line
  BY <1>1 DEF Channel
<1>3. ResetChannel(ch, opened) = SendCommands(q, InitCmds)
  BY DEF ResetChannel
<1> HIDE DEF q
<1> QED
  BY <1>2, <1>3, BringUpEffect

\* So does a start.
LEMMA StartEffect ==
  ASSUME NEW held \in Seq(Command), NEW opened \in BOOLEAN
  PROVE  Anew(held, InitChannel(held, opened))
<1> DEFINE q == [IdleChannel(held) EXCEPT !.port = opened]
<1>1. 0 \in 0 .. MissLimit - 1 /\ <<>> \in Seq(Command)
  BY TimerAssumption
<1>2. q \in Channel /\ q.pool = <<>> /\ q.timer = 0 /\ q.misses = 0 /\ q.line = held
  BY <1>1 DEF IdleChannel, Channel
<1>3. InitChannel(held, opened) = SendCommands(q, InitCmds)
  BY DEF InitChannel
<1> HIDE DEF q
<1> QED
  BY <1>2, <1>3, BringUpEffect

\* The line keeps its oldest command, and its bound, when another is written.
LEMMA WrittenLine ==
  ASSUME NEW line \in Seq(Command), NEW c \in Command, NEW l,
         l = line \/ (Len(line) < LineCap /\ l = Append(line, c))
  PROVE  /\ l \in Seq(Command)
         /\ Len(line) <= Len(l)
         /\ Len(line) <= LineCap => Len(l) <= LineCap
         /\ line # <<>> => l # <<>> /\ Head(l) = Head(line)
<1>1. Len(line) \in Nat /\ LineCap \in Nat
  BY LenProperties, TimerAssumption
<1>2. CASE l = line
  BY <1>1, <1>2
<1>3. CASE Len(line) < LineCap /\ l = Append(line, c)
  <2>1. l \in Seq(Command) /\ Len(l) = Len(line) + 1
        /\ \A i \in 1 .. Len(line) : l[i] = line[i]
    BY <1>3, LenProperties
  <2>2. ASSUME line # <<>> PROVE l # <<>> /\ Head(l) = Head(line)
    <3>1. 1 \in 1 .. Len(line) /\ Head(line) = line[1]
      BY <1>1, <2>2, EmptySeq
    <3>2. l # <<>> /\ Head(l) = l[1]
      BY <1>1, <2>1
    <3> QED
      BY <2>1, <3>1, <3>2
  <2> QED
    BY <1>1, <1>3, <2>1, <2>2
<1> QED
  BY <1>2, <1>3

\* The line of a channel that goes on.
LEMMA TurnsLine ==
  ASSUME NEW ch \in Channel, NEW pool \in Seq(Command), NEW r, Turns(ch, pool, r)
  PROVE  /\ r.line \in Seq(Command)
         /\ Len(ch.line) <= Len(r.line)
         /\ Len(ch.line) <= LineCap => Len(r.line) <= LineCap
         /\ ch.line # <<>> => r.line # <<>> /\ Head(r.line) = Head(ch.line)
         /\ \A c \in Range(r.line) : c \in Range(ch.line) \/ (pool # <<>> /\ c = Head(pool))
<1>1. ch.line \in Seq(Command)
  BY ChannelFields
<1>2. CASE r.line = ch.line
  BY <1>1, <1>2, LenProperties
<1>3. CASE pool # <<>> /\ Len(ch.line) < LineCap /\ r.line = Append(ch.line, Head(pool))
  <2>1. Head(pool) \in Command
    BY <1>3, HeadProperties
  <2>2. \A c \in Range(r.line) : c \in Range(ch.line) \/ c = Head(pool)
    <3>1. /\ DOMAIN ch.line = 1 .. Len(ch.line) /\ DOMAIN r.line = 1 .. Len(ch.line) + 1
          /\ \A i \in 1 .. Len(ch.line) : r.line[i] = ch.line[i]
          /\ r.line[Len(ch.line) + 1] = Head(pool) /\ Len(ch.line) \in Nat
      BY <1>1, <1>3, <2>1, LenProperties
    <3>2. \A i \in DOMAIN r.line : i \in DOMAIN ch.line \/ i = Len(ch.line) + 1
      BY <3>1
    <3> QED
      BY <3>1, <3>2 DEF Range
  <2> QED
    BY <1>1, <1>3, <2>1, <2>2, WrittenLine
<1> QED
  BY <1>2, <1>3 DEF Turns, Dispatched, Written

\* The same of one that begins anew.
LEMMA AnewLine ==
  ASSUME NEW line \in Seq(Command), NEW r, Anew(line, r)
  PROVE  /\ r.line \in Seq(Command)
         /\ Len(line) <= Len(r.line)
         /\ Len(line) <= LineCap => Len(r.line) <= LineCap
         /\ line # <<>> => r.line # <<>> /\ Head(r.line) = Head(line)
         /\ \A c \in Range(r.line) : c \in Range(line) \/ c = Head(InitCmds)
<1>1. Head(InitCmds) \in Command
  BY InitCmdsAssumption, HeadProperties
<1>2. \A c \in Range(r.line) : c \in Range(line) \/ c = Head(InitCmds)
  <2>1. CASE r.line = line
    BY <2>1
  <2>2. CASE r.line = Append(line, Head(InitCmds))
    <3>1. /\ DOMAIN line = 1 .. Len(line) /\ DOMAIN r.line = 1 .. Len(line) + 1
          /\ \A i \in 1 .. Len(line) : r.line[i] = line[i]
          /\ r.line[Len(line) + 1] = Head(InitCmds) /\ Len(line) \in Nat
      BY <1>1, <2>2, LenProperties
    <3>2. \A i \in DOMAIN r.line : i \in DOMAIN line \/ i = Len(line) + 1
      BY <3>1
    <3> QED
      BY <3>1, <3>2 DEF Range
  <2> QED
    BY <2>1, <2>2 DEF Anew
<1> QED
  BY <1>1, <1>2, WrittenLine DEF Anew

-----------------------------------------------------------------------------
(* What lets the order of answers slip: only a transmission, or a           *)
(* completion, while the modem owes an answer.                             *)

Quiet(ch) == ~ch.slipped /\ (ch.port => ch.line = <<>>)

\* A command that is written to a modem that owes nothing keeps the order.
LEMMA QuietTransmit ==
  ASSUME NEW ch \in Channel, Quiet(ch), NEW c, NEW wait
  PROVE  ~Transmit(ch, c, wait).slipped
<1> DEFINE timer == IF c \in Silent THEN ch.timer ELSE wait
           line == Written(ch, c)
           slipped == IF ch.port THEN ch.line # <<>> ELSE ch.slipped
<1>1. Transmit(ch, c, wait) = [ch EXCEPT !.cur = c.tag, !.timer = timer, !.line = line,
                                         !.slipped = slipped]
  BY DEF Transmit, Written
<1>2. ~slipped
  BY Zenon DEF Quiet
<1> HIDE DEF timer, line, slipped
<1> QED
  BY <1>1, <1>2 DEF Channel

\* So does the head of the pool.
LEMMA QuietPutHead ==
  ASSUME NEW ch \in Channel, Quiet(ch)
  PROVE  ~PutHeadCommand(ch).slipped
<1>1. PutHeadCommand(ch) = [ch EXCEPT !.cur = NONE]
      \/ PutHeadCommand(ch) = Transmit(ch, Head(ch.pool), ResultWait)
  BY DEF PutHeadCommand
<1>2. [ch EXCEPT !.cur = NONE].slipped = ch.slipped
  BY DEF Channel
<1> QED
  BY <1>1, <1>2, QuietTransmit DEF Quiet

\* A sound channel whose order has not slipped is quiet when it is idle.
LEMMA IdleIsQuiet ==
  ASSUME NEW ch, Sound(ch), ~ch.slipped, ch.timer = 0
  PROVE  Quiet(ch)
  BY DEF Sound, AnswerMatches, Quiet

\* And an insertion that may transmit it.
LEMMA QueueingKeepsOrder ==
  ASSUME NEW ch, Sound(ch), ~ch.slipped, NEW pool \in Seq(Command), NEW r,
         LET q == [ch EXCEPT !.pool = pool]
         IN  r = q \/ (ch.timer = 0 /\ r = PutHeadCommand(q))
  PROVE  ~r.slipped
<1> DEFINE q == [ch EXCEPT !.pool = pool]
<1>1. ch \in Channel
  BY DEF Sound
<1>2. q \in Channel /\ q.slipped = ch.slipped /\ q.port = ch.port /\ q.line = ch.line
  BY <1>1 DEF Channel
<1>3. r = q \/ (ch.timer = 0 /\ r = PutHeadCommand(q))
  OBVIOUS
<1> HIDE DEF q
<1>4. CASE ch.timer = 0 /\ r = PutHeadCommand(q)
  BY <1>2, <1>4, IdleIsQuiet, QuietPutHead DEF Quiet
<1> QED
  BY <1>2, <1>3, <1>4

\* SendCommand never makes the order slip.
THEOREM SendCommandKeepsOrder ==
  ASSUME NEW ch, Sound(ch), ~ch.slipped, NEW c \in Command, NEW atFirst \in BOOLEAN
  PROVE  ~SendCommand(ch, c, atFirst).slipped
<1> DEFINE pool == IF atFirst THEN CmdPoolPutHead(ch.pool, c) ELSE CmdPoolPut(ch.pool, c)
           q == [ch EXCEPT !.pool = pool]
<1>1. ch.pool \in Seq(Command)
  BY DEF Sound, Channel
<1>2. pool = CmdPoolPutHead(ch.pool, c) \/ pool = CmdPoolPut(ch.pool, c)
  BY Zenon
<1>3. SendCommand(ch, c, atFirst) = q
      \/ (ch.timer = 0 /\ SendCommand(ch, c, atFirst) = PutHeadCommand(q))
  BY DEF SendCommand
<1> HIDE DEF pool
<1>4. pool \in Seq(Command)
  BY <1>1, <1>2, EitherEnd
<1> QED
  BY <1>3, <1>4, QueueingKeepsOrder

\* While a command is in flight, queuing another leaves the modem alone.
LEMMA BusySendIsQuiet ==
  ASSUME NEW ch, Sound(ch), Quiet(ch), ch.timer # 0, NEW c, NEW atFirst
  PROVE  Quiet(SendCommand(ch, c, atFirst))
<1> DEFINE pool == IF atFirst THEN CmdPoolPutHead(ch.pool, c) ELSE CmdPoolPut(ch.pool, c)
           q == [ch EXCEPT !.pool = pool]
<1>1. ch \in Channel
  BY DEF Sound
<1>2. SendCommand(ch, c, atFirst) = q
  BY DEF SendCommand
<1> HIDE DEF pool
<1>3. q.slipped = ch.slipped /\ q.port = ch.port /\ q.line = ch.line
  BY <1>1 DEF Channel
<1> QED
  BY <1>2, <1>3 DEF Quiet

\* So does queuing several.
LEMMA BusySendsAreQuiet ==
  ASSUME NEW ch, Sound(ch), Quiet(ch), ch.timer # 0, NEW cs
  PROVE  Quiet(SendCommands(ch, cs))
<1> DEFINE pool == ch.pool \o cs
           q == [ch EXCEPT !.pool = pool]
<1>1. ch \in Channel
  BY DEF Sound
<1>2. SendCommands(ch, cs) = q
  BY DEF SendCommands
<1> HIDE DEF pool
<1>3. q.slipped = ch.slipped /\ q.port = ch.port /\ q.line = ch.line
  BY <1>1 DEF Channel
<1> QED
  BY <1>2, <1>3 DEF Quiet

\* Nor do several in turn.
THEOREM SendCommandsKeepOrder ==
  ASSUME NEW ch, Sound(ch), ~ch.slipped, NEW cs \in Seq(Command)
  PROVE  ~SendCommands(ch, cs).slipped
<1> DEFINE pool == ch.pool \o cs
           q == [ch EXCEPT !.pool = pool]
<1>1. ch.pool \in Seq(Command)
  BY DEF Sound, Channel
<1>2. SendCommands(ch, cs) = q
      \/ (ch.timer = 0 /\ SendCommands(ch, cs) = PutHeadCommand(q))
  BY DEF SendCommands
<1>3. pool \in Seq(Command)
  BY <1>1, ConcatProperties
<1> HIDE DEF pool
<1> QED
  BY <1>2, <1>3, QueueingKeepsOrder

\* Nor does a completion, if the modem owes nothing more.
THEOREM CompleteKeepsOrder ==
  ASSUME NEW ch \in Channel, Quiet(ch)
  PROVE  ~Complete(ch).slipped
<1> DEFINE pool == CmdPoolDel(ch.pool, ch.cur)
           slipped == ch.slipped \/ (ch.port /\ ch.line # <<>>)
           q == [ch EXCEPT !.pool = pool, !.timer = 0, !.misses = 0, !.slipped = slipped]
<1>1. Complete(ch) = NextCommand(q)
  BY DEF Complete
<1>2. ~slipped
  BY Zenon DEF Quiet
<1> HIDE DEF pool, slipped
<1>3. q.slipped = slipped
  BY DEF Channel
<1>4. [q EXCEPT !.cur = NONE].slipped = slipped /\ [q EXCEPT !.wake = @ + 1].slipped = slipped
  BY DEF Channel
<1> HIDE DEF q
<1>5. NextCommand(q) = [q EXCEPT !.cur = NONE] \/ NextCommand(q) = [q EXCEPT !.wake = @ + 1]
  BY DEF NextCommand
<1> QED
  BY <1>1, <1>2, <1>4, <1>5

-----------------------------------------------------------------------------
(* The dispatcher.                                                         *)

IInv == TypeOK /\ Sound(at)

\* The device opens, or it does not.
LEMMA OpenedFacts == Opened \subseteq BOOLEAN /\ Opened # {}
  BY Zenon DEF Opened

\* The data after a prompt is transmitted in place of the answer that the
\* command would have got: the modem has answered with the prompt.
LEMMA PromptSound ==
  ASSUME NEW ch, Sound(ch), ch.line # <<>>, NEW tag
  PROVE  Sound(PutDirectCommand(Answered(ch), tag))
<1> DEFINE q == Answered(ch)
<1>1. Sound(q) /\ q \in Channel
  BY AnsweredSound DEF Sound
<1> HIDE DEF q
<1>2. CASE tag \in PoolTags(q.pool)
  <2> DEFINE p == q.pool
             c == CmdPoolGet(p, tag)
  <2>1. p \in Seq(Command)
    BY <1>1, ChannelFields
  <2>2. tag \in PoolTags(p)
    BY <1>2
  <2>3. PutDirectCommand(q, tag) = Transmit(q, c, DirectWait)
    BY <1>2 DEF PutDirectCommand
  <2> HIDE DEF p
  <2>4. c \in Range(q.pool)
    BY <2>1, <2>2, CmdPoolGetProperties DEF p
  <2> HIDE DEF c
  <2>5. Sound(Transmit(q, c, DirectWait))
    BY <1>1, <2>4, TransmitSound, TimerAssumption
  <2> QED
    BY <2>3, <2>5 DEF q
<1>3. CASE tag \notin PoolTags(q.pool)
  BY <1>1, <1>3 DEF PutDirectCommand, q
<1> QED
  BY <1>2, <1>3

\* A second of waiting leaves the timer on.
LEMMA TickSound ==
  ASSUME NEW ch, Sound(ch), ch.timer > 1
  PROVE  Sound([ch EXCEPT !.timer = @ - 1])
<1> DEFINE q == [ch EXCEPT !.timer = @ - 1]
<1>1. ch \in Channel /\ ch.timer \in Nat
  BY ChannelFields DEF Sound
<1>2. ch.timer - 1 \in Nat /\ ch.timer - 1 > 0
  BY <1>1
<1>3. q \in Channel
  BY <1>1, <1>2 DEF Channel
<1>4. /\ q.pool = ch.pool /\ q.cur = ch.cur /\ q.timer = ch.timer - 1
      /\ q.misses = ch.misses /\ q.port = ch.port /\ q.line = ch.line
      /\ q.slipped = ch.slipped
  BY <1>1 DEF Channel
<1> HIDE DEF q
<1>5. NoLostWakeup(q) /\ TimerCoversCommand(q) /\ MissesAreTimed(q)
  <2>1. ch.cur \in PoolTags(ch.pool)
    <3>1. ch.timer > 0
      BY <1>1
    <3> QED
      BY <3>1 DEF Sound, TimerCoversCommand
  <2>2. q.timer > 0 /\ q.timer # 0 /\ q.cur \in PoolTags(q.pool)
    BY <1>2, <1>4, <2>1
  <2> QED
    BY <2>2 DEF NoLostWakeup, TimerCoversCommand, MissesAreTimed
<1>6. AnswerMatches(q)
  BY <1>2, <1>4 DEF Sound, AnswerMatches
<1> QED
  BY <1>3, <1>5, <1>6 DEF Sound, q

\* Deleting a second command before the completion keeps the channel a channel.
LEMMA DataResultSound ==
  ASSUME NEW ch, Sound(ch), ch.line # <<>>, NEW tag
  PROVE  Sound(Complete([Answered(ch) EXCEPT !.pool = CmdPoolDel(@, tag)]))
<1> DEFINE q == Answered(ch)
           p == q.pool
           d == CmdPoolDel(p, tag)
           e == [q EXCEPT !.pool = d]
<1>1. q \in Channel
  BY AnsweredSound DEF Sound
<1> HIDE DEF q
<1>2. p \in Seq(Command)
  BY <1>1, ChannelFields
<1> HIDE DEF p
<1>3. d \in Seq(Command)
  BY <1>2, CmdPoolDelProperties
<1> HIDE DEF d
<1>4. e \in Channel
  BY <1>1, <1>3 DEF Channel
<1> HIDE DEF e
<1>5. Sound(Complete(e))
  BY <1>4, CompleteSound
<1> QED
  BY <1>5 DEF e, d, p, q

\* The invariant holds initially.
LEMMA InitIInv == Init => IInv
<1> SUFFICES ASSUME Init PROVE IInv
  OBVIOUS
<1>1. PICK up \in Opened : at = InitChannel(<<>>, up)
  BY DEF Init
<1>2. Sound(at)
  BY <1>1, OpenedFacts, StartSound, EmptySeq
<1>3. TypeOK
  BY <1>2 DEF Init, TypeOK, Sound
<1> QED
  BY <1>2, <1>3 DEF IInv

\* A step that leaves a sound channel keeps the invariant.
LEMMA SoundStep ==
  ASSUME Sound(at'), recovery' \in Nat, stop' \in BOOLEAN, run' \in BOOLEAN
  PROVE  IInv'
  BY DEF IInv, TypeOK, Sound, NoLostWakeup, TimerCoversCommand, MissesAreTimed,
         AnswerMatches, PoolTags, Held, Range, Channel

\* A reset keeps the invariant.
LEMMA ResetStep ==
  ASSUME IInv, ResetModem
  PROVE  IInv'
<1>1. PICK up \in Opened : at' = ResetChannel(at, up)
  BY DEF ResetModem
<1>2. Sound(at')
  BY <1>1, OpenedFacts, ResetSound DEF IInv, TypeOK
<1> QED
  BY <1>2, SoundStep DEF IInv, TypeOK, ResetModem

\* So does the end of the agent.
LEMMA DeadStep ==
  ASSUME IInv, Dead
  PROVE  IInv'
<1>1. at.line \in Seq(Command)
  BY ChannelFields DEF IInv, TypeOK
<1>2. Sound(at')
  BY <1>1, StartSound DEF Dead
<1> QED
  BY <1>2, SoundStep DEF Dead

\* One lemma for each group of actions.
LEMMA TimerStep ==
  ASSUME IInv, OnTimer
  PROVE  IInv'
<1>1. Sound(at) /\ at \in Channel /\ recovery \in Nat /\ stop \in BOOLEAN /\ run \in BOOLEAN
  BY DEF IInv, TypeOK
<1>2. ASSUME RecoveryStep PROVE recovery' \in Nat
  BY <1>1, <1>2 DEF RecoveryStep
<1>3. CASE TickRecoveryOver
  BY <1>3, ResetStep DEF TickRecoveryOver
<1>4. CASE TickWaiting
  <2>1. Sound(at')
    BY <1>1, <1>4, TickSound DEF TickWaiting
  <2> QED
    BY <1>1, <1>2, <1>4, <2>1, SoundStep DEF TickWaiting
<1>5. CASE TickRetry
  <2>1. Sound(at')
    BY <1>1, <1>5, RetrySound DEF TickRetry
  <2> QED
    BY <1>1, <1>2, <1>5, <2>1, SoundStep DEF TickRetry
<1>6. CASE TickNoAnswer
  BY <1>6, ResetStep DEF TickNoAnswer
<1>7. CASE TickIdle
  <2>1. Sound(at')
    BY <1>1, <1>7, SendCommandsSound, RunsAssumption DEF TickIdle
  <2> QED
    BY <1>1, <1>2, <1>7, <2>1, SoundStep DEF TickIdle
<1> QED
  BY <1>3, <1>4, <1>5, <1>6, <1>7 DEF OnTimer

\* The steps of the loop that are no line of the modem.
LEMMA LoopStep ==
  ASSUME IInv, OnPutCommand \/ OnSerialError \/ OnDestroy \/ OnClientCommand
               \/ OnClientReset \/ ModemLoses \/ Signal \/ Killed \/ Start
  PROVE  IInv'
<1>1. Sound(at) /\ at \in Channel /\ recovery \in Nat /\ stop \in BOOLEAN /\ run \in BOOLEAN
  BY DEF IInv, TypeOK
<1>2. CASE OnPutCommand
  <2>1. Sound(at')
    BY <1>1, <1>2, DispatchSound DEF OnPutCommand
  <2> QED
    BY <1>1, <1>2, <2>1, SoundStep DEF OnPutCommand
<1>3. CASE OnSerialError
  BY <1>3, ResetStep DEF OnSerialError
<1>4. CASE OnDestroy
  BY <1>4, DeadStep DEF OnDestroy
<1>5. CASE OnClientCommand
  <2>1. Sound(at')
    BY <1>1, <1>5, SendCommandsSound, RunsAssumption DEF OnClientCommand
  <2> QED
    BY <1>1, <1>5, <2>1, SoundStep DEF OnClientCommand
<1>6. CASE OnClientReset
  BY <1>6, ResetStep DEF OnClientReset
<1>7. CASE ModemLoses
  <2>1. Sound(at')
    BY <1>1, <1>7, AnsweredSound DEF ModemLoses
  <2> QED
    BY <1>1, <1>7, <2>1, SoundStep DEF ModemLoses
<1>8. CASE Signal
  <2>1. Sound(at')
    BY <1>1, <1>8 DEF Signal
  <2> QED
    BY <1>1, <1>8, <2>1, SoundStep DEF Signal
<1>9. CASE Killed
  BY <1>9, DeadStep DEF Killed
<1>10. CASE Start
  <2>1. PICK up \in Opened : at' = InitChannel(at.line, up)
    BY <1>10 DEF Start
  <2>2. at.line \in Seq(Command)
    BY <1>1, ChannelFields
  <2>3. Sound(at')
    BY <2>1, <2>2, OpenedFacts, StartSound
  <2> QED
    BY <1>1, <1>10, <2>3, SoundStep DEF Start
<1> QED
  BY <1>2, <1>3, <1>4, <1>5, <1>6, <1>7, <1>8, <1>9, <1>10

\* Commands that may go before one for the head.
LEMMA TailRuns ==
  ASSUME NEW cs \in LineRuns \cup {<<>>}
  PROVE  cs \in Seq(Command)
<1>1. <<>> \in Seq(Command)
  OBVIOUS
<1> QED
  BY <1>1, RunsAssumption

\* The lines of the modem.
LEMMA LineStep ==
  ASSUME IInv, RxLine
  PROVE  IInv'
<1>1. Sound(at) /\ at \in Channel /\ recovery \in Nat /\ stop \in BOOLEAN /\ run \in BOOLEAN
  BY DEF IInv, TypeOK
<1>2. CASE RxQueueTail
  <2>1. Sound(at')
    BY <1>1, <1>2, SendCommandsSound, RunsAssumption DEF RxQueueTail
  <2> QED
    BY <1>1, <1>2, <2>1, SoundStep DEF RxQueueTail
<1>3. CASE RxQueueHead
  <2>1. PICK c \in HeadCmds, cs \in LineRuns \cup {<<>>} :
          at' = SendCommand(SendCommands(at, cs), c, TRUE)
    BY <1>3 DEF RxQueueHead
  <2>2. Sound(SendCommands(at, cs))
    BY <1>1, SendCommandsSound, TailRuns
  <2>3. Sound(at')
    BY <2>1, <2>2, SendCommandSound, RunsAssumption
  <2> QED
    BY <1>1, <1>3, <2>3, SoundStep DEF RxQueueHead
<1>4. CASE RxPrompt
  <2>1. Sound(at')
    BY <1>1, <1>4, PromptSound DEF RxPrompt
  <2> QED
    BY <1>1, <1>4, <2>1, SoundStep DEF RxPrompt
<1>5. CASE RxResult
  <2>1. Sound(Answered(at))
    BY <1>1, <1>5, AnsweredSound DEF RxResult, RxFinal
  <2>2. PICK cs \in ResultRuns : at' = Complete(SendCommands(Answered(at), cs))
    BY <1>5 DEF RxResult
  <2>3. SendCommands(Answered(at), cs) \in Channel
    BY <2>1, SendCommandsSound, RunsAssumption DEF Sound
  <2>4. Sound(at')
    BY <2>2, <2>3, CompleteSound
  <2>5. stop' \in BOOLEAN
    BY <1>1, <1>5, Zenon DEF RxResult
  <2> QED
    BY <1>1, <1>5, <2>4, <2>5, SoundStep DEF RxResult
<1>6. CASE RxDataResult
  <2>1. Sound(at')
    BY <1>1, <1>6, DataResultSound DEF RxDataResult, RxFinal
  <2> QED
    BY <1>1, <1>6, <2>1, SoundStep DEF RxDataResult
<1>7. CASE RxAskAgain
  <2>1. Sound(Answered(at))
    BY <1>1, <1>7, AnsweredSound DEF RxAskAgain, RxFinal
  <2>2. SendCommand(Answered(at), Cmd(at.cur), TRUE) \in Channel
    BY <1>7, <2>1, SendCommandSound, RunsAssumption DEF RxAskAgain, Sound
  <2>3. Sound(at')
    BY <1>7, <2>2, CompleteSound DEF RxAskAgain
  <2> QED
    BY <1>1, <1>7, <2>3, SoundStep DEF RxAskAgain
<1>8. CASE RxRebooted
  <2>1. Answered(at) \in Channel
    BY <1>1, <1>8, AnsweredSound DEF RxRebooted, RxFinal, Sound
  <2>2. PICK up \in Opened : at' = Complete(ResetChannel(Answered(at), up))
    BY <1>8 DEF RxRebooted
  <2>3. ResetChannel(Answered(at), up) \in Channel
    BY <2>1, OpenedFacts, ResetSound DEF Sound
  <2>4. Sound(at')
    BY <2>2, <2>3, CompleteSound
  <2> QED
    BY <1>1, <1>8, <2>4, SoundStep DEF RxRebooted
<1>9. CASE RxRecovery
  <2>1. Sound(at')
    BY <1>1, <1>9 DEF RxRecovery
  <2>2. recovery' \in Nat
    BY <1>9, SettingAssumption DEF RxRecovery
  <2> QED
    BY <1>1, <1>9, <2>1, <2>2, SoundStep DEF RxRecovery
<1> QED
  BY <1>2, <1>3, <1>4, <1>5, <1>6, <1>7, <1>8, <1>9 DEF RxLine

\* Every step of the dispatcher, and every step that leaves its variables alone,
\* keeps the invariant.
LEMMA NextIInv == IInv /\ [Next]_vars => IInv'
<1> SUFFICES ASSUME IInv, [Next]_vars PROVE IInv'
  OBVIOUS
<1>1. CASE OnTimer
  BY <1>1, TimerStep
<1>2. CASE RxLine
  BY <1>2, LineStep
<1>3. CASE UNCHANGED vars
  BY <1>3, SoundStep DEF vars, IInv, TypeOK
<1> QED
  BY <1>1, <1>2, <1>3, LoopStep DEF Next

\* The dispatcher's channel is sound in every reachable state.
THEOREM Invariance == Spec => []IInv
  BY InitIInv, NextIInv, PTL DEF Spec

\* The variables keep their types: the count of missing answers stays below the
\* limit at which the modem is reset, and the timer counts down to zero only.
THEOREM TypeCorrect == Spec => []TypeOK
<1>1. IInv => TypeOK
  BY DEF IInv
<1> QED
  BY <1>1, Invariance, PTL

\* The agent never sleeps with a command to send, unless the pool holds data of
\* length 0 (see DispatchKept).
THEOREM DispatchIsKept == Spec => []DispatchKept
<1>1. IInv => DispatchKept
  BY DEF IInv, Sound, DispatchKept
<1> QED
  BY <1>1, Invariance, PTL

\* The timer always waits for a command of the pool (see CoverKept).
THEOREM CoverIsKept == Spec => []CoverKept
<1>1. IInv => CoverKept
  BY DEF IInv, Sound, CoverKept
<1> QED
  BY <1>1, Invariance, PTL

\* A count of missing answers is always a count for the command in flight, unless the
\* pool holds data of length 0 (see MissesKept).
THEOREM MissesAreKept == Spec => []MissesKept
<1>1. IInv => MissesKept
  BY DEF IInv, Sound, MissesKept
<1> QED
  BY <1>1, Invariance, PTL

\* Until the order slips, answers go to the command they answer (see
\* AnswersKept).
THEOREM AnswersAreKept == Spec => []AnswersKept
<1>1. IInv => AnswersKept
  BY DEF IInv, Sound, AnswersKept
<1> QED
  BY <1>1, Invariance, PTL

-----------------------------------------------------------------------------
(* The order of the answers.                                               *)

\* An answer leaves a sound channel quiet, if the order has not slipped.
LEMMA AnsweredIsQuiet ==
  ASSUME NEW ch, Sound(ch), ~ch.slipped, ch.line # <<>>
  PROVE  /\ Sound(Answered(ch)) /\ Quiet(Answered(ch))
         /\ ch.port => Answered(ch).timer # 0
<1>1. ch \in Channel /\ ch.timer \in Nat
  BY ChannelFields DEF Sound
<1>2. /\ Answered(ch).port = ch.port /\ Answered(ch).timer = ch.timer
      /\ Answered(ch).slipped = ch.slipped
  BY <1>1 DEF Answered, Channel
<1>3. Sound(Answered(ch)) /\ (ch.port => Answered(ch).line = <<>>)
  BY AnsweredSound
<1>4. ch.port => ch.timer > 0
  BY DEF Sound, AnswerMatches
<1> QED
  BY <1>1, <1>2, <1>3, <1>4 DEF Quiet

\* The ordered steps, one by one.
LEMMA OrderStep ==
  ASSUME IInv, Ordered, ~at.slipped
  PROVE  ~at'.slipped
<1>1. Sound(at) /\ at \in Channel
  BY DEF IInv, TypeOK
<1>2. CASE OnClientCommand
  BY <1>1, <1>2, SendCommandsKeepOrder, RunsAssumption DEF OnClientCommand
<1>3. CASE TickWaiting
  BY <1>1, <1>3 DEF TickWaiting, Channel
<1>4. CASE TickIdle
  BY <1>1, <1>4, SendCommandsKeepOrder, RunsAssumption DEF TickIdle
<1>5. CASE RxQueueTail
  BY <1>1, <1>5, SendCommandsKeepOrder, RunsAssumption DEF RxQueueTail
<1>6. CASE RxQueueHead
  <2>1. PICK c \in HeadCmds, cs \in LineRuns \cup {<<>>} :
          at' = SendCommand(SendCommands(at, cs), c, TRUE)
    BY <1>6 DEF RxQueueHead
  <2>2. Sound(SendCommands(at, cs)) /\ ~SendCommands(at, cs).slipped
    BY <1>1, SendCommandsSound, SendCommandsKeepOrder, TailRuns
  <2> QED
    BY <2>1, <2>2, SendCommandKeepsOrder, RunsAssumption
<1>7. CASE RxPrompt
  <2>1. Sound(Answered(at)) /\ Quiet(Answered(at)) /\ Answered(at) \in Channel
    BY <1>1, <1>7, AnsweredIsQuiet DEF RxPrompt, Sound
  <2>2. PICK p \in Prompts : at' = PutDirectCommand(Answered(at), p[2])
    BY <1>7 DEF RxPrompt
  <2>3. at' = Answered(at)
        \/ at' = Transmit(Answered(at), CmdPoolGet(Answered(at).pool, p[2]), DirectWait)
    BY <2>2 DEF PutDirectCommand
  <2> QED
    BY <2>1, <2>3, QuietTransmit DEF Quiet
<1>8. CASE RxResult
  <2>1. /\ Sound(Answered(at)) /\ Quiet(Answered(at)) /\ Answered(at).timer # 0
    BY <1>1, <1>8, AnsweredIsQuiet DEF RxResult, RxFinal, Reading
  <2>2. PICK cs \in ResultRuns : at' = Complete(SendCommands(Answered(at), cs))
    BY <1>8 DEF RxResult
  <2> DEFINE q == SendCommands(Answered(at), cs)
  <2>3. Quiet(q) /\ q \in Channel
    BY <2>1, BusySendsAreQuiet, SendCommandsSound, RunsAssumption DEF Sound
  <2> QED
    BY <2>2, <2>3, CompleteKeepsOrder
<1>9. CASE RxDataResult
  <2> DEFINE q == Answered(at)
  <2>1. Quiet(q) /\ q \in Channel
    BY <1>1, <1>9, AnsweredIsQuiet DEF RxDataResult, RxFinal, Sound
  <2>2. PICK p \in Prompts : at' = Complete([q EXCEPT !.pool = CmdPoolDel(@, p[1])])
    BY <1>9 DEF RxDataResult
  <2> HIDE DEF q
  <2> DEFINE d == CmdPoolDel(q.pool, p[1])
             e == [q EXCEPT !.pool = d]
  <2>3. d \in Seq(Command)
    BY <2>1, ChannelFields, CmdPoolDelProperties
  <2> HIDE DEF d
  <2>4. e \in Channel /\ e.slipped = q.slipped /\ e.port = q.port /\ e.line = q.line
    BY <2>1, <2>3 DEF Channel
  <2>5. at' = Complete(e)
    BY <2>2 DEF d
  <2> HIDE DEF e
  <2> QED
    BY <2>1, <2>4, <2>5, CompleteKeepsOrder DEF Quiet
<1>10. CASE RxAskAgain
  <2>1. /\ Sound(Answered(at)) /\ Quiet(Answered(at)) /\ Answered(at).timer # 0
        /\ Cmd(at.cur) \in Command
    BY <1>1, <1>10, AnsweredIsQuiet, RunsAssumption DEF RxAskAgain, RxFinal, Reading
  <2> DEFINE q == SendCommand(Answered(at), Cmd(at.cur), TRUE)
  <2>2. Quiet(q) /\ q \in Channel
    BY <2>1, BusySendIsQuiet, SendCommandSound DEF Sound
  <2> QED
    BY <1>10, <2>2, CompleteKeepsOrder DEF RxAskAgain
<1> QED
  BY <1>2, <1>3, <1>4, <1>5, <1>6, <1>7, <1>8, <1>9, <1>10 DEF Ordered

\* No request, no poll and no line of the modem makes the order slip (see
\* OrderKept).
THEOREM OrderIsKept == Spec => OrderKept
<1>1. IInv /\ [Next]_vars => [Ordered /\ at'.slipped => at.slipped]_vars
  BY OrderStep
<1> QED
  BY <1>1, Invariance, PTL DEF Spec, OrderKept

-----------------------------------------------------------------------------
(* What the steps of the dispatcher change in the channel, for the modules  *)
(* of the handlers.                                                         *)

\* A dispatch, a second of waiting and a retry leave the pool alone.
LEMMA WaitEffect ==
  ASSUME IInv, OnPutCommand \/ TickWaiting \/ TickRetry
  PROVE  Turns(at, at.pool, at')
<1>1. Sound(at) /\ at \in Channel /\ at.timer \in Nat /\ at.misses \in Nat /\ at.wake \in Nat
  BY ChannelFields DEF IInv, TypeOK
<1>2. CASE OnPutCommand
  <2> DEFINE q == [at EXCEPT !.wake = @ - 1]
  <2>1. /\ q \in Channel /\ q.pool = at.pool /\ q.cur = at.cur /\ q.timer = at.timer
        /\ q.port = at.port /\ q.line = at.line /\ q.slipped = at.slipped
    BY <1>1, <1>2 DEF Channel, OnPutCommand
  <2>2. at' = PutHeadCommand(q)
    BY <1>2 DEF OnPutCommand
  <2> HIDE DEF q
  <2> QED
    BY <2>1, <2>2, PutHeadEffect DEF Turns, Dispatched, Written
<1>3. CASE TickWaiting
  <2>1. at' = [at EXCEPT !.timer = @ - 1] /\ at.timer - 1 > 0
    BY <1>1, <1>3 DEF TickWaiting
  <2>2. /\ at'.pool = at.pool /\ at'.cur = at.cur /\ at'.timer = at.timer - 1
        /\ at'.port = at.port /\ at'.line = at.line /\ at'.slipped = at.slipped
    BY <1>1, <2>1 DEF Channel
  <2> QED
    BY <2>1, <2>2 DEF Turns
<1>4. CASE TickRetry
  <2> DEFINE q == [at EXCEPT !.timer = 0, !.misses = @ + 1]
  <2>1. at.misses + 1 \in 0 .. MissLimit - 1
    BY <1>1, <1>4, ChannelFields, TimerAssumption DEF TickRetry
  <2>2. /\ q \in Channel /\ q.pool = at.pool /\ q.cur = at.cur
        /\ q.port = at.port /\ q.line = at.line /\ q.slipped = at.slipped
    BY <1>1, <2>1 DEF Channel
  <2>3. at' = PutHeadCommand(q)
    BY <1>4 DEF TickRetry, Retry
  <2>4. at.pool # <<>>
    BY <1>1, <1>4, EmptyIsIdle DEF TickRetry
  <2> HIDE DEF q
  <2> QED
    BY <2>2, <2>3, <2>4, PutHeadEffect DEF Turns, Dispatched, Written
<1> QED
  BY <1>2, <1>3, <1>4

\* The status poll queues its commands.
LEMMA PollEffect ==
  ASSUME IInv, TickIdle
  PROVE  \E cs \in Polls \cup {<<>>} :
           at.pool \o cs \in Seq(Command) /\ Turns(at, at.pool \o cs, at')
<1>1. Sound(at) /\ at \in Channel /\ at.pool \in Seq(Command)
  BY ChannelFields DEF IInv, TypeOK
<1>2. CASE UNCHANGED at
  <2>1. Turns(at, at.pool, at')
    BY <1>2 DEF Turns
  <2> QED
    BY <1>1, <2>1, ConcatEmptySeq
<1>3. CASE \E cs \in Polls : Room(Len(cs)) /\ at' = SendCommands(at, cs)
  BY <1>1, <1>3, SendCommandsEffect, RunsAssumption
<1> QED
  BY <1>2, <1>3 DEF TickIdle

\* A command for the head.
LEMMA AtHeadEffect ==
  ASSUME IInv, NEW c \in Command, at' = SendCommand(at, c, TRUE)
  PROVE  <<c>> \o at.pool \in Seq(Command) /\ Turns(at, <<c>> \o at.pool, at')
<1>1. Sound(at) /\ at.pool \in Seq(Command)
  BY ChannelFields DEF IInv, TypeOK
<1>2. CmdPoolPutHead(at.pool, c) = <<c>> \o at.pool
  BY DEF CmdPoolPutHead, Cons
<1>3. Turns(at, CmdPoolPutHead(at.pool, c), at')
  BY <1>1, SendCommandEffect
<1>4. CmdPoolPutHead(at.pool, c) \in Seq(Command)
  BY <1>1, EitherEnd
<1> QED
  BY <1>2, <1>3, <1>4

\* A reset of the modem, and a start of the agent.
LEMMA AnewStep ==
  ASSUME IInv, ResetModem \/ Start
  PROVE  Anew(at.line, at')
<1>1. at \in Channel /\ at.line \in Seq(Command)
  BY ChannelFields DEF IInv, TypeOK
<1>2. CASE ResetModem
  BY <1>1, <1>2, ResetEffect, OpenedFacts DEF ResetModem
<1>3. CASE Start
  BY <1>1, <1>3, StartEffect, OpenedFacts DEF Start
<1> QED
  BY <1>2, <1>3
=============================================================================
