---------------------------- MODULE HelperProofs ----------------------------
(***************************************************************************)
(* Three helpers that stand by themselves: the list under the command      *)
(* pool, the calendar, and the text message PDU.                           *)
(*                                                                         *)
(* The linked list of the command pool implements the queue its callers    *)
(* take it for, and owns its cells, for every set of commands and every    *)
(* number of cells.  The invariant says that the cells a walk from the     *)
(* head meets are linked in this order, each of them once, and end in the  *)
(* null pointer; each function is then described by what it makes of the   *)
(* walk.                                                                   *)
(*                                                                         *)
(* The conversions between seconds and dates agree with the calendar, for  *)
(* every hour, zone and day the tables are made for.  Both are compared    *)
(* with the number of a day: the conversions put it together and take it   *)
(* apart, and the calendar's next day has the next number.                 *)
(*                                                                         *)
(* What EncodePDU makes of a number and a text, DecodePDU takes apart      *)
(* again, for every length.  Loops and concatenations come first, then     *)
(* each conversion with its inverse (septets and bits, the alphabet, the   *)
(* digits, KS C 5601), then where the parts of a message lie, and at last  *)
(* what can be composed, which is all the inductive invariant says.        *)
(***************************************************************************)
EXTENDS CmdList, Calendar, SmsExchange, SequenceTheorems, FiniteSetTheorems, WellFoundedInduction, TLAPS

-----------------------------------------------------------------------------
(* Walks.                                                                  *)

\* A set of positions has a least one.
LEMMA LeastPosition ==
  ASSUME NEW I, I \subseteq Nat, I # {}
  PROVE  Min(I) \in I /\ \A j \in I : Min(I) <= j
<1>1. PICK m \in I : \A j \in I : <<j, m>> \notin OpToRel(<, Nat)
  BY NatLessThanWellFounded, WFMin
<1>2. \A j \in I : ~(j < m)
  BY <1>1, Zenon DEF OpToRel
<1>3. \A j \in I : m <= j
  BY <1>2
<1> QED
  BY <1>3 DEF Min

Bound == Cardinality(Cell)

\* There is a finite number of cells.
LEMMA BoundType == Bound \in Nat
  BY HeapAssumption, FS_CardinalityType DEF Bound

\* The first k links of a walk from h.
Follows(f, k, h, nx) ==
  f = [i \in 0 .. k |->
         IF i = 0 THEN h ELSE IF f[i - 1] = NULL THEN NULL ELSE nx[f[i - 1]]]

\* Walks of every length exist: the shortest that did not would continue a walk
\* that does.
LEMMA WalksExist ==
  ASSUME NEW h, NEW nx, NEW n \in Nat
  PROVE  \E f : Follows(f, n, h, nx)
<1> DEFINE Bad == {k \in Nat : ~\E f : Follows(f, k, h, nx)}
<1>1. Bad = {}
  <2> SUFFICES ASSUME Bad # {} PROVE FALSE
    OBVIOUS
  <2> DEFINE m == Min(Bad)
  <2>1. m \in Bad /\ \A k \in Bad : m <= k
    BY LeastPosition
  <2> HIDE DEF m
  <2>2. CASE m = 0
    <3> DEFINE f == [i \in 0 .. 0 |-> h]
    <3>1. Follows(f, 0, h, nx)
      BY DEF Follows
    <3> QED
      BY <2>1, <2>2, <3>1
  <2>3. CASE m # 0
    <3>1. m \in Nat /\ m - 1 \in Nat /\ m - 1 \notin Bad
      BY <2>1, <2>3
    <3>2. PICK f : Follows(f, m - 1, h, nx)
      BY <3>1
    <3> DEFINE new == IF f[m - 1] = NULL THEN NULL ELSE nx[f[m - 1]]
               g == [i \in 0 .. m |-> IF i = m THEN new ELSE f[i]]
               r == [i \in 0 .. m |->
                       IF i = 0 THEN h ELSE IF g[i - 1] = NULL THEN NULL ELSE nx[g[i - 1]]]
    <3>3. \A i \in 0 .. m - 1 :
            f[i] = IF i = 0 THEN h ELSE IF f[i - 1] = NULL THEN NULL ELSE nx[f[i - 1]]
      BY <3>2 DEF Follows
    <3>4. \A i \in 0 .. m : g[i] = r[i]
      <4> SUFFICES ASSUME NEW i \in 0 .. m PROVE g[i] = r[i]
        OBVIOUS
      <4>1. CASE i = 0
        BY <2>3, <3>1, <3>3, <4>1
      <4>2. CASE i = m
        <5>1. i - 1 \in 0 .. m /\ i - 1 # m /\ i # 0
          BY <2>3, <3>1, <4>2
        <5>2. g[i - 1] = f[m - 1]
          BY <4>2, <5>1
        <5> QED
          BY <4>2, <5>1, <5>2
      <4>3. CASE i # 0 /\ i # m
        <5>1. i - 1 \in 0 .. m /\ i - 1 # m /\ i \in 0 .. m - 1
          BY <3>1, <4>3
        <5>2. g[i - 1] = f[i - 1] /\ g[i] = f[i]
          BY <4>3, <5>1
        <5> QED
          BY <3>3, <4>3, <5>1, <5>2
      <4> QED
        BY <4>1, <4>2, <4>3
    <3>5. g = r
      BY <3>4
    <3>6. Follows(g, m, h, nx)
      BY <3>5 DEF Follows
    <3> QED
      BY <2>1, <3>6
  <2> QED
    BY <2>2, <2>3
<1> QED
  BY <1>1

\* Met is one.
LEMMA MetFollows ==
  ASSUME NEW h, NEW nx
  PROVE  /\ Met(h, nx)[0] = h
         /\ \A i \in 1 .. Bound :
              Met(h, nx)[i] = IF Met(h, nx)[i - 1] = NULL THEN NULL ELSE nx[Met(h, nx)[i - 1]]
<1> DEFINE p == Met(h, nx)
<1>1. p = CHOOSE f : Follows(f, Bound, h, nx)
  BY DEF Met, Follows, Bound
<1>2. \E f : Follows(f, Bound, h, nx)
  BY BoundType, WalksExist
<1>3. Follows(p, Bound, h, nx)
  BY <1>1, <1>2
<1> HIDE DEF p
<1>4. p[0] = h
  BY <1>3, BoundType DEF Follows
<1>5. ASSUME NEW i \in 1 .. Bound
      PROVE  p[i] = IF p[i - 1] = NULL THEN NULL ELSE nx[p[i - 1]]
  <2>1. i \in 0 .. Bound /\ i # 0
    BY BoundType
  <2> QED
    BY <1>3, <2>1 DEF Follows
<1> QED
  BY <1>4, <1>5 DEF p

\* The cell at place i of a list, and the null pointer behind the last.
At(w, i) == IF i <= Len(w) THEN w[i] ELSE NULL

\* The cells w are linked in this order, the first from h.
Linked(w, h, nx) ==
  /\ w \in Seq(Cell) /\ IsInjective(w)
  /\ h = At(w, 1)
  /\ \A i \in 1 .. Len(w) : nx[w[i]] = At(w, i + 1)

\* No list has more cells than there are.
LEMMA ShortEnough ==
  ASSUME NEW w \in Seq(Cell), IsInjective(w)
  PROVE  Len(w) \in Nat /\ Len(w) <= Bound
<1>1. Len(w) \in Nat /\ DOMAIN w = 1 .. Len(w) /\ w \in [1 .. Len(w) -> Cell]
  BY LenProperties
<1>2. w \in Injection(1 .. Len(w), Cell)
  BY <1>1 DEF Injection, IsInjective
<1>3. Cardinality(1 .. Len(w)) <= Bound
  BY <1>2, HeapAssumption, FS_Injection DEF Bound
<1>4. Cardinality(1 .. Len(w)) = Len(w)
  BY <1>1, FS_Interval
<1> QED
  BY <1>1, <1>3, <1>4

\* The walk meets the cells of a list, in its order, and no others.
LEMMA WalkIsList ==
  ASSUME NEW w, NEW h, NEW nx, Linked(w, h, nx)
  PROVE  WalkFrom(h, nx) = w
<1> DEFINE p == Met(h, nx)
           n == Len(w)
<1>1. /\ w \in Seq(Cell) /\ n \in Nat /\ n <= Bound /\ Bound \in Nat
      /\ DOMAIN w = 1 .. n /\ \A i \in 1 .. n : w[i] \in Cell
  BY ShortEnough, LenProperties, BoundType, ElementOfSeq DEF Linked
<1>2. /\ p[0] = h
      /\ \A i \in 1 .. Bound : p[i] = IF p[i - 1] = NULL THEN NULL ELSE nx[p[i - 1]]
  BY MetFollows
<1>3. h = At(w, 1) /\ \A i \in 1 .. n : nx[w[i]] = At(w, i + 1)
  BY DEF Linked
<1> HIDE DEF p, n
<1>4. \A i \in 0 .. Bound : p[i] = At(w, i + 1)
  <2> DEFINE Bad == {i \in 0 .. Bound : p[i] # At(w, i + 1)}
  <2> SUFFICES ASSUME Bad # {} PROVE FALSE
    OBVIOUS
  <2> DEFINE m == Min(Bad)
  <2>1. m \in Bad /\ \A k \in Bad : m <= k
    <3>1. Bad \subseteq Nat
      BY <1>1
    <3> QED
      BY <3>1, LeastPosition
  <2> HIDE DEF m
  <2>2. m # 0
    BY <1>2, <1>3, <2>1
  <2>3. m \in 1 .. Bound /\ m - 1 \in 0 .. Bound /\ m - 1 \notin Bad /\ (m - 1) + 1 = m
    BY <1>1, <2>1, <2>2
  <2>4. p[m - 1] = At(w, m)
    BY <2>3
  <2>5. CASE m <= n
    <3>1. m \in 1 .. n /\ p[m - 1] = w[m] /\ w[m] \in Cell
      BY <1>1, <2>3, <2>4, <2>5 DEF At, n
    <3>2. p[m] = nx[w[m]]
      BY <1>2, <2>3, <3>1, NullAssumption
    <3> QED
      BY <1>3, <2>1, <3>1, <3>2
  <2>6. CASE ~(m <= n)
    <3>1. p[m - 1] = NULL /\ At(w, m + 1) = NULL
      BY <1>1, <2>3, <2>4, <2>6 DEF At, n
    <3>2. p[m] = NULL
      BY <1>2, <2>3, <3>1
    <3> QED
      BY <2>1, <3>1, <3>2
  <2> QED
    BY <2>5, <2>6
<1> DEFINE K == {k \in 1 .. Bound : p[k - 1] # NULL}
           I == 1 .. n
<1>5. K = I
  <2>1. ASSUME NEW k \in 1 .. Bound PROVE p[k - 1] # NULL <=> k \in 1 .. n
    <3>1. k - 1 \in 0 .. Bound /\ (k - 1) + 1 = k
      BY <1>1
    <3>2. p[k - 1] = At(w, k)
      BY <1>4, <3>1
    <3>3. CASE k <= n
      <4>1. k \in 1 .. n /\ p[k - 1] = w[k]
        BY <1>1, <3>2, <3>3 DEF At, n
      <4> QED
        BY <1>1, <4>1, NullAssumption
    <3>4. CASE ~(k <= n)
      BY <1>1, <3>2, <3>4 DEF At, n
    <3> QED
      BY <3>3, <3>4
  <2>2. \A k : k \in I => k \in 1 .. Bound
    BY <1>1
  <2>3. \A k : k \in K <=> k \in 1 .. Bound /\ p[k - 1] # NULL
    OBVIOUS
  <2> HIDE DEF K, I
  <2>4. \A k \in 1 .. Bound : p[k - 1] # NULL <=> k \in I
    BY <2>1 DEF I
  <2>5. \A k : k \in K <=> k \in I
    BY <2>2, <2>3, <2>4, Zenon
  <2> QED
    BY <2>5
<1> HIDE DEF K, I
<1>6. Cardinality(K) = n
  BY <1>1, <1>5, FS_Interval DEF I
<1>7. \A i \in 1 .. n : p[i - 1] = w[i]
  <2> SUFFICES ASSUME NEW i \in 1 .. n PROVE p[i - 1] = w[i]
    OBVIOUS
  <2>1. i - 1 \in 0 .. Bound /\ (i - 1) + 1 = i /\ i <= n
    BY <1>1
  <2> QED
    BY <1>4, <2>1 DEF At, n
<1>8. WalkFrom(h, nx) = [i \in 1 .. Cardinality(K) |-> p[i - 1]]
  BY DEF WalkFrom, Bound, p, K
<1>9. w = [i \in 1 .. n |-> w[i]]
  BY <1>1
<1> QED
  BY <1>6, <1>7, <1>8, <1>9

-----------------------------------------------------------------------------
(* What the functions make of a list.                                      *)

\* A list of cells and its length.
LEMMA ListFacts ==
  ASSUME NEW w, NEW h, NEW nx, Linked(w, h, nx)
  PROVE  /\ w \in Seq(Cell) /\ Len(w) \in Nat /\ DOMAIN w = 1 .. Len(w)
         /\ \A i \in 1 .. Len(w) : w[i] \in Cell /\ nx[w[i]] = At(w, i + 1)
         /\ \A i, j \in 1 .. Len(w) : w[i] = w[j] => i = j
         /\ h = At(w, 1)
         /\ h = NULL <=> w = <<>>
<1>1. /\ w \in Seq(Cell) /\ Len(w) \in Nat /\ DOMAIN w = 1 .. Len(w)
      /\ \A i \in 1 .. Len(w) : w[i] \in Cell
  BY LenProperties, ElementOfSeq DEF Linked
<1>2. \A i, j \in 1 .. Len(w) : w[i] = w[j] => i = j
  BY <1>1 DEF Linked, IsInjective
<1>3. h = At(w, 1) /\ \A i \in 1 .. Len(w) : nx[w[i]] = At(w, i + 1)
  BY DEF Linked
<1>4. CASE w = <<>>
  <2>1. Len(w) = 0
    BY <1>4
  <2> QED
    BY <1>1, <1>2, <1>3, <1>4, <2>1 DEF At
<1>5. CASE w # <<>>
  <2>1. Len(w) # 0
    BY <1>1, <1>5, EmptySeq
  <2>2. 1 \in 1 .. Len(w) /\ h = w[1] /\ w[1] \in Cell
    BY <1>1, <1>3, <2>1 DEF At
  <2> QED
    BY <1>1, <1>2, <1>3, <1>5, <2>2, NullAssumption
<1> QED
  BY <1>4, <1>5

\* A list of no cells.
LEMMA EmptyIsLinked ==
  ASSUME NEW nx
  PROVE  Linked(<<>>, NULL, nx) /\ Range(<<>>) = {} /\ Len(<<>>) = 0
<1> DEFINE w == <<>>
<1>1. w \in Seq(Cell) /\ Len(w) = 0 /\ DOMAIN w = {}
  OBVIOUS
<1> HIDE DEF w
<1>2. Linked(w, NULL, nx) /\ Range(w) = {}
  BY <1>1 DEF Linked, IsInjective, At, Range
<1> QED
  BY <1>1, <1>2 DEF w

\* CmdPoolPutCell: the list ends in the new cell.
LEMMA AppendIsLinked ==
  ASSUME NEW w, NEW h, NEW nx \in [Cell -> Pointer], Linked(w, h, nx),
         NEW cell \in Cell \ Range(w)
  PROVE  /\ Linked(Append(w, cell), IF h = NULL THEN cell ELSE h,
                    IF h = NULL THEN [nx EXCEPT ![cell] = NULL]
                                ELSE [nx EXCEPT ![cell] = NULL, ![Last(w)] = cell])
         /\ Range(Append(w, cell)) = Range(w) \cup {cell}
         /\ Len(Append(w, cell)) = Len(w) + 1
<1> DEFINE g == Append(w, cell)
           n == Len(w)
           my == IF h = NULL THEN [nx EXCEPT ![cell] = NULL]
                             ELSE [nx EXCEPT ![cell] = NULL, ![Last(w)] = cell]
           first == IF h = NULL THEN cell ELSE h
<1>1. /\ w \in Seq(Cell) /\ n \in Nat /\ DOMAIN w = 1 .. n
      /\ \A i \in 1 .. n : w[i] \in Cell /\ nx[w[i]] = At(w, i + 1)
      /\ \A i, j \in 1 .. n : w[i] = w[j] => i = j
      /\ h = At(w, 1)
      /\ h = NULL <=> w = <<>>
  BY ListFacts
<1>2. /\ g \in Seq(Cell) /\ Len(g) = n + 1 /\ DOMAIN g = 1 .. n + 1
      /\ \A i \in 1 .. n : g[i] = w[i]
      /\ g[n + 1] = cell
  BY <1>1, LenProperties
<1>3. \A i \in 1 .. n : w[i] # cell
  BY <1>1 DEF Range
<1>4. Range(g) = Range(w) \cup {cell}
  <2>1. \A i \in 1 .. n + 1 : i \in 1 .. n \/ i = n + 1
    BY <1>1
  <2>2. n + 1 \in 1 .. n + 1 /\ 1 .. n \subseteq 1 .. n + 1
    BY <1>1
  <2>3. DOMAIN w = 1 .. n
    BY <1>1
  <2>4. /\ DOMAIN g = 1 .. n + 1 /\ g[n + 1] = cell
        /\ \A i \in 1 .. n : g[i] = w[i]
    BY <1>2
  <2> HIDE DEF g, n
  <2> QED
    BY <2>1, <2>2, <2>3, <2>4 DEF Range
<1>5. w # <<>> => n \in 1 .. n /\ Last(w) = w[n]
  BY <1>1, EmptySeq DEF Last
<1>6. w = <<>> => n = 0
  OBVIOUS
<1>7. my[cell] = NULL
  <2>1. CASE h = NULL
    BY <2>1
  <2>2. CASE h # NULL
    <3>1. Last(w) \in Cell /\ Last(w) # cell
      BY <1>1, <1>3, <1>5, <2>2
    <3> HIDE DEF n
    <3> QED
      BY <2>2, <3>1
  <2> QED
    BY <2>1, <2>2
<1>8. ASSUME NEW i \in 1 .. n
      PROVE  my[w[i]] = IF i = n THEN cell ELSE nx[w[i]]
  <2>1. w # <<>> /\ h # NULL
    <3>1. n # 0
      BY <1>1
    <3> QED
      BY <1>1, <1>6, <3>1
  <2>2. Last(w) = w[n] /\ n \in 1 .. n
    BY <1>5, <2>1
  <2>3. w[i] = w[n] <=> i = n
    BY <1>1, <2>2
  <2>4. w[i] \in Cell /\ w[n] \in Cell /\ w[i] # cell
    BY <1>1, <1>3, <2>2
  <2>5. my = [nx EXCEPT ![cell] = NULL, ![w[n]] = cell]
    BY <2>1, <2>2
  <2> HIDE DEF my, n
  <2> QED
    BY <2>3, <2>4, <2>5
<1>9. first = g[1]
  <2>1. CASE w = <<>>
    BY <1>1, <1>2, <1>6, <2>1
  <2>2. CASE w # <<>>
    <3>1. 1 \in 1 .. n /\ 1 <= n
      <4>1. n \in 1 .. n
        BY <1>5, <2>2
      <4> QED
        BY <1>1, <4>1
    <3>2. g[1] = w[1]
      BY <1>2, <3>1
    <3>3. At(w, 1) = w[1]
      BY <3>1 DEF At
    <3>4. first = h
      BY <1>1, <2>2
    <3> QED
      BY <1>1, <3>2, <3>3, <3>4
  <2> QED
    BY <2>1, <2>2
<1> HIDE DEF g, n, my, first
<1>10. IsInjective(g)
  <2> SUFFICES ASSUME NEW i \in 1 .. n + 1, NEW j \in 1 .. n + 1, g[i] = g[j]
               PROVE  i = j
    BY <1>2 DEF IsInjective
  <2>1. i \in 1 .. n \/ i = n + 1
    BY <1>1
  <2>2. j \in 1 .. n \/ j = n + 1
    BY <1>1
  <2> QED
    BY <1>1, <1>2, <1>3, <2>1, <2>2
<1>11. ASSUME NEW i \in 1 .. n + 1 PROVE my[g[i]] = At(g, i + 1)
  <2>1. CASE i = n + 1
    <3>1. ~(i + 1 <= n + 1)
      BY <1>1, <2>1
    <3> QED
      BY <1>2, <1>7, <2>1, <3>1 DEF At
  <2>2. CASE i = n
    <3>1. i \in 1 .. n /\ i + 1 = n + 1 /\ i + 1 <= n + 1
      BY <1>1, <2>2
    <3> QED
      BY <1>2, <1>8, <2>2, <3>1 DEF At
  <2>3. CASE i # n + 1 /\ i # n
    <3>1. i \in 1 .. n /\ i + 1 \in 1 .. n /\ i + 1 <= n /\ i + 1 <= n + 1
      BY <1>1, <2>3
    <3>2. my[g[i]] = w[i + 1]
      BY <1>1, <1>2, <1>8, <2>3, <3>1 DEF At, n
    <3> QED
      BY <1>2, <3>1, <3>2 DEF At
  <2> QED
    BY <2>1, <2>2, <2>3
<1>12. first = At(g, 1)
  <2>1. 1 <= n + 1
    BY <1>1
  <2> QED
    BY <1>2, <1>9, <2>1 DEF At
<1>13. Linked(g, first, my)
  BY <1>2, <1>10, <1>11, <1>12 DEF Linked
<1> QED
  BY <1>2, <1>4, <1>13 DEF g, n, my, first

\* CmdPoolPutHeadCell: the new cell is followed by the list.
LEMMA ConsIsLinked ==
  ASSUME NEW w, NEW h, NEW nx \in [Cell -> Pointer], Linked(w, h, nx), NEW cell \in Cell \ Range(w)
  PROVE  /\ Linked(<<cell>> \o w, cell, [nx EXCEPT ![cell] = h])
         /\ Range(<<cell>> \o w) = Range(w) \cup {cell}
         /\ Len(<<cell>> \o w) = Len(w) + 1
<1> DEFINE one == <<cell>>
           n == Len(w)
           my == [nx EXCEPT ![cell] = h]
<1>1. /\ w \in Seq(Cell) /\ n \in Nat /\ DOMAIN w = 1 .. n
      /\ \A i \in 1 .. n : w[i] \in Cell /\ nx[w[i]] = At(w, i + 1)
      /\ \A i, j \in 1 .. n : w[i] = w[j] => i = j
      /\ h = At(w, 1)
  BY ListFacts
<1>2. one \in Seq(Cell) /\ Len(one) = 1 /\ one[1] = cell /\ Range(one) = {cell}
  BY DEF Range
<1> HIDE DEF one, my
<1> DEFINE g == one \o w
<1>3. /\ g \in Seq(Cell) /\ Len(g) = 1 + n
      /\ \A i \in 1 .. 1 + n : g[i] = IF i <= 1 THEN one[i] ELSE w[i - 1]
  <2>1. one \in Seq(Cell) /\ w \in Seq(Cell)
    BY <1>1, <1>2
  <2>2. /\ g \in Seq(Cell) /\ Len(g) = Len(one) + Len(w)
        /\ \A i \in 1 .. Len(one) + Len(w) :
             g[i] = IF i <= Len(one) THEN one[i] ELSE w[i - Len(one)]
    BY <2>1, ConcatProperties
  <2> HIDE DEF g
  <2> QED
    BY <1>2, <2>2
<1>4. Range(g) = Range(w) \cup {cell}
  <2>1. DOMAIN g = 1 .. 1 + n
    BY <1>1, <1>3
  <2>2. g[1] = cell /\ \A i \in 1 .. n : i + 1 \in 1 .. 1 + n /\ g[i + 1] = w[i]
    BY <1>1, <1>2, <1>3
  <2>3. \A i \in 1 .. 1 + n : i = 1 \/ (i - 1 \in 1 .. n /\ g[i] = w[i - 1])
    BY <1>1, <1>3
  <2>4. 1 \in 1 .. 1 + n /\ DOMAIN w = 1 .. n
    BY <1>1
  <2> HIDE DEF g, n
  <2>5. Range(g) \subseteq Range(w) \cup {cell}
    BY <2>1, <2>2, <2>3, <2>4 DEF Range
  <2>6. Range(w) \cup {cell} \subseteq Range(g)
    BY <2>1, <2>2, <2>4 DEF Range
  <2> QED
    BY <2>5, <2>6
<1>5. \A i \in 1 .. n : w[i] # cell
  BY <1>1 DEF Range
<1>6. my[cell] = h /\ \A i \in 1 .. n : my[w[i]] = nx[w[i]]
  BY <1>1, <1>5 DEF my
<1> HIDE DEF g, n
<1>7. DOMAIN g = 1 .. 1 + n /\ Len(g) = n + 1
  BY <1>1, <1>3, LenProperties
<1>8. g[1] = cell /\ \A i \in 1 .. n : g[i + 1] = w[i]
  <2>1. 1 \in 1 .. 1 + n /\ 1 <= 1
    BY <1>1
  <2>2. ASSUME NEW i \in 1 .. n PROVE g[i + 1] = w[i]
    <3>1. i + 1 \in 1 .. 1 + n /\ ~(i + 1 <= 1) /\ (i + 1) - 1 = i
      BY <1>1
    <3> QED
      BY <1>3, <3>1
  <2> QED
    BY <1>2, <1>3, <2>1, <2>2
<1>9. \A i \in 1 .. 1 + n : i = 1 \/ (i - 1 \in 1 .. n /\ (i - 1) + 1 = i)
  BY <1>1
<1>10. IsInjective(g)
  <2> SUFFICES ASSUME NEW i \in 1 .. 1 + n, NEW j \in 1 .. 1 + n, g[i] = g[j]
               PROVE  i = j
    BY <1>7 DEF IsInjective
  <2>1. i = 1 \/ (i - 1 \in 1 .. n /\ g[i] = w[i - 1])
    BY <1>8, <1>9
  <2>2. j = 1 \/ (j - 1 \in 1 .. n /\ g[j] = w[j - 1])
    BY <1>8, <1>9
  <2>3. CASE i = 1 \/ j = 1
    BY <1>5, <1>8, <2>1, <2>2, <2>3
  <2>4. CASE i # 1 /\ j # 1
    <3>1. i - 1 = j - 1
      BY <1>1, <2>1, <2>2, <2>4
    <3> QED
      BY <1>1, <3>1
  <2> QED
    BY <2>3, <2>4
<1>11. \A i \in 1 .. 1 + n : At(g, i + 1) = At(w, i)
  <2> SUFFICES ASSUME NEW i \in 1 .. 1 + n PROVE At(g, i + 1) = At(w, i)
    OBVIOUS
  <2>1. CASE i \in 1 .. n
    <3>1. i <= n /\ i + 1 <= n + 1
      BY <1>1, <2>1
    <3> QED
      BY <1>7, <1>8, <2>1, <3>1 DEF At, n
  <2>2. CASE i \notin 1 .. n
    <3>1. ~(i <= n) /\ ~(i + 1 <= n + 1)
      BY <1>1, <2>2
    <3> QED
      BY <1>7, <3>1 DEF At, n
  <2> QED
    BY <2>1, <2>2
<1>12. ASSUME NEW i \in 1 .. 1 + n PROVE my[g[i]] = At(g, i + 1)
  <2>1. CASE i = 1
    BY <1>1, <1>6, <1>8, <1>11, <2>1
  <2>2. CASE i # 1
    <3>1. i - 1 \in 1 .. n /\ (i - 1) + 1 = i
      BY <1>9, <2>2
    <3>2. g[i] = w[i - 1]
      BY <1>8, <3>1
    <3>3. nx[w[i - 1]] = At(w, i)
      BY <1>1, <3>1 DEF n
    <3> QED
      BY <1>6, <1>11, <3>1, <3>2, <3>3
  <2> QED
    BY <2>1, <2>2
<1>13. 1 <= n + 1
  BY <1>1
<1>14. cell = At(g, 1)
  BY <1>7, <1>8, <1>13 DEF At
<1>15. \A i \in 1 .. Len(g) : my[g[i]] = At(g, i + 1)
  BY <1>3, <1>12
<1>16. Linked(g, cell, my)
  BY <1>3, <1>10, <1>14, <1>15 DEF Linked
<1> QED
  BY <1>4, <1>7, <1>16 DEF g, n, my, one

\* What is left of a list without place i.
Dropped(w, i) == [j \in 1 .. Len(w) - 1 |-> IF j < i THEN w[j] ELSE w[j + 1]]

\* The places of what is left.
LEMMA DroppedFacts ==
  ASSUME NEW S, NEW w \in Seq(S), NEW i \in 1 .. Len(w)
  PROVE  /\ Dropped(w, i) \in Seq(S) /\ Len(Dropped(w, i)) = Len(w) - 1
         /\ DOMAIN Dropped(w, i) = 1 .. Len(w) - 1 /\ Len(w) - 1 \in Nat
         /\ \A j \in 1 .. Len(w) - 1 : Dropped(w, i)[j] = IF j < i THEN w[j] ELSE w[j + 1]
<1> DEFINE n == Len(w)
           m == n - 1
           d == Dropped(w, i)
<1>1. n \in Nat /\ DOMAIN w = 1 .. n /\ \A j \in 1 .. n : w[j] \in S
  BY LenProperties, ElementOfSeq
<1> HIDE DEF n
<1>2. m \in Nat
  BY <1>1 DEF n
<1>3. d = [j \in 1 .. m |-> IF j < i THEN w[j] ELSE w[j + 1]]
  BY DEF Dropped, n
<1> HIDE DEF d
<1>4. \A j \in 1 .. m : d[j] = (IF j < i THEN w[j] ELSE w[j + 1]) /\ d[j] \in S
  <2> SUFFICES ASSUME NEW j \in 1 .. m
               PROVE  d[j] = (IF j < i THEN w[j] ELSE w[j + 1]) /\ d[j] \in S
    OBVIOUS
  <2>1. j \in 1 .. n /\ j + 1 \in 1 .. n
    BY <1>1
  <2> QED
    BY <1>1, <1>3, <2>1
<1>5. d \in [1 .. m -> S]
  BY <1>3, <1>4
<1>6. d \in Seq(S)
  BY <1>2, <1>5
<1>7. DOMAIN d = 1 .. m
  BY <1>3
<1>8. Len(d) = m
  BY <1>2, <1>6, <1>7, LenProperties
<1> QED
  BY <1>2, <1>4, <1>6, <1>7, <1>8 DEF n, d

\* CmdPoolDelTag, CmdPoolDelFirst: the cell before place i, or the head, is
\* linked to the cell behind it.
LEMMA DroppedIsLinked ==
  ASSUME NEW w, NEW h, NEW nx \in [Cell -> Pointer], Linked(w, h, nx), NEW i \in 1 .. Len(w)
  PROVE  /\ Linked(Dropped(w, i), IF i = 1 THEN nx[h] ELSE h,
                    IF i = 1 THEN nx ELSE [nx EXCEPT ![w[i - 1]] = nx[w[i]]])
         /\ Range(Dropped(w, i)) = Range(w) \ {w[i]}
         /\ Len(Dropped(w, i)) = Len(w) - 1
<1> DEFINE d == Dropped(w, i)
           n == Len(w)
           m == n - 1
           my == IF i = 1 THEN nx ELSE [nx EXCEPT ![w[i - 1]] = nx[w[i]]]
           first == IF i = 1 THEN nx[h] ELSE h
<1>1. /\ w \in Seq(Cell) /\ n \in Nat /\ DOMAIN w = 1 .. n
      /\ \A j \in 1 .. n : w[j] \in Cell /\ nx[w[j]] = At(w, j + 1)
      /\ \A j, k \in 1 .. n : w[j] = w[k] => j = k
      /\ h = At(w, 1)
  BY ListFacts
<1>2. /\ d \in Seq(Cell) /\ Len(d) = m /\ DOMAIN d = 1 .. m /\ m \in Nat
      /\ \A j \in 1 .. m : d[j] = IF j < i THEN w[j] ELSE w[j + 1]
  <2>1. w \in Seq(Cell) /\ i \in 1 .. Len(w)
    BY <1>1
  <2> HIDE DEF d
  <2> QED
    BY <2>1, DroppedFacts DEF d
<1> HIDE DEF d, n
<1>3. i \in 1 .. n /\ n \in 1 .. n /\ 1 \in 1 .. n
  BY <1>1 DEF n
<1>4. \A j \in 1 .. m : j \in 1 .. n /\ j + 1 \in 1 .. n
  BY <1>1
<1>5. IsInjective(d)
  <2> SUFFICES ASSUME NEW j \in 1 .. m, NEW k \in 1 .. m, d[j] = d[k]
               PROVE  j = k
    BY <1>2 DEF IsInjective
  <2>1. j \in 1 .. n /\ j + 1 \in 1 .. n /\ k \in 1 .. n /\ k + 1 \in 1 .. n
    BY <1>4
  <2>2. CASE j < i /\ k < i
    BY <1>1, <1>2, <2>1, <2>2
  <2>3. CASE j < i /\ ~(k < i)
    <3>1. j = k + 1
      BY <1>1, <1>2, <2>1, <2>3
    <3> QED
      BY <1>3, <2>1, <2>3, <3>1
  <2>4. CASE ~(j < i) /\ k < i
    <3>1. j + 1 = k
      BY <1>1, <1>2, <2>1, <2>4
    <3> QED
      BY <1>3, <2>1, <2>4, <3>1
  <2>5. CASE ~(j < i) /\ ~(k < i)
    <3>1. j + 1 = k + 1
      BY <1>1, <1>2, <2>1, <2>5
    <3> QED
      BY <2>1, <3>1
  <2> QED
    BY <2>2, <2>3, <2>4, <2>5
<1>6. Range(d) = Range(w) \ {w[i]}
  <2> DEFINE R == Range(w) \ {w[i]}
             D == Range(d)
  <2>1. \A x : x \in D <=> \E j \in 1 .. m : x = d[j]
    BY <1>2 DEF Range
  <2>2. \A x : x \in R <=> \E j \in 1 .. n : x = w[j] /\ x # w[i]
    <3>1. \A x : x \in Range(w) <=> \E j \in 1 .. n : x = w[j]
      BY <1>1 DEF Range
    <3> QED
      BY <3>1
  <2> HIDE DEF R, D
  <2>3. ASSUME NEW x \in D PROVE x \in R
    <3>1. PICK j \in 1 .. m : x = d[j]
      BY <2>1
    <3>2. j \in 1 .. n /\ j + 1 \in 1 .. n
      BY <1>4
    <3>3. CASE j < i
      <4>1. j # i /\ x = w[j]
        BY <1>2, <1>3, <3>1, <3>2, <3>3
      <4> QED
        BY <1>1, <1>3, <2>2, <3>2, <4>1
    <3>4. CASE ~(j < i)
      <4>1. j + 1 # i /\ x = w[j + 1]
        BY <1>2, <1>3, <3>1, <3>2, <3>4
      <4> QED
        BY <1>1, <1>3, <2>2, <3>2, <4>1
    <3> QED
      BY <3>3, <3>4
  <2>4. ASSUME NEW x \in R PROVE x \in D
    <3>1. PICK j \in 1 .. n : x = w[j] /\ x # w[i]
      BY <2>2
    <3>2. j # i
      BY <3>1
    <3>3. CASE j < i
      <4>1. j \in 1 .. m
        BY <1>1, <1>3, <3>3
      <4> QED
        BY <1>2, <2>1, <3>1, <3>3, <4>1
    <3>4. CASE ~(j < i)
      <4>1. j - 1 \in 1 .. m /\ ~(j - 1 < i) /\ (j - 1) + 1 = j
        BY <1>1, <1>3, <3>2, <3>4
      <4>2. d[j - 1] = w[j]
        BY <1>2, <4>1
      <4> QED
        BY <2>1, <3>1, <4>1, <4>2
    <3> QED
      BY <3>3, <3>4
  <2>5. D = R
    BY <2>3, <2>4
  <2> QED
    BY <2>5 DEF D, R
<1>7. first = At(d, 1)
  <2>1. CASE i = 1
    <3>1. h = w[1]
      BY <1>1, <1>3 DEF At, n
    <3>2. first = At(w, 2)
      <4>1. nx[w[1]] = At(w, 1 + 1)
        BY <1>1, <1>3
      <4> QED
        BY <2>1, <3>1, <4>1
    <3>3. CASE m = 0
      <4>1. ~(2 <= n) /\ ~(1 <= m)
        BY <1>1, <3>3
      <4> QED
        BY <1>2, <3>2, <4>1 DEF At, n
    <3>4. CASE m # 0
      <4>1. 2 <= n /\ 1 <= m /\ 1 \in 1 .. m /\ 1 + 1 = 2 /\ ~(1 < i)
        BY <1>1, <1>2, <2>1, <3>4
      <4>2. d[1] = w[2]
        BY <1>2, <4>1
      <4> QED
        BY <1>2, <3>2, <4>1, <4>2 DEF At, n
    <3> QED
      BY <3>3, <3>4
  <2>2. CASE i # 1
    <3>1. 1 \in 1 .. m /\ 1 <= m /\ 1 < i /\ 1 <= n
      BY <1>1, <1>3, <2>2
    <3>2. d[1] = w[1]
      BY <1>2, <3>1
    <3> QED
      BY <1>1, <1>2, <2>2, <3>1, <3>2 DEF At, n
  <2> QED
    BY <2>1, <2>2
<1>8. \A j \in 1 .. n : my[w[j]] = IF j + 1 = i THEN nx[w[i]] ELSE nx[w[j]]
  <2> SUFFICES ASSUME NEW j \in 1 .. n
               PROVE  my[w[j]] = IF j + 1 = i THEN nx[w[i]] ELSE nx[w[j]]
    OBVIOUS
  <2>1. CASE i = 1
    <3>1. j + 1 # i
      BY <2>1
    <3> QED
      BY <2>1, <3>1
  <2>2. CASE i # 1
    <3>1. i - 1 \in 1 .. n /\ (j + 1 = i <=> j = i - 1)
      BY <1>1, <1>3, <2>2
    <3>2. w[j] = w[i - 1] <=> j + 1 = i
      BY <1>1, <3>1
    <3>3. w[j] \in Cell /\ w[i - 1] \in Cell
      BY <1>1, <3>1
    <3> QED
      BY <2>2, <3>2, <3>3
  <2> QED
    BY <2>1, <2>2
<1> HIDE DEF my, first, m
<1>9. m = n - 1
  BY DEF m
<1>10. ASSUME NEW j \in 1 .. m PROVE my[d[j]] = At(d, j + 1)
  <2>1. j \in 1 .. n /\ j + 1 \in 1 .. n
    BY <1>4
  <2>2. CASE j + 1 < i
    <3>1. j < i /\ j + 1 # i /\ j + 1 \in 1 .. m /\ j + 1 <= m /\ j + 1 <= n
      BY <1>1, <1>3, <1>9, <2>1, <2>2
    <3>2. d[j] = w[j] /\ d[j + 1] = w[j + 1]
      BY <1>2, <2>2, <3>1
    <3>3. my[w[j]] = At(w, j + 1)
      BY <1>1, <1>8, <2>1, <3>1
    <3> QED
      BY <1>2, <3>1, <3>2, <3>3 DEF At, n
  <2>3. CASE j + 1 = i
    <3>1. j < i /\ ~(j + 1 < i)
      BY <1>3, <2>1, <2>3
    <3>2. d[j] = w[j]
      BY <1>2, <3>1
    <3>3. my[w[j]] = At(w, (j + 1) + 1)
      <4>1. nx[w[i]] = At(w, i + 1)
        BY <1>1, <1>3
      <4> QED
        BY <1>8, <2>1, <2>3, <4>1
    <3>4. CASE j + 1 <= m
      <4>1. j + 1 \in 1 .. m /\ (j + 1) + 1 <= n
        BY <1>1, <1>9, <2>1, <3>4
      <4>2. d[j + 1] = w[(j + 1) + 1]
        BY <1>2, <3>1, <4>1
      <4> QED
        BY <1>2, <3>2, <3>3, <3>4, <4>1, <4>2 DEF At, n
    <3>5. CASE ~(j + 1 <= m)
      <4>1. ~((j + 1) + 1 <= n)
        BY <1>1, <1>9, <2>1, <3>5
      <4> QED
        BY <1>2, <3>2, <3>3, <3>5, <4>1 DEF At, n
    <3> QED
      BY <3>4, <3>5
  <2>4. CASE ~(j + 1 <= i)
    <3>1. ~(j < i) /\ ~(j + 1 < i) /\ (j + 1) + 1 # i
      BY <1>3, <2>1, <2>4
    <3>2. d[j] = w[j + 1]
      BY <1>2, <3>1
    <3>3. my[w[j + 1]] = At(w, (j + 1) + 1)
      BY <1>1, <1>8, <2>1, <3>1
    <3>4. CASE j + 1 <= m
      <4>1. j + 1 \in 1 .. m /\ (j + 1) + 1 <= n
        BY <1>1, <1>9, <2>1, <3>4
      <4>2. d[j + 1] = w[(j + 1) + 1]
        BY <1>2, <3>1, <4>1
      <4> QED
        BY <1>2, <3>2, <3>3, <3>4, <4>1, <4>2 DEF At, n
    <3>5. CASE ~(j + 1 <= m)
      <4>1. ~((j + 1) + 1 <= n)
        BY <1>1, <1>9, <2>1, <3>5
      <4> QED
        BY <1>2, <3>2, <3>3, <3>5, <4>1 DEF At, n
    <3> QED
      BY <3>4, <3>5
  <2>5. j + 1 < i \/ j + 1 = i \/ ~(j + 1 <= i)
    BY <1>3, <2>1
  <2> QED
    BY <2>2, <2>3, <2>4, <2>5
<1>11. Linked(d, first, my)
  <2>1. \A j \in 1 .. Len(d) : my[d[j]] = At(d, j + 1)
    BY <1>2, <1>10
  <2> QED
    BY <1>2, <1>5, <1>7, <2>1 DEF Linked
<1> QED
  BY <1>2, <1>6, <1>11 DEF d, n, m, my, first

-----------------------------------------------------------------------------
(* What a list contains.                                                   *)

\* The entries of the cells, in the order of the list.
Contents(w, e) == [i \in DOMAIN w |-> e[w[i]]]

\* They are as many as the cells.
LEMMA ContentsFacts ==
  ASSUME NEW w \in Seq(Cell), NEW e \in [Cell -> Entry]
  PROVE  /\ Contents(w, e) \in Seq(Entry) /\ Len(Contents(w, e)) = Len(w)
         /\ DOMAIN w = 1 .. Len(w) /\ Len(w) \in Nat
         /\ \A i \in 1 .. Len(w) : w[i] \in Cell /\ Contents(w, e)[i] = e[w[i]]
<1> DEFINE n == Len(w)
           p == Contents(w, e)
<1>1. n \in Nat /\ DOMAIN w = 1 .. n /\ \A i \in 1 .. n : w[i] \in Cell
  BY LenProperties, ElementOfSeq
<1> HIDE DEF n
<1>2. p = [i \in 1 .. n |-> e[w[i]]]
  BY <1>1 DEF Contents
<1> HIDE DEF p
<1>3. p \in [1 .. n -> Entry]
  BY <1>1, <1>2
<1>4. p \in Seq(Entry) /\ DOMAIN p = 1 .. n
  BY <1>1, <1>3
<1>5. Len(p) = n
  BY <1>1, <1>4, LenProperties
<1>6. \A i \in 1 .. n : p[i] = e[w[i]]
  BY <1>2
<1> QED
  BY <1>1, <1>4, <1>5, <1>6 DEF n, p

\* A new cell at the end is a new entry at the end.
LEMMA ContentsAppend ==
  ASSUME NEW w \in Seq(Cell), NEW e \in [Cell -> Entry],
         NEW cell \in Cell \ Range(w), NEW c \in Entry
  PROVE  Contents(Append(w, cell), [e EXCEPT ![cell] = c]) = Append(Contents(w, e), c)
<1> DEFINE n == Len(w)
           g == Append(w, cell)
           my == [e EXCEPT ![cell] = c]
           p == Contents(w, e)
           q == Contents(g, my)
           r == Append(p, c)
<1>1. /\ p \in Seq(Entry) /\ Len(p) = n /\ n \in Nat /\ DOMAIN w = 1 .. n
      /\ \A i \in 1 .. n : w[i] \in Cell /\ p[i] = e[w[i]]
  BY ContentsFacts
<1>2. /\ g \in Seq(Cell) /\ Len(g) = n + 1 /\ g[n + 1] = cell
      /\ \A i \in 1 .. n : g[i] = w[i]
  BY AppendProperties
<1>3. my \in [Cell -> Entry] /\ my[cell] = c
  OBVIOUS
<1>4. \A i \in 1 .. n : w[i] # cell
  BY <1>1 DEF Range
<1>5. \A i \in 1 .. n : my[w[i]] = e[w[i]]
  BY <1>1, <1>4
<1> HIDE DEF g, my, n, p
<1>6. /\ q \in Seq(Entry) /\ Len(q) = n + 1
      /\ \A i \in 1 .. n + 1 : q[i] = my[g[i]]
  BY <1>2, <1>3, ContentsFacts
<1>7. /\ r \in Seq(Entry) /\ Len(r) = n + 1 /\ r[n + 1] = c
      /\ \A i \in 1 .. n : r[i] = p[i]
  BY <1>1, AppendProperties
<1> HIDE DEF q, r
<1>8. ASSUME NEW i \in 1 .. n + 1 PROVE q[i] = r[i]
  <2>1. CASE i = n + 1
    BY <1>2, <1>3, <1>6, <1>7, <2>1
  <2>2. CASE i # n + 1
    <3>1. i \in 1 .. n
      BY <1>1, <2>2
    <3> QED
      BY <1>1, <1>2, <1>5, <1>6, <1>7, <3>1
  <2> QED
    BY <2>1, <2>2
<1>9. q = r
  BY <1>6, <1>7, <1>8, SeqEqual
<1> QED
  BY <1>9 DEF q, r, g, my, p

\* A new cell at the head is a new entry at the head.
LEMMA ContentsCons ==
  ASSUME NEW w \in Seq(Cell), NEW e \in [Cell -> Entry],
         NEW cell \in Cell \ Range(w), NEW c \in Entry
  PROVE  Contents(<<cell>> \o w, [e EXCEPT ![cell] = c]) = <<c>> \o Contents(w, e)
<1> DEFINE n == Len(w)
           one == <<cell>>
           g == one \o w
           my == [e EXCEPT ![cell] = c]
           p == Contents(w, e)
           q == Contents(g, my)
           two == <<c>>
           r == two \o p
<1>1. /\ p \in Seq(Entry) /\ Len(p) = n /\ n \in Nat /\ DOMAIN w = 1 .. n
      /\ \A i \in 1 .. n : w[i] \in Cell /\ p[i] = e[w[i]]
  BY ContentsFacts
<1>2. /\ one \in Seq(Cell) /\ Len(one) = 1 /\ one[1] = cell
      /\ two \in Seq(Entry) /\ Len(two) = 1 /\ two[1] = c
  OBVIOUS
<1>3. my \in [Cell -> Entry] /\ my[cell] = c
  OBVIOUS
<1>4. \A i \in 1 .. n : w[i] # cell
  BY <1>1 DEF Range
<1>5. \A i \in 1 .. n : my[w[i]] = e[w[i]]
  BY <1>1, <1>4
<1> HIDE DEF one, two, my, p
<1>6. /\ g \in Seq(Cell) /\ Len(g) = Len(one) + Len(w)
      /\ \A i \in 1 .. Len(one) + Len(w) :
           g[i] = IF i <= Len(one) THEN one[i] ELSE w[i - Len(one)]
  <2>1. one \in Seq(Cell) /\ w \in Seq(Cell)
    BY <1>2
  <2> QED
    BY <2>1, ConcatProperties
<1>7. /\ r \in Seq(Entry) /\ Len(r) = Len(two) + Len(p)
      /\ \A i \in 1 .. Len(two) + Len(p) :
           r[i] = IF i <= Len(two) THEN two[i] ELSE p[i - Len(two)]
  <2>1. two \in Seq(Entry) /\ p \in Seq(Entry)
    BY <1>1, <1>2
  <2> QED
    BY <2>1, ConcatProperties
<1> HIDE DEF g, r
<1>8. /\ q \in Seq(Entry) /\ Len(q) = Len(g)
      /\ \A i \in 1 .. Len(g) : q[i] = my[g[i]]
  BY <1>3, <1>6, ContentsFacts
<1> HIDE DEF n, q
<1>9. Len(g) = n + 1 /\ Len(r) = n + 1
  BY <1>1, <1>2, <1>6, <1>7 DEF n
<1>10. ASSUME NEW i \in 1 .. n + 1 PROVE q[i] = r[i]
  <2>1. /\ q[i] = my[g[i]]
        /\ g[i] = IF i <= 1 THEN one[i] ELSE w[i - 1]
        /\ r[i] = IF i <= 1 THEN two[i] ELSE p[i - 1]
    BY <1>1, <1>2, <1>6, <1>7, <1>8, <1>9
  <2>2. CASE i = 1
    BY <1>2, <1>3, <2>1, <2>2
  <2>3. CASE i # 1
    <3>1. i - 1 \in 1 .. n /\ ~(i <= 1)
      BY <1>1, <2>3
    <3> QED
      BY <1>1, <1>5, <2>1, <3>1
  <2> QED
    BY <2>2, <2>3
<1>11. q = r
  BY <1>7, <1>8, <1>9, <1>10, SeqEqual
<1> QED
  BY <1>11 DEF q, r, g, my, p, one, two

\* A list without a cell has the contents without the entry.
LEMMA ContentsDropped ==
  ASSUME NEW w \in Seq(Cell), NEW e \in [Cell -> Entry], NEW i \in 1 .. Len(w)
  PROVE  Contents(Dropped(w, i), e) = Dropped(Contents(w, e), i)
<1> DEFINE n == Len(w)
           d == Dropped(w, i)
           p == Contents(w, e)
           q == Contents(d, e)
           r == Dropped(p, i)
<1>1. /\ p \in Seq(Entry) /\ Len(p) = n /\ n \in Nat
      /\ \A j \in 1 .. n : p[j] = e[w[j]]
  BY ContentsFacts
<1>2. /\ d \in Seq(Cell) /\ Len(d) = n - 1
      /\ \A j \in 1 .. n - 1 : d[j] = IF j < i THEN w[j] ELSE w[j + 1]
  BY DroppedFacts
<1> HIDE DEF d, p
<1>3. /\ q \in Seq(Entry) /\ Len(q) = Len(d)
      /\ \A j \in 1 .. Len(d) : q[j] = e[d[j]]
  BY <1>2, ContentsFacts
<1>4. /\ r \in Seq(Entry) /\ Len(r) = Len(p) - 1
      /\ \A j \in 1 .. Len(p) - 1 : r[j] = IF j < i THEN p[j] ELSE p[j + 1]
  BY <1>1, DroppedFacts
<1> HIDE DEF q, r, n
<1>5. ASSUME NEW j \in 1 .. n - 1 PROVE q[j] = r[j]
  <2>1. j \in 1 .. n /\ j + 1 \in 1 .. n
    BY <1>1
  <2>2. q[j] = e[d[j]]
    BY <1>2, <1>3
  <2>3. d[j] = IF j < i THEN w[j] ELSE w[j + 1]
    BY <1>2
  <2>4. r[j] = IF j < i THEN p[j] ELSE p[j + 1]
    BY <1>1, <1>4
  <2> QED
    BY <1>1, <2>1, <2>2, <2>3, <2>4
<1>6. q = r
  BY <1>1, <1>2, <1>3, <1>4, <1>5, SeqEqual
<1> QED
  BY <1>6 DEF q, r, p, d

\* CmdPoolDel drops the first entry with the tag.
LEMMA DelIsDropped ==
  ASSUME NEW S, NEW pool \in Seq(S), NEW tag, NEW i \in 1 .. Len(pool), pool[i].tag = tag,
         \A j \in 1 .. i - 1 : pool[j].tag # tag
  PROVE  CmdPoolDel(pool, tag) = Dropped(pool, i)
<1> DEFINE d == CmdPoolDel(pool, tag)
           r == Dropped(pool, i)
           n == Len(pool)
<1>1. n \in Nat /\ DOMAIN pool = 1 .. n
  BY LenProperties
<1>2. tag \in PoolTags(pool)
  BY <1>1 DEF PoolTags
<1> DEFINE I == {j \in 1 .. n : pool[j].tag = tag}
<1>3. d = RemoveAt(pool, Min(I))
  BY <1>1, <1>2 DEF CmdPoolDel, RemoveFirstMatch, SelectInSeq, PoolTags
<1>4. Min(I) = i
  <2>1. I \subseteq Nat /\ i \in I
    OBVIOUS
  <2>2. Min(I) \in I /\ Min(I) <= i
    BY <2>1, LeastPosition
  <2>3. ~(Min(I) < i)
    <3>1. Min(I) < i => Min(I) \in 1 .. i - 1
      BY <2>2
    <3> QED
      BY <2>2, <3>1
  <2> QED
    BY <2>2, <2>3
<1> HIDE DEF I
<1> DEFINE a == SubSeq(pool, 1, i - 1)
           b == SubSeq(pool, i + 1, n)
<1>5. /\ a \in Seq(S) /\ Len(a) = i - 1 /\ \A j \in 1 .. i - 1 : a[j] = pool[j]
      /\ b \in Seq(S) /\ Len(b) = n - i /\ \A j \in 1 .. n - i : b[j] = pool[i + j]
  <2>1. \A j \in 1 .. n : pool[j] \in S
    BY ElementOfSeq
  <2>2. /\ a \in Seq(S) /\ Len(a) = i - 1
        /\ \A j \in 1 .. i - 1 : a[j] = pool[j]
    BY <1>1, <2>1, SubSeqProperties
  <2> HIDE DEF n
  <2>3. i + 1 \in Int /\ n \in Int /\ \A j \in i + 1 .. n : pool[j] \in S
    BY <1>1, <2>1
  <2>4. /\ b \in Seq(S) /\ Len(b) = IF i + 1 <= n THEN n - (i + 1) + 1 ELSE 0
        /\ \A j \in 1 .. n - (i + 1) + 1 : b[j] = pool[(i + 1) + j - 1]
    BY <2>3, SubSeqProperties
  <2> HIDE DEF b
  <2>5. i \in 1 .. n
    BY DEF n
  <2>6. /\ Len(b) = n - i
        /\ \A j \in 1 .. n - i : b[j] = pool[i + j]
    <3>1. n \in Nat /\ i \in 1 .. n
      BY <1>1, <2>5
    <3>2. Len(b) = n - i
      BY <2>4, <3>1
    <3>3. ASSUME NEW j \in 1 .. n - i PROVE b[j] = pool[i + j]
      <4>1. j \in 1 .. n - (i + 1) + 1 /\ (i + 1) + j - 1 = i + j
        BY <3>1
      <4> QED
        BY <2>4, <4>1, Zenon
    <3> QED
      BY <3>2, <3>3
  <2> QED
    BY <2>2, <2>4, <2>6
<1> HIDE DEF a, b, n
<1>6. /\ a \o b \in Seq(S) /\ Len(a \o b) = n - 1
      /\ \A j \in 1 .. n - 1 : (a \o b)[j] = IF j < i THEN a[j] ELSE b[j - (i - 1)]
  <2>1. Len(a) + Len(b) = n - 1
    BY <1>1, <1>5
  <2>2. /\ a \o b \in Seq(S) /\ Len(a \o b) = Len(a) + Len(b)
        /\ \A j \in 1 .. Len(a) + Len(b) :
             (a \o b)[j] = IF j <= Len(a) THEN a[j] ELSE b[j - Len(a)]
    BY <1>5, ConcatProperties
  <2>3. \A j \in 1 .. n - 1 : j <= Len(a) <=> j < i
    BY <1>5
  <2> QED
    BY <1>5, <2>1, <2>2, <2>3
<1>7. \A j \in 1 .. n - 1 : (a \o b)[j] = IF j < i THEN pool[j] ELSE pool[j + 1]
  <2> SUFFICES ASSUME NEW j \in 1 .. n - 1
               PROVE  (a \o b)[j] = IF j < i THEN pool[j] ELSE pool[j + 1]
    OBVIOUS
  <2>1. CASE j < i
    BY <1>5, <1>6, <2>1
  <2>2. CASE ~(j < i)
    <3>1. j - (i - 1) \in 1 .. n - i /\ i + (j - (i - 1)) = j + 1
      BY <1>1, <2>2 DEF n
    <3> QED
      BY <1>5, <1>6, <2>2, <3>1
  <2> QED
    BY <2>1, <2>2
<1>8. d = a \o b
  BY <1>3, <1>4 DEF RemoveAt, a, b, n
<1>9. /\ r \in Seq(S) /\ Len(r) = n - 1
      /\ \A j \in 1 .. n - 1 : r[j] = IF j < i THEN pool[j] ELSE pool[j + 1]
  BY DroppedFacts DEF n
<1> HIDE DEF d, r
<1> DEFINE e == a \o b
<1>10. e \in Seq(S) /\ Len(e) = Len(r) /\ \A j \in 1 .. Len(e) : e[j] = r[j]
  BY <1>6, <1>7, <1>9
<1> HIDE DEF e
<1>11. d = r
  BY <1>8, <1>9, <1>10, SeqEqual DEF e
<1> QED
  BY <1>11 DEF d, r

\* CmdPoolDelHead drops the first.
LEMMA TailIsDropped ==
  ASSUME NEW S, NEW pool \in Seq(S), pool # <<>>
  PROVE  1 \in 1 .. Len(pool) /\ CmdPoolDelHead(pool) = Dropped(pool, 1)
<1> DEFINE r == Dropped(pool, 1)
           t == Tail(pool)
           n == Len(pool)
<1>1. n \in Nat /\ n # 0
  BY LenProperties, EmptySeq
<1>2. 1 \in 1 .. n
  BY <1>1
<1>3. /\ r \in Seq(S) /\ Len(r) = n - 1
      /\ \A j \in 1 .. n - 1 : r[j] = IF j < 1 THEN pool[j] ELSE pool[j + 1]
  BY <1>2, DroppedFacts
<1>4. /\ t \in Seq(S) /\ Len(t) = n - 1
      /\ \A j \in 1 .. n - 1 : t[j] = pool[j + 1]
  BY HeadTailProperties
<1> HIDE DEF r, t
<1>5. \A j \in 1 .. n - 1 : ~(j < 1)
  BY <1>1
<1>6. r = t
  BY <1>3, <1>4, <1>5, SeqEqual
<1> QED
  BY <1>2, <1>6 DEF CmdPoolDelHead, r, t

-----------------------------------------------------------------------------
(* The invariant and the steps.                                            *)

\* w are the allocated cells, each once, in the order they are linked from the
\* head, and they are counted.
IsList(w) == Linked(w, head, next) /\ Range(w) = heap /\ count = Len(w)

IInv == TypeOK /\ IsList(Walk)

\* The pool CmdQueue sees.
Pool == Contents(Walk, entry)

\* What there is to know of a state.
LEMMA ListHolds ==
  ASSUME IInv
  PROVE  /\ head \in Pointer /\ next \in [Cell -> Pointer] /\ entry \in [Cell -> Entry]
         /\ heap \subseteq Cell
         /\ Linked(Walk, head, next) /\ Range(Walk) = heap /\ count = Len(Walk)
         /\ Walk \in Seq(Cell) /\ Len(Walk) \in Nat
         /\ DOMAIN Walk = 1 .. Len(Walk) /\ \A i \in 1 .. Len(Walk) : Walk[i] \in Cell
         /\ head = NULL <=> Walk = <<>>
         /\ Pool \in Seq(Entry) /\ Len(Pool) = Len(Walk)
         /\ \A i \in 1 .. Len(Walk) : Pool[i] = entry[Walk[i]]
<1> DEFINE w == Walk
<1>1. /\ head \in Pointer /\ next \in [Cell -> Pointer] /\ entry \in [Cell -> Entry]
      /\ heap \subseteq Cell
      /\ Linked(w, head, next) /\ Range(w) = heap /\ count = Len(w)
  BY DEF IInv, IsList, TypeOK
<1> HIDE DEF w
<1>2. /\ w \in Seq(Cell) /\ Len(w) \in Nat /\ DOMAIN w = 1 .. Len(w)
      /\ \A i \in 1 .. Len(w) : w[i] \in Cell
      /\ head = NULL <=> w = <<>>
  BY <1>1, ListFacts
<1>3. /\ Contents(w, entry) \in Seq(Entry) /\ Len(Contents(w, entry)) = Len(w)
      /\ \A i \in 1 .. Len(w) : Contents(w, entry)[i] = entry[w[i]]
  BY <1>1, <1>2, ContentsFacts
<1> QED
  BY <1>1, <1>2, <1>3 DEF w, Pool

\* A step that leaves a list leaves the invariant, and the walk is this list.
LEMMA NewList ==
  ASSUME NEW w, Linked(w, head', next'), Range(w) = heap', count' = Len(w),
         head' \in Pointer, next' \in [Cell -> Pointer], entry' \in [Cell -> Entry],
         heap' \subseteq Cell
  PROVE  IInv' /\ Walk' = w /\ Pool' = Contents(w, entry')
<1>1. WalkFrom(head', next') = w
  BY WalkIsList
<1>2. Walk' = w
  BY <1>1 DEF Walk
<1>3. w \in Seq(Cell) /\ IsInjective(w)
  BY DEF Linked
<1>4. Len(w) \in Nat /\ Len(w) <= Cardinality(Cell) /\ Cardinality(Cell) \in Nat
  BY <1>3, ShortEnough, BoundType DEF Bound
<1>5. count' \in 0 .. Cardinality(Cell)
  BY <1>4
<1>6. TypeOK'
  BY <1>5 DEF TypeOK
<1>7. IsList(Walk)'
  BY <1>2 DEF IsList
<1> QED
  BY <1>2, <1>6, <1>7 DEF IInv, Pool

\* At first the list is empty.
LEMMA InitList ==
  ASSUME Init
  PROVE  IInv /\ Pool = <<>>
<1>1. /\ head = NULL /\ count = 0 /\ heap = {}
      /\ next \in [Cell -> Pointer] /\ entry \in [Cell -> Entry]
  <2>1. (CHOOSE c \in Entry : TRUE) \in Entry
    BY HeapAssumption
  <2>2. entry \in [Cell -> {CHOOSE c \in Entry : TRUE}] /\ next \in [Cell -> {NULL}]
    BY DEF Init
  <2> HIDE DEF Pointer
  <2>3. {NULL} \subseteq Pointer
    BY DEF Pointer
  <2> QED
    BY <2>1, <2>2, <2>3 DEF Init
<1>2. Linked(<<>>, NULL, next) /\ Range(<<>>) = {} /\ Len(<<>>) = 0
  BY EmptyIsLinked
<1>3. WalkFrom(head, next) = <<>>
  BY <1>1, <1>2, WalkIsList
<1>4. Walk = <<>>
  BY <1>3 DEF Walk
<1>5. count \in 0 .. Cardinality(Cell)
  BY <1>1, BoundType DEF Bound
<1>6. TypeOK
  BY <1>1, <1>5 DEF TypeOK, Pointer
<1>7. IsList(Walk)
  BY <1>1, <1>2, <1>4 DEF IsList
<1>8. Pool = <<>>
  <2>1. DOMAIN <<>> = {}
    OBVIOUS
  <2> QED
    BY <1>4, <2>1 DEF Pool, Contents
<1> QED
  BY <1>6, <1>7, <1>8 DEF IInv

\* CmdPoolPutCell.
LEMMA PutStep ==
  ASSUME IInv, NEW cell \in Cell, NEW c \in Entry, CmdPoolPutCell(cell, c)
  PROVE  IInv' /\ Pool' = CmdPoolPut(Pool, c)
<1> DEFINE w == Walk
           my == IF head = NULL THEN [next EXCEPT ![cell] = NULL]
                                ELSE [next EXCEPT ![cell] = NULL, ![Last(w)] = cell]
           first == IF head = NULL THEN cell ELSE head
<1>1. /\ head \in Pointer /\ next \in [Cell -> Pointer] /\ entry \in [Cell -> Entry]
      /\ heap \subseteq Cell
      /\ Linked(w, head, next) /\ Range(w) = heap /\ count = Len(w)
      /\ w \in Seq(Cell)
  BY ListHolds
<1>2. /\ cell \in Cell \ heap /\ heap' = heap \cup {cell}
      /\ entry' = [entry EXCEPT ![cell] = c]
      /\ head' = first /\ next' = my /\ count' = count + 1
  BY DEF CmdPoolPutCell, Malloc
<1> HIDE DEF w
<1>3. Linked(Append(w, cell), first, my) /\ Range(Append(w, cell)) = Range(w) \cup {cell}
      /\ Len(Append(w, cell)) = Len(w) + 1
  BY <1>1, <1>2, AppendIsLinked
<1>4. /\ first \in Pointer /\ my \in [Cell -> Pointer]
      /\ [entry EXCEPT ![cell] = c] \in [Cell -> Entry]
  BY <1>1 DEF Pointer
<1> HIDE DEF my, first
<1>5. IInv' /\ Pool' = Contents(Append(w, cell), entry')
  <2>1. /\ Linked(Append(w, cell), head', next') /\ Range(Append(w, cell)) = heap'
        /\ count' = Len(Append(w, cell))
    BY <1>1, <1>2, <1>3
  <2>2. /\ head' \in Pointer /\ next' \in [Cell -> Pointer] /\ entry' \in [Cell -> Entry]
        /\ heap' \subseteq Cell
    BY <1>1, <1>2, <1>4
  <2> QED
    BY <2>1, <2>2, NewList
<1>6. Pool' = Append(Contents(w, entry), c)
  BY <1>1, <1>2, <1>5, ContentsAppend
<1> QED
  BY <1>5, <1>6 DEF Pool, w, CmdPoolPut

\* CmdPoolPutHeadCell.
LEMMA PutHeadStep ==
  ASSUME IInv, NEW cell \in Cell, NEW c \in Entry, CmdPoolPutHeadCell(cell, c)
  PROVE  IInv' /\ Pool' = CmdPoolPutHead(Pool, c)
<1> DEFINE w == Walk
           g == <<cell>> \o w
<1>1. /\ head \in Pointer /\ next \in [Cell -> Pointer] /\ entry \in [Cell -> Entry]
      /\ heap \subseteq Cell
      /\ Linked(w, head, next) /\ Range(w) = heap /\ count = Len(w)
      /\ w \in Seq(Cell)
  BY ListHolds
<1>2. /\ cell \in Cell \ heap /\ heap' = heap \cup {cell}
      /\ entry' = [entry EXCEPT ![cell] = c]
      /\ head' = cell /\ next' = [next EXCEPT ![cell] = head] /\ count' = count + 1
  BY DEF CmdPoolPutHeadCell, Malloc
<1> HIDE DEF w
<1>3. /\ Linked(g, cell, [next EXCEPT ![cell] = head]) /\ Range(g) = Range(w) \cup {cell}
      /\ Len(g) = Len(w) + 1
  BY <1>1, <1>2, ConsIsLinked
<1>4. Contents(g, [entry EXCEPT ![cell] = c]) = <<c>> \o Contents(w, entry)
  BY <1>1, <1>2, ContentsCons
<1> HIDE DEF g
<1>5. /\ cell \in Pointer /\ [next EXCEPT ![cell] = head] \in [Cell -> Pointer]
      /\ [entry EXCEPT ![cell] = c] \in [Cell -> Entry]
  BY <1>1 DEF Pointer
<1>6. IInv' /\ Pool' = Contents(g, entry')
  <2>1. Linked(g, head', next') /\ Range(g) = heap' /\ count' = Len(g)
    BY <1>1, <1>2, <1>3
  <2>2. /\ head' \in Pointer /\ next' \in [Cell -> Pointer] /\ entry' \in [Cell -> Entry]
        /\ heap' \subseteq Cell
    BY <1>1, <1>2, <1>5
  <2> QED
    BY <2>1, <2>2, NewList
<1>7. Pool' = <<c>> \o Contents(w, entry)
  BY <1>2, <1>4, <1>6
<1> QED
  BY <1>6, <1>7 DEF Pool, w, CmdPoolPutHead, Cons

\* Unlink, of a cell that is there.
LEMMA UnlinkStep ==
  ASSUME IInv, NEW i \in 1 .. Len(Walk), Unlink(i)
  PROVE  IInv' /\ Pool' = Dropped(Pool, i)
<1> DEFINE w == Walk
           my == IF i = 1 THEN next ELSE [next EXCEPT ![w[i - 1]] = next[w[i]]]
           first == IF i = 1 THEN next[head] ELSE head
<1>1. /\ head \in Pointer /\ next \in [Cell -> Pointer] /\ entry \in [Cell -> Entry]
      /\ heap \subseteq Cell
      /\ Linked(w, head, next) /\ Range(w) = heap /\ count = Len(w)
      /\ w \in Seq(Cell) /\ Len(w) \in Nat /\ \A j \in 1 .. Len(w) : w[j] \in Cell
  BY ListHolds
<1>2. /\ head' = first /\ next' = my /\ heap' = heap \ {w[i]} /\ count' = count - 1
      /\ entry' = entry
  BY DEF Unlink
<1> HIDE DEF w
<1>3. i \in 1 .. Len(w)
  BY DEF w
<1>4. /\ Linked(Dropped(w, i), first, my) /\ Range(Dropped(w, i)) = Range(w) \ {w[i]}
      /\ Len(Dropped(w, i)) = Len(w) - 1
  BY <1>1, <1>3, DroppedIsLinked
<1>5. my \in [Cell -> Pointer]
  <2>1. CASE i = 1
    BY <1>1, <2>1
  <2>2. CASE i # 1
    <3>1. w[i] \in Cell
      BY <1>1, <1>3
    <3> QED
      BY <1>1, <2>2, <3>1
  <2> QED
    BY <2>1, <2>2
<1>6. first \in Pointer
  <2>1. CASE i = 1
    <3>1. head = w[1] /\ 1 \in 1 .. Len(w)
      <4>1. 1 \in 1 .. Len(w) /\ 1 <= Len(w)
        BY <1>1, <1>3
      <4> QED
        BY <1>1, <4>1 DEF Linked, At
    <3> QED
      BY <1>1, <2>1, <3>1
  <2>2. CASE i # 1
    BY <1>1, <2>2
  <2> QED
    BY <2>1, <2>2
<1> HIDE DEF my, first
<1>7. IInv' /\ Pool' = Contents(Dropped(w, i), entry')
  <2>1. /\ Linked(Dropped(w, i), head', next') /\ Range(Dropped(w, i)) = heap'
        /\ count' = Len(Dropped(w, i))
    BY <1>1, <1>2, <1>4
  <2>2. /\ head' \in Pointer /\ next' \in [Cell -> Pointer] /\ entry' \in [Cell -> Entry]
        /\ heap' \subseteq Cell
    BY <1>1, <1>2, <1>5, <1>6
  <2> QED
    BY <2>1, <2>2, NewList
<1>8. Contents(Dropped(w, i), entry) = Dropped(Contents(w, entry), i)
  BY <1>1, <1>3, ContentsDropped
<1> QED
  BY <1>2, <1>7, <1>8 DEF Pool, w

\* NothingThere: the count of an empty list is zero already.
LEMMA NothingStep ==
  ASSUME IInv, NothingThere
  PROVE  UNCHANGED vars
<1>1. head = NULL => count = 0
  <2>1. head = NULL <=> Walk = <<>>
    BY ListHolds
  <2>2. count = Len(Walk)
    BY ListHolds
  <2> QED
    BY <2>1, <2>2
<1> QED
  BY <1>1 DEF NothingThere, vars

\* A step that changes nothing.
LEMMA NoStep ==
  ASSUME IInv, UNCHANGED vars
  PROVE  IInv' /\ Pool' = Pool
<1>1. head' = head /\ count' = count /\ next' = next /\ entry' = entry /\ heap' = heap
  BY DEF vars
<1>2. Walk' = Walk
  BY <1>1 DEF Walk
<1>3. Pool' = Pool
  BY <1>1, <1>2 DEF Pool
<1>4. TypeOK' /\ IsList(Walk)'
  BY <1>1, <1>2 DEF IInv, TypeOK, IsList
<1> QED
  BY <1>3, <1>4 DEF IInv

\* CmdPoolDelTag.
LEMMA DelStep ==
  ASSUME IInv, NEW tag, CmdPoolDelTag(tag)
  PROVE  IInv' /\ Pool' = CmdPoolDel(Pool, tag)
<1> DEFINE w == Walk
           at == {i \in DOMAIN w : entry[w[i]].tag = tag}
<1>1. /\ w \in Seq(Cell) /\ Len(w) \in Nat /\ DOMAIN w = 1 .. Len(w)
      /\ Pool \in Seq(Entry) /\ Len(Pool) = Len(w)
      /\ \A i \in 1 .. Len(w) : Pool[i] = entry[w[i]]
  BY ListHolds
<1>2. CmdPoolDelTag(tag) <=> IF at = {} THEN NothingThere ELSE Unlink(Min(at))
  BY DEF CmdPoolDelTag
<1> HIDE DEF w
<1>3. \A i : i \in at <=> i \in 1 .. Len(w) /\ Pool[i].tag = tag
  BY <1>1
<1> HIDE DEF at
<1>4. CASE at = {}
  <2>1. tag \notin PoolTags(Pool)
    <3>1. DOMAIN Pool = 1 .. Len(w)
      BY <1>1, LenProperties
    <3> QED
      BY <1>3, <1>4, <3>1 DEF PoolTags
  <2>2. CmdPoolDel(Pool, tag) = Pool
    BY <1>1, <1>3, <1>4 DEF CmdPoolDel, RemoveFirstMatch
  <2> QED
    BY <1>2, <1>4, <2>2, NothingStep, NoStep
<1>5. CASE at # {}
  <2> DEFINE i == Min(at)
  <2>1. at \subseteq Nat
    BY <1>3
  <2>2. i \in at /\ \A j \in at : i <= j
    BY <1>5, <2>1, LeastPosition
  <2>3. Unlink(i)
    BY <1>2, <1>5
  <2> HIDE DEF i
  <2>4. i \in 1 .. Len(w) /\ Pool[i].tag = tag
    BY <1>3, <2>2
  <2>5. ASSUME NEW j \in 1 .. i - 1 PROVE Pool[j].tag # tag
    <3>1. j \in 1 .. Len(w) /\ ~(i <= j)
      BY <1>1, <2>4
    <3> QED
      BY <1>3, <2>2, <3>1
  <2>6. CmdPoolDel(Pool, tag) = Dropped(Pool, i)
    BY <1>1, <2>4, <2>5, DelIsDropped
  <2> QED
    BY <2>3, <2>4, <2>6, UnlinkStep DEF w
<1> QED
  BY <1>4, <1>5

\* CmdPoolDelFirst.
LEMMA DelFirstStep ==
  ASSUME IInv, CmdPoolDelFirst
  PROVE  IInv' /\ Pool' = CmdPoolDelHead(Pool)
<1>1. /\ Len(Walk) \in Nat /\ Pool \in Seq(Entry) /\ Len(Pool) = Len(Walk)
      /\ head = NULL <=> Walk = <<>>
      /\ Walk \in Seq(Cell)
  BY ListHolds
<1>2. CASE head = NULL
  <2>1. Len(Pool) = 0
    BY <1>1, <1>2
  <2>2. Pool = <<>>
    BY <1>1, <2>1, EmptySeq
  <2>3. CmdPoolDelHead(Pool) = Pool
    BY <2>2 DEF CmdPoolDelHead
  <2>4. NothingThere
    BY <1>2 DEF CmdPoolDelFirst
  <2> QED
    BY <2>3, <2>4, NothingStep, NoStep
<1>3. CASE head # NULL
  <2>1. Len(Pool) # 0
    BY <1>1, <1>3, EmptySeq
  <2>2. Pool # <<>>
    BY <2>1
  <2>3. 1 \in 1 .. Len(Pool) /\ CmdPoolDelHead(Pool) = Dropped(Pool, 1)
    BY <1>1, <2>2, TailIsDropped
  <2>4. Unlink(1)
    BY <1>3 DEF CmdPoolDelFirst
  <2> QED
    BY <1>1, <2>3, <2>4, UnlinkStep
<1> QED
  BY <1>2, <1>3

\* CmdPoolClear.
LEMMA ClearStep ==
  ASSUME IInv, CmdPoolClear
  PROVE  IInv' /\ Pool' = <<>>
<1>1. /\ next \in [Cell -> Pointer] /\ entry \in [Cell -> Entry] /\ Range(Walk) = heap
  BY ListHolds
<1>2. head' = NULL /\ count' = 0 /\ heap' = {} /\ next' = next /\ entry' = entry
  BY <1>1 DEF CmdPoolClear
<1> DEFINE w == <<>>
<1>3. Linked(w, NULL, next) /\ Range(w) = {} /\ Len(w) = 0 /\ DOMAIN w = {}
  BY EmptyIsLinked
<1>4. \A e : Contents(w, e) = <<>>
  BY <1>3 DEF Contents
<1> HIDE DEF w
<1>5. /\ Linked(w, head', next') /\ Range(w) = heap' /\ count' = Len(w)
      /\ head' \in Pointer /\ next' \in [Cell -> Pointer] /\ entry' \in [Cell -> Entry]
      /\ heap' \subseteq Cell
  BY <1>1, <1>2, <1>3 DEF Pointer
<1>6. IInv' /\ Pool' = Contents(w, entry')
  BY <1>5, NewList
<1> QED
  BY <1>4, <1>6

\* Each step keeps the invariant, and is a step of the queue or none.
LEMMA ListStep ==
  ASSUME IInv, [Next]_vars
  PROVE  /\ IInv'
         /\ \/ \E c \in Entry : Pool' = CmdPoolPut(Pool, c)
            \/ \E c \in Entry : Pool' = CmdPoolPutHead(Pool, c)
            \/ \E c \in Entry : Pool' = CmdPoolDel(Pool, c.tag)
            \/ Pool' = CmdPoolDelHead(Pool)
            \/ Pool' = <<>>
            \/ Pool' = Pool
<1>1. ASSUME NEW cell \in Cell, NEW c \in Entry, CmdPoolPutCell(cell, c)
      PROVE  IInv' /\ Pool' = CmdPoolPut(Pool, c)
  BY <1>1, PutStep
<1>2. ASSUME NEW cell \in Cell, NEW c \in Entry, CmdPoolPutHeadCell(cell, c)
      PROVE  IInv' /\ Pool' = CmdPoolPutHead(Pool, c)
  BY <1>2, PutHeadStep
<1>3. ASSUME NEW c \in Entry, CmdPoolDelTag(c.tag)
      PROVE  IInv' /\ Pool' = CmdPoolDel(Pool, c.tag)
  BY <1>3, DelStep
<1>4. CASE CmdPoolDelFirst
  BY <1>4, DelFirstStep
<1>5. CASE CmdPoolClear
  BY <1>5, ClearStep
<1>6. CASE UNCHANGED vars
  BY <1>6, NoStep
<1>7. CASE MallocFails
  BY <1>7, NoStep DEF MallocFails
<1> QED
  BY <1>1, <1>2, <1>3, <1>4, <1>5, <1>6, <1>7 DEF Next

-----------------------------------------------------------------------------
(* Theorems.                                                               *)

\* In every reachable state the allocated cells are linked in one list that
\* ends, and are counted.
THEOREM ListInvariance == Spec => []IInv
<1>1. Init => IInv
  BY InitList
<1>2. IInv /\ [Next]_vars => IInv'
  BY ListStep
<1> QED
  BY <1>1, <1>2, PTL DEF Spec

\* No cell leaks, none is in the list twice and none is used after free, however
\* the functions are called and whenever malloc fails; the count is the length.
THEOREM NoCellLeaks == Spec => []ListIsSound
<1>1. IInv => ListIsSound
  <2> SUFFICES ASSUME IInv PROVE ListIsSound
    OBVIOUS
  <2>1. Linked(Walk, head, next) /\ Range(Walk) = heap /\ count = Len(Walk)
    BY ListHolds
  <2>2. IsInjective(Walk)
    BY <2>1 DEF Linked
  <2> QED
    BY <2>1, <2>2 DEF ListIsSound, OwnsItsCells, CountIsLength
<1> QED
  BY <1>1, ListInvariance, PTL

\* The linked list is the queue its callers take it for: a step of cmdlist.c is
\* one operation of CmdQueue on the entries a walk from the head meets, or
\* leaves them alone.
THEOREM ListImplementsQueue == Spec => ImplementsQueue
<1>1. Init => Queue!QueueInit
  <2> SUFFICES ASSUME Init PROVE Queue!QueueInit
    OBVIOUS
  <2>1. Contents(Walk, entry) = <<>>
    BY InitList DEF Pool
  <2> QED
    BY <2>1 DEF Queue!QueueInit, Contents
<1>2. IInv /\ [Next]_vars => [Queue!QueueNext]_[i \in DOMAIN Walk |-> entry[Walk[i]]]
  <2> SUFFICES ASSUME IInv, [Next]_vars
               PROVE  [Queue!QueueNext]_[i \in DOMAIN Walk |-> entry[Walk[i]]]
    OBVIOUS
  <2>1. \A q, c : Queue!CmdPoolPut(q, c) = CmdPoolPut(q, c)
    BY DEF Queue!CmdPoolPut, CmdPoolPut
  <2>2. \A q, c : Queue!CmdPoolPutHead(q, c) = CmdPoolPutHead(q, c)
    BY DEF Queue!CmdPoolPutHead, CmdPoolPutHead, Queue!Cons, Cons
  <2>3. \A q, t : Queue!CmdPoolDel(q, t) = CmdPoolDel(q, t)
    BY DEF Queue!CmdPoolDel, CmdPoolDel, Queue!RemoveFirstMatch, RemoveFirstMatch,
           Queue!SelectInSeq, SelectInSeq, Queue!RemoveAt, RemoveAt, Queue!Min, Min
  <2>4. \A q : Queue!CmdPoolDelHead(q) = CmdPoolDelHead(q)
    BY DEF Queue!CmdPoolDelHead, CmdPoolDelHead
  <2>5. \/ \E c \in Entry : Pool' = CmdPoolPut(Pool, c)
        \/ \E c \in Entry : Pool' = CmdPoolPutHead(Pool, c)
        \/ \E c \in Entry : Pool' = CmdPoolDel(Pool, c.tag)
        \/ Pool' = CmdPoolDelHead(Pool)
        \/ Pool' = <<>>
        \/ Pool' = Pool
    BY ListStep
  <2>6. Pool = [i \in DOMAIN Walk |-> entry[Walk[i]]]
    BY DEF Pool, Contents
  <2> QED
    BY <2>1, <2>2, <2>3, <2>4, <2>5, <2>6
       DEF Queue!QueueNext, Queue!Stored, Queue!Deleted, Queue!HeadDeleted, Queue!Cleared, Pool, Contents
<1> QED
  BY <1>1, <1>2, ListInvariance, PTL DEF Spec, ImplementsQueue, Queue!QueueSpec

-----------------------------------------------------------------------------
(* The calendar: the searches in its tables.                               *)

\* The largest of a set of numbers is the one all others are at most.
LEMMA LargestOf ==
  ASSUME NEW S, S \subseteq Int, NEW m \in S, \A k \in S : k <= m
  PROVE  Max(S) = m
<1>1. \A n \in S : (\A k \in S : k <= n) => n = m
  BY SMT
<1> QED
  BY <1>1 DEF Max

\* The search in year_tab finds the year whose days bracket the number.
LEMMA YearFound ==
  ASSUME NEW k \in 1 .. 4, NEW x \in Int, year_tab[k] <= x, x < year_tab[k + 1]
  PROVE  Bracket(year_tab, x) = k
<1> DEFINE S == {i \in 1 .. Len(year_tab) - 1 : year_tab[i] <= x}
<1>1. Len(year_tab) = 5
  BY DEF year_tab
<1>2. /\ year_tab[1] = 0 /\ year_tab[2] = 366 /\ year_tab[3] = 731 /\ year_tab[4] = 1096
      /\ year_tab[5] = 1461
  BY DEF year_tab
<1>3. k = 1 \/ k = 2 \/ k = 3 \/ k = 4
  OBVIOUS
<1>4. k \in S /\ S \subseteq Int
  BY <1>1
<1>5. \A i \in S : i <= k
  BY <1>1, <1>2, <1>3
<1> HIDE DEF S
<1>6. Max(S) = k
  BY <1>4, <1>5, LargestOf
<1> QED
  BY <1>6 DEF S, Bracket

\* The tables of months.
Tables == {norm_month_tab, leap_month_tab}

\* What the tables of the months hold.
LEMMA MonthTables ==
  /\ Len(norm_month_tab) = 13
  /\ norm_month_tab[1] = 0 /\ norm_month_tab[2] = 31 /\ norm_month_tab[3] = 59
  /\ norm_month_tab[4] = 90 /\ norm_month_tab[5] = 120 /\ norm_month_tab[6] = 151
  /\ norm_month_tab[7] = 181 /\ norm_month_tab[8] = 212 /\ norm_month_tab[9] = 243
  /\ norm_month_tab[10] = 273 /\ norm_month_tab[11] = 304 /\ norm_month_tab[12] = 334
  /\ norm_month_tab[13] = 365
  /\ Len(leap_month_tab) = 13
  /\ leap_month_tab[1] = 0 /\ leap_month_tab[2] = 31 /\ leap_month_tab[3] = 60
  /\ leap_month_tab[4] = 91 /\ leap_month_tab[5] = 121 /\ leap_month_tab[6] = 152
  /\ leap_month_tab[7] = 182 /\ leap_month_tab[8] = 213 /\ leap_month_tab[9] = 244
  /\ leap_month_tab[10] = 274 /\ leap_month_tab[11] = 305 /\ leap_month_tab[12] = 335
  /\ leap_month_tab[13] = 366
BY DEF norm_month_tab, leap_month_tab

\* The search in a table of months finds the month whose days bracket the number.
LEMMA MonthFound ==
  ASSUME NEW table \in Tables, NEW k \in 1 .. 12, NEW x \in Int,
         table[k] <= x, x < table[k + 1]
  PROVE  Bracket(table, x) = k
<1> DEFINE S == {i \in 1 .. Len(table) - 1 : table[i] <= x}
<1>1. Len(table) = 13
  BY MonthTables DEF Tables
<1>2. \A i \in 1 .. 12 : i > k => table[k + 1] <= table[i]
  BY MonthTables DEF Tables
<1>3. k \in S /\ S \subseteq Int
  BY <1>1
<1>4. \A i \in 1 .. 12 : table[i] \in Int
  BY MonthTables DEF Tables
<1>6. table[k + 1] \in Int
  BY MonthTables DEF Tables
<1>5. \A i \in S : i <= k
  BY <1>1, <1>2, <1>4, <1>6
<1> HIDE DEF S
<1>7. Max(S) = k
  BY <1>3, <1>5, LargestOf
<1> QED
  BY <1>7 DEF S, Bracket

-----------------------------------------------------------------------------
(* Dates.                                                                  *)

\* The dates the tables are right for: to the end of January 2100, as the code takes
\* 2100 for a leap year.
Dates == {date \in [year : Int, month : 1 .. 12, day : 1 .. 31, day_of_week : 0 .. 6] :
            /\ 1980 <= date.year /\ date.day <= LengthOf(date.year, date.month)
            /\ date.year <= IF date.month = 1 THEN 2100 ELSE 2099}
Clock == [hour : 0 .. 23, minute : 0 .. 59, second : 0 .. 59]

MonthTable(y) == IF y % 4 = 0 THEN leap_month_tab ELSE norm_month_tab

\* The days before a date in its year, and since the beginning of 1980.
DayOfYear(date) == MonthTable(date.year)[date.month] + date.day - 1
DayNumber(date) ==
  QUAD_YEAR * ((date.year - BASE_YEAR) \div 4) + year_tab[(date.year % 4) + 1] + DayOfYear(date)

\* What the table of the years holds.
LEMMA YearTable ==
  /\ Len(year_tab) = 5
  /\ year_tab[1] = 0 /\ year_tab[2] = 366 /\ year_tab[3] = 731 /\ year_tab[4] = 1096
  /\ year_tab[5] = 1461
BY DEF year_tab

\* Every fourth year is a leap year until 2099, 2000 too: the code's rule is that
\* of the calendar.
LEMMA LeapYears ==
  ASSUME NEW y \in Int, 1980 <= y, y <= 2099
  PROVE  IsLeap(y) <=> y % 4 = 0
BY DEF IsLeap

\* The tables agree with the lengths of the months and of the year.
LEMMA MonthEnds ==
  ASSUME NEW date \in Dates
  PROVE  /\ MonthTable(date.year) \in Tables
         /\ MonthTable(date.year)[date.month] \in Nat
         /\ MonthTable(date.year)[date.month] + LengthOf(date.year, date.month)
              = MonthTable(date.year)[date.month + 1]
         /\ MonthTable(date.year)[date.month + 1]
              <= year_tab[(date.year % 4) + 2] - year_tab[(date.year % 4) + 1]
<1> DEFINE y == date.year  m == date.month
<1>1. y \in Int /\ m \in 1 .. 12 /\ y >= 1980 /\ (m # 1 => y <= 2099)
  BY DEF Dates
<1>2. m = 2 => (IsLeap(y) <=> y % 4 = 0)
  BY <1>1, LeapYears
<1>3. y % 4 \in 0 .. 3
  BY <1>1
<1>4. MonthTable(y) \in Tables
  BY DEF MonthTable, Tables
<1> HIDE DEF y, m
<1>5. CASE y % 4 = 0
  <2>1. year_tab[(y % 4) + 2] - year_tab[(y % 4) + 1] = 366
    BY <1>5, YearTable
  <2>2. MonthTable(y) = leap_month_tab
    BY <1>5 DEF MonthTable
  <2>3. /\ leap_month_tab[m] \in Nat /\ leap_month_tab[m + 1] <= 366
        /\ leap_month_tab[m] + LengthOf(y, m) = leap_month_tab[m + 1]
    BY <1>1, <1>2, <1>5, MonthTables DEF LengthOf
  <2> QED
    BY <1>4, <2>1, <2>2, <2>3 DEF y, m
<1>6. CASE y % 4 # 0
  <2>1. year_tab[(y % 4) + 2] - year_tab[(y % 4) + 1] = 365
    BY <1>3, <1>6, YearTable
  <2>2. MonthTable(y) = norm_month_tab
    BY <1>6 DEF MonthTable
  <2>3. /\ norm_month_tab[m] \in Nat /\ norm_month_tab[m + 1] <= 365
        /\ norm_month_tab[m] + LengthOf(y, m) = norm_month_tab[m + 1]
    BY <1>1, <1>2, <1>6, MonthTables DEF LengthOf
  <2> QED
    BY <1>4, <2>1, <2>2, <2>3 DEF y, m
<1> QED
  BY <1>5, <1>6

\* A date is a day of its month and of its year.
LEMMA DayOfYearRange ==
  ASSUME NEW date \in Dates
  PROVE  /\ DayOfYear(date) \in Nat
         /\ MonthTable(date.year)[date.month] <= DayOfYear(date)
         /\ DayOfYear(date) < MonthTable(date.year)[date.month + 1]
         /\ DayOfYear(date) < year_tab[(date.year % 4) + 2] - year_tab[(date.year % 4) + 1]
<1>1. date.day \in 1 .. 31 /\ date.day <= LengthOf(date.year, date.month)
  BY DEF Dates
<1>2. LengthOf(date.year, date.month) \in Nat
  BY DEF LengthOf
<1>3. date.year % 4 \in 0 .. 3 /\ \A i \in 1 .. 5 : year_tab[i] \in Nat
  BY YearTable DEF Dates
<1> QED
  BY <1>1, <1>2, <1>3, MonthEnds DEF DayOfYear

\* The number of a day divides into sets of four years and a day of the set.
LEMMA DayNumberType ==
  ASSUME NEW date \in Dates
  PROVE  /\ DayNumber(date) \in Nat
         /\ DayNumber(date) \div QUAD_YEAR = (date.year - BASE_YEAR) \div 4
         /\ DayNumber(date) % QUAD_YEAR = year_tab[(date.year % 4) + 1] + DayOfYear(date)
<1> DEFINE q == (date.year - BASE_YEAR) \div 4
           r == year_tab[(date.year % 4) + 1] + DayOfYear(date)
<1>1. q \in Nat /\ date.year % 4 \in 0 .. 3
  BY DEF Dates, BASE_YEAR
<1>2. r \in 0 .. 1460
  <2>1. /\ year_tab[(date.year % 4) + 1] \in Nat /\ year_tab[(date.year % 4) + 2] \in Nat
        /\ year_tab[(date.year % 4) + 2] <= 1461
    BY <1>1, YearTable
  <2>2. DayOfYear(date) \in Nat
        /\ DayOfYear(date) < year_tab[(date.year % 4) + 2] - year_tab[(date.year % 4) + 1]
    BY DayOfYearRange
  <2>3. \A a, b, c \in Nat : b <= 1461 /\ c < b - a => a + c \in 0 .. 1460
    OBVIOUS
  <2> DEFINE a == year_tab[(date.year % 4) + 1]
             b == year_tab[(date.year % 4) + 2]
             c == DayOfYear(date)
  <2>4. a \in Nat /\ b \in Nat /\ c \in Nat /\ b <= 1461 /\ c < b - a /\ r = a + c
    BY <2>1, <2>2
  <2> HIDE DEF a, b, c, r
  <2> QED
    BY <2>3, <2>4, SMT
<1>3. DayNumber(date) = QUAD_YEAR * q + r
  <2>1. PICK t, d : t = year_tab[(date.year % 4) + 1] /\ d = DayOfYear(date)
    OBVIOUS
  <2>2. t \in Nat /\ d \in Nat
    BY <1>1, <2>1, DayOfYearRange, YearTable
  <2>3. DayNumber(date) = QUAD_YEAR * q + t + d
    BY <2>1, Zenon DEF DayNumber
  <2>4. r = t + d
    BY <2>1
  <2> HIDE DEF q, r
  <2> QED
    BY <1>1, <2>2, <2>3, <2>4 DEF QUAD_YEAR
<1>4. QUAD_YEAR = 1461
  BY DEF QUAD_YEAR
<1> HIDE DEF q, r
<1>5. /\ 1461 * q + r \in Nat
      /\ (1461 * q + r) \div 1461 = q
      /\ (1461 * q + r) % 1461 = r
  BY <1>1, <1>2
<1> QED
  BY <1>3, <1>4, <1>5 DEF q, r

-----------------------------------------------------------------------------
(* The conversions.                                                        *)

\* The seconds of n days and a time, and those since 6 January 1980.
Seconds(n, h, m, s) == ((n * 24 + h) * 60 + m) * 60 + s
SecsAt(date, t) == Seconds(DayNumber(date) - 5, t.hour, t.minute, t.second)

\* The count begins on the sixth day of the first year.
LEMMA Shifted ==
  ASSUME NEW n \in Int, NEW h \in Int, NEW m \in Int, NEW s \in Int
  PROVE  /\ Seconds(n - 5, h, m, s) \in Int
         /\ Seconds(n - 5, h, m, s) + OFFSET_S = Seconds(n, h, m, s)
<1>1. \A a \in Int : (a - 5) * 24 = a * 24 - 120
  BY SMT
<1>2. \A a, b \in Int : (a - 120 + b) * 60 = (a + b) * 60 - 7200
  BY SMT
<1>3. \A a, b \in Int : (a - 7200 + b) * 60 = (a + b) * 60 - 432000
  BY SMT
<1> DEFINE a == n * 24
           b == (a + h) * 60
           c == (b + m) * 60
<1>4. a \in Int /\ b \in Int /\ c \in Int
  BY SMT
<1>5. (n - 5) * 24 = a - 120
  BY <1>1, SMT
<1> HIDE DEF a
<1>6. (a - 120 + h) * 60 = b - 7200
  BY <1>2, <1>4, SMT
<1> HIDE DEF b
<1>7. (b - 7200 + m) * 60 = c - 432000
  BY <1>3, <1>4, SMT
<1> HIDE DEF c
<1>8. Seconds(n - 5, h, m, s) = (c - 432000) + s
  BY <1>5, <1>6, <1>7, SMT DEF Seconds
<1>9. Seconds(n, h, m, s) = c + s
  BY SMT DEF Seconds, a, b, c
<1> QED
  BY <1>4, <1>8, <1>9, SMT DEF OFFSET_S

\* What the divisions of time_jul_from_secs find.
ClockParts(secs, n, h, m, s) ==
  /\ secs % 60 = s /\ (secs \div 60) % 60 = m
  /\ ((secs \div 60) \div 60) % 24 = h /\ (secs \div 60) \div 1440 = n

\* The divisions of the code find the seconds, minutes, hours and days a number of
\* seconds is put together from.
LEMMA ClockDigits ==
  ASSUME NEW n \in Nat, NEW h \in 0 .. 23, NEW m \in 0 .. 59, NEW s \in 0 .. 59
  PROVE  ClockParts(Seconds(n, h, m, s), n, h, m, s)
<1> DEFINE hours == n * 24 + h
           mins == hours * 60 + m
           secs == mins * 60 + s
<1>1. hours \in Nat /\ hours % 24 = h
  OBVIOUS
<1>2. mins \in Nat /\ mins \div 1440 = n
  <2>1. mins = (n * 1440) + (h * 60 + m)
    OBVIOUS
  <2>2. h * 60 + m \in 0 .. 1439
    OBVIOUS
  <2> QED
    BY <2>1, <2>2
<1> HIDE DEF hours
<1>3. mins % 60 = m /\ mins \div 60 = hours
  BY <1>1
<1> HIDE DEF mins
<1>4. secs \in Nat /\ secs % 60 = s /\ secs \div 60 = mins
  BY <1>2
<1> HIDE DEF secs
<1>5. Seconds(n, h, m, s) = secs
  BY Zenon DEF Seconds, secs, mins, hours
<1> QED
  BY <1>1, <1>2, <1>3, <1>4, <1>5, SMT DEF ClockParts

\* time_jul_to_secs counts the seconds up to a date and time.
LEMMA ToSecs ==
  ASSUME NEW date \in Dates, NEW t \in Clock
  PROVE  time_jul_to_secs(Moment(date, t)) = SecsAt(date, t)
<1> DEFINE j == Moment(date, t)
           y == date.year
           quads == ((y - BASE_YEAR) \div 4) * QUAD_YEAR
           tail == (IF y % 4 = 0 THEN leap_month_tab[date.month]
                      ELSE year_tab[(y % 4) + 1] + norm_month_tab[date.month])
<1>1. /\ j.year = y /\ j.month = date.month /\ j.day = date.day
      /\ j.hour = t.hour /\ j.minute = t.minute /\ j.second = t.second
  BY DEF Moment
<1>2. time_jul_to_secs(j)
        = (((quads + tail + date.day - 1) * 24 + t.hour) * 60 + t.minute) * 60
            + t.second - OFFSET_S
  <2> HIDE DEF j
  <2>1. time_jul_to_secs(j)
          = (((((j.year - BASE_YEAR) \div 4) * QUAD_YEAR
                + (IF j.year % 4 = 0 THEN leap_month_tab[j.month]
                     ELSE year_tab[(j.year % 4) + 1] + norm_month_tab[j.month])
                + j.day - 1) * 24 + j.hour) * 60 + j.minute) * 60 + j.second - OFFSET_S
    BY DEF time_jul_to_secs
  <2> QED
    BY <1>1, <2>1, Zenon
<1> HIDE DEF j
<1>3. /\ y \in Int /\ date.day \in Int /\ t.hour \in Int /\ t.minute \in Int /\ t.second \in Int
      /\ (y % 4) \in 0 .. 3
  BY DEF Dates, Clock
<1>4. quads \in Int /\ QUAD_YEAR * ((y - BASE_YEAR) \div 4) = quads
  <2> HIDE DEF y
  <2> QED
    BY <1>3 DEF QUAD_YEAR, BASE_YEAR
<1> HIDE DEF quads
<1>5. MonthTable(y)[date.month] \in Nat /\ year_tab[(y % 4) + 1] \in Nat
  BY <1>3, MonthEnds, YearTable
<1>6. tail \in Int /\ tail = year_tab[(y % 4) + 1] + MonthTable(y)[date.month]
  <2>1. CASE y % 4 = 0
    <3>1. tail = MonthTable(y)[date.month]
      BY <2>1 DEF MonthTable
    <3>2. year_tab[(y % 4) + 1] = 0
      BY <2>1, YearTable
    <3> HIDE DEF tail
    <3> QED
      BY <1>5, <3>1, <3>2
  <2>2. CASE y % 4 # 0
    <3>1. tail = year_tab[(y % 4) + 1] + MonthTable(y)[date.month]
      BY <2>2 DEF MonthTable
    <3> HIDE DEF tail
    <3> QED
      BY <1>5, <3>1
  <2> QED
    BY <2>1, <2>2
<1> HIDE DEF tail
<1>7. DayNumber(date) = quads + tail + date.day - 1
  <2>1. \A q, a, b, d \in Int : q + a + (b + d - 1) = q + (a + b) + d - 1
    OBVIOUS
  <2>2. DayNumber(date)
          = quads + year_tab[(y % 4) + 1] + (MonthTable(y)[date.month] + date.day - 1)
    BY <1>4, Zenon DEF DayNumber, DayOfYear
  <2>3. /\ year_tab[(y % 4) + 1] \in Int /\ MonthTable(y)[date.month] \in Int
    BY <1>5
  <2> QED
    BY <1>3, <1>4, <1>6, <2>1, <2>2, <2>3, SMT
<1>8. DayNumber(date) \in Int
  BY DayNumberType
<1>9. SecsAt(date, t) + OFFSET_S = Seconds(DayNumber(date), t.hour, t.minute, t.second)
      /\ SecsAt(date, t) \in Int
  BY <1>3, <1>8, Shifted, ZenonT(60) DEF SecsAt
<1> DEFINE x == (((quads + tail + date.day - 1) * 24 + t.hour) * 60 + t.minute) * 60
<1>10. x \in Int
  BY <1>3, <1>4, <1>6
<1>11. Seconds(DayNumber(date), t.hour, t.minute, t.second) = x + t.second
  BY <1>7, Zenon DEF Seconds
<1>12. time_jul_to_secs(j) = x + t.second - OFFSET_S
  BY <1>2, Zenon
<1> HIDE DEF x
<1> QED
  <2>1. \A u, v, w \in Int : u + OFFSET_S = v + w => v + w - OFFSET_S = u
    BY SMT DEF OFFSET_S
  <2>2. SecsAt(date, t) + OFFSET_S = x + t.second /\ SecsAt(date, t) \in Int /\ t.second \in Int
    BY <1>3, <1>9, <1>11, Zenon
  <2>3. x + t.second - OFFSET_S = SecsAt(date, t)
    BY <1>10, <2>1, <2>2, Zenon
  <2> QED
    BY <1>12, <2>3, Zenon DEF j

\* time_jul_from_secs finds the date, the weekday and the time again.
LEMMA FromSecs ==
  ASSUME NEW date \in Dates, NEW t \in Clock, date.day_of_week = (DayNumber(date) + 1) % 7
  PROVE  time_jul_from_secs(SecsAt(date, t)) = Moment(date, t)
<1> DEFINE n == DayNumber(date)
           secs == SecsAt(date, t) + OFFSET_S
           total == (secs \div 60) \div 1440
           rest == total % QUAD_YEAR
           i == Bracket(year_tab, rest)
           days == rest - year_tab[i]
           table == IF i = 1 THEN leap_month_tab ELSE norm_month_tab
           month == Bracket(table, days)
           quads == total \div QUAD_YEAR
<1> HIDE DEF n, secs, total, rest, i, days, table, month, quads
<1>1. n \in Nat /\ t.hour \in 0 .. 23 /\ t.minute \in 0 .. 59 /\ t.second \in 0 .. 59
  BY DayNumberType DEF Clock, n
<1>2. secs = Seconds(n, t.hour, t.minute, t.second)
  <2>1. n \in Int /\ t.hour \in Int /\ t.minute \in Int /\ t.second \in Int
    BY <1>1
  <2> QED
    BY <2>1, Shifted, ZenonT(60) DEF SecsAt, n, secs
<1>3. /\ secs % 60 = t.second /\ (secs \div 60) % 60 = t.minute
      /\ ((secs \div 60) \div 60) % 24 = t.hour /\ total = n
  <2>1. ClockParts(secs, n, t.hour, t.minute, t.second)
    BY <1>1, <1>2, ClockDigits, Zenon
  <2> QED
    BY <2>1 DEF ClockParts, total
<1> DEFINE k == (date.year % 4) + 1
<1>4. k \in 1 .. 4 /\ k + 1 = (date.year % 4) + 2
  BY DEF Dates
<1>5. /\ rest = year_tab[k] + DayOfYear(date) /\ quads = (date.year - BASE_YEAR) \div 4
  BY <1>3, DayNumberType DEF rest, n, quads
<1>6. DayOfYear(date) \in Nat /\ DayOfYear(date) < year_tab[k + 1] - year_tab[k]
  BY <1>4, DayOfYearRange
<1> HIDE DEF k
<1>7. i = k /\ days = DayOfYear(date)
  <2>1. year_tab[k] \in Nat /\ year_tab[k + 1] \in Nat
    BY <1>4, YearTable
  <2>2. \A a, b, c \in Nat : c < b - a => /\ a + c \in Int /\ a <= a + c /\ a + c < b
                                          /\ (a + c) - a = c
    OBVIOUS
  <2>3. /\ rest \in Int /\ year_tab[k] <= rest /\ rest < year_tab[k + 1]
        /\ rest - year_tab[k] = DayOfYear(date)
    BY <1>5, <1>6, <2>1, <2>2, Zenon
  <2>4. i = k
    BY <1>4, <2>3, YearFound, Zenon DEF i
  <2> QED
    BY <2>3, <2>4, Zenon DEF days
<1>8. table = MonthTable(date.year)
  <2>1. k = 1 <=> date.year % 4 = 0
    BY DEF k, Dates
  <2> QED
    BY <1>7, <2>1 DEF MonthTable, table
<1>9. month = date.month
  <2>1. date.month \in 1 .. 12 /\ days \in Int
    BY <1>6, <1>7 DEF Dates
  <2>2. table[date.month] <= days /\ days < table[date.month + 1]
    BY <1>7, <1>8, DayOfYearRange
  <2>3. table \in Tables
    BY <1>8, MonthEnds
  <2> QED
    BY <2>1, <2>2, <2>3, MonthFound, Zenon DEF month
<1>10. BASE_YEAR + 4 * quads + i - 1 = date.year
  <2>1. date.year \in Int /\ date.year >= 1980
    BY DEF Dates
  <2>2. \A y \in Int : 1980 + 4 * ((y - 1980) \div 4) + ((y % 4) + 1) - 1 = y
    OBVIOUS
  <2> QED
    BY <1>5, <1>7, <2>1, <2>2 DEF k, BASE_YEAR
<1>11. days - table[month] + 1 = date.day
  <2>1. MonthTable(date.year)[date.month] \in Nat /\ date.day \in Int
    BY MonthEnds DEF Dates
  <2>2. \A a, d \in Int : (a + d - 1) - a + 1 = d
    OBVIOUS
  <2>3. days - table[month] + 1
          = (MonthTable(date.year)[date.month] + date.day - 1)
              - MonthTable(date.year)[date.month] + 1
    BY <1>7, <1>8, <1>9, Zenon DEF DayOfYear
  <2>4. MonthTable(date.year)[date.month] \in Int
    BY <2>1
  <2> QED
    BY <2>1, <2>2, <2>3, <2>4, Zenon
<1>12. (day_offset[4] * quads + day_offset[i] + days) % 7 = date.day_of_week
  <2>1. /\ day_offset[1] = 1 /\ day_offset[2] = 3 /\ day_offset[3] = 4 /\ day_offset[4] = 5
    BY DEF day_offset
  <2>2. quads \in Nat
    BY <1>5 DEF Dates, BASE_YEAR
  <2>3. n = 1461 * quads + year_tab[k] + days
    BY <1>5, <1>7 DEF n, DayNumber, k, QUAD_YEAR
  <2>4. days \in Nat
    BY <1>6, <1>7
  <2>5. \A q, d \in Nat : /\ (5 * q + 1 + d) % 7 = (1461 * q + 0 + d + 1) % 7
                          /\ (5 * q + 3 + d) % 7 = (1461 * q + 366 + d + 1) % 7
                          /\ (5 * q + 4 + d) % 7 = (1461 * q + 731 + d + 1) % 7
                          /\ (5 * q + 5 + d) % 7 = (1461 * q + 1096 + d + 1) % 7
    OBVIOUS
  <2>6. date.day_of_week = (n + 1) % 7
    BY DEF n
  <2> QED
    BY <1>4, <1>7, <2>1, <2>2, <2>3, <2>4, <2>5, <2>6, YearTable
<1>13. time_jul_from_secs(SecsAt(date, t))
         = [year |-> BASE_YEAR + 4 * quads + i - 1, month |-> month,
            day |-> days - table[month] + 1, hour |-> ((secs \div 60) \div 60) % 24,
            minute |-> (secs \div 60) % 60, second |-> secs % 60,
            day_of_week |-> (day_offset[4] * quads + day_offset[i] + days) % 7]
  BY Zenon DEF time_jul_from_secs, secs, total, rest, i, days, table, month, quads
<1> QED
  BY <1>3, <1>9, <1>10, <1>11, <1>12, <1>13, Zenon DEF Moment

-----------------------------------------------------------------------------
(* The next day.                                                           *)

\* 1 January 1980 was a Tuesday.
OnItsWeekday(date) == date.day_of_week = (DayNumber(date) + 1) % 7

\* The fields of a date.
LEMMA DateFields ==
  ASSUME NEW y, NEW m, NEW d, NEW w
  PROVE  /\ Date(y, m, d, w).year = y /\ Date(y, m, d, w).month = m
         /\ Date(y, m, d, w).day = d /\ Date(y, m, d, w).day_of_week = w
BY DEF Date

\* When four numbers are a date.
LEMMA DateIsADate ==
  ASSUME NEW y \in Int, NEW m \in 1 .. 12, NEW d \in 1 .. 31, NEW w \in 0 .. 6,
         1980 <= y, y <= 2099 \/ (y = 2100 /\ m = 1), d <= LengthOf(y, m)
  PROVE  Date(y, m, d, w) \in Dates
BY DateFields DEF Date, Dates

\* The day that follows is a date, has the next number and the next weekday: within
\* a month, at its end, and at the end of the year.
LEMMA FollowingDay ==
  ASSUME NEW date \in Dates, date.year <= 2099
  PROVE  /\ Following(date) \in Dates
         /\ DayNumber(Following(date)) = DayNumber(date) + 1
         /\ Following(date).day_of_week = (date.day_of_week + 1) % 7
<1> DEFINE y == date.year  m == date.month  d == date.day
           w == (date.day_of_week + 1) % 7
           quads == QUAD_YEAR * ((y - BASE_YEAR) \div 4)
           first == year_tab[(y % 4) + 1]
           table == MonthTable(y)
<1>1. y \in Int /\ 1980 <= y /\ y <= 2099 /\ m \in 1 .. 12 /\ d \in 1 .. 31 /\ w \in 0 .. 6
      /\ d <= LengthOf(y, m) /\ (y % 4) \in 0 .. 3
  BY DEF Dates
<1>2. first \in Int /\ quads \in Int
  BY <1>1, YearTable DEF QUAD_YEAR, BASE_YEAR
<1>3. DayNumber(date) = quads + first + (table[m] + d - 1)
  BY SMT DEF DayNumber, DayOfYear
<1>4. table[m] \in Int /\ table[m] + LengthOf(y, m) = table[m + 1]
  BY MonthEnds
<1>5. LengthOf(y, m) \in 28 .. 31
  BY DEF LengthOf
<1>6. Following(date)
        = IF d < LengthOf(y, m) THEN Date(y, m, d + 1, w)
          ELSE IF m < 12 THEN Date(y, m + 1, 1, w) ELSE Date(y + 1, 1, 1, w)
  BY SMT DEF Following
<1> HIDE DEF quads, first, table, w
<1>7. CASE d < LengthOf(y, m)
  <2> DEFINE after == Date(y, m, d + 1, w)
  <2>1. after.year = y /\ after.month = m /\ after.day = d + 1 /\ after.day_of_week = w
    BY DateFields
  <2>2. Following(date) = after
    BY <1>6, <1>7
  <2>3. after \in Dates
    <3> DEFINE e == d + 1
    <3>1. e \in 1 .. 31 /\ e <= LengthOf(y, m)
      BY <1>1, <1>5, <1>7
    <3> HIDE DEF y, m, d, e
    <3>2. Date(y, m, e, w) \in Dates
      BY <1>1, <3>1, SMT DEF Date, Dates
    <3> QED
      BY <3>2 DEF e
  <2> HIDE DEF after
  <2>4. DayNumber(after) = quads + first + (table[m] + (d + 1) - 1)
    BY <2>1, SMT DEF DayNumber, DayOfYear, quads, first, table
  <2> QED
    BY <1>1, <1>2, <1>3, <1>4, <2>1, <2>2, <2>3, <2>4 DEF w
<1>8. CASE d >= LengthOf(y, m) /\ m < 12
  <2> DEFINE after == Date(y, m + 1, 1, w)
  <2>1. after.year = y /\ after.month = m + 1 /\ after.day = 1 /\ after.day_of_week = w
    BY DateFields
  <2>2. Following(date) = after
    <3>1. ~(d < LengthOf(y, m)) /\ m < 12
      BY <1>1, <1>5, <1>8
    <3> HIDE DEF y, m, d
    <3> QED
      BY <1>6, <3>1
  <2>3. after \in Dates
    <3>1. m + 1 \in 1 .. 12 /\ 1 <= LengthOf(y, m + 1)
      BY <1>1, <1>8 DEF LengthOf
    <3>2. PICK a, b : a = y /\ b = m + 1
      OBVIOUS
    <3> HIDE DEF y, m, d
    <3>3. /\ a \in Int /\ b \in 1 .. 12 /\ 1 \in 1 .. 31 /\ w \in 0 .. 6 /\ 1980 <= a
          /\ (a <= 2099 \/ (a = 2100 /\ b = 1)) /\ 1 <= LengthOf(a, b)
      BY <1>1, <3>1, <3>2
    <3>4. Date(a, b, 1, w) \in Dates
      BY <3>3, SMT DEF Date, Dates
    <3> QED
      BY <3>2, <3>4
  <2> HIDE DEF after
  <2>4. DayNumber(after) = quads + first + (table[m + 1] + 1 - 1)
    BY <2>1, SMT DEF DayNumber, DayOfYear, quads, first, table
  <2>5. d = LengthOf(y, m)
    BY <1>1, <1>5, <1>8
  <2> QED
    BY <1>1, <1>2, <1>3, <1>4, <1>5, <2>1, <2>2, <2>3, <2>4, <2>5 DEF w
<1>9. CASE d >= LengthOf(y, m) /\ m = 12
  <2> DEFINE after == Date(y + 1, 1, 1, w)
  <2>1. after.year = y + 1 /\ after.month = 1 /\ after.day = 1 /\ after.day_of_week = w
    BY DateFields
  <2>2. Following(date) = after
    <3>1. ~(d < LengthOf(y, m)) /\ ~(m < 12)
      BY <1>1, <1>5, <1>9
    <3> HIDE DEF y, m, d
    <3> QED
      BY <1>6, <3>1
  <2>3. after \in Dates
    <3>1. 1 <= LengthOf(y + 1, 1)
      BY DEF LengthOf
    <3>2. PICK a, b : a = y + 1 /\ b = 1
      OBVIOUS
    <3> HIDE DEF y, m, d
    <3>3. /\ a \in Int /\ b \in 1 .. 12 /\ 1 \in 1 .. 31 /\ w \in 0 .. 6 /\ 1980 <= a
          /\ (a <= 2099 \/ (a = 2100 /\ b = 1)) /\ 1 <= LengthOf(a, b)
      BY <1>1, <3>1, <3>2
    <3>4. Date(a, b, 1, w) \in Dates
      BY <3>3, SMT DEF Date, Dates
    <3> QED
      BY <3>2, <3>4
  <2> HIDE DEF after
  <2> DEFINE then == QUAD_YEAR * (((y + 1) - BASE_YEAR) \div 4)
             start == year_tab[((y + 1) % 4) + 1]
             months == MonthTable(y + 1)
  <2>4. DayNumber(after) = then + start + (months[1] + 1 - 1)
    BY <2>1, SMT DEF DayNumber, DayOfYear
  <2>5. months[1] = 0
    BY MonthTables DEF MonthTable
  <2>6. table[13] = IF y % 4 = 0 THEN 366 ELSE 365
    BY MonthTables DEF MonthTable, table
  <2>7. then + start = quads + first + table[13]
    <3>1. CASE y % 4 = 3
      <4>1. (y + 1) % 4 = 0 /\ ((y + 1) - 1980) \div 4 = ((y - 1980) \div 4) + 1
        BY <1>1, <3>1
      <4>2. start = 0 /\ first = 1096 /\ table[13] = 365
        BY <2>6, <3>1, <4>1, YearTable DEF first
      <4> QED
        BY <1>1, <4>1, <4>2 DEF quads, QUAD_YEAR, BASE_YEAR
    <3>2. CASE y % 4 # 3
      <4>1. (y + 1) % 4 = (y % 4) + 1 /\ ((y + 1) - 1980) \div 4 = (y - 1980) \div 4
        BY <1>1, <3>2
      <4>2. start = first + table[13]
        BY <1>1, <2>6, <3>2, <4>1, YearTable DEF first
      <4>3. then = quads
        BY <4>1 DEF quads, BASE_YEAR
      <4>4. table[13] \in Int
        BY <2>6
      <4> QED
        BY <1>2, <4>2, <4>3, <4>4
    <3> QED
      BY <3>1, <3>2
  <2>8. d = LengthOf(y, m) /\ m + 1 = 13 /\ table[13] \in Int
    BY <1>1, <1>5, <1>9, <2>6
  <2> HIDE DEF then, start, months
  <2>9. DayNumber(after) = quads + first + table[13]
    <3>1. then + start \in Int
      BY <1>2, <2>7, <2>8
    <3> QED
      BY <2>4, <2>5, <2>7, <3>1
  <2> QED
    BY <1>1, <1>2, <1>3, <1>4, <1>5, <1>9, <2>1, <2>2, <2>3, <2>8, <2>9 DEF w
<1> QED
  BY <1>1, <1>5, <1>7, <1>8, <1>9

-----------------------------------------------------------------------------
(* The walk.                                                               *)

\* The inductive invariant of the walk.
CalendarInv ==
  /\ today \in Dates /\ today.year <= LastYear /\ OnItsWeekday(today)
  /\ before \in Dates /\ before.year <= LastYear /\ OnItsWeekday(before)
  /\ today = Following(before)
  /\ elapsed \in Nat /\ DayNumber(today) = elapsed + 5

\* The weekday follows the number of the day.
LEMMA NextWeekday ==
  ASSUME NEW date \in Dates, date.year <= 2099, OnItsWeekday(date)
  PROVE  OnItsWeekday(Following(date))
<1>1. DayNumber(date) \in Nat
  BY DayNumberType
<1>2. \A n \in Nat : (((n + 1) % 7) + 1) % 7 = (n + 1 + 1) % 7
  OBVIOUS
<1> QED
  BY <1>1, <1>2, FollowingDay DEF OnItsWeekday

\* The walk starts on 6 January 1980.
LEMMA CalendarStarts == CalendarInit => CalendarInv
<1> SUFFICES ASSUME CalendarInit PROVE CalendarInv
  OBVIOUS
<1>1. /\ before = Date(1980, 1, 5, 5) /\ today = Date(1980, 1, 6, 6) /\ elapsed = 0
  BY DEF CalendarInit
<1>2. LengthOf(1980, 1) = 31
  BY DEF LengthOf
<1>3. before \in Dates /\ today \in Dates
  <2>1. Date(1980, 1, 5, 5) \in Dates
    BY <1>2 DEF Date, Dates
  <2>2. Date(1980, 1, 6, 6) \in Dates
    BY <1>2 DEF Date, Dates
  <2> QED
    BY <1>1, <2>1, <2>2
<1>4. /\ before.year = 1980 /\ before.month = 1 /\ before.day = 5 /\ before.day_of_week = 5
      /\ today.year = 1980 /\ today.month = 1 /\ today.day = 6 /\ today.day_of_week = 6
  BY <1>1, DateFields
<1>5. MonthTable(1980)[1] = 0
  BY MonthTables DEF MonthTable
<1>6. QUAD_YEAR * ((1980 - BASE_YEAR) \div 4) + year_tab[(1980 % 4) + 1] = 0
  BY YearTable DEF QUAD_YEAR, BASE_YEAR
<1>7. DayNumber(before) = 4 /\ DayNumber(today) = 5
  BY <1>4, <1>5, <1>6 DEF DayNumber, DayOfYear
<1>8. today = Following(before)
  BY <1>1, <1>2, <1>4 DEF Following
<1> QED
  BY <1>1, <1>3, <1>4, <1>7, <1>8, CalendarAssumption DEF CalendarInv, OnItsWeekday

\* A step of the walk is one day.
LEMMA CalendarSteps == CalendarInv /\ [CalendarNext]_calendarVars => CalendarInv'
<1> SUFFICES ASSUME CalendarInv, [CalendarNext]_calendarVars PROVE CalendarInv'
  OBVIOUS
<1>1. CASE NextDay
  <2>1. /\ Following(today).year <= LastYear /\ before' = today /\ today' = Following(today)
        /\ elapsed' = elapsed + 1
    BY <1>1 DEF NextDay
  <2>2. today \in Dates /\ today.year <= 2099 /\ OnItsWeekday(today)
    BY CalendarAssumption DEF CalendarInv, Dates
  <2>3. Following(today) \in Dates /\ DayNumber(Following(today)) = DayNumber(today) + 1
    BY <2>2, FollowingDay
  <2>4. OnItsWeekday(Following(today))
    BY <2>2, NextWeekday
  <2>5. CalendarInv' = (/\ Following(today) \in Dates /\ Following(today).year <= LastYear
                        /\ OnItsWeekday(Following(today))
                        /\ today \in Dates /\ today.year <= LastYear /\ OnItsWeekday(today)
                        /\ Following(today) = Following(today)
                        /\ elapsed + 1 \in Nat
                        /\ DayNumber(Following(today)) = elapsed + 1 + 5)
    BY <2>1 DEF CalendarInv
  <2> QED
    BY <2>1, <2>2, <2>3, <2>4, <2>5 DEF CalendarInv
<1>2. CASE UNCHANGED calendarVars
  BY <1>2 DEF calendarVars, CalendarInv
<1> QED
  BY <1>1, <1>2 DEF CalendarNext

\* The walk goes from day to day of the calendar and counts them: today is a date,
\* its number is elapsed counted from 6 January, its weekday follows the number,
\* and it is the day after before.
THEOREM CalendarInvariance == CalendarSpec => []CalendarInv
BY CalendarStarts, CalendarSteps, PTL DEF CalendarSpec

\* The times looked at are times of the day.
LEMMA TimesOnTheClock == Times \subseteq Clock
BY CalendarAssumption DEF Times, Clock

\* The conversions of rild/utils.c between seconds and dates agree with the calendar
\* on every day until 2099, at every hour, in both directions.
THEOREM ConversionsAgree == CalendarSpec => []CalendarAgrees
<1>1. CalendarInv => CalendarAgrees
  <2> SUFFICES ASSUME CalendarInv, NEW t \in Times
               PROVE  /\ time_jul_from_secs(SecsOf(t)) = Moment(today, t)
                      /\ time_jul_to_secs(Moment(today, t)) = SecsOf(t)
    BY DEF CalendarAgrees
  <2>1. t \in Clock
    BY TimesOnTheClock
  <2>2. today \in Dates /\ OnItsWeekday(today) /\ elapsed \in Nat
        /\ DayNumber(today) = elapsed + 5
    BY DEF CalendarInv
  <2>3. SecsOf(t) = SecsAt(today, t)
    <3>1. DayNumber(today) - 5 = elapsed
      BY <2>2
    <3> QED
      BY <3>1 DEF SecsOf, SecsAt, Seconds
  <2> QED
    BY <2>1, <2>2, <2>3, ToSecs, FromSecs DEF OnItsWeekday
<1> QED
  BY <1>1, CalendarInvariance, PTL

Moves(n, h, m, s, tz, k, quarters) ==
  /\ (quarters \div 4) % 24 \in 0 .. 23
  /\ 15 * (quarters % 4) + (m % 15) \in 0 .. 59
  /\ Seconds(n, h, m, s) + tz * 900
       = Seconds(n + k, (quarters \div 4) % 24, 15 * (quarters % 4) + (m % 15), s)

\* A time moved by quarters of an hour is the time of the day, the day before or the
\* day after, that the quarters make.
LEMMA MovedByZone ==
  ASSUME NEW n \in Int, NEW h \in 0 .. 23, NEW m \in 0 .. 59, NEW s \in Int,
         NEW tz \in Int, NEW k \in Int, NEW quarters,
         quarters = 4 * h + (m \div 15) + tz,
         0 <= quarters - 96 * k, quarters - 96 * k <= 95
  PROVE  Moves(n, h, m, s, tz, k, quarters)
<1> DEFINE hour == (quarters \div 4) % 24
           minute == 15 * (quarters % 4) + (m % 15)
<1>1. quarters \in Int /\ (m \div 15) \in Int /\ (m % 15) \in 0 .. 14
      /\ m = 15 * (m \div 15) + (m % 15)
  OBVIOUS
<1>2. 0 <= quarters - 96 * k /\ quarters - 96 * k <= 95
  OBVIOUS
<1>3. Seconds(n, h, m, s) + tz * 900 = 86400 * n + 900 * quarters + 60 * (m % 15) + s
  BY <1>1, SMT DEF Seconds
<1>4. (quarters \div 4) - 24 * k \in 0 .. 23 /\ (quarters % 4) \in 0 .. 3
      /\ quarters = 4 * (quarters \div 4) + (quarters % 4)
  BY <1>1, <1>2
<1>5. hour = (quarters \div 4) - 24 * k
  <2>1. \A a, b \in Int : a - 24 * b \in 0 .. 23 => a % 24 = a - 24 * b
    OBVIOUS
  <2> QED
    BY <1>1, <1>4, <2>1
<1>6. minute \in 0 .. 59
  BY <1>1, <1>4
<1>7. Seconds(n + k, hour, minute, s) = 86400 * n + 900 * quarters + 60 * (m % 15) + s
  BY <1>1, <1>4, <1>5, SMT DEF Seconds
<1> QED
  BY <1>3, <1>4, <1>5, <1>6, <1>7 DEF Moves

\* SetLocalTime makes the network's time the local time, for every zone, also where
\* the zone moves it over the end of a day, a month or a year.
THEOREM LocalTimeIsRight == CalendarSpec => []LocalTimeAgrees
<1>1. CalendarInv => LocalTimeAgrees
  <2> SUFFICES ASSUME CalendarInv, NEW t \in Times, NEW tz \in Zones
               PROVE  LET quarters == 4 * t.hour + (t.minute \div 15) + tz
                          local == [hour |-> (quarters \div 4) % 24,
                                    minute |-> 15 * (quarters % 4) + (t.minute % 15),
                                    second |-> t.second]
                          date == IF quarters < 0 THEN before
                                  ELSE IF quarters >= 96 THEN Following(today) ELSE today
                      IN  SetLocalTime(Moment(today, t), tz) = Moment(date, local)
    BY DEF LocalTimeAgrees
  <2> DEFINE quarters == 4 * t.hour + (t.minute \div 15) + tz
             hour == (quarters \div 4) % 24
             minute == 15 * (quarters % 4) + (t.minute % 15)
             local == [hour |-> hour, minute |-> minute, second |-> t.second]
             date == IF quarters < 0 THEN before
                     ELSE IF quarters >= 96 THEN Following(today) ELSE today
             k == IF quarters < 0 THEN -1 ELSE IF quarters >= 96 THEN 1 ELSE 0
  <2>1. /\ t \in Clock /\ t.hour \in 0 .. 23 /\ t.minute \in 0 .. 59 /\ t.second \in 0 .. 59
        /\ tz \in -48 .. 56
    BY TimesOnTheClock, CalendarAssumption DEF Clock
  <2>2. /\ today \in Dates /\ today.year <= 2099 /\ OnItsWeekday(today)
        /\ before \in Dates /\ before.year <= 2099 /\ OnItsWeekday(before)
        /\ today = Following(before)
    BY CalendarAssumption DEF CalendarInv, Dates
  <2>3. k \in Int /\ 0 <= quarters - 96 * k /\ quarters - 96 * k <= 95
    BY <2>1
  <2>4. date \in Dates /\ OnItsWeekday(date) /\ DayNumber(date) = DayNumber(today) + k
    <3>1. DayNumber(today) = DayNumber(before) + 1
      BY <2>2, FollowingDay
    <3>2. Following(today) \in Dates /\ DayNumber(Following(today)) = DayNumber(today) + 1
      BY <2>2, FollowingDay
    <3>3. OnItsWeekday(Following(today))
      BY <2>2, NextWeekday
    <3>4. DayNumber(today) \in Int /\ DayNumber(before) \in Int
      BY <2>2, DayNumberType
    <3> HIDE DEF quarters
    <3> QED
      BY <2>2, <3>1, <3>2, <3>3, <3>4
  <2>5. /\ hour \in 0 .. 23 /\ minute \in 0 .. 59
        /\ SecsAt(today, t) + tz * 900 = SecsAt(date, local)
    <3> DEFINE n == DayNumber(today) - 5
    <3>1. n \in Int /\ n + k = DayNumber(date) - 5
      <4>1. DayNumber(today) \in Int
        BY <2>2, DayNumberType
      <4> HIDE DEF k, date
      <4> QED
        BY <2>3, <2>4, <4>1
    <3>2. /\ hour \in 0 .. 23 /\ minute \in 0 .. 59
          /\ Seconds(n, t.hour, t.minute, t.second) + tz * 900
               = Seconds(n + k, hour, minute, t.second)
      <4>1. t.second \in Int /\ tz \in Int
        BY <2>1
      <4>2. quarters = 4 * t.hour + (t.minute \div 15) + tz
        OBVIOUS
      <4> HIDE DEF n, k, quarters
      <4>3. Moves(n, t.hour, t.minute, t.second, tz, k, quarters)
        BY <2>1, <2>3, <3>1, <4>1, <4>2, MovedByZone, Zenon
      <4> QED
        BY <4>3, Zenon DEF Moves
    <3>3. local.hour = hour /\ local.minute = minute /\ local.second = t.second
      OBVIOUS
    <3> HIDE DEF k, date, local, hour, minute, quarters
    <3> QED
      BY <3>1, <3>2, <3>3 DEF SecsAt
  <2>6. local \in Clock
    BY <2>1, <2>5 DEF Clock
  <2> HIDE DEF date, local, k, hour, minute, quarters
  <2>7. SetLocalTime(Moment(today, t), tz) = time_jul_from_secs(SecsAt(today, t) + tz * 900)
    BY <2>1, <2>2, ToSecs DEF SetLocalTime
  <2>8. time_jul_from_secs(SecsAt(date, local)) = Moment(date, local)
    BY <2>4, <2>6, FromSecs DEF OnItsWeekday
  <2>9. SetLocalTime(Moment(today, t), tz) = Moment(date, local)
    BY <2>5, <2>7, <2>8
  <2> QED
    BY <2>9, Zenon DEF date, local, hour, minute, quarters
<1> QED
  BY <1>1, CalendarInvariance, PTL

-----------------------------------------------------------------------------
(* Loops and concatenations.                                               *)

\* A set that holds zero, and with a number the next one, holds them all.
LEMMA AllNumbers ==
  ASSUME NEW I, 0 \in I, \A n \in Nat : n \in I => n + 1 \in I
  PROVE  \A n \in Nat : n \in I
<1> DEFINE Bad == {n \in Nat : n \notin I}
<1> SUFFICES ASSUME Bad # {} PROVE FALSE
  OBVIOUS
<1>1. PICK m : m \in Bad /\ \A j \in Bad : m <= j
  BY LeastPosition
<1>2. m \in Nat /\ m \notin I
  BY <1>1
<1>3. CASE m = 0
  BY <1>2, <1>3
<1>4. CASE m # 0
  <2>1. m - 1 \in Nat /\ ~(m <= m - 1)
    BY <1>2, <1>4
  <2>2. m - 1 \in I
    BY <1>1, <2>1
  <2>3. (m - 1) + 1 \in I
    BY <2>1, <2>2
  <2> QED
    BY <1>2, <2>3
<1> QED
  BY <1>3, <1>4

\* The same within bounds, upwards and downwards.
LEMMA Upwards ==
  ASSUME NEW n \in Nat, NEW I, n >= 1 => 1 \in I,
         \A k \in Nat : k >= 1 /\ k + 1 <= n /\ k \in I => k + 1 \in I
  PROVE  \A k \in 1 .. n : k \in I
<1> DEFINE J == {k \in Nat : k \in 1 .. n => k \in I}
<1>1. 0 \in J
  OBVIOUS
<1>2. ASSUME NEW k \in Nat, k \in J PROVE k + 1 \in J
  <2>1. CASE k = 0
    BY <2>1
  <2>2. CASE k # 0
    BY <1>2, <2>2
  <2> QED
    BY <2>1, <2>2
<1> HIDE DEF J
<1>3. \A k \in Nat : k \in J
  BY <1>1, <1>2, AllNumbers
<1> QED
  BY <1>3 DEF J

\* The same from n down.
LEMMA Downwards ==
  ASSUME NEW n \in Nat, NEW I, n >= 1 => n \in I,
         \A k \in Nat : k >= 1 /\ k + 1 <= n /\ k + 1 \in I => k \in I
  PROVE  \A k \in 1 .. n : k \in I
<1> DEFINE J == {d \in Nat : d < n => n - d \in I}
<1>1. 0 \in J
  OBVIOUS
<1>2. ASSUME NEW d \in Nat, d \in J PROVE d + 1 \in J
  <2> SUFFICES ASSUME d + 1 < n PROVE n - (d + 1) \in I
    OBVIOUS
  <2>1. n - d \in I
    BY <1>2
  <2>2. n - (d + 1) \in Nat /\ n - (d + 1) >= 1 /\ (n - (d + 1)) + 1 = n - d /\ n - d <= n
    OBVIOUS
  <2> QED
    BY <2>1, <2>2
<1> HIDE DEF J
<1>3. \A d \in Nat : d \in J
  BY <1>1, <1>2, AllNumbers
<1>4. ASSUME NEW k \in 1 .. n PROVE k \in I
  <2>1. n - k \in Nat /\ n - k < n /\ n - (n - k) = k
    OBVIOUS
  <2>2. n - k \in J
    BY <1>3, <2>1
  <2> QED
    BY <2>1, <2>2 DEF J
<1> QED
  BY <1>4

\* The values of the variables after each of n rounds.
After(f, body, start, n) ==
  f = [k \in 0 .. n |-> IF k = 0 THEN start ELSE body[f[k - 1]]]

\* A loop of any number of rounds has them.
LEMMA RoundsExist ==
  ASSUME NEW body, NEW start
  PROVE  \A n \in Nat : \E f : After(f, body, start, n)
<1> DEFINE I == {n \in Nat : \E f : After(f, body, start, n)}
<1>1. 0 \in I
  <2> DEFINE f == [k \in 0 .. 0 |-> start]
  <2>1. After(f, body, start, 0)
    BY DEF After
  <2> QED
    BY <2>1
<1>2. ASSUME NEW n \in Nat, n \in I PROVE n + 1 \in I
  <2>1. PICK f : After(f, body, start, n)
    BY <1>2
  <2>2. \A k \in 0 .. n : f[k] = IF k = 0 THEN start ELSE body[f[k - 1]]
    BY <2>1 DEF After
  <2> DEFINE g == [k \in 0 .. n + 1 |-> IF k = n + 1 THEN body[f[n]] ELSE f[k]]
             r == [k \in 0 .. n + 1 |-> IF k = 0 THEN start ELSE body[g[k - 1]]]
  <2>3. \A k \in 0 .. n + 1 : g[k] = r[k]
    <3> SUFFICES ASSUME NEW k \in 0 .. n + 1 PROVE g[k] = r[k]
      OBVIOUS
    <3>1. CASE k = 0
      BY <2>2, <3>1
    <3>2. CASE k = n + 1
      <4>1. k - 1 = n /\ n \in 0 .. n + 1 /\ n # n + 1 /\ k # 0
        BY <3>2
      <4> QED
        BY <3>2, <4>1
    <3>3. CASE k # 0 /\ k # n + 1
      <4>1. k - 1 \in 0 .. n + 1 /\ k - 1 # n + 1 /\ k \in 0 .. n
        BY <3>3
      <4> QED
        BY <2>2, <3>3, <4>1
    <3> QED
      BY <3>1, <3>2, <3>3
  <2>4. g = r
    BY <2>3
  <2>5. After(g, body, start, n + 1)
    BY <2>4 DEF After
  <2> QED
    BY <2>5
<1> HIDE DEF I
<1>3. \A n \in Nat : n \in I
  BY <1>1, <1>2, AllNumbers
<1> QED
  BY <1>3 DEF I

\* A longer loop begins as a shorter one.
LEMMA RoundsAgree ==
  ASSUME NEW body, NEW start, NEW m \in Nat, NEW n \in Nat, n <= m,
         NEW f, After(f, body, start, n), NEW g, After(g, body, start, m)
  PROVE  \A k \in 0 .. n : f[k] = g[k]
<1> DEFINE I == {k \in Nat : k <= n => f[k] = g[k]}
<1>1. /\ \A k \in 0 .. n : f[k] = IF k = 0 THEN start ELSE body[f[k - 1]]
      /\ \A k \in 0 .. m : g[k] = IF k = 0 THEN start ELSE body[g[k - 1]]
  BY DEF After
<1>2. 0 \in I
  BY <1>1
<1>3. ASSUME NEW k \in Nat, k \in I PROVE k + 1 \in I
  <2> SUFFICES ASSUME k + 1 <= n PROVE f[k + 1] = g[k + 1]
    OBVIOUS
  <2>1. k + 1 \in 0 .. n /\ k + 1 \in 0 .. m /\ k + 1 # 0 /\ (k + 1) - 1 = k /\ k <= n
    OBVIOUS
  <2>2. f[k + 1] = body[f[k]] /\ g[k + 1] = body[g[k]]
    BY <1>1, <2>1
  <2> QED
    BY <1>3, <2>1, <2>2
<1> HIDE DEF I
<1>4. \A k \in Nat : k \in I
  BY <1>2, <1>3, AllNumbers
<1> QED
  BY <1>4 DEF I

\* A loop by its rounds.
LEMMA RoundsDef ==
  ASSUME NEW body, NEW start
  PROVE  /\ Rounds(body, start, 0) = start
         /\ \A n \in Nat : Rounds(body, start, n + 1) = body[Rounds(body, start, n)]
<1> DEFINE F(n) == CHOOSE f : After(f, body, start, n)
<1>1. \A n \in Nat : Rounds(body, start, n) = F(n)[n]
  BY DEF Rounds, After
<1>2. \A n \in Nat : After(F(n), body, start, n)
  BY RoundsExist
<1> HIDE DEF F
<1>3. F(0)[0] = start
  BY <1>2 DEF After
<1>4. ASSUME NEW n \in Nat PROVE F(n + 1)[n + 1] = body[F(n)[n]]
  <2>1. F(n + 1)[n + 1] = body[F(n + 1)[n]]
    BY <1>2 DEF After
  <2>2. \A k \in 0 .. n : F(n)[k] = F(n + 1)[k]
    BY <1>2, RoundsAgree
  <2> QED
    BY <2>1, <2>2
<1> QED
  BY <1>1, <1>3, <1>4

\* A loop that is through stays where it is.
LEMMA RoundsStay ==
  ASSUME NEW body, NEW start, NEW m \in Nat,
         body[Rounds(body, start, m)] = Rounds(body, start, m)
  PROVE  \A n \in Nat : n >= m => Rounds(body, start, n) = Rounds(body, start, m)
<1> DEFINE I == {n \in Nat : n >= m => Rounds(body, start, n) = Rounds(body, start, m)}
<1>1. 0 \in I
  OBVIOUS
<1>2. ASSUME NEW n \in Nat, n \in I PROVE n + 1 \in I
  <2>1. CASE n + 1 = m
    BY <2>1
  <2>2. CASE n >= m
    <3>1. Rounds(body, start, n) = Rounds(body, start, m)
      BY <1>2, <2>2
    <3>2. Rounds(body, start, n + 1) = body[Rounds(body, start, n)]
      BY RoundsDef
    <3> QED
      BY <3>1, <3>2
  <2>3. CASE n + 1 < m
    BY <2>3
  <2> QED
    BY <2>1, <2>2, <2>3
<1> HIDE DEF I
<1>3. \A n \in Nat : n \in I
  BY <1>1, <1>2, AllNumbers
<1> QED
  BY <1>3 DEF I

\* Two sequences, one behind the other.
LEMMA ConcatPlaces ==
  ASSUME NEW T, NEW u \in Seq(T), NEW s \in Seq(T)
  PROVE  /\ u \o s \in Seq(T) /\ Len(u \o s) = Len(u) + Len(s)
         /\ \A j \in 1 .. Len(u) : (u \o s)[j] = u[j]
         /\ \A j \in 1 .. Len(s) : (u \o s)[Len(u) + j] = s[j]
<1>1. Len(u) \in Nat /\ Len(s) \in Nat
  BY LenProperties
<1>2. /\ u \o s \in Seq(T) /\ Len(u \o s) = Len(u) + Len(s)
      /\ \A j \in 1 .. Len(u) + Len(s) :
           (u \o s)[j] = IF j <= Len(u) THEN u[j] ELSE s[j - Len(u)]
  BY ConcatProperties
<1>3. ASSUME NEW j \in 1 .. Len(u) PROVE (u \o s)[j] = u[j]
  <2>1. j \in 1 .. Len(u) + Len(s) /\ j <= Len(u)
    BY <1>1
  <2> QED
    BY <1>2, <2>1
<1>4. ASSUME NEW j \in 1 .. Len(s) PROVE (u \o s)[Len(u) + j] = s[j]
  <2>1. PICK p : p = Len(u) + j
    OBVIOUS
  <2>2. p \in 1 .. Len(u) + Len(s) /\ ~(p <= Len(u)) /\ p - Len(u) = j
    BY <1>1, <2>1
  <2> QED
    BY <1>2, <2>1, <2>2
<1> QED
  BY <1>2, <1>3, <1>4

\* What is joined of the first n of several sequences.
Joins(f, seqs, n) ==
  f = [i \in 1 .. n |-> IF i = 1 THEN seqs[i] ELSE f[i - 1] \o seqs[i]]

\* Any number of sequences can be joined.
LEMMA JoinsExist ==
  ASSUME NEW seqs
  PROVE  \A n \in Nat : \E f : Joins(f, seqs, n)
<1> DEFINE I == {n \in Nat : \E f : Joins(f, seqs, n)}
<1>1. 0 \in I
  <2> DEFINE f == [i \in 1 .. 0 |-> i]
             g == [i \in 1 .. 0 |-> IF i = 1 THEN seqs[i] ELSE f[i - 1] \o seqs[i]]
  <2>1. f = g
    OBVIOUS
  <2>2. Joins(f, seqs, 0)
    BY <2>1 DEF Joins
  <2> QED
    BY <2>2
<1>2. ASSUME NEW n \in Nat, n \in I PROVE n + 1 \in I
  <2>1. PICK f : Joins(f, seqs, n)
    BY <1>2
  <2>2. \A i \in 1 .. n : f[i] = IF i = 1 THEN seqs[i] ELSE f[i - 1] \o seqs[i]
    BY <2>1 DEF Joins
  <2> DEFINE new == IF n = 0 THEN seqs[1] ELSE f[n] \o seqs[n + 1]
             g == [i \in 1 .. n + 1 |-> IF i = n + 1 THEN new ELSE f[i]]
             r == [i \in 1 .. n + 1 |-> IF i = 1 THEN seqs[i] ELSE g[i - 1] \o seqs[i]]
  <2>3. \A i \in 1 .. n + 1 : g[i] = r[i]
    <3> SUFFICES ASSUME NEW i \in 1 .. n + 1 PROVE g[i] = r[i]
      OBVIOUS
    <3>1. CASE i = n + 1
      <4>1. CASE n = 0
        BY <3>1, <4>1
      <4>2. CASE n # 0
        <5>1. i # 1 /\ i - 1 = n /\ n \in 1 .. n + 1 /\ n # n + 1
          BY <3>1, <4>2
        <5>2. g[n] = f[n]
          BY <5>1
        <5> QED
          BY <3>1, <4>2, <5>1, <5>2
      <4> QED
        BY <4>1, <4>2
    <3>2. CASE i # n + 1
      <4>1. i \in 1 .. n /\ (i # 1 => i - 1 \in 1 .. n + 1 /\ i - 1 # n + 1)
        BY <3>2
      <4>2. i # 1 => g[i - 1] = f[i - 1]
        BY <4>1
      <4> QED
        BY <2>2, <3>2, <4>1, <4>2
    <3> QED
      BY <3>1, <3>2
  <2>4. g = r
    BY <2>3
  <2>5. Joins(g, seqs, n + 1)
    BY <2>4 DEF Joins
  <2> QED
    BY <2>5
<1> HIDE DEF I
<1>3. \A n \in Nat : n \in I
  BY <1>1, <1>2, AllNumbers
<1> QED
  BY <1>3 DEF I

\* Where each of several sequences ends in their concatenation flat.
Places(seqs, flat, e) ==
  /\ e \in [0 .. Len(seqs) -> Nat] /\ e[0] = 0 /\ e[Len(seqs)] = Len(flat)
  /\ \A k \in 1 .. Len(seqs) :
       /\ e[k] = e[k - 1] + Len(seqs[k]) /\ e[k] <= Len(flat)
       /\ \A j \in 1 .. Len(seqs[k]) : flat[e[k - 1] + j] = seqs[k][j]

\* The k-th of the joined sequences f, whose lengths are e.
Joined(f, e, seqs, T, k) ==
  /\ f[k] \in Seq(T) /\ e[k] = Len(f[k]) /\ e[k - 1] \in Nat /\ e[k] \in Nat
  /\ e[k] = e[k - 1] + Len(seqs[k])
  /\ \A j \in 1 .. Len(seqs[k]) : f[k][e[k - 1] + j] = seqs[k][j]
  /\ k > 1 => \A j \in 1 .. e[k - 1] : f[k][j] = f[k - 1][j]

\* Each joined sequence is the one before with a sequence more.
LEMMA JoinedOnes ==
  ASSUME NEW T, NEW seqs \in Seq(Seq(T)), NEW f, Joins(f, seqs, Len(seqs)), NEW e,
         e[0] = 0, \A k \in 1 .. Len(seqs) : e[k] = Len(f[k])
  PROVE  \A k \in 1 .. Len(seqs) : Joined(f, e, seqs, T, k)
<1> DEFINE n == Len(seqs)
           I == {k \in Nat : Joined(f, e, seqs, T, k)}
<1>1. n \in Nat /\ \A k \in 1 .. n : seqs[k] \in Seq(T) /\ Len(seqs[k]) \in Nat
  BY ElementOfSeq, LenProperties
<1>2. \A i \in 1 .. n : f[i] = IF i = 1 THEN seqs[i] ELSE f[i - 1] \o seqs[i]
  BY <1>1 DEF Joins
<1>3. ASSUME n >= 1 PROVE 1 \in I
  <2>1. 1 \in 1 .. n /\ seqs[1] \in Seq(T) /\ Len(seqs[1]) \in Nat
    BY <1>1, <1>3
  <2>2. f[1] = seqs[1] /\ e[1] = Len(seqs[1]) /\ e[0] = 0
    BY <1>2, <2>1
  <2> QED
    BY <2>1, <2>2 DEF Joined
<1>4. ASSUME NEW k \in Nat, k >= 1, k + 1 <= n, k \in I PROVE k + 1 \in I
  <2> DEFINE m == k + 1
  <2>1. m \in 1 .. n /\ m # 1 /\ m - 1 = k /\ m \in Nat
    BY <1>1, <1>4
  <2>2. f[m] = f[k] \o seqs[m] /\ e[m] = Len(f[m])
    BY <1>2, <2>1
  <2>3. f[k] \in Seq(T) /\ e[k] = Len(f[k]) /\ e[k] \in Nat
    BY <1>4 DEF Joined
  <2>4. seqs[m] \in Seq(T) /\ Len(seqs[m]) \in Nat
    BY <1>1, <2>1
  <2> HIDE DEF m
  <2>5. /\ f[m] \in Seq(T) /\ Len(f[m]) = Len(f[k]) + Len(seqs[m])
        /\ \A j \in 1 .. Len(f[k]) : f[m][j] = f[k][j]
        /\ \A j \in 1 .. Len(seqs[m]) : f[m][Len(f[k]) + j] = seqs[m][j]
    <3>1. PICK u, v : u = f[k] /\ v = seqs[m]
      OBVIOUS
    <3>2. u \in Seq(T) /\ v \in Seq(T) /\ f[m] = u \o v
      BY <2>2, <2>3, <2>4, <3>1, Zenon
    <3>3. /\ u \o v \in Seq(T) /\ Len(u \o v) = Len(u) + Len(v)
          /\ \A j \in 1 .. Len(u) : (u \o v)[j] = u[j]
          /\ \A j \in 1 .. Len(v) : (u \o v)[Len(u) + j] = v[j]
      BY <3>2, ConcatPlaces
    <3> QED
      BY <3>1, <3>2, <3>3, Zenon
  <2>6. Len(f[m]) \in Nat
    BY <2>5, LenProperties, Zenon
  <2>7. Joined(f, e, seqs, T, m)
    BY <2>1, <2>2, <2>3, <2>4, <2>5, <2>6, Zenon DEF Joined
  <2> QED
    BY <2>1, <2>7 DEF m
<1> HIDE DEF I
<1>5. \A k \in 1 .. n : k \in I
  BY <1>1, <1>3, <1>4, Upwards
<1> QED
  BY <1>5 DEF I

\* A concatenation holds one sequence behind the other.
LEMMA FlatPlaces ==
  ASSUME NEW T, NEW seqs \in Seq(Seq(T))
  PROVE  /\ FlattenSeq(seqs) \in Seq(T)
         /\ \E e : Places(seqs, FlattenSeq(seqs), e)
<1> DEFINE n == Len(seqs)
<1>1. n \in Nat
  BY LenProperties
<1>2. CASE n = 0
  <2>1. seqs = <<>> /\ FlattenSeq(seqs) = seqs
    BY <1>2, EmptySeq DEF FlattenSeq
  <2> DEFINE e == [k \in 0 .. n |-> 0]
  <2>2. Places(seqs, FlattenSeq(seqs), e)
    BY <1>2, <2>1 DEF Places
  <2> QED
    BY <2>1, <2>2
<1>3. CASE n # 0
  <2> DEFINE f == CHOOSE f : Joins(f, seqs, n)
             e == [k \in 0 .. n |-> IF k = 0 THEN 0 ELSE Len(f[k])]
             I == {k \in Nat : e[k] <= e[n] /\ \A j \in 1 .. e[k] : f[k][j] = f[n][j]}
  <2>1. FlattenSeq(seqs) = f[n]
    BY <1>3 DEF FlattenSeq, Joins
  <2>2. Joins(f, seqs, n)
    BY <1>1, JoinsExist
  <2> HIDE DEF f
  <2>3. /\ e[0] = 0 /\ \A k \in 1 .. n : e[k] = Len(f[k])
        /\ DOMAIN e = 0 .. n /\ e = [k \in 0 .. n |-> e[k]]
    BY <1>1
  <2> HIDE DEF e
  <2>4. \A k \in 1 .. n : Joined(f, e, seqs, T, k)
    BY <2>2, <2>3, JoinedOnes
  <2>5. \A k \in 1 .. n : k \in Nat /\ f[k] \in Seq(T) /\ e[k] = Len(f[k]) /\ e[k] \in Nat
    BY <1>1, <2>4 DEF Joined
  <2>6. n \in 1 .. n
    BY <1>1, <1>3
  <2>7. n \in I
    BY <2>5, <2>6
  <2>8. ASSUME NEW k \in Nat, k >= 1, k + 1 <= n, k + 1 \in I PROVE k \in I
    <3> DEFINE m == k + 1
    <3>1. k \in 1 .. n /\ m \in 1 .. n /\ m - 1 = k /\ m > 1
      BY <1>1, <2>8
    <3>2. e[m] <= e[n] /\ \A j \in 1 .. e[m] : f[m][j] = f[n][j]
      BY <2>8
    <3>3. Joined(f, e, seqs, T, m)
      BY <2>4, <3>1
    <3> HIDE DEF m
    <3>4. e[k] <= e[m] /\ \A j \in 1 .. e[k] : f[m][j] = f[k][j]
      <4>1. seqs[m] \in Seq(T)
        BY <3>1, ElementOfSeq
      <4> QED
        BY <3>1, <3>3, <4>1, LenProperties DEF Joined
    <3>5. e[k] \in Nat /\ e[m] \in Nat /\ e[n] \in Nat
      BY <2>5, <2>6, <3>1
    <3>6. e[k] <= e[n] /\ \A j \in 1 .. e[k] : f[k][j] = f[n][j]
      BY <3>2, <3>4, <3>5
    <3> QED
      BY <3>6
  <2> HIDE DEF I
  <2>9. \A k \in 1 .. n : k \in I
    BY <1>1, <2>7, <2>8, Downwards
  <2>10. ASSUME NEW k \in 1 .. n
         PROVE  /\ e[k] = e[k - 1] + Len(seqs[k]) /\ e[k] <= Len(f[n])
                /\ \A j \in 1 .. Len(seqs[k]) : f[n][e[k - 1] + j] = seqs[k][j]
    <3>1. Joined(f, e, seqs, T, k) /\ seqs[k] \in Seq(T)
      BY <2>4, ElementOfSeq
    <3>2. e[k] <= e[n] /\ \A j \in 1 .. e[k] : f[k][j] = f[n][j]
      BY <2>9 DEF I
    <3>3. Len(seqs[k]) \in Nat
      BY <3>1, LenProperties
    <3>4. ASSUME NEW j \in 1 .. Len(seqs[k]) PROVE f[n][e[k - 1] + j] = seqs[k][j]
      <4>1. PICK a, b : a = e[k - 1] /\ b = Len(seqs[k])
        OBVIOUS
      <4>2. PICK p : p = e[k - 1] + j
        OBVIOUS
      <4>3. e[k] = a + b /\ a \in Nat /\ b \in Nat /\ j \in 1 .. b /\ p = a + j
        BY <3>1, <3>3, <4>1, <4>2, Zenon DEF Joined
      <4>4. p \in 1 .. a + b
        BY <4>3
      <4>5. p \in 1 .. e[k] /\ f[k][p] = seqs[k][j]
        BY <3>1, <4>2, <4>3, <4>4, Zenon DEF Joined
      <4> QED
        BY <3>2, <4>2, <4>5
    <3> QED
      BY <2>5, <2>6, <3>1, <3>2, <3>4 DEF Joined
  <2>11. e \in [0 .. n -> Nat]
    <3>1. \A k \in 0 .. n : e[k] \in Nat
      <4> SUFFICES ASSUME NEW k \in 0 .. n PROVE e[k] \in Nat
        OBVIOUS
      <4>1. k = 0 \/ k \in 1 .. n
        BY <1>1
      <4> QED
        BY <1>1, <2>3, <2>5, <4>1, 0 \in Nat, Zenon
    <3> QED
      BY <2>3, <3>1
  <2>12. Places(seqs, f[n], e)
    BY <2>3, <2>5, <2>6, <2>10, <2>11, Zenon DEF Places
  <2> QED
    BY <2>1, <2>5, <2>6, <2>12
<1> QED
  BY <1>2, <1>3

-----------------------------------------------------------------------------
(* Septets and their bits.                                                 *)

\* Seven bits.
Septet == 0 .. 127

\* The septet at place i, zero outside.
At7(s, i) == IF i \in 0 .. Len(s) - 1 THEN s[i + 1] ELSE 0

\* The octet that holds the rest of one septet and the beginning of the next.
Packed(a, b, shift) == ShiftR(a, shift) + ((b * 2 ^ (7 - shift)) % 256)

\* Bit r of a number.
BitOf(a, r) == (a \div 2 ^ r) % 2

\* The same from the bits.
FromBits(a, b, shift) ==
  LET bit(k) == IF k + shift <= 6 THEN BitOf(a, k + shift) ELSE BitOf(b, k + shift - 7)
  IN  bit(0) + 2 * bit(1) + 4 * bit(2) + 8 * bit(3)
      + 16 * bit(4) + 32 * bit(5) + 64 * bit(6) + 128 * bit(7)

\* The octet the loop makes of two septets has the bits of both.
LEMMA PackedIsFromBits ==
  ASSUME NEW a \in Septet, NEW b \in Septet, NEW shift \in 0 .. 6
  PROVE  Packed(a, b, shift) = FromBits(a, b, shift)
<1> DEFINE bit(k) == IF k + shift <= 6 THEN BitOf(a, k + shift) ELSE BitOf(b, k + shift - 7)
<1>1. shift = 0 \/ shift = 1 \/ shift = 2 \/ shift = 3 \/ shift = 4 \/ shift = 5 \/ shift = 6
  OBVIOUS
<1>2. FromBits(a, b, shift) =
        bit(0) + 2 * bit(1) + 4 * bit(2) + 8 * bit(3)
        + 16 * bit(4) + 32 * bit(5) + 64 * bit(6) + 128 * bit(7)
  BY DEF FromBits
<1>3. CASE shift = 0
  <2>1. bit(0) = (a \div 1) % 2 /\ bit(1) = (a \div 2) % 2 /\ bit(2) = (a \div 4) % 2
        /\ bit(3) = (a \div 8) % 2
    BY <1>3 DEF BitOf
  <2>2. bit(4) = (a \div 16) % 2 /\ bit(5) = (a \div 32) % 2 /\ bit(6) = (a \div 64) % 2
        /\ bit(7) = (b \div 1) % 2
    BY <1>3 DEF BitOf
  <2> HIDE DEF bit
  <2>3. Packed(a, b, shift) = (a \div 1) + ((b * 128) % 256)
    BY <1>3 DEF Packed, ShiftR
  <2>4. (a \div 1) + ((b * 128) % 256)
          = ((a \div 1) % 2) + 2 * ((a \div 2) % 2) + 4 * ((a \div 4) % 2)
            + 8 * ((a \div 8) % 2)
            + 16 * ((a \div 16) % 2) + 32 * ((a \div 32) % 2) + 64 * ((a \div 64) % 2)
              + 128 * ((b \div 1) % 2)
    <3>1. a \div 1 = ((a \div 1) % 2) + 2 * ((a \div 2) % 2) + 4 * ((a \div 4) % 2)
          + 8 * ((a \div 8) % 2) + 16 * ((a \div 16) % 2) + 32 * ((a \div 32) % 2)
            + 64 * ((a \div 64) % 2)
      BY DEF Septet
    <3>2. (b * 128) % 256 = 128 * ((b \div 1) % 2)
      <4>1. (b * 128) % 256 = 128 * (b % 2)
        BY DEF Septet
      <4>2. b % 2 = ((b \div 1) % 2)
        BY DEF Septet
      <4> QED
        BY <4>1, <4>2 DEF Septet
    <3> QED
      BY <3>1, <3>2 DEF Septet
  <2> QED
    BY <1>2, <2>1, <2>2, <2>3, <2>4
<1>4. CASE shift = 1
  <2>1. bit(0) = (a \div 2) % 2 /\ bit(1) = (a \div 4) % 2 /\ bit(2) = (a \div 8) % 2
        /\ bit(3) = (a \div 16) % 2
    BY <1>4 DEF BitOf
  <2>2. bit(4) = (a \div 32) % 2 /\ bit(5) = (a \div 64) % 2 /\ bit(6) = (b \div 1) % 2
        /\ bit(7) = (b \div 2) % 2
    BY <1>4 DEF BitOf
  <2> HIDE DEF bit
  <2>3. Packed(a, b, shift) = (a \div 2) + ((b * 64) % 256)
    BY <1>4 DEF Packed, ShiftR
  <2>4. (a \div 2) + ((b * 64) % 256)
          = ((a \div 2) % 2) + 2 * ((a \div 4) % 2) + 4 * ((a \div 8) % 2)
            + 8 * ((a \div 16) % 2)
            + 16 * ((a \div 32) % 2) + 32 * ((a \div 64) % 2) + 64 * ((b \div 1) % 2)
              + 128 * ((b \div 2) % 2)
    <3>1. a \div 2 = ((a \div 2) % 2) + 2 * ((a \div 4) % 2) + 4 * ((a \div 8) % 2)
          + 8 * ((a \div 16) % 2) + 16 * ((a \div 32) % 2) + 32 * ((a \div 64) % 2)
      BY DEF Septet
    <3>2. (b * 64) % 256 = 64 * ((b \div 1) % 2) + 128 * ((b \div 2) % 2)
      <4>1. (b * 64) % 256 = 64 * (b % 4)
        BY DEF Septet
      <4>2. b % 4 = ((b \div 1) % 2) + 2 * ((b \div 2) % 2)
        BY DEF Septet
      <4> QED
        BY <4>1, <4>2 DEF Septet
    <3> QED
      BY <3>1, <3>2 DEF Septet
  <2> QED
    BY <1>2, <2>1, <2>2, <2>3, <2>4
<1>5. CASE shift = 2
  <2>1. bit(0) = (a \div 4) % 2 /\ bit(1) = (a \div 8) % 2 /\ bit(2) = (a \div 16) % 2
        /\ bit(3) = (a \div 32) % 2
    BY <1>5 DEF BitOf
  <2>2. bit(4) = (a \div 64) % 2 /\ bit(5) = (b \div 1) % 2 /\ bit(6) = (b \div 2) % 2
        /\ bit(7) = (b \div 4) % 2
    BY <1>5 DEF BitOf
  <2> HIDE DEF bit
  <2>3. Packed(a, b, shift) = (a \div 4) + ((b * 32) % 256)
    BY <1>5 DEF Packed, ShiftR
  <2>4. (a \div 4) + ((b * 32) % 256)
          = ((a \div 4) % 2) + 2 * ((a \div 8) % 2) + 4 * ((a \div 16) % 2)
            + 8 * ((a \div 32) % 2)
            + 16 * ((a \div 64) % 2) + 32 * ((b \div 1) % 2) + 64 * ((b \div 2) % 2)
              + 128 * ((b \div 4) % 2)
    <3>1. a \div 4 = ((a \div 4) % 2) + 2 * ((a \div 8) % 2) + 4 * ((a \div 16) % 2)
          + 8 * ((a \div 32) % 2) + 16 * ((a \div 64) % 2)
      BY DEF Septet
    <3>2. (b * 32) % 256 = 32 * ((b \div 1) % 2) + 64 * ((b \div 2) % 2)
          + 128 * ((b \div 4) % 2)
      <4>1. (b * 32) % 256 = 32 * (b % 8)
        BY DEF Septet
      <4>2. b % 8 = ((b \div 1) % 2) + 2 * ((b \div 2) % 2) + 4 * ((b \div 4) % 2)
        BY DEF Septet
      <4> QED
        BY <4>1, <4>2 DEF Septet
    <3> QED
      BY <3>1, <3>2 DEF Septet
  <2> QED
    BY <1>2, <2>1, <2>2, <2>3, <2>4
<1>6. CASE shift = 3
  <2>1. bit(0) = (a \div 8) % 2 /\ bit(1) = (a \div 16) % 2 /\ bit(2) = (a \div 32) % 2
        /\ bit(3) = (a \div 64) % 2
    BY <1>6 DEF BitOf
  <2>2. bit(4) = (b \div 1) % 2 /\ bit(5) = (b \div 2) % 2 /\ bit(6) = (b \div 4) % 2
        /\ bit(7) = (b \div 8) % 2
    BY <1>6 DEF BitOf
  <2> HIDE DEF bit
  <2>3. Packed(a, b, shift) = (a \div 8) + ((b * 16) % 256)
    BY <1>6 DEF Packed, ShiftR
  <2>4. (a \div 8) + ((b * 16) % 256)
          = ((a \div 8) % 2) + 2 * ((a \div 16) % 2) + 4 * ((a \div 32) % 2)
            + 8 * ((a \div 64) % 2)
            + 16 * ((b \div 1) % 2) + 32 * ((b \div 2) % 2) + 64 * ((b \div 4) % 2)
              + 128 * ((b \div 8) % 2)
    <3>1. a \div 8 = ((a \div 8) % 2) + 2 * ((a \div 16) % 2) + 4 * ((a \div 32) % 2)
          + 8 * ((a \div 64) % 2)
      BY DEF Septet
    <3>2. (b * 16) % 256 = 16 * ((b \div 1) % 2) + 32 * ((b \div 2) % 2)
          + 64 * ((b \div 4) % 2) + 128 * ((b \div 8) % 2)
      <4>1. (b * 16) % 256 = 16 * (b % 16)
        BY DEF Septet
      <4>2. b % 16 = ((b \div 1) % 2) + 2 * ((b \div 2) % 2) + 4 * ((b \div 4) % 2)
            + 8 * ((b \div 8) % 2)
        BY DEF Septet
      <4> QED
        BY <4>1, <4>2 DEF Septet
    <3> QED
      BY <3>1, <3>2 DEF Septet
  <2> QED
    BY <1>2, <2>1, <2>2, <2>3, <2>4
<1>7. CASE shift = 4
  <2>1. bit(0) = (a \div 16) % 2 /\ bit(1) = (a \div 32) % 2 /\ bit(2) = (a \div 64) % 2
        /\ bit(3) = (b \div 1) % 2
    BY <1>7 DEF BitOf
  <2>2. bit(4) = (b \div 2) % 2 /\ bit(5) = (b \div 4) % 2 /\ bit(6) = (b \div 8) % 2
        /\ bit(7) = (b \div 16) % 2
    BY <1>7 DEF BitOf
  <2> HIDE DEF bit
  <2>3. Packed(a, b, shift) = (a \div 16) + ((b * 8) % 256)
    BY <1>7 DEF Packed, ShiftR
  <2>4. (a \div 16) + ((b * 8) % 256)
          = ((a \div 16) % 2) + 2 * ((a \div 32) % 2) + 4 * ((a \div 64) % 2)
            + 8 * ((b \div 1) % 2)
            + 16 * ((b \div 2) % 2) + 32 * ((b \div 4) % 2) + 64 * ((b \div 8) % 2)
              + 128 * ((b \div 16) % 2)
    <3>1. a \div 16 = ((a \div 16) % 2) + 2 * ((a \div 32) % 2) + 4 * ((a \div 64) % 2)
      BY DEF Septet
    <3>2. (b * 8) % 256 = 8 * ((b \div 1) % 2) + 16 * ((b \div 2) % 2) + 32 * ((b \div 4) % 2)
          + 64 * ((b \div 8) % 2) + 128 * ((b \div 16) % 2)
      <4>1. (b * 8) % 256 = 8 * (b % 32)
        BY DEF Septet
      <4>2. b % 32 = ((b \div 1) % 2) + 2 * ((b \div 2) % 2) + 4 * ((b \div 4) % 2)
            + 8 * ((b \div 8) % 2) + 16 * ((b \div 16) % 2)
        BY DEF Septet
      <4> QED
        BY <4>1, <4>2 DEF Septet
    <3> QED
      BY <3>1, <3>2 DEF Septet
  <2> QED
    BY <1>2, <2>1, <2>2, <2>3, <2>4
<1>8. CASE shift = 5
  <2>1. bit(0) = (a \div 32) % 2 /\ bit(1) = (a \div 64) % 2 /\ bit(2) = (b \div 1) % 2
        /\ bit(3) = (b \div 2) % 2
    BY <1>8 DEF BitOf
  <2>2. bit(4) = (b \div 4) % 2 /\ bit(5) = (b \div 8) % 2 /\ bit(6) = (b \div 16) % 2
        /\ bit(7) = (b \div 32) % 2
    BY <1>8 DEF BitOf
  <2> HIDE DEF bit
  <2>3. Packed(a, b, shift) = (a \div 32) + ((b * 4) % 256)
    BY <1>8 DEF Packed, ShiftR
  <2>4. (a \div 32) + ((b * 4) % 256)
          = ((a \div 32) % 2) + 2 * ((a \div 64) % 2) + 4 * ((b \div 1) % 2)
            + 8 * ((b \div 2) % 2)
            + 16 * ((b \div 4) % 2) + 32 * ((b \div 8) % 2) + 64 * ((b \div 16) % 2)
              + 128 * ((b \div 32) % 2)
    <3>1. a \div 32 = ((a \div 32) % 2) + 2 * ((a \div 64) % 2)
      BY DEF Septet
    <3>2. (b * 4) % 256 = 4 * ((b \div 1) % 2) + 8 * ((b \div 2) % 2) + 16 * ((b \div 4) % 2)
          + 32 * ((b \div 8) % 2) + 64 * ((b \div 16) % 2) + 128 * ((b \div 32) % 2)
      <4>1. (b * 4) % 256 = 4 * (b % 64)
        BY DEF Septet
      <4>2. b % 64 = ((b \div 1) % 2) + 2 * ((b \div 2) % 2) + 4 * ((b \div 4) % 2)
            + 8 * ((b \div 8) % 2) + 16 * ((b \div 16) % 2) + 32 * ((b \div 32) % 2)
        BY DEF Septet
      <4> QED
        BY <4>1, <4>2 DEF Septet
    <3> QED
      BY <3>1, <3>2 DEF Septet
  <2> QED
    BY <1>2, <2>1, <2>2, <2>3, <2>4
<1>9. CASE shift = 6
  <2>1. bit(0) = (a \div 64) % 2 /\ bit(1) = (b \div 1) % 2 /\ bit(2) = (b \div 2) % 2
        /\ bit(3) = (b \div 4) % 2
    BY <1>9 DEF BitOf
  <2>2. bit(4) = (b \div 8) % 2 /\ bit(5) = (b \div 16) % 2 /\ bit(6) = (b \div 32) % 2
        /\ bit(7) = (b \div 64) % 2
    BY <1>9 DEF BitOf
  <2> HIDE DEF bit
  <2>3. Packed(a, b, shift) = (a \div 64) + ((b * 2) % 256)
    BY <1>9 DEF Packed, ShiftR
  <2>4. (a \div 64) + ((b * 2) % 256)
          = ((a \div 64) % 2) + 2 * ((b \div 1) % 2) + 4 * ((b \div 2) % 2)
            + 8 * ((b \div 4) % 2)
            + 16 * ((b \div 8) % 2) + 32 * ((b \div 16) % 2) + 64 * ((b \div 32) % 2)
              + 128 * ((b \div 64) % 2)
    <3>1. a \div 64 = ((a \div 64) % 2)
      BY DEF Septet
    <3>2. (b * 2) % 256 = 2 * ((b \div 1) % 2) + 4 * ((b \div 2) % 2) + 8 * ((b \div 4) % 2)
          + 16 * ((b \div 8) % 2) + 32 * ((b \div 16) % 2) + 64 * ((b \div 32) % 2)
            + 128 * ((b \div 64) % 2)
      <4>1. (b * 2) % 256 = 2 * (b % 128)
        BY DEF Septet
      <4>2. b % 128 = ((b \div 1) % 2) + 2 * ((b \div 2) % 2) + 4 * ((b \div 4) % 2)
            + 8 * ((b \div 8) % 2) + 16 * ((b \div 16) % 2) + 32 * ((b \div 32) % 2)
              + 64 * ((b \div 64) % 2)
        BY DEF Septet
      <4> QED
        BY <4>1, <4>2 DEF Septet
    <3> QED
      BY <3>1, <3>2 DEF Septet
  <2> QED
    BY <1>2, <2>1, <2>2, <2>3, <2>4
<1> QED
  BY <1>1, <1>3, <1>4, <1>5, <1>6, <1>7, <1>8, <1>9

\* Outside a text there are septets of zero.
LEMMA At7Type ==
  ASSUME NEW s \in Seq(Septet), NEW i \in Int
  PROVE  At7(s, i) \in Septet
<1>1. Len(s) \in Nat
  BY LenProperties
<1>2. CASE i \in 0 .. Len(s) - 1
  <2>1. i + 1 \in 1 .. Len(s)
    BY <1>1, <1>2
  <2>2. s[i + 1] \in Septet
    BY <2>1, ElementOfSeq
  <2> QED
    BY <1>2, <2>2 DEF At7
<1>3. CASE i \notin 0 .. Len(s) - 1
  BY <1>3 DEF At7, Septet
<1> QED
  BY <1>2, <1>3

\* Zero has no bits.
LEMMA NoBits == \A r \in 0 .. 6 : BitOf(0, r) = 0
<1> SUFFICES ASSUME NEW r \in 0 .. 6 PROVE BitOf(0, r) = 0
  OBVIOUS
<1>1. r = 0 \/ r = 1 \/ r = 2 \/ r = 3 \/ r = 4 \/ r = 5 \/ r = 6
  OBVIOUS
<1>2. BitOf(0, 0) = 0 /\ BitOf(0, 1) = 0 /\ BitOf(0, 2) = 0 /\ BitOf(0, 3) = 0
  BY DEF BitOf
<1>3. BitOf(0, 4) = 0 /\ BitOf(0, 5) = 0 /\ BitOf(0, 6) = 0
  BY DEF BitOf
<1> QED
  BY <1>1, <1>2, <1>3, Zenon

\* A bit is one of its septet's seven.
LEMMA BitOfSeptet ==
  ASSUME NEW s \in Seq(Septet), NEW i \in Int, NEW r \in 0 .. 6, NEW j, j = 7 * i + r
  PROVE  Bit(s, j) = BitOf(At7(s, i), r)
<1>1. Len(s) \in Nat
  BY LenProperties
<1>2. j \in Int /\ j \div 7 = i /\ j % 7 = r
  OBVIOUS
<1>3. j \in 0 .. 7 * Len(s) - 1 <=> i \in 0 .. Len(s) - 1
  BY <1>1
<1>4. CASE i \in 0 .. Len(s) - 1
  BY <1>2, <1>3, <1>4 DEF Bit, At7, BitOf
<1>5. CASE i \notin 0 .. Len(s) - 1
  <2>1. Bit(s, j) = 0 /\ At7(s, i) = 0
    BY <1>3, <1>5 DEF Bit, At7
  <2> QED
    BY <2>1, NoBits
<1> QED
  BY <1>4, <1>5

\* Octet p of the bits, when it begins with bit shift of septet i.
LEMMA OctetOfBits ==
  ASSUME NEW s \in Seq(Septet), NEW fill \in 0 .. 6, NEW p \in Nat, NEW i \in Int,
         NEW shift \in 0 .. 6, 8 * p = 7 * i + shift + fill,
         p + 1 \in DOMAIN PackBits(s, fill)
  PROVE  PackBits(s, fill)[p + 1] = Packed(At7(s, i), At7(s, i + 1), shift)
<1> DEFINE a == At7(s, i)
           b == At7(s, i + 1)
           bit(k) == Bit(s, 8 * ((p + 1) - 1) + k - fill)
           sum == bit(0) + 2 * bit(1) + 4 * bit(2) + 8 * bit(3)
                  + 16 * bit(4) + 32 * bit(5) + 64 * bit(6) + 128 * bit(7)
<1>1. PackBits(s, fill)[p + 1] = sum
  BY DEF PackBits
<1>2. a \in Septet /\ b \in Septet
  BY At7Type
<1>3. ASSUME NEW k \in 0 .. 7, NEW r \in 0 .. 6, k + shift = r
      PROVE  bit(k) = BitOf(a, r)
  <2>1. PICK j : j = 8 * ((p + 1) - 1) + k - fill
    OBVIOUS
  <2>2. j = 7 * i + r
    BY <1>3, <2>1
  <2>3. Bit(s, j) = BitOf(At7(s, i), r)
    BY <2>2, BitOfSeptet
  <2> QED
    BY <2>1, <2>3
<1>4. ASSUME NEW k \in 0 .. 7, NEW r \in 0 .. 6, k + shift = r + 7
      PROVE  bit(k) = BitOf(b, r)
  <2>1. PICK j : j = 8 * ((p + 1) - 1) + k - fill
    OBVIOUS
  <2>2. j = 7 * (i + 1) + r /\ i + 1 \in Int
    BY <1>4, <2>1
  <2>3. Bit(s, j) = BitOf(At7(s, i + 1), r)
    BY <2>2, BitOfSeptet
  <2> QED
    BY <2>1, <2>3
<1> HIDE DEF bit, a, b
<1>5. sum = FromBits(a, b, shift)
  <2>1. \A k \in 0 .. 7 :
          bit(k) = IF k + shift <= 6 THEN BitOf(a, k + shift) ELSE BitOf(b, k + shift - 7)
    <3> SUFFICES ASSUME NEW k \in 0 .. 7
                 PROVE bit(k) = IF k + shift <= 6 THEN BitOf(a, k + shift)
                                ELSE BitOf(b, k + shift - 7)
      OBVIOUS
    <3>1. CASE k + shift <= 6
      BY <1>3, <3>1
    <3>2. CASE ~(k + shift <= 6)
      <4>1. k + shift - 7 \in 0 .. 6 /\ k + shift = (k + shift - 7) + 7
        BY <3>2
      <4> QED
        BY <1>4, <3>2, <4>1
    <3> QED
      BY <3>1, <3>2
  <2> DEFINE part(k) == IF k + shift <= 6 THEN BitOf(a, k + shift)
                        ELSE BitOf(b, k + shift - 7)
  <2>2. FromBits(a, b, shift) =
          part(0) + 2 * part(1) + 4 * part(2) + 8 * part(3)
          + 16 * part(4) + 32 * part(5) + 64 * part(6) + 128 * part(7)
    BY Zenon DEF FromBits
  <2>3. \A k \in 0 .. 7 : bit(k) = part(k)
    BY <2>1, Zenon
  <2> HIDE DEF part
  <2>4. /\ bit(0) = part(0) /\ bit(1) = part(1) /\ bit(2) = part(2) /\ bit(3) = part(3)
        /\ bit(4) = part(4) /\ bit(5) = part(5) /\ bit(6) = part(6) /\ bit(7) = part(7)
    BY <2>3
  <2> QED
    BY <2>2, <2>4, Zenon
<1> QED
  BY <1>1, <1>2, <1>5, PackedIsFromBits DEF a, b

\* A bit is zero or one.
LEMMA BitIsBit ==
  ASSUME NEW a \in Septet, NEW r \in 0 .. 6
  PROVE  BitOf(a, r) \in 0 .. 1
<1>1. r = 0 \/ r = 1 \/ r = 2 \/ r = 3 \/ r = 4 \/ r = 5 \/ r = 6
  OBVIOUS
<1>2. BitOf(a, 0) \in 0 .. 1 /\ BitOf(a, 1) \in 0 .. 1 /\ BitOf(a, 2) \in 0 .. 1
  BY DEF BitOf, Septet
<1>3. BitOf(a, 3) \in 0 .. 1 /\ BitOf(a, 4) \in 0 .. 1 /\ BitOf(a, 5) \in 0 .. 1
      /\ BitOf(a, 6) \in 0 .. 1
  BY DEF BitOf, Septet
<1> QED
  BY <1>1, <1>2, <1>3

\* What the loop makes of two septets is an octet.
LEMMA PackedOctet ==
  ASSUME NEW a \in Septet, NEW b \in Septet, NEW shift \in 0 .. 6
  PROVE  Packed(a, b, shift) \in Octet
<1> DEFINE bit(k) == IF k + shift <= 6 THEN BitOf(a, k + shift) ELSE BitOf(b, k + shift - 7)
<1>1. \A k \in 0 .. 7 : bit(k) \in 0 .. 1
  <2> SUFFICES ASSUME NEW k \in 0 .. 7 PROVE bit(k) \in 0 .. 1
    OBVIOUS
  <2>1. CASE k + shift <= 6
    BY <2>1, BitIsBit
  <2>2. CASE ~(k + shift <= 6)
    <3>1. k + shift - 7 \in 0 .. 6
      BY <2>2
    <3> QED
      BY <2>2, <3>1, BitIsBit
  <2> QED
    BY <2>1, <2>2
<1>2. Packed(a, b, shift) =
        bit(0) + 2 * bit(1) + 4 * bit(2) + 8 * bit(3)
        + 16 * bit(4) + 32 * bit(5) + 64 * bit(6) + 128 * bit(7)
  BY PackedIsFromBits DEF FromBits
<1> HIDE DEF bit
<1> QED
  BY <1>1, <1>2 DEF Octet

\* The octets that septets behind fill bits take.
Octets(s, fill) == (fill + 7 * Len(s) + 7) \div 8

\* The definition in bits makes octets.
LEMMA PackBitsType ==
  ASSUME NEW s \in Seq(Septet), NEW fill \in 0 .. 6
  PROVE  /\ PackBits(s, fill) \in Seq(Octet) /\ Octets(s, fill) \in Nat
         /\ Len(PackBits(s, fill)) = Octets(s, fill)
         /\ DOMAIN PackBits(s, fill) = 1 .. Octets(s, fill)
         /\ Octets(s, fill) <= Len(s) + 1
<1> DEFINE n == Octets(s, fill)
           u == PackBits(s, fill)
<1>1. Len(s) \in Nat /\ n \in Nat
  BY LenProperties DEF Octets
<1>2. DOMAIN u = 1 .. n /\ u = [k \in 1 .. n |-> u[k]]
  BY DEF PackBits, Octets
<1>3. ASSUME NEW k \in 1 .. n PROVE u[k] \in Octet
  <2>1. PICK p \in Nat : k = p + 1
    <3>1. k - 1 \in Nat /\ k = (k - 1) + 1
      BY <1>1
    <3> QED
      BY <3>1
  <2>2. PICK i \in Int, shift \in 0 .. 6 : 8 * p = 7 * i + shift + fill
    <3> DEFINE d == 8 * p - fill
    <3>1. d \div 7 \in Int /\ d % 7 \in 0 .. 6 /\ d = 7 * (d \div 7) + (d % 7)
      OBVIOUS
    <3>2. 8 * p = 7 * (d \div 7) + (d % 7) + fill
      BY <3>1
    <3> HIDE DEF d
    <3> QED
      BY <3>1, <3>2
  <2>3. p + 1 \in DOMAIN u
    BY <1>2, <2>1
  <2>4. u[p + 1] = Packed(At7(s, i), At7(s, i + 1), shift)
    BY <2>2, <2>3, OctetOfBits
  <2>5. At7(s, i) \in Septet /\ At7(s, i + 1) \in Septet
    BY At7Type
  <2> QED
    BY <2>1, <2>4, <2>5, PackedOctet
<1>4. n <= Len(s) + 1
  BY <1>1 DEF Octets
<1> HIDE DEF u, n
<1>5. u \in [1 .. n -> Octet]
  BY <1>2, <1>3
<1>6. u \in Seq(Octet)
  BY <1>1, <1>5, SeqDef
<1>7. Len(u) = n
  BY <1>1, <1>5, <1>6, LenProperties
<1> QED
  BY <1>1, <1>2, <1>4, <1>6, <1>7 DEF u, n

-----------------------------------------------------------------------------
(* The loop that packs.                                                    *)

\* The variables of the loop.
PackStates == [out : Seq(Nat), i : Nat, shift : 0 .. 6]

\* After k rounds the first octets of the bits are out, until they all are.
PackInv(s, k, a) ==
  /\ a \in PackStates
  /\ Len(a.out) = IF k < Octets(s, 0) THEN k ELSE Octets(s, 0)
  /\ \A j \in 1 .. Len(a.out) : a.out[j] = PackBits(s, 0)[j]
  /\ IF k < Octets(s, 0) THEN a.i < Len(s) /\ 8 * k = 7 * a.i + a.shift
                         ELSE a.i >= Len(s)

\* The powers the shifts multiply and divide by.
LEMMA Powers ==
  ASSUME NEW d \in 0 .. 8
  PROVE  2 ^ d \in {1, 2, 4, 8, 16, 32, 64, 128, 256}
<1>1. \/ d = 0 \/ d = 1 \/ d = 2 \/ d = 3 \/ d = 4
      \/ d = 5 \/ d = 6 \/ d = 7 \/ d = 8
  OBVIOUS
<1>2. CASE d = 0
  BY <1>2
<1>3. CASE d = 1
  BY <1>3
<1>4. CASE d = 2
  BY <1>4
<1>5. CASE d = 3
  BY <1>5
<1>6. CASE d = 4
  BY <1>6
<1>7. CASE d = 5
  BY <1>7
<1>8. CASE d = 6
  BY <1>8
<1>9. CASE d = 7
  BY <1>9
<1>10. CASE d = 8
  BY <1>10
<1> QED
  BY <1>1, <1>2, <1>3, <1>4, <1>5, <1>6, <1>7, <1>8, <1>9, <1>10

\* Nothing is left of a septet that is not there.
LEMMA NothingJoins ==
  ASSUME NEW a \in Septet, NEW d \in 0 .. 6
  PROVE  Packed(a, 0, d) = ShiftR(a, d)
<1>1. PICK e, f : e = 2 ^ (7 - d) /\ f = 2 ^ d
  OBVIOUS
<1>2. 7 - d \in 0 .. 8 /\ d \in 0 .. 8
  OBVIOUS
<1>3. e \in {1, 2, 4, 8, 16, 32, 64, 128, 256} /\ f \in {1, 2, 4, 8, 16, 32, 64, 128, 256}
  BY <1>1, <1>2, Powers
<1>4. (0 * e) % 256 = 0 /\ a \div f \in Int
  BY <1>3 DEF Septet
<1> QED
  BY <1>1, <1>4 DEF Packed, ShiftR

\* One turn of the loop at septet i: the octet it makes, and where it goes on.
Turn(s, k, i, shift) ==
  /\ PackBits(s, 0)[k + 1] \in Octet
  /\ i + 1 = Len(s) =>
       ~(k + 1 < Octets(s, 0)) /\ PackBits(s, 0)[k + 1] = ShiftR(s[i + 1], shift)
  /\ i + 1 # Len(s) =>
       /\ PackBits(s, 0)[k + 1]
            = ShiftR(s[i + 1], shift) + ((s[i + 2] * 2 ^ (7 - shift)) % 256)
       /\ shift = 6 => (k + 1 < Octets(s, 0) <=> i + 2 < Len(s))
       /\ shift # 6 => (k + 1 < Octets(s, 0) <=> i + 1 < Len(s))

\* What is still to be packed before octet k decides about the round.
LEMMA PackTurn ==
  ASSUME NEW s \in Seq(Septet), NEW k \in Nat, NEW i \in Nat, NEW shift \in 0 .. 6,
         k < Octets(s, 0), i < Len(s), 8 * k = 7 * i + shift
  PROVE  Turn(s, k, i, shift)
<1> DEFINE x == Packed(At7(s, i), At7(s, i + 1), shift)
<1>1. PICK n, o : n = Len(s) /\ o = Octets(s, 0)
  OBVIOUS
<1>2. n \in Nat /\ o \in Nat /\ o = (0 + 7 * n + 7) \div 8 /\ DOMAIN PackBits(s, 0) = 1 .. o
  BY <1>1, LenProperties, PackBitsType DEF Octets
<1>3. k + 1 \in 1 .. o
  BY <1>1, <1>2
<1>4. 8 * k = 7 * i + shift + 0 /\ i \in Int /\ i + 1 \in Int
  OBVIOUS
<1>5. PackBits(s, 0)[k + 1] = x
  BY <1>2, <1>3, <1>4, OctetOfBits
<1>6. At7(s, i) \in Septet /\ At7(s, i + 1) \in Septet
  BY <1>4, At7Type
<1>7. x \in Octet
  BY <1>6, PackedOctet
<1>8. At7(s, i) = s[i + 1]
  BY <1>1, <1>2 DEF At7
<1>9. ASSUME i + 1 = n
      PROVE  ~(k + 1 < o) /\ x = ShiftR(s[i + 1], shift)
  <2>1. ~(k + 1 < o)
    BY <1>1, <1>2, <1>9
  <2>2. At7(s, i + 1) = 0
    BY <1>1, <1>2, <1>9 DEF At7
  <2> QED
    BY <1>6, <1>8, <2>1, <2>2, NothingJoins
<1>10. ASSUME i + 1 # n
       PROVE  /\ x = ShiftR(s[i + 1], shift) + ((s[i + 2] * 2 ^ (7 - shift)) % 256)
              /\ shift = 6 => (k + 1 < o <=> i + 2 < n)
              /\ shift # 6 => (k + 1 < o <=> i + 1 < n)
  <2>1. i + 1 \in 0 .. n - 1 /\ (i + 1) + 1 = i + 2
    BY <1>1, <1>2, <1>10
  <2>2. At7(s, i + 1) = s[i + 2]
    BY <1>1, <2>1 DEF At7
  <2>3. shift = 6 => (k + 1 < o <=> i + 2 < n)
    BY <1>1, <1>2
  <2>4. shift # 6 => (k + 1 < o <=> i + 1 < n)
    BY <1>1, <1>2
  <2> QED
    BY <1>8, <2>2, <2>3, <2>4 DEF Packed
<1> HIDE DEF x
<1> QED
  BY <1>1, <1>5, <1>7, <1>9, <1>10 DEF Turn

\* A round of the loop puts out the next octet.
LEMMA PackRound ==
  ASSUME NEW s \in Seq(Septet), NEW k \in Nat, NEW a, PackInv(s, k, a)
  PROVE  PackInv(s, k + 1, PackBody(s)[a])
<1>1. PICK n, o, u, b : n = Len(s) /\ o = Octets(s, 0) /\ u = PackBits(s, 0)
      /\ b = PackBody(s)[a]
  OBVIOUS
<1>2. PICK out, i, shift : out = a.out /\ i = a.i /\ shift = a.shift
  OBVIOUS
<1>3. /\ n \in Nat /\ o \in Nat /\ i \in Nat /\ shift \in 0 .. 6 /\ u \in Seq(Octet)
      /\ out \in Seq(Nat) /\ Len(out) \in Nat /\ a \in PackStates
  BY <1>1, <1>2, LenProperties, PackBitsType DEF PackInv, PackStates
<1>4. b = IF i >= n THEN a
          ELSE IF i + 1 = n
            THEN [out |-> Append(out, ShiftR(s[i + 1], shift)), i |-> i + 1, shift |-> shift]
            ELSE [out |-> Append(out, ShiftR(s[i + 1], shift)
                                        + ((s[i + 2] * 2 ^ (7 - shift)) % 256)),
                  i |-> IF shift = 6 THEN i + 2 ELSE i + 1,
                  shift |-> (shift + 1) % 7]
  BY <1>1, <1>2, <1>3 DEF PackBody, PackStates
<1>5. CASE ~(k < o)
  <2>1. i >= n /\ b = a
    BY <1>1, <1>2, <1>4, <1>5 DEF PackInv
  <2>2. ~(k + 1 < o)
    BY <1>3, <1>5
  <2> QED
    BY <1>1, <1>5, <2>1, <2>2 DEF PackInv
<1>6. CASE k < o
  <2>1. /\ i < n /\ 8 * k = 7 * i + shift /\ Len(out) = k
        /\ \A j \in 1 .. k : out[j] = u[j]
    BY <1>1, <1>2, <1>6 DEF PackInv
  <2>2. PICK x : x = u[k + 1]
    OBVIOUS
  <2>3. PICK i2, shift2 :
          /\ b = [out |-> Append(out, x), i |-> i2, shift |-> shift2]
          /\ x \in Octet /\ i2 \in Nat /\ shift2 \in 0 .. 6
          /\ IF k + 1 < o THEN i2 < n /\ 8 * (k + 1) = 7 * i2 + shift2 ELSE i2 >= n
    <3>1. /\ x \in Octet
          /\ i + 1 = n => ~(k + 1 < o) /\ x = ShiftR(s[i + 1], shift)
          /\ i + 1 # n =>
               /\ x = ShiftR(s[i + 1], shift) + ((s[i + 2] * 2 ^ (7 - shift)) % 256)
               /\ shift = 6 => (k + 1 < o <=> i + 2 < n)
               /\ shift # 6 => (k + 1 < o <=> i + 1 < n)
      <4>1. i < Len(s) /\ k < Octets(s, 0) /\ 8 * k = 7 * i + shift
        BY <1>1, <1>6, <2>1, Zenon
      <4> QED
        <5>1. Turn(s, k, i, shift)
          BY <1>3, <4>1, PackTurn, Zenon
        <5> QED
          BY <1>1, <2>2, <5>1 DEF Turn
    <3>2. CASE i + 1 = n
      <4>1. b = [out |-> Append(out, x), i |-> i + 1, shift |-> shift]
        BY <1>3, <1>4, <3>1, <3>2
      <4>2. i + 1 \in Nat /\ i + 1 >= n
        BY <1>3, <3>2
      <4> QED
        BY <1>3, <3>1, <3>2, <4>1, <4>2
    <3>3. CASE i + 1 # n /\ shift = 6
      <4>1. b = [out |-> Append(out, x), i |-> i + 2, shift |-> 0]
        BY <1>3, <1>4, <2>1, <3>1, <3>3
      <4>2. /\ i + 2 \in Nat /\ 0 \in 0 .. 6 /\ 8 * (k + 1) = 7 * (i + 2) + 0
            /\ ~(i + 2 < n) => i + 2 >= n
        BY <1>3, <2>1, <3>3
      <4> QED
        BY <3>1, <3>3, <4>1, <4>2
    <3>4. CASE i + 1 # n /\ shift # 6
      <4>1. (shift + 1) % 7 = shift + 1
        <5>1. shift \in 0 .. 5
          BY <1>3, <3>4
        <5> QED
          BY <5>1
      <4>2. ~(i >= n)
        BY <1>3, <2>1
      <4>3. b = [out |-> Append(out, x), i |-> i + 1, shift |-> shift + 1]
        BY <1>4, <3>1, <3>4, <4>1, <4>2
      <4>4. /\ i + 1 \in Nat /\ shift + 1 \in 0 .. 6 /\ 8 * (k + 1) = 7 * (i + 1) + (shift + 1)
            /\ ~(i + 1 < n) => i + 1 >= n
        BY <1>3, <2>1, <3>4
      <4> QED
        BY <3>1, <3>4, <4>3, <4>4
    <3> QED
      BY <3>2, <3>3, <3>4
  <2>4. x \in Nat
    BY <2>3 DEF Octet
  <2>5. b.out = Append(out, x) /\ b.i = i2 /\ b.shift = shift2
    BY <2>3
  <2>6. /\ Append(out, x) \in Seq(Nat) /\ Len(Append(out, x)) = k + 1
        /\ Append(out, x)[k + 1] = x /\ \A j \in 1 .. k : Append(out, x)[j] = out[j]
    BY <1>3, <2>1, <2>4, AppendProperties
  <2>7. \A j \in 1 .. k + 1 : b.out[j] = u[j]
    <3> SUFFICES ASSUME NEW j \in 1 .. k + 1 PROVE b.out[j] = u[j]
      OBVIOUS
    <3>1. j = k + 1 \/ j \in 1 .. k
      OBVIOUS
    <3> QED
      BY <2>1, <2>2, <2>5, <2>6, <3>1
  <2>8. b \in PackStates
    BY <2>3, <2>6 DEF PackStates
  <2>9. k + 1 = IF k + 1 < o THEN k + 1 ELSE o
    BY <1>3, <1>6
  <2> QED
    BY <1>1, <2>3, <2>5, <2>6, <2>7, <2>8, <2>9 DEF PackInv
<1> QED
  BY <1>5, <1>6

\* The packing loop of EncodePDU makes the octets that the definition in bits says,
\* for every number of septets.
THEOREM PackIsBits ==
  ASSUME NEW s \in Seq(Septet)
  PROVE  Pack(s) = PackBits(s, 0)
<1> DEFINE start == [out |-> <<>>, i |-> 0, shift |-> 0]
           at(k) == Rounds(PackBody(s), start, k)
           I == {k \in Nat : PackInv(s, k, at(k))}
<1>1. PICK n, o, u : n = Len(s) /\ o = Octets(s, 0) /\ u = PackBits(s, 0)
  OBVIOUS
<1>2. n \in Nat /\ o \in Nat /\ o = (0 + 7 * n + 7) \div 8 /\ u \in Seq(Octet) /\ Len(u) = o
  BY <1>1, LenProperties, PackBitsType DEF Octets
<1>3. o <= n /\ (0 < o => 0 < n) /\ (~(0 < o) => o = 0 /\ 0 >= n)
  BY <1>2
<1>4. PackInv(s, 0, start)
  <2>1. start \in PackStates /\ Len(start.out) = 0 /\ start.i = 0 /\ start.shift = 0
    BY DEF PackStates
  <2> HIDE DEF start
  <2>2. 0 = IF 0 < o THEN 0 ELSE o
    BY <1>3
  <2> QED
    BY <1>1, <1>3, <2>1, <2>2 DEF PackInv
<1> HIDE DEF start
<1>5. 0 \in I
  BY <1>4, RoundsDef
<1>6. ASSUME NEW k \in Nat, k \in I PROVE k + 1 \in I
  <2>1. PackInv(s, k + 1, PackBody(s)[at(k)])
    BY <1>6, PackRound
  <2>2. at(k + 1) = PackBody(s)[at(k)]
    BY RoundsDef
  <2> HIDE DEF at
  <2> QED
    BY <2>1, <2>2
<1>7. n \in I
  BY <1>2, <1>5, <1>6, AllNumbers
<1>8. PICK a : a = at(n)
  OBVIOUS
<1>9. PackInv(s, n, a)
  BY <1>7, <1>8
<1>10. Pack(s) = a.out
  BY <1>1, <1>8 DEF Pack, start
<1>11. /\ a.out \in Seq(Nat) /\ Len(a.out) = o
       /\ \A j \in 1 .. Len(a.out) : a.out[j] = u[j]
  BY <1>1, <1>2, <1>3, <1>9 DEF PackInv, PackStates
<1>12. u \in Seq(Nat)
  <2>1. Octet \subseteq Nat
    BY DEF Octet
  <2>2. u \in [1 .. o -> Octet]
    BY <1>2, LenProperties
  <2>3. u \in [1 .. o -> Nat]
    BY <2>1, <2>2
  <2> QED
    BY <1>2, <2>3, SeqDef
<1> QED
  BY <1>1, <1>2, <1>10, <1>11, <1>12, SeqEqual

-----------------------------------------------------------------------------
(* The loop that unpacks.                                                  *)

\* A septet from the end of one octet and the beginning of the next.
Rejoined(a, b, c, shift) ==
  ((Packed(b, c, shift) * 2 ^ shift) % 128) + ShiftR(Packed(a, b, shift - 1), 8 - shift)

\* A septet comes back from the two octets it lies in.
LEMMA Unpacked ==
  ASSUME NEW a \in Septet, NEW b \in Septet, NEW c \in Septet, NEW shift \in 1 .. 6
  PROVE  Rejoined(a, b, c, shift) = b
<1>1. CASE shift = 1
  <2> DEFINE x == (b \div 2) + ((c * 64) % 256)
             y == (a \div 1) + ((b * 128) % 256)
  <2>1. Packed(b, c, shift) = x /\ Packed(a, b, shift - 1) = y
    BY <1>1 DEF Packed, ShiftR
  <2>2. (x * 2) % 128 = 2 * (b \div 2)
    <3>1. (c * 64) % 256 = 64 * (c % 4)
      BY DEF Septet
    <3>2. x * 2 = 2 * (b \div 2) + 128 * (c % 4)
      BY <3>1 DEF Septet
    <3> QED
      BY <3>2 DEF Septet
  <2>3. y \div 128 = b % 2
    <3>1. (b * 128) % 256 = 128 * (b % 2)
      BY DEF Septet
    <3> QED
      BY <3>1 DEF Septet
  <2>4. 2 * (b \div 2) + (b % 2) = b
    BY DEF Septet
  <2> HIDE DEF x, y
  <2>5. (x * 2 ^ shift) % 128 = (x * 2) % 128 /\ ShiftR(y, 8 - shift) = y \div 128
    BY <1>1 DEF ShiftR
  <2> QED
    BY <2>1, <2>2, <2>3, <2>4, <2>5 DEF Rejoined
<1>2. CASE shift = 2
  <2> DEFINE x == (b \div 4) + ((c * 32) % 256)
             y == (a \div 2) + ((b * 64) % 256)
  <2>1. Packed(b, c, shift) = x /\ Packed(a, b, shift - 1) = y
    BY <1>2 DEF Packed, ShiftR
  <2>2. (x * 4) % 128 = 4 * (b \div 4)
    <3>1. (c * 32) % 256 = 32 * (c % 8)
      BY DEF Septet
    <3>2. x * 4 = 4 * (b \div 4) + 128 * (c % 8)
      BY <3>1 DEF Septet
    <3> QED
      BY <3>2 DEF Septet
  <2>3. y \div 64 = b % 4
    <3>1. (b * 64) % 256 = 64 * (b % 4)
      BY DEF Septet
    <3> QED
      BY <3>1 DEF Septet
  <2>4. 4 * (b \div 4) + (b % 4) = b
    BY DEF Septet
  <2> HIDE DEF x, y
  <2>5. (x * 2 ^ shift) % 128 = (x * 4) % 128 /\ ShiftR(y, 8 - shift) = y \div 64
    BY <1>2 DEF ShiftR
  <2> QED
    BY <2>1, <2>2, <2>3, <2>4, <2>5 DEF Rejoined
<1>3. CASE shift = 3
  <2> DEFINE x == (b \div 8) + ((c * 16) % 256)
             y == (a \div 4) + ((b * 32) % 256)
  <2>1. Packed(b, c, shift) = x /\ Packed(a, b, shift - 1) = y
    BY <1>3 DEF Packed, ShiftR
  <2>2. (x * 8) % 128 = 8 * (b \div 8)
    <3>1. (c * 16) % 256 = 16 * (c % 16)
      BY DEF Septet
    <3>2. x * 8 = 8 * (b \div 8) + 128 * (c % 16)
      BY <3>1 DEF Septet
    <3> QED
      BY <3>2 DEF Septet
  <2>3. y \div 32 = b % 8
    <3>1. (b * 32) % 256 = 32 * (b % 8)
      BY DEF Septet
    <3> QED
      BY <3>1 DEF Septet
  <2>4. 8 * (b \div 8) + (b % 8) = b
    BY DEF Septet
  <2> HIDE DEF x, y
  <2>5. (x * 2 ^ shift) % 128 = (x * 8) % 128 /\ ShiftR(y, 8 - shift) = y \div 32
    BY <1>3 DEF ShiftR
  <2> QED
    BY <2>1, <2>2, <2>3, <2>4, <2>5 DEF Rejoined
<1>4. CASE shift = 4
  <2> DEFINE x == (b \div 16) + ((c * 8) % 256)
             y == (a \div 8) + ((b * 16) % 256)
  <2>1. Packed(b, c, shift) = x /\ Packed(a, b, shift - 1) = y
    BY <1>4 DEF Packed, ShiftR
  <2>2. (x * 16) % 128 = 16 * (b \div 16)
    <3>1. (c * 8) % 256 = 8 * (c % 32)
      BY DEF Septet
    <3>2. x * 16 = 16 * (b \div 16) + 128 * (c % 32)
      BY <3>1 DEF Septet
    <3> QED
      BY <3>2 DEF Septet
  <2>3. y \div 16 = b % 16
    <3>1. (b * 16) % 256 = 16 * (b % 16)
      BY DEF Septet
    <3> QED
      BY <3>1 DEF Septet
  <2>4. 16 * (b \div 16) + (b % 16) = b
    BY DEF Septet
  <2> HIDE DEF x, y
  <2>5. (x * 2 ^ shift) % 128 = (x * 16) % 128 /\ ShiftR(y, 8 - shift) = y \div 16
    BY <1>4 DEF ShiftR
  <2> QED
    BY <2>1, <2>2, <2>3, <2>4, <2>5 DEF Rejoined
<1>5. CASE shift = 5
  <2> DEFINE x == (b \div 32) + ((c * 4) % 256)
             y == (a \div 16) + ((b * 8) % 256)
  <2>1. Packed(b, c, shift) = x /\ Packed(a, b, shift - 1) = y
    BY <1>5 DEF Packed, ShiftR
  <2>2. (x * 32) % 128 = 32 * (b \div 32)
    <3>1. (c * 4) % 256 = 4 * (c % 64)
      BY DEF Septet
    <3>2. x * 32 = 32 * (b \div 32) + 128 * (c % 64)
      BY <3>1 DEF Septet
    <3> QED
      BY <3>2 DEF Septet
  <2>3. y \div 8 = b % 32
    <3>1. (b * 8) % 256 = 8 * (b % 32)
      BY DEF Septet
    <3> QED
      BY <3>1 DEF Septet
  <2>4. 32 * (b \div 32) + (b % 32) = b
    BY DEF Septet
  <2> HIDE DEF x, y
  <2>5. (x * 2 ^ shift) % 128 = (x * 32) % 128 /\ ShiftR(y, 8 - shift) = y \div 8
    BY <1>5 DEF ShiftR
  <2> QED
    BY <2>1, <2>2, <2>3, <2>4, <2>5 DEF Rejoined
<1>6. CASE shift = 6
  <2> DEFINE x == (b \div 64) + ((c * 2) % 256)
             y == (a \div 32) + ((b * 4) % 256)
  <2>1. Packed(b, c, shift) = x /\ Packed(a, b, shift - 1) = y
    BY <1>6 DEF Packed, ShiftR
  <2>2. (x * 64) % 128 = 64 * (b \div 64)
    <3>1. (c * 2) % 256 = 2 * (c % 128)
      BY DEF Septet
    <3>2. x * 64 = 64 * (b \div 64) + 128 * (c % 128)
      BY <3>1 DEF Septet
    <3> QED
      BY <3>2 DEF Septet
  <2>3. y \div 4 = b % 64
    <3>1. (b * 4) % 256 = 4 * (b % 64)
      BY DEF Septet
    <3> QED
      BY <3>1 DEF Septet
  <2>4. 64 * (b \div 64) + (b % 64) = b
    BY DEF Septet
  <2> HIDE DEF x, y
  <2>5. (x * 2 ^ shift) % 128 = (x * 64) % 128 /\ ShiftR(y, 8 - shift) = y \div 4
    BY <1>6 DEF ShiftR
  <2> QED
    BY <2>1, <2>2, <2>3, <2>4, <2>5 DEF Rejoined
<1> QED
  BY <1>1, <1>2, <1>3, <1>4, <1>5, <1>6

\* A septet at the beginning of an octet, and one at its end.
LEMMA UnpackedWhole ==
  ASSUME NEW b \in Septet, NEW c \in Septet
  PROVE  /\ (Packed(b, c, 0) * 2 ^ 0) % 128 = b
         /\ ShiftR(Packed(b, c, 6), 1) = c
<1>1. Packed(b, c, 0) = b + ((c * 128) % 256) /\ 2 ^ 0 = 1
  BY DEF Packed, ShiftR, Septet
<1>2. (c * 128) % 256 = 128 * (c % 2)
  BY DEF Septet
<1>3. (Packed(b, c, 0) * 1) % 128 = b
  BY <1>1, <1>2 DEF Septet
<1>4. Packed(b, c, 6) = (b \div 64) + ((c * 2) % 256)
  BY DEF Packed, ShiftR
<1>5. Packed(b, c, 6) \div 2 = c
  BY <1>4 DEF Septet
<1> QED
  BY <1>1, <1>3, <1>5 DEF ShiftR

\* The octet at place p, zero behind the last.
At8(ud, p) == IF p < Len(ud) THEN ud[p + 1] ELSE 0

\* Octet p of the bits begins with bit shift of septet i.
Begins(p, i, shift, fill) == 8 * p = 7 * i + shift + fill

\* An octet of the bits, also of those there are not, holds the bits of two septets.
LEMMA AnyOctetOfBits ==
  ASSUME NEW s \in Seq(Septet), NEW fill \in 0 .. 6, NEW p \in Nat, NEW i \in Int,
         NEW shift \in 0 .. 6, Begins(p, i, shift, fill)
  PROVE  At8(PackBits(s, fill), p) = Packed(At7(s, i), At7(s, i + 1), shift)
<1> USE DEF Begins
<1>1. PICK n, o : n = Len(s) /\ o = Octets(s, fill)
  OBVIOUS
<1>2. n \in Nat /\ o \in Nat /\ o = (fill + 7 * n + 7) \div 8
  BY <1>1, LenProperties DEF Octets
<1>3. DOMAIN PackBits(s, fill) = 1 .. o /\ Len(PackBits(s, fill)) = o
  BY <1>1, PackBitsType
<1>4. CASE p < o
  <2>1. p + 1 \in DOMAIN PackBits(s, fill)
    BY <1>2, <1>3, <1>4
  <2>2. PackBits(s, fill)[p + 1] = Packed(At7(s, i), At7(s, i + 1), shift)
    BY <2>1, OctetOfBits
  <2> QED
    BY <1>3, <1>4, <2>2 DEF At8
<1>5. CASE ~(p < o)
  <2>1. i >= n
    BY <1>2, <1>5
  <2>2. i \notin 0 .. n - 1 /\ i + 1 \notin 0 .. n - 1
    BY <1>2, <2>1
  <2>3. At7(s, i) = 0 /\ At7(s, i + 1) = 0
    BY <1>1, <2>2 DEF At7
  <2>4. 0 \in Septet
    BY DEF Septet
  <2>5. Packed(0, 0, shift) = ShiftR(0, shift)
    BY <2>4, NothingJoins
  <2>6. ShiftR(0, shift) = 0
    <3>1. PICK e : e = 2 ^ shift
      OBVIOUS
    <3>2. e \in {1, 2, 4, 8, 16, 32, 64, 128, 256}
      <4>1. shift \in 0 .. 8
        OBVIOUS
      <4> QED
        BY <3>1, <4>1, Powers
    <3>3. 0 \div e = 0
      BY <3>2
    <3> QED
      BY <3>1, <3>3 DEF ShiftR
  <2> QED
    BY <1>3, <1>5, <2>3, <2>5, <2>6 DEF At8
<1> QED
  BY <1>4, <1>5

\* The septet that ends in octet pos.
Rebuilt(u, pos, shift) ==
  ((At8(u, pos) * 2 ^ shift) % 128)
    + (IF pos = 0 THEN 0 ELSE ShiftR(At8(u, pos - 1), 8 - shift))

\* Septet i is put together at octet pos, and with the last shift the next one.
IsBack(s, fill, pos, i, shift) ==
  /\ Rebuilt(PackBits(s, fill), pos, shift) = At7(s, i)
  /\ shift = 6 => ShiftR(At8(PackBits(s, fill), pos), 1) = At7(s, i + 1)

\* The loop reads a septet where it lies.
LEMMA SeptetOfBits ==
  ASSUME NEW s \in Seq(Septet), NEW fill \in 0 .. 6, NEW pos \in Nat, NEW i \in Nat,
         NEW shift \in 0 .. 6, 8 * pos = 7 * i + shift + fill
  PROVE  IsBack(s, fill, pos, i, shift)
<1>1. PICK u, b, c : u = PackBits(s, fill) /\ b = At7(s, i) /\ c = At7(s, i + 1)
  OBVIOUS
<1>2. b \in Septet /\ c \in Septet /\ i \in Int
  BY <1>1, At7Type
<1>3. At8(u, pos) = Packed(b, c, shift)
  <2>1. Begins(pos, i, shift, fill)
    BY Zenon DEF Begins
  <2>2. At8(PackBits(s, fill), pos) = Packed(At7(s, i), At7(s, i + 1), shift)
    BY <1>2, <2>1, AnyOctetOfBits
  <2> QED
    BY <1>1, <2>2, Zenon
<1>4. shift = 6 => ShiftR(At8(u, pos), 1) = c
  BY <1>2, <1>3, UnpackedWhole
<1>5. CASE shift = 0
  <2>1. (At8(u, pos) * 2 ^ 0) % 128 = b
    BY <1>2, <1>3, <1>5, UnpackedWhole
  <2>2. ASSUME pos # 0 PROVE ShiftR(At8(u, pos - 1), 8 - 0) = 0
    <3>1. PICK p \in Nat : p = pos - 1
      <4>1. pos - 1 \in Nat
        BY <2>2
      <4> QED
        BY <4>1
    <3>2. PICK j \in Int, h \in 0 .. 6 : 8 * p = 7 * j + h + fill
      <4> DEFINE d == 8 * p - fill
      <4>1. d \div 7 \in Int /\ d % 7 \in 0 .. 6 /\ d = 7 * (d \div 7) + (d % 7)
        OBVIOUS
      <4>2. 8 * p = 7 * (d \div 7) + (d % 7) + fill
        BY <4>1
      <4>3. PICK q, r : q = d \div 7 /\ r = d % 7
        OBVIOUS
      <4> HIDE DEF d
      <4>4. q \in Int /\ r \in 0 .. 6 /\ 8 * p = 7 * q + r + fill
        BY <4>1, <4>2, <4>3, Zenon
      <4> QED
        BY <4>4, Zenon
    <3>3. PICK x : x = At8(u, p)
      OBVIOUS
    <3>4. x = Packed(At7(s, j), At7(s, j + 1), h)
      <4>1. Begins(p, j, h, fill)
        BY <3>2, Zenon DEF Begins
      <4>2. At8(PackBits(s, fill), p) = Packed(At7(s, j), At7(s, j + 1), h)
        BY <4>1, AnyOctetOfBits
      <4> QED
        BY <1>1, <3>3, <4>2, Zenon
    <3>5. At7(s, j) \in Septet /\ At7(s, j + 1) \in Septet
      BY At7Type
    <3>6. x \in 0 .. 255
      BY <3>4, <3>5, PackedOctet DEF Octet
    <3>7. ShiftR(x, 8 - 0) = x \div 256
      BY DEF ShiftR
    <3>8. x \div 256 = 0
      BY <3>6
    <3> QED
      BY <3>1, <3>3, <3>7, <3>8
  <2>3. b + 0 = b
    BY <1>2 DEF Septet
  <2> QED
    BY <1>1, <1>4, <1>5, <2>1, <2>2, <2>3 DEF Rebuilt, IsBack
<1>6. CASE shift # 0
  <2>1. pos # 0 /\ pos - 1 \in Nat /\ i - 1 \in Int /\ shift - 1 \in 0 .. 6 /\ shift \in 1 .. 6
        /\ 8 * (pos - 1) = 7 * (i - 1) + (shift - 1) + fill /\ (i - 1) + 1 = i
    BY <1>6
  <2>2. PICK p \in Nat, j \in Int, h \in 0 .. 6 :
          p = pos - 1 /\ j = i - 1 /\ h = shift - 1 /\ 8 * p = 7 * j + h + fill /\ j + 1 = i
    BY <2>1
  <2>3. PICK a : a = At7(s, j)
    OBVIOUS
  <2>4. At8(u, p) = Packed(a, b, h) /\ a \in Septet
    <3>1. Begins(p, j, h, fill)
      BY <2>2, Zenon DEF Begins
    <3>2. At8(PackBits(s, fill), p) = Packed(At7(s, j), At7(s, j + 1), h)
      BY <3>1, AnyOctetOfBits
    <3> QED
      BY <1>1, <2>2, <2>3, <3>2, At7Type
  <2>5. ((Packed(b, c, shift) * 2 ^ shift) % 128)
          + ShiftR(Packed(a, b, shift - 1), 8 - shift) = b
    <3>1. shift \in 1 .. 6
      BY <2>1
    <3>2. a \in Septet
      BY <2>4
    <3>3. Rejoined(a, b, c, shift) = b
      BY <1>2, <3>1, <3>2, Unpacked
    <3> QED
      BY <3>3 DEF Rejoined
  <2>6. ((At8(u, pos) * 2 ^ shift) % 128) + ShiftR(At8(u, pos - 1), 8 - shift) = b
    BY <1>3, <2>2, <2>4, <2>5
  <2> QED
    BY <1>1, <1>4, <2>1, <2>6 DEF Rebuilt, IsBack
<1> QED
  BY <1>5, <1>6

\* The variables of the loop.
UnpackStates == [raw : Seq(Nat), i : Nat, pos : Nat, shift : 0 .. 6]

\* After k rounds the first septets are back, one perhaps that is not there.
UnpackInv(s, fill, k, a) ==
  /\ a \in UnpackStates
  /\ 8 * a.pos = 7 * a.i + a.shift + fill
  /\ Len(a.raw) = a.i /\ a.i <= Len(s) + 1
  /\ a.i >= k \/ a.i >= Len(s)
  /\ \A j \in 1 .. a.i : a.raw[j] = At7(s, j - 1)

\* A round of the loop reads the next septet, or the next two.
LEMMA UnpackRound ==
  ASSUME NEW s \in Seq(Septet), NEW fill \in 0 .. 6, NEW k \in Nat, NEW a,
    UnpackInv(s, fill, k, a)
  PROVE  UnpackInv(s, fill, k + 1, UnpackBody(PackBits(s, fill), Len(s))[a])
<1>1. PICK n, u, b : n = Len(s) /\ u = PackBits(s, fill) /\ b = UnpackBody(u, n)[a]
  OBVIOUS
<1>2. PICK raw, i, pos, shift : raw = a.raw /\ i = a.i /\ pos = a.pos /\ shift = a.shift
  OBVIOUS
<1>3. /\ n \in Nat /\ i \in Nat /\ pos \in Nat /\ shift \in 0 .. 6 /\ raw \in Seq(Nat)
      /\ a \in UnpackStates
  BY <1>1, <1>2, LenProperties DEF UnpackInv, UnpackStates
<1>4. /\ 8 * pos = 7 * i + shift + fill /\ Len(raw) = i /\ i <= n + 1 /\ (i >= k \/ i >= n)
      /\ \A j \in 1 .. i : raw[j] = At7(s, j - 1)
  BY <1>1, <1>2 DEF UnpackInv
<1>5. b = IF i >= n THEN a
          ELSE IF shift < 6
            THEN [raw |-> Append(raw, Rebuilt(u, pos, shift)), i |-> i + 1, pos |-> pos + 1,
                  shift |-> shift + 1]
            ELSE [raw |-> raw \o <<Rebuilt(u, pos, shift), ShiftR(At8(u, pos), 1)>>,
                  i |-> i + 2, pos |-> pos + 1, shift |-> 0]
  BY <1>1, <1>2, <1>3 DEF UnpackBody, UnpackStates, Rebuilt, At8
<1>6. CASE i >= n
  BY <1>1, <1>2, <1>3, <1>4, <1>5, <1>6 DEF UnpackInv
<1>7. CASE i < n
  <2>1. PICK x, y : x = At7(s, i) /\ y = At7(s, i + 1)
    OBVIOUS
  <2>2. x \in Nat /\ y \in Nat
    <3>1. i \in Int /\ i + 1 \in Int
      BY <1>3
    <3>2. x \in Septet /\ y \in Septet
      BY <2>1, <3>1, At7Type
    <3> QED
      BY <3>2 DEF Septet
  <2>3. Rebuilt(u, pos, shift) = x /\ (shift = 6 => ShiftR(At8(u, pos), 1) = y)
    <3>1. 8 * pos = 7 * i + shift + fill
      BY <1>4
    <3> QED
      <4>1. IsBack(s, fill, pos, i, shift)
        BY <1>3, <3>1, SeptetOfBits, Zenon
      <4> QED
        BY <1>1, <2>1, <4>1, Zenon DEF IsBack
  <2>4. /\ Append(raw, x) \in Seq(Nat) /\ Len(Append(raw, x)) = i + 1
        /\ Append(raw, x)[i + 1] = x
        /\ \A j \in 1 .. i : Append(raw, x)[j] = raw[j]
    BY <1>3, <1>4, <2>2, AppendProperties
  <2>5. \A j \in 1 .. i + 1 : Append(raw, x)[j] = At7(s, j - 1)
    <3> SUFFICES ASSUME NEW j \in 1 .. i + 1 PROVE Append(raw, x)[j] = At7(s, j - 1)
      OBVIOUS
    <3>1. (j = i + 1 /\ j - 1 = i) \/ j \in 1 .. i
      BY <1>3
    <3> QED
      BY <1>4, <2>1, <2>4, <3>1
  <2>6. CASE shift < 6
    <3>1. /\ b.raw = Append(raw, x) /\ b.i = i + 1 /\ b.pos = pos + 1 /\ b.shift = shift + 1
          /\ b \in UnpackStates
      <4>1. b = [raw |-> Append(raw, x), i |-> i + 1, pos |-> pos + 1, shift |-> shift + 1]
        BY <1>3, <1>5, <1>7, <2>3, <2>6
      <4>2. i + 1 \in Nat /\ pos + 1 \in Nat /\ shift + 1 \in 0 .. 6
        BY <1>3, <2>6
      <4> QED
        BY <2>4, <4>1, <4>2 DEF UnpackStates
    <3>2. /\ 8 * (pos + 1) = 7 * (i + 1) + (shift + 1) + fill /\ i + 1 <= n + 1
          /\ (i + 1 >= k + 1 \/ i + 1 >= n)
      BY <1>3, <1>4, <1>7
    <3> QED
      BY <1>1, <2>4, <2>5, <3>1, <3>2 DEF UnpackInv
  <2>7. CASE shift = 6
    <3> DEFINE r == Append(raw, x)
               t == Append(r, y)
    <3>1. raw \o <<x, y>> = t
      BY <1>3
    <3> HIDE DEF r
    <3>2. t \in Seq(Nat) /\ Len(t) = i + 2 /\ t[i + 2] = y /\ \A j \in 1 .. i + 1 : t[j] = r[j]
      <4>1. r \in Seq(Nat) /\ Len(r) = i + 1
        BY <2>4 DEF r
      <4>2. (i + 1) + 1 = i + 2
        BY <1>3
      <4> QED
        BY <2>2, <4>1, <4>2, AppendProperties
    <3> HIDE DEF t
    <3>3. \A j \in 1 .. i + 2 : t[j] = At7(s, j - 1)
      <4> SUFFICES ASSUME NEW j \in 1 .. i + 2 PROVE t[j] = At7(s, j - 1)
        OBVIOUS
      <4>1. (j = i + 2 /\ j - 1 = i + 1) \/ j \in 1 .. i + 1
        BY <1>3
      <4> QED
        BY <2>1, <2>5, <3>2, <4>1 DEF r
    <3>4. /\ b.raw = t /\ b.i = i + 2 /\ b.pos = pos + 1 /\ b.shift = 0
          /\ b \in UnpackStates
      <4>1. b = [raw |-> t, i |-> i + 2, pos |-> pos + 1, shift |-> 0]
        <5>1. raw \o <<Rebuilt(u, pos, shift), ShiftR(At8(u, pos), 1)>> = t
          BY <2>3, <2>7, <3>1, Zenon
        <5>2. ~(i >= n) /\ ~(shift < 6)
          BY <1>3, <1>7, <2>7
        <5> QED
          BY <1>5, <5>1, <5>2, Zenon
      <4>2. i + 2 \in Nat /\ pos + 1 \in Nat /\ 0 \in 0 .. 6
        BY <1>3
      <4> QED
        BY <3>2, <4>1, <4>2 DEF UnpackStates
    <3>5. /\ 8 * (pos + 1) = 7 * (i + 2) + 0 + fill /\ i + 2 <= n + 1
          /\ (i + 2 >= k + 1 \/ i + 2 >= n)
      BY <1>3, <1>4, <1>7, <2>7
    <3> QED
      BY <1>1, <3>2, <3>3, <3>4, <3>5 DEF UnpackInv
  <2> QED
    BY <1>3, <2>6, <2>7
<1> QED
  BY <1>3, <1>6, <1>7

\* The unpacking loop of DecodePDU takes the septets out of the bits again, whatever
\* fills the octet in front.
THEOREM UnpackIsInverse ==
  ASSUME NEW s \in Seq(Septet), NEW fill \in 0 .. 6, fill = 0 \/ Len(s) > 0
  PROVE  Unpack(PackBits(s, fill), Len(s), fill) = s
<1>1. PICK n, u : n = Len(s) /\ u = PackBits(s, fill)
  OBVIOUS
<1> DEFINE start == UnpackStart(u, fill)
           at(k) == Rounds(UnpackBody(u, n), start, k)
           I == {k \in Nat : UnpackInv(s, fill, k, at(k))}
<1>2. n \in Nat
  BY <1>1, LenProperties
<1>3. UnpackInv(s, fill, 0, start)
  <2>1. CASE fill = 0
    <3>1. start \in UnpackStates /\ start.raw = <<>> /\ start.i = 0 /\ start.pos = 0
          /\ start.shift = 0
      BY <2>1 DEF UnpackStart, UnpackStates
    <3>2. /\ 8 * 0 = 7 * 0 + 0 + fill /\ Len(<<>>) = 0 /\ 0 <= n + 1 /\ 0 >= 0
          /\ \A j \in 1 .. 0 : FALSE
      BY <1>2, <2>1
    <3> HIDE DEF start
    <3> QED
      BY <1>1, <3>1, <3>2, Zenon DEF UnpackInv
  <2>2. CASE fill = 1
    <3>1. PICK x : x = ShiftR(u[1], 1)
      OBVIOUS
    <3>2. x = At7(s, 0) /\ x \in Nat
      <4>1. At8(u, 0) = u[1]
        <5>1. Len(u) = Octets(s, fill)
          BY <1>1, PackBitsType
        <5>2. 0 < Len(u)
          BY <1>1, <1>2, <2>2, <5>1 DEF Octets
        <5> QED
          BY <5>2 DEF At8
      <4>2. PICK m \in Int, h \in 0 .. 6, p \in Nat :
              8 * p = 7 * m + h + fill /\ m + 1 = 0 /\ p = 0 /\ h = 6
        <5>1. 8 * 0 = 7 * (-1) + 6 + fill /\ -1 \in Int /\ (-1) + 1 = 0
          BY <2>2
        <5> QED
          BY <5>1
      <4>3. PICK b : b = At7(s, m)
        OBVIOUS
      <4>4. At8(u, 0) = Packed(b, At7(s, 0), 6)
        <5>1. Begins(p, m, h, fill)
          BY <4>2, Zenon DEF Begins
        <5>2. At8(u, p) = Packed(At7(s, m), At7(s, m + 1), h)
          BY <1>1, <5>1, AnyOctetOfBits
        <5> QED
          BY <4>2, <4>3, <5>2, Zenon
      <4>5. b \in Septet /\ At7(s, 0) \in Septet
        BY <4>3, At7Type
      <4>6. ShiftR(Packed(b, At7(s, 0), 6), 1) = At7(s, 0)
        BY <4>5, UnpackedWhole
      <4> QED
        <5>1. x = At7(s, 0)
          BY <3>1, <4>1, <4>4, <4>6, Zenon
        <5> QED
          BY <4>5, <5>1, \A z \in Septet : z \in Nat, Zenon DEF Septet
    <3>3. start = [raw |-> <<x>>, i |-> 1, pos |-> 1, shift |-> 0]
      BY <2>2, <3>1 DEF UnpackStart
    <3>4. start \in UnpackStates /\ start.raw = <<x>> /\ start.i = 1 /\ start.pos = 1
          /\ start.shift = 0
      BY <3>2, <3>3 DEF UnpackStates
    <3>5. \A j \in 1 .. 1 : <<x>>[j] = At7(s, j - 1)
      BY <3>2
    <3>6. 8 * 1 = 7 * 1 + 0 + fill /\ Len(<<x>>) = 1 /\ 1 <= n + 1 /\ 1 >= 0
      BY <1>2, <2>2
    <3> HIDE DEF start
    <3> QED
      BY <1>1, <3>4, <3>5, <3>6, Zenon DEF UnpackInv
  <2>3. CASE fill > 1
    <3>1. start = [raw |-> <<>>, i |-> 0, pos |-> 1, shift |-> 8 - fill]
      BY <2>3 DEF UnpackStart
    <3>2. 8 - fill \in 0 .. 6 /\ 8 * 1 = 7 * 0 + (8 - fill) + fill
      BY <2>3
    <3>3. /\ start \in UnpackStates /\ start.raw = <<>> /\ start.i = 0 /\ start.pos = 1
          /\ start.shift = 8 - fill
      BY <3>1, <3>2 DEF UnpackStates
    <3> QED
      BY <1>1, <1>2, <3>2, <3>3 DEF UnpackInv
  <2> QED
    BY <2>1, <2>2, <2>3
<1> HIDE DEF start
<1>4. 0 \in I
  BY <1>3, RoundsDef
<1>5. ASSUME NEW k \in Nat, k \in I PROVE k + 1 \in I
  <2>1. UnpackInv(s, fill, k + 1, UnpackBody(u, n)[at(k)])
    BY <1>1, <1>5, UnpackRound
  <2>2. at(k + 1) = UnpackBody(u, n)[at(k)]
    BY RoundsDef
  <2> HIDE DEF at
  <2> QED
    BY <2>1, <2>2
<1>6. n \in I
  BY <1>2, <1>4, <1>5, AllNumbers
<1>7. PICK raw, i : raw = at(n).raw /\ i = at(n).i
  OBVIOUS
<1>8. /\ raw \in Seq(Nat) /\ Len(raw) = i /\ i >= n /\ i \in Nat
      /\ \A j \in 1 .. i : raw[j] = At7(s, j - 1)
  BY <1>1, <1>2, <1>6, <1>7 DEF UnpackInv, UnpackStates
<1>9. Unpack(u, n, fill) = SubSeq(raw, 1, n)
  BY <1>7 DEF Unpack, start
<1>10. /\ SubSeq(raw, 1, n) \in Seq(Nat) /\ Len(SubSeq(raw, 1, n)) = n
       /\ \A j \in 1 .. n : SubSeq(raw, 1, n)[j] = raw[j]
  <2>1. \A j \in 1 .. n : raw[j] \in Nat
    BY <1>2, <1>8, ElementOfSeq
  <2>2. /\ SubSeq(raw, 1, n) \in Seq(Nat)
        /\ Len(SubSeq(raw, 1, n)) = IF 1 <= n THEN n - 1 + 1 ELSE 0
        /\ \A j \in 1 .. n - 1 + 1 : SubSeq(raw, 1, n)[j] = raw[1 + j - 1]
    BY <1>2, <2>1, SubSeqProperties
  <2> QED
    BY <1>2, <2>2
<1>11. \A j \in 1 .. n : raw[j] = s[j]
  <2> SUFFICES ASSUME NEW j \in 1 .. n PROVE raw[j] = s[j]
    OBVIOUS
  <2>1. j \in 1 .. i /\ j - 1 \in 0 .. n - 1 /\ (j - 1) + 1 = j
    BY <1>2, <1>8
  <2> QED
    BY <1>1, <1>8, <2>1 DEF At7
<1>12. s \in Seq(Nat)
  <2>1. Septet \subseteq Nat
    BY DEF Septet
  <2> QED
    BY <2>1, SeqMonotonic
<1> QED
  BY <1>1, <1>2, <1>9, <1>10, <1>11, <1>12, SeqEqual

\* Sequences of one or two elements: there are at most as many as they have elements
\* together, and at least half as many.
LEMMA PlacesGrow ==
  ASSUME NEW T, NEW seqs \in Seq(Seq(T)), NEW flat, NEW e, Places(seqs, flat, e),
         \A k \in 1 .. Len(seqs) : Len(seqs[k]) \in 1 .. 2
  PROVE  /\ Len(seqs) <= Len(flat) /\ Len(flat) <= 2 * Len(seqs)
         /\ \A k \in 1 .. Len(seqs) : e[k - 1] \in Nat /\ e[k] \in Nat /\ e[k - 1] < e[k]
                                  /\ e[k] = e[k - 1] + Len(seqs[k])
<1>1. PICK n : n = Len(seqs)
  OBVIOUS
<1>2. n \in Nat
  BY <1>1, LenProperties
<1>3. /\ e \in [0 .. n -> Nat] /\ e[0] = 0 /\ e[n] = Len(flat)
      /\ \A k \in 1 .. n : e[k] = e[k - 1] + Len(seqs[k])
  BY <1>1 DEF Places
<1>4. ASSUME NEW k \in 1 .. n
      PROVE  e[k - 1] \in Nat /\ e[k] \in Nat /\ e[k - 1] < e[k] /\ e[k] <= e[k - 1] + 2
  <2>1. k - 1 \in 0 .. n /\ k \in 0 .. n
    BY <1>2
  <2>2. e[k - 1] \in Nat /\ e[k] \in Nat
    BY <1>3, <2>1
  <2>3. PICK a, b, l : a = e[k - 1] /\ b = e[k] /\ l = Len(seqs[k])
    OBVIOUS
  <2>4. l \in Nat /\ l >= 1 /\ l <= 2
    <3>1. l \in 1 .. 2
      BY <1>1, <2>3
    <3> QED
      BY <3>1
  <2>5. b = a + l
    BY <1>3, <2>3
  <2>6. a < b /\ b <= a + 2
    BY <2>2, <2>3, <2>4, <2>5
  <2> QED
    BY <2>2, <2>3, <2>6
<1> DEFINE I == {k \in Nat : k <= e[k] /\ e[k] <= 2 * k}
<1>5. n >= 1 => 1 \in I
  <2> SUFFICES ASSUME n >= 1 PROVE 1 \in I
    OBVIOUS
  <2>1. 1 \in 1 .. n /\ 1 - 1 = 0
    BY <1>2
  <2>2. e[1 - 1] < e[1] /\ e[1] \in Nat /\ e[1] <= e[1 - 1] + 2
    BY <1>4, <2>1
  <2> QED
    BY <1>3, <2>1, <2>2
<1>6. ASSUME NEW k \in Nat, k >= 1, k + 1 <= n, k \in I PROVE k + 1 \in I
  <2>1. k + 1 \in 1 .. n /\ (k + 1) - 1 = k
    BY <1>2, <1>6
  <2>2. e[k] < e[k + 1] /\ e[k + 1] <= e[k] + 2 /\ e[k] \in Nat /\ e[k + 1] \in Nat
    BY <1>4, <2>1
  <2>3. PICK a, b : a = e[k] /\ b = e[k + 1]
    OBVIOUS
  <2>4. k + 1 <= b /\ b <= 2 * (k + 1)
    BY <1>6, <2>2, <2>3
  <2> QED
    BY <1>6, <2>3, <2>4
<1> HIDE DEF I
<1>7. \A k \in 1 .. n : k \in I
  BY <1>2, <1>5, <1>6, Upwards
<1>8. n <= Len(flat) /\ Len(flat) <= 2 * n
  <2>1. CASE n = 0
    BY <1>3, <2>1
  <2>2. CASE n # 0
    <3>1. n \in 1 .. n
      BY <1>2, <2>2
    <3> QED
      BY <1>3, <1>7, <3>1 DEF I
  <2> QED
    BY <2>1, <2>2
<1> QED
  BY <1>1, <1>3, <1>4, <1>8

\* Pairs lie two by two.
LEMMA PlacesPairs ==
  ASSUME NEW T, NEW seqs \in Seq(Seq(T)), NEW flat, NEW e, Places(seqs, flat, e),
         \A k \in 1 .. Len(seqs) : Len(seqs[k]) = 2
  PROVE  /\ Len(flat) = 2 * Len(seqs)
         /\ \A k \in 1 .. Len(seqs) : flat[2 * k - 1] = seqs[k][1] /\ flat[2 * k] = seqs[k][2]
<1>1. PICK n : n = Len(seqs)
  OBVIOUS
<1>2. n \in Nat
  BY <1>1, LenProperties
<1>3. /\ e[0] = 0 /\ e[n] = Len(flat)
      /\ \A k \in 1 .. n : /\ e[k] = e[k - 1] + 2
                           /\ flat[e[k - 1] + 1] = seqs[k][1]
                           /\ flat[e[k - 1] + 2] = seqs[k][2]
  <2>1. /\ e[0] = 0 /\ e[n] = Len(flat)
        /\ \A k \in 1 .. n : e[k] = e[k - 1] + Len(seqs[k])
        /\ \A k \in 1 .. n : \A j \in 1 .. Len(seqs[k]) : flat[e[k - 1] + j] = seqs[k][j]
    BY <1>1 DEF Places
  <2>2. \A k \in 1 .. n : Len(seqs[k]) = 2
    BY <1>1
  <2>3. 1 \in 1 .. 2 /\ 2 \in 1 .. 2
    OBVIOUS
  <2> QED
    BY <2>1, <2>2, <2>3, Zenon
<1> DEFINE I == {k \in Nat : e[k - 1] = 2 * k - 2 /\ e[k] = 2 * k}
<1>4. n >= 1 => 1 \in I
  BY <1>2, <1>3
<1>5. ASSUME NEW k \in Nat, k >= 1, k + 1 <= n, k \in I PROVE k + 1 \in I
  <2>1. k + 1 \in 1 .. n /\ (k + 1) - 1 = k /\ e[k] = 2 * k
    BY <1>2, <1>5
  <2>2. e[k + 1] = 2 * k + 2
    BY <1>3, <2>1
  <2> QED
    BY <2>1, <2>2
<1> HIDE DEF I
<1>6. \A k \in 1 .. n : k \in I
  BY <1>2, <1>4, <1>5, Upwards
<1>7. ASSUME NEW k \in 1 .. n PROVE flat[2 * k - 1] = seqs[k][1] /\ flat[2 * k] = seqs[k][2]
  <2>1. e[k - 1] = 2 * k - 2 /\ k \in Nat
    BY <1>2, <1>6 DEF I
  <2>2. (2 * k - 2) + 1 = 2 * k - 1 /\ (2 * k - 2) + 2 = 2 * k
    BY <2>1
  <2> QED
    BY <1>3, <2>1, <2>2
<1>8. Len(flat) = 2 * n
  <2>1. n = 0 \/ n \in 1 .. n
    BY <1>2
  <2>2. CASE n = 0
    BY <1>3, <2>2
  <2>3. CASE n \in 1 .. n
    BY <1>3, <1>6, <2>3 DEF I
  <2> QED
    BY <2>1, <2>2, <2>3
<1> QED
  BY <1>1, <1>7, <1>8

-----------------------------------------------------------------------------
(* The alphabet.                                                           *)

\* What stands for a character.
StandsFor(sq, ch) ==
  \/ \E x \in Septet : x # Escape /\ sq = <<x>> /\ Byte(x) = ch
  \/ \E x \in Septet : sq = <<Escape, x>> /\ Unescaped(x) = ch

\* The second septets of the extension are each of one character.
LEMMA Extension ==
  ASSUME NEW x \in extension_table
  PROVE  /\ x[1] \in Septet
         /\ \A y \in extension_table : y[1] = x[1] => y[2] = x[2]
BY DEF extension_table, Septet

\* The places in the table that decide.
LEMMA Table ==
  /\ DOMAIN alphabet_table = 1 .. 32
  /\ alphabet_table[11] = 10 /\ alphabet_table[14] = 13 /\ alphabet_table[28] = 27
BY DEF alphabet_table

\* The septets of a character stand for it.
LEMMA SeptetsStand ==
  ASSUME NEW ch \in Alphabet
  PROVE  StandsFor(Septets(ch), ch)
<1> DEFINE e == {x \in extension_table : x[2] = ch}
           k == {x \in DOMAIN alphabet_table : alphabet_table[x] = ch}
<1>1. CASE e # {}
  <2>1. PICK x : x = CHOOSE z \in e : TRUE
    OBVIOUS
  <2>2. x \in extension_table /\ x[2] = ch
    BY <1>1, <2>1
  <2>3. Septets(ch) = <<Escape, x[1]>>
    BY <1>1, <2>1 DEF Septets
  <2> DEFINE f == {y \in extension_table : y[1] = x[1]}
  <2>4. PICK y : y = CHOOSE z \in f : TRUE
    OBVIOUS
  <2>5. x \in f
    BY <2>2
  <2>6. y \in extension_table /\ y[1] = x[1]
    BY <2>4, <2>5
  <2>7. y[2] = ch /\ x[1] \in Septet
    BY <2>2, <2>6, Extension
  <2>8. Unescaped(x[1]) = ch
    BY <2>4, <2>5, <2>7 DEF Unescaped
  <2> QED
    BY <2>3, <2>7, <2>8 DEF StandsFor
<1>2. CASE e = {} /\ k # {}
  <2>1. k \subseteq Nat
    BY Table
  <2>2. PICK x : x = CHOOSE z \in k : \A y \in k : z <= y
    OBVIOUS
  <2>3. \E m \in k : \A y \in k : m <= y
    BY <1>2, <2>1, LeastPosition
  <2>4. x \in k
    BY <2>2, <2>3
  <2>5. x \in 1 .. 32 /\ alphabet_table[x] = ch
    BY <2>4, Table
  <2>6. Septets(ch) = <<x - 1>>
    BY <1>2, <2>2 DEF Septets
  <2>7. x - 1 \in Septet /\ x - 1 # Escape /\ (x - 1) + 1 = x /\ ~(x - 1 >= 32) /\ ch # 255
    BY <2>5, Table DEF Septet, Escape, Alphabet
  <2>8. Byte(x - 1) = ch
    BY <2>5, <2>7 DEF Byte
  <2> QED
    BY <2>6, <2>7, <2>8 DEF StandsFor
<1>3. CASE e = {} /\ k = {}
  <2>1. Septets(ch) = <<ch>>
    BY <1>3 DEF Septets
  <2>2. ch # 10 /\ ch # 13
    BY <1>3, Table
  <2>3. ch # 12
    <3>1. <<10, 12>> \in extension_table /\ <<10, 12>>[2] = 12
      BY DEF extension_table
    <3> QED
      BY <1>3, <3>1
  <2>4. ch \in 32 .. 127
    BY <2>2, <2>3 DEF Alphabet
  <2> QED
    BY <2>1, <2>4 DEF StandsFor, Septet, Escape, Byte
<1> QED
  BY <1>1, <1>2, <1>3

\* Where the septets of a text lie.
EncodedAs(text, sq, e) ==
  /\ sq \in Seq(Septet) /\ Len(text) <= Len(sq) /\ Len(sq) <= 2 * Len(text)
  /\ e[0] = 0 /\ e[Len(text)] = Len(sq)
  /\ \A k \in 1 .. Len(text) :
       /\ e[k - 1] \in Nat /\ e[k] \in Nat /\ e[k] <= Len(sq)
       /\ e[k] = e[k - 1] + Len(Septets(text[k]))
       /\ \A j \in 1 .. Len(Septets(text[k])) : sq[e[k - 1] + j] = Septets(text[k])[j]

\* The septets of a character are one or two.
LEMMA SeptetsType ==
  ASSUME NEW ch \in Alphabet
  PROVE  Septets(ch) \in Seq(Septet) /\ Len(Septets(ch)) \in 1 .. 2
<1>1. StandsFor(Septets(ch), ch)
  BY SeptetsStand
<1>2. CASE \E x \in Septet : Septets(ch) = <<x>>
  BY <1>2
<1>3. CASE \E x \in Septet : Septets(ch) = <<Escape, x>>
  <2>1. Escape \in Septet
    BY DEF Escape, Septet
  <2>2. PICK x \in Septet : Septets(ch) = <<Escape, x>>
    BY <1>3
  <2>3. <<Escape, x>> \in Seq(Septet) /\ Len(<<Escape, x>>) = 2
    BY <2>1
  <2> QED
    BY <2>2, <2>3
<1> QED
  BY <1>1, <1>2, <1>3 DEF StandsFor

\* encode_alphabet makes septets of a text, one or two of each character.
LEMMA EncodedAlphabet ==
  ASSUME NEW text \in Seq(Alphabet)
  PROVE  \E e : EncodedAs(text, encode_alphabet(text), e)
<1> DEFINE n == Len(text)
           seqs == [k \in DOMAIN text |-> Septets(text[k])]
           sq == FlattenSeq(seqs)
<1>1. n \in Nat /\ DOMAIN text = 1 .. n /\ \A k \in 1 .. n : text[k] \in Alphabet
  BY LenProperties, ElementOfSeq
<1>2. seqs \in Seq(Seq(Septet)) /\ Len(seqs) = n
      /\ \A k \in 1 .. n : seqs[k] = Septets(text[k])
  BY <1>1, SeptetsType
<1>3. \A k \in 1 .. n : Len(seqs[k]) \in 1 .. 2
  BY <1>1, <1>2, SeptetsType
<1>4. encode_alphabet(text) = sq
  BY DEF encode_alphabet
<1> HIDE DEF seqs
<1>5. PICK e : Places(seqs, sq, e)
  BY <1>2, FlatPlaces
<1>6. sq \in Seq(Septet)
  BY <1>2, FlatPlaces
<1> HIDE DEF sq
<1>7. /\ Len(seqs) <= Len(sq) /\ Len(sq) <= 2 * Len(seqs)
      /\ \A k \in 1 .. Len(seqs) : e[k - 1] \in Nat /\ e[k] \in Nat
  BY <1>2, <1>3, <1>5, PlacesGrow
<1>8. ASSUME NEW k \in 1 .. n
      PROVE  /\ e[k - 1] \in Nat /\ e[k] \in Nat /\ e[k] <= Len(sq)
             /\ e[k] = e[k - 1] + Len(Septets(text[k]))
             /\ \A j \in 1 .. Len(Septets(text[k])) : sq[e[k - 1] + j] = Septets(text[k])[j]
  <2>1. k \in 1 .. Len(seqs) /\ seqs[k] = Septets(text[k])
    BY <1>2
  <2>2. /\ e[k] = e[k - 1] + Len(seqs[k]) /\ e[k] <= Len(sq)
        /\ \A j \in 1 .. Len(seqs[k]) : sq[e[k - 1] + j] = seqs[k][j]
    BY <1>5, <2>1, Zenon DEF Places
  <2>3. e[k - 1] \in Nat /\ e[k] \in Nat
    BY <1>7, <2>1
  <2> QED
    BY <2>1, <2>2, <2>3, Zenon
<1>9. Len(text) <= Len(sq) /\ Len(sq) <= 2 * Len(text) /\ e[0] = 0 /\ e[Len(text)] = Len(sq)
  <2>1. Len(seqs) = Len(text)
    BY <1>2
  <2>2. e[0] = 0 /\ e[Len(seqs)] = Len(sq)
    BY <1>5, Zenon DEF Places
  <2> QED
    BY <1>7, <2>1, <2>2, Zenon
<1> QED
  BY <1>4, <1>6, <1>8, <1>9, ZenonT(60) DEF EncodedAs

\* The variables of the loop.
DecodeStates == [text : Seq(Nat), count : Nat]

\* The first n characters are read.
DecodeInv(text, e, n, a) ==
  /\ a \in DecodeStates /\ Len(a.text) = n /\ a.count = e[n]
  /\ \A j \in 1 .. n : a.text[j] = text[j]

\* A round of the loop reads the next character.
LEMMA DecodeRound ==
  ASSUME NEW text \in Seq(Alphabet), NEW sq, NEW e, EncodedAs(text, sq, e),
         NEW n \in Nat, n + 1 <= Len(text), NEW a, DecodeInv(text, e, n, a)
  PROVE  DecodeInv(text, e, n + 1, decode_body(sq)[a])
<1> DEFINE m == n + 1
           ch == text[m]
           at(c) == IF c < Len(sq) THEN sq[c + 1] ELSE 0
<1>1. m \in 1 .. Len(text) /\ m - 1 = n /\ ch \in Alphabet /\ m \in Nat
  BY ElementOfSeq, LenProperties
<1>2. PICK c, d : c = e[n] /\ d = e[m]
  OBVIOUS
<1>3. /\ c \in Nat /\ d \in Nat /\ d <= Len(sq) /\ d = c + Len(Septets(ch))
      /\ \A j \in 1 .. Len(Septets(ch)) : sq[c + j] = Septets(ch)[j]
      /\ sq \in Seq(Septet)
  BY <1>1, <1>2, Zenon DEF EncodedAs
<1>4. a \in DecodeStates /\ a.count = c
  BY <1>2 DEF DecodeInv
<1>5. Len(sq) \in Nat
  BY <1>3, LenProperties
<1> DEFINE b == decode_body(sq)[a]
<1>6. b = IF a.count >= Len(sq) THEN a
          ELSE IF at(a.count) = Escape
            THEN [text |-> Append(a.text, Unescaped(at(a.count + 1))), count |-> a.count + 2]
            ELSE [text |-> Append(a.text, Byte(at(a.count))), count |-> a.count + 1]
  BY <1>4 DEF decode_body, DecodeStates
<1> HIDE DEF b, m, ch
<1>7. a.text \in Seq(Nat) /\ Len(a.text) = n /\ \A j \in 1 .. n : a.text[j] = text[j]
  BY <1>4 DEF DecodeInv, DecodeStates
<1>8. b = [text |-> Append(a.text, ch), count |-> d]
  <2>1. StandsFor(Septets(ch), ch)
    BY <1>1, SeptetsStand
  <2>2. CASE \E x \in Septet : x # Escape /\ Septets(ch) = <<x>> /\ Byte(x) = ch
    <3>1. PICK x \in Septet : x # Escape /\ Septets(ch) = <<x>> /\ Byte(x) = ch
      BY <2>2
    <3>2. Len(Septets(ch)) = 1 /\ Septets(ch)[1] = x
      BY <3>1
    <3>3. d = c + 1 /\ sq[c + 1] = x /\ c < Len(sq)
      BY <1>3, <1>5, <3>2
    <3>4. ~(c >= Len(sq)) /\ at(c) = x
      BY <1>3, <1>5, <3>3
    <3> QED
      BY <1>4, <1>6, <3>1, <3>3, <3>4, Zenon
  <2>3. CASE \E x \in Septet : Septets(ch) = <<Escape, x>> /\ Unescaped(x) = ch
    <3>1. PICK x \in Septet : Septets(ch) = <<Escape, x>> /\ Unescaped(x) = ch
      BY <2>3
    <3>2. Len(Septets(ch)) = 2 /\ Septets(ch)[1] = Escape /\ Septets(ch)[2] = x
      BY <3>1
    <3>3. d = c + 2 /\ sq[c + 1] = Escape /\ sq[c + 2] = x /\ c + 1 < Len(sq)
      BY <1>3, <1>5, <3>2
    <3>4. ~(c >= Len(sq)) /\ at(c) = Escape /\ at(c + 1) = x
      BY <1>3, <1>5, <3>3
    <3> QED
      BY <1>4, <1>6, <3>1, <3>3, <3>4, Zenon
  <2> QED
    BY <2>1, <2>2, <2>3 DEF StandsFor
<1>9. ch \in Nat
  BY <1>1 DEF Alphabet
<1>10. b.text = Append(a.text, ch) /\ b.count = d /\ b \in DecodeStates
  BY <1>3, <1>7, <1>8, <1>9 DEF DecodeStates
<1>11. /\ Len(b.text) = m /\ \A j \in 1 .. n : b.text[j] = text[j]
       /\ b.text[m] = ch
  BY <1>7, <1>9, <1>10 DEF m
<1>12. \A j \in 1 .. m : b.text[j] = text[j]
  <2>1. \A j \in 1 .. m : j \in 1 .. n \/ j = m
    BY DEF m
  <2> QED
    BY <1>11, <2>1 DEF ch
<1> QED
  BY <1>2, <1>10, <1>11, <1>12 DEF DecodeInv, m, b

\* decode_alphabet reads what encode_alphabet wrote, escapes included.
THEOREM DecodeIsInverse ==
  ASSUME NEW text \in Seq(Alphabet)
  PROVE  decode_alphabet(encode_alphabet(text)) = text
<1> DEFINE sq == encode_alphabet(text)
           L == Len(text)
           start == [text |-> <<>>, count |-> 0]
           at(k) == Rounds(decode_body(sq), start, k)
<1>1. PICK e : EncodedAs(text, sq, e)
  BY EncodedAlphabet
<1> HIDE DEF sq
<1>2. L \in Nat /\ sq \in Seq(Septet) /\ Len(sq) \in Nat /\ L <= Len(sq) /\ e[0] = 0
      /\ e[L] = Len(sq)
  BY <1>1, LenProperties DEF EncodedAs
<1>3. at(0) = start /\ \A k \in Nat : at(k + 1) = decode_body(sq)[at(k)]
  BY RoundsDef
<1> HIDE DEF at
<1> DEFINE I == {k \in Nat : k <= L => DecodeInv(text, e, k, at(k))}
<1>4. 0 \in I
  <2>1. start \in DecodeStates /\ Len(start.text) = 0 /\ start.count = 0
    BY DEF DecodeStates
  <2>2. 1 .. 0 = {}
    OBVIOUS
  <2>3. DecodeInv(text, e, 0, start)
    BY <1>2, <2>1, <2>2, Zenon DEF DecodeInv
  <2> QED
    BY <1>3, <2>3
<1>5. ASSUME NEW k \in Nat, k \in I PROVE k + 1 \in I
  <2> SUFFICES ASSUME k + 1 <= L PROVE DecodeInv(text, e, k + 1, at(k + 1))
    OBVIOUS
  <2>1. DecodeInv(text, e, k, at(k))
    BY <1>2, <1>5
  <2>2. PICK a : a = at(k)
    OBVIOUS
  <2>3. DecodeInv(text, e, k + 1, decode_body(sq)[a])
    BY <1>1, <2>1, <2>2, DecodeRound
  <2> QED
    BY <1>3, <2>2, <2>3
<1> HIDE DEF I
<1>6. \A k \in Nat : k \in I
  BY <1>4, <1>5, AllNumbers
<1>7. DecodeInv(text, e, L, at(L))
  BY <1>2, <1>6 DEF I
<1>8. decode_body(sq)[at(L)] = at(L)
  <2>1. at(L) \in DecodeStates /\ at(L).count >= Len(sq)
    BY <1>2, <1>7 DEF DecodeInv
  <2> QED
    BY <2>1 DEF decode_body, DecodeStates
<1>9. at(Len(sq)) = at(L)
  BY <1>2, <1>8, RoundsStay DEF at
<1>10. at(L).text = text
  <2>1. at(L).text \in Seq(Nat) /\ Len(at(L).text) = L
        /\ \A j \in 1 .. L : at(L).text[j] = text[j]
    BY <1>7 DEF DecodeInv, DecodeStates
  <2>2. PICK t : t = at(L).text
    OBVIOUS
  <2>3. t \in Seq(Nat) /\ Len(t) = Len(text) /\ \A j \in 1 .. Len(text) : t[j] = text[j]
    BY <2>1, <2>2
  <2>4. t = text
    BY <2>3, SeqEqual
  <2> QED
    BY <2>2, <2>4
<1> QED
  BY <1>9, <1>10 DEF decode_alphabet, at, sq

-----------------------------------------------------------------------------
(* Numbers.                                                                *)

\* The digits by their letters.
LEMMA HexDigitsAre ==
  HexDigits = {"0", "1", "2", "3", "4", "5", "6", "7", "8", "9", "A", "B", "C", "D", "E", "F"}
<1>1. /\ DOMAIN Digits = 1 .. 16
      /\ Digits[1] = "0" /\ Digits[2] = "1" /\ Digits[3] = "2" /\ Digits[4] = "3"
      /\ Digits[5] = "4" /\ Digits[6] = "5" /\ Digits[7] = "6" /\ Digits[8] = "7"
      /\ Digits[9] = "8" /\ Digits[10] = "9" /\ Digits[11] = "A" /\ Digits[12] = "B"
      /\ Digits[13] = "C" /\ Digits[14] = "D" /\ Digits[15] = "E" /\ Digits[16] = "F"
  BY DEF Digits
<1>2. 1 .. 16 = {1, 2, 3, 4, 5, 6, 7, 8, 9, 10, 11, 12, 13, 14, 15, 16}
  OBVIOUS
<1> QED
  BY <1>1, <1>2 DEF HexDigits

\* The value of a digit finds the digit again.
LEMMA HexOfDigit ==
  ASSUME NEW d \in HexDigits
  PROVE  Hex(d) \in 0 .. 15 /\ Digits[Hex(d) + 1] = d
<1> DEFINE ks == {k \in DOMAIN Digits : Digits[k] = d}
<1>1. DOMAIN Digits = 1 .. 16
  BY DEF Digits
<1>2. \E k \in 1 .. 16 : Digits[k] = d
  BY <1>1 DEF HexDigits
<1>3. PICK k : k = CHOOSE x \in DOMAIN Digits : Digits[x] = d
  OBVIOUS
<1>4. k \in DOMAIN Digits /\ Digits[k] = d
  BY <1>1, <1>2, <1>3
<1>5. Hex(d) = k - 1
  BY <1>3 DEF Hex
<1> QED
  BY <1>1, <1>4, <1>5

\* Two digits in an octet.
LEMMA NibblesOfOctet ==
  ASSUME NEW a \in 0 .. 15, NEW b \in 0 .. 15
  PROVE  /\ 16 * a + b \in Octet
         /\ (16 * a + b) % 16 = b /\ (16 * a + b) \div 16 = a
BY DEF Octet

\* Digits filled up to an even number of them.
Even(ds) == IF Len(ds) % 2 = 1 THEN Append(ds, "F") ELSE ds

\* There are then two for each octet.
LEMMA EvenType ==
  ASSUME NEW ds \in Seq(HexDigits)
  PROVE  /\ Even(ds) \in Seq(HexDigits)
         /\ \E n \in Nat : Len(Even(ds)) = 2 * n /\ n = (Len(ds) + 1) \div 2
                           /\ Len(Even(ds)) \div 2 = n
<1>1. Len(ds) \in Nat
  OBVIOUS
<1>2. CASE Len(ds) % 2 = 1
  <2>1. "F" \in HexDigits
    BY HexDigitsAre
  <2>2. Even(ds) = Append(ds, "F") /\ Len(Even(ds)) = Len(ds) + 1 /\ Even(ds) \in Seq(HexDigits)
    BY <1>2, <2>1 DEF Even
  <2>3. PICK n \in Nat : Len(ds) + 1 = 2 * n
    <3>1. (Len(ds) + 1) \div 2 \in Nat /\ Len(ds) + 1 = 2 * ((Len(ds) + 1) \div 2)
      BY <1>1, <1>2
    <3> QED
      BY <3>1
  <2> QED
    BY <2>2, <2>3
<1>3. CASE Len(ds) % 2 # 1
  <2>1. Even(ds) = ds
    BY <1>3 DEF Even
  <2>2. PICK n \in Nat : Len(ds) = 2 * n
    <3>1. Len(ds) \div 2 \in Nat /\ Len(ds) = 2 * (Len(ds) \div 2)
      BY <1>1, <1>3
    <3> QED
      BY <3>1
  <2>3. (Len(ds) + 1) \div 2 = n
    BY <2>2
  <2> QED
    BY <2>1, <2>2, <2>3
<1> QED
  BY <1>2, <1>3

\* Hex2Bcd puts two digits in an octet, the first in its low half.
LEMMA Hex2BcdType ==
  ASSUME NEW ds \in Seq(HexDigits)
  PROVE  /\ Hex2Bcd(ds) \in Seq(Octet) /\ Len(Hex2Bcd(ds)) = (Len(ds) + 1) \div 2
         /\ Len(Even(ds)) = 2 * Len(Hex2Bcd(ds))
         /\ \A k \in 1 .. Len(Hex2Bcd(ds)) :
              /\ Digits[(Hex2Bcd(ds)[k] % 16) + 1] = Even(ds)[2 * k - 1]
              /\ Digits[(Hex2Bcd(ds)[k] \div 16) + 1] = Even(ds)[2 * k]
<1>1. Hex2Bcd(ds) = [k \in 1 .. Len(Even(ds)) \div 2 |->
                       16 * Hex(Even(ds)[2 * k]) + Hex(Even(ds)[2 * k - 1])]
  BY DEF Hex2Bcd, Even
<1>2. Even(ds) \in Seq(HexDigits)
  BY EvenType
<1>3. PICK n \in Nat : Len(Even(ds)) = 2 * n /\ n = (Len(ds) + 1) \div 2
                       /\ Len(Even(ds)) \div 2 = n
  BY EvenType
<1>4. ASSUME NEW k \in 1 .. n
      PROVE  LET o == 16 * Hex(Even(ds)[2 * k]) + Hex(Even(ds)[2 * k - 1])
             IN  /\ o \in Octet
                 /\ Digits[(o % 16) + 1] = Even(ds)[2 * k - 1]
                 /\ Digits[(o \div 16) + 1] = Even(ds)[2 * k]
  <2>1. 2 * k \in 1 .. 2 * n /\ 2 * k - 1 \in 1 .. 2 * n
    OBVIOUS
  <2>2. PICK x, y : x = Even(ds)[2 * k] /\ y = Even(ds)[2 * k - 1]
    OBVIOUS
  <2>3. x \in HexDigits /\ y \in HexDigits
    BY <1>2, <1>3, <2>1, <2>2, ElementOfSeq
  <2>4. PICK a, b : a = Hex(x) /\ b = Hex(y)
    OBVIOUS
  <2>5. a \in 0 .. 15 /\ b \in 0 .. 15 /\ Digits[a + 1] = x /\ Digits[b + 1] = y
    BY <2>3, <2>4, HexOfDigit
  <2>6. PICK o : o = 16 * a + b
    OBVIOUS
  <2>7. o \in Octet /\ o % 16 = b /\ o \div 16 = a
    BY <2>5, <2>6, NibblesOfOctet
  <2>8. o \in Octet /\ Digits[(o % 16) + 1] = y /\ Digits[(o \div 16) + 1] = x
    BY <2>5, <2>7, Zenon
  <2> QED
    BY <2>2, <2>4, <2>6, <2>8, Zenon
<1> DEFINE os == Hex2Bcd(ds)
<1>5. os \in [1 .. n -> Octet]
  BY <1>1, <1>3, <1>4
<1>6. os \in Seq(Octet) /\ Len(os) = n
  BY <1>5
<1>7. ASSUME NEW k \in 1 .. n
      PROVE  /\ Digits[(os[k] % 16) + 1] = Even(ds)[2 * k - 1]
             /\ Digits[(os[k] \div 16) + 1] = Even(ds)[2 * k]
  <2>1. os[k] = 16 * Hex(Even(ds)[2 * k]) + Hex(Even(ds)[2 * k - 1])
    BY <1>1, <1>3
  <2> QED
    BY <1>4, <2>1, Zenon
<1> QED
  BY <1>3, <1>6, <1>7

\* Bcd2Hex reads the digits that Hex2Bcd wrote, the filling digit excepted.
THEOREM BcdIsInverse ==
  ASSUME NEW ds \in Seq(HexDigits), \A k \in 1 .. Len(ds) : ds[k] # "F"
  PROVE  Bcd2Hex(Hex2Bcd(ds)) = ds
<1> DEFINE os == Hex2Bcd(ds)
           n == Len(os)
           pairs == [k \in DOMAIN os |-> <<Digits[(os[k] % 16) + 1], Digits[(os[k] \div 16)
             + 1]>>]
           even == Even(ds)
           flat == FlattenSeq(pairs)
<1>1. /\ os \in Seq(Octet) /\ Len(even) = 2 * n /\ n \in Nat
      /\ \A k \in 1 .. n : /\ Digits[(os[k] % 16) + 1] = even[2 * k - 1]
                           /\ Digits[(os[k] \div 16) + 1] = even[2 * k]
  BY Hex2BcdType, LenProperties
<1>2. even \in Seq(HexDigits)
  BY EvenType
<1>3. Bcd2Hex(os) = IF flat # <<>> /\ Last(flat) = "F" THEN Front(flat) ELSE flat
  BY DEF Bcd2Hex
<1>4. DOMAIN os = 1 .. n
  BY <1>1, LenProperties
<1>5. \A k \in 1 .. n : pairs[k] = <<even[2 * k - 1], even[2 * k]>>
  BY <1>1, <1>4
<1>6. DOMAIN pairs = 1 .. n
  BY <1>4
<1> HIDE DEF os, even, pairs
<1>7. \A k \in 1 .. n : even[2 * k - 1] \in HexDigits /\ even[2 * k] \in HexDigits
  <2> SUFFICES ASSUME NEW k \in 1 .. n
               PROVE  even[2 * k - 1] \in HexDigits /\ even[2 * k] \in HexDigits
    OBVIOUS
  <2>1. 2 * k - 1 \in 1 .. Len(even) /\ 2 * k \in 1 .. Len(even)
    BY <1>1
  <2> QED
    BY <1>2, <2>1, ElementOfSeq
<1>8. /\ pairs \in Seq(Seq(HexDigits)) /\ Len(pairs) = n
      /\ \A k \in 1 .. n : /\ Len(pairs[k]) = 2
                           /\ pairs[k][1] = even[2 * k - 1] /\ pairs[k][2] = even[2 * k]
  <2>1. ASSUME NEW k \in 1 .. n
        PROVE  pairs[k] \in Seq(HexDigits) /\ Len(pairs[k]) = 2
               /\ pairs[k][1] = even[2 * k - 1] /\ pairs[k][2] = even[2 * k]
    <3>1. PICK x, y : x = even[2 * k - 1] /\ y = even[2 * k]
      OBVIOUS
    <3>2. x \in HexDigits /\ y \in HexDigits /\ pairs[k] = <<x, y>>
      BY <1>5, <1>7, <3>1
    <3>3. <<x, y>> \in Seq(HexDigits) /\ Len(<<x, y>>) = 2 /\ <<x, y>>[1] = x /\ <<x, y>>[2] = y
      BY <3>2
    <3> QED
      BY <3>1, <3>2, <3>3, Zenon
  <2>2. pairs = [k \in 1 .. n |-> pairs[k]]
    BY <1>6 DEF pairs
  <2> QED
    BY <1>1, <2>1, <2>2
<1>9. flat \in Seq(HexDigits) /\ \E e : Places(pairs, flat, e)
  BY <1>8, FlatPlaces
<1> HIDE DEF flat
<1>10. /\ Len(flat) = 2 * n
       /\ \A k \in 1 .. n : flat[2 * k - 1] = pairs[k][1] /\ flat[2 * k] = pairs[k][2]
  <2>1. \A k \in 1 .. Len(pairs) : Len(pairs[k]) = 2
    BY <1>8
  <2>2. PICK e : Places(pairs, flat, e)
    BY <1>9
  <2>3. /\ Len(flat) = 2 * Len(pairs)
        /\ \A k \in 1 .. Len(pairs) : flat[2 * k - 1] = pairs[k][1] /\ flat[2 * k] = pairs[k][2]
    <3>1. pairs \in Seq(Seq(HexDigits))
      BY <1>8
    <3> QED
      BY <2>1, <2>2, <3>1, PlacesPairs
  <2> QED
    BY <1>8, <2>3
<1>11. \A j \in 1 .. Len(flat) : flat[j] = even[j]
  <2> SUFFICES ASSUME NEW j \in 1 .. 2 * n PROVE flat[j] = even[j]
    BY <1>10
  <2>1. \E k \in 1 .. n : j = 2 * k \/ j = 2 * k - 1
    <3>1. (j + 1) \div 2 \in 1 .. n
          /\ (j = 2 * ((j + 1) \div 2) \/ j = 2 * ((j + 1) \div 2) - 1)
      BY <1>1
    <3> QED
      BY <3>1
  <2>2. PICK k \in 1 .. n : j = 2 * k \/ j = 2 * k - 1
    BY <2>1
  <2>3. flat[2 * k - 1] = even[2 * k - 1] /\ flat[2 * k] = even[2 * k]
    BY <1>8, <1>10
  <2> QED
    BY <2>2, <2>3
<1>12. flat = even
  BY <1>1, <1>2, <1>9, <1>10, <1>11, SeqEqual
<1>13. Len(ds) \in Nat /\ DOMAIN ds = 1 .. Len(ds)
  BY LenProperties
<1>14. CASE Len(ds) % 2 = 1
  <2>1. even = Append(ds, "F")
    BY <1>14 DEF even, Even
  <2>2. Append(ds, "F") # <<>> /\ Last(Append(ds, "F")) = "F" /\ Front(Append(ds, "F")) = ds
    <3>1. "F" \in HexDigits
      BY HexDigitsAre
    <3>2. /\ Append(ds, "F") \in Seq(HexDigits) /\ Len(Append(ds, "F")) = Len(ds) + 1
          /\ Append(ds, "F")[Len(ds) + 1] = "F" /\ Append(ds, "F") # <<>>
          /\ \A j \in 1 .. Len(ds) : Append(ds, "F")[j] = ds[j]
      BY <1>13, <3>1
    <3>3. SubSeq(Append(ds, "F"), 1, Len(ds)) = ds
      BY <1>13
    <3> QED
      BY <1>13, <3>2, <3>3 DEF Last, Front
  <2> QED
    BY <1>3, <1>12, <2>1, <2>2, Zenon DEF os
<1>15. CASE Len(ds) % 2 # 1
  <2>1. even = ds
    BY <1>15 DEF even, Even
  <2>2. ds # <<>> => Last(ds) # "F"
    BY <1>13 DEF Last
  <2> QED
    BY <1>3, <1>12, <2>1, <2>2, Zenon DEF os
<1> QED
  BY <1>14, <1>15

\* A digit and what stands for it.
Swapped(d, from, to) ==
  IF \E x \in DOMAIN from : from[x] = d
    THEN to[CHOOSE x \in DOMAIN from : from[x] = d] ELSE d

\* What is dialled, and the letters that stand for what is no digit.
DialSet == DialDigits \cup {"*", "#"}
Letters == <<"A", "B", "C", "D", "E">>
Signs == <<"*", "#", "a", "b", "c">>

\* A key of the number survives the two swaps.
LEMMA SwapKeys ==
  ASSUME NEW d \in DialSet
  PROVE  /\ Swapped(d, Keys, <<"A", "B">>) \in HexDigits \ {"F"}
         /\ Swapped(Swapped(d, Keys, <<"A", "B">>), Letters, Signs) = d
<1>1. DOMAIN Keys = 1 .. 2 /\ Keys[1] = "*" /\ Keys[2] = "#"
  BY DEF Keys
<1>2. PICK c : c = CHOOSE x \in DOMAIN Keys : Keys[x] = d
  OBVIOUS
<1>3. PICK e : e = CHOOSE x \in DOMAIN Letters : Letters[x] = "A"
  OBVIOUS
<1>4. PICK f : f = CHOOSE x \in DOMAIN Letters : Letters[x] = "B"
  OBVIOUS
<1>5. /\ DOMAIN Letters = 1 .. 5 /\ Letters[1] = "A" /\ Letters[2] = "B" /\ Letters[3] = "C"
      /\ Letters[4] = "D" /\ Letters[5] = "E" /\ Signs[1] = "*" /\ Signs[2] = "#"
  BY DEF Letters, Signs
<1>6. e \in 1 .. 5 /\ Letters[e] = "A" /\ f \in 1 .. 5 /\ Letters[f] = "B"
  <2>1. 1 \in DOMAIN Letters /\ 2 \in DOMAIN Letters
    BY <1>5
  <2>2. e \in DOMAIN Letters /\ Letters[e] = "A"
    BY <1>3, <1>5, <2>1, Zenon
  <2>3. f \in DOMAIN Letters /\ Letters[f] = "B"
    BY <1>4, <1>5, <2>1, Zenon
  <2> QED
    BY <1>5, <2>2, <2>3
<1>7. e = 1 /\ f = 2
  <2>1. e \in {1, 2, 3, 4, 5} /\ f \in {1, 2, 3, 4, 5}
    BY <1>6
  <2> QED
    BY <1>5, <1>6, <2>1
<1>8. Swapped("A", Letters, Signs) = "*" /\ Swapped("B", Letters, Signs) = "#"
  <2>1. Swapped("A", Letters, Signs) = Signs[e]
    BY <1>3, <1>5, <1>6 DEF Swapped
  <2>2. Swapped("B", Letters, Signs) = Signs[f]
    BY <1>4, <1>5, <1>6 DEF Swapped
  <2> QED
    BY <1>5, <1>7, <2>1, <2>2
<1>9. CASE d \in {"*", "#"}
  <2>1. \E x \in DOMAIN Keys : Keys[x] = d
    BY <1>1, <1>9
  <2>2. c \in DOMAIN Keys /\ Keys[c] = d
    BY <1>2, <2>1, Zenon
  <2>3. c \in {1, 2}
    BY <1>1, <2>2
  <2>4. Swapped(d, Keys, <<"A", "B">>) = <<"A", "B">>[c]
    BY <1>2, <2>1 DEF Swapped
  <2>5. (d = "*" /\ c = 1) \/ (d = "#" /\ c = 2)
    BY <1>1, <1>9, <2>2, <2>3
  <2> QED
    BY <1>8, <2>4, <2>5, HexDigitsAre
<1>10. CASE d \notin {"*", "#"}
  <2>1. ~ \E x \in DOMAIN Keys : Keys[x] = d
    BY <1>1, <1>10
  <2>2. d \in DialDigits /\ Swapped(d, Keys, <<"A", "B">>) = d
    BY <1>10, <2>1 DEF Swapped, DialSet
  <2>3. ~ \E x \in DOMAIN Letters : Letters[x] = d
    BY <2>2 DEF Letters, DialDigits
  <2>4. Swapped(d, Letters, Signs) = d
    BY <2>3 DEF Swapped
  <2> QED
    BY <2>2, <2>4, HexDigitsAre DEF DialDigits
<1> QED
  BY <1>9, <1>10

\* A digit is never swapped.
LEMMA SwapDigits ==
  ASSUME NEW d \in DialDigits \cup {"+"}
  PROVE  Swapped(d, Letters, Signs) = d
<1>1. ~ \E x \in DOMAIN Letters : Letters[x] = d
  BY DEF Letters, DialDigits
<1> QED
  BY <1>1 DEF Swapped

\* A swap, letter by letter.
LEMMA SwapIs ==
  ASSUME NEW T, NEW ds \in Seq(T), NEW from, NEW to
  PROVE  Swap(ds, from, to) = [k \in 1 .. Len(ds) |-> Swapped(ds[k], from, to)]
<1>1. DOMAIN ds = 1 .. Len(ds)
  OBVIOUS
<1> QED
  BY <1>1 DEF Swap, Swapped

\* The keys * and # survive as letters.
LEMMA KeysSurvive ==
  ASSUME NEW ds \in Seq(DialSet)
  PROVE  LET bcd == Swap(ds, Keys, <<"A", "B">>)
         IN  /\ bcd \in Seq(HexDigits) /\ Len(bcd) = Len(ds)
             /\ \A k \in 1 .. Len(bcd) : bcd[k] # "F"
             /\ Dialled(bcd) = ds
<1> DEFINE bcd == Swap(ds, Keys, <<"A", "B">>)
<1>1. Len(ds) \in Nat /\ \A k \in 1 .. Len(ds) : ds[k] \in DialSet
  OBVIOUS
<1>2. bcd = [k \in 1 .. Len(ds) |-> Swapped(ds[k], Keys, <<"A", "B">>)]
  BY SwapIs
<1>3. \A k \in 1 .. Len(ds) :
        /\ bcd[k] \in HexDigits \ {"F"} /\ Swapped(bcd[k], Letters, Signs) = ds[k]
  BY <1>1, <1>2, SwapKeys
<1>4. bcd \in Seq(HexDigits) /\ Len(bcd) = Len(ds)
  BY <1>1, <1>2, <1>3
<1> HIDE DEF bcd
<1>5. Dialled(bcd) = [k \in 1 .. Len(bcd) |-> Swapped(bcd[k], Letters, Signs)]
  <2>1. Dialled(bcd) = Swap(bcd, Letters, Signs)
    BY Zenon DEF Dialled, Letters, Signs
  <2> QED
    BY <1>4, <2>1, SwapIs
<1>6. Dialled(bcd) = ds
  BY <1>1, <1>3, <1>4, <1>5
<1> QED
  BY <1>3, <1>4, <1>6 DEF bcd

\* A number of digits is read as it is.
LEMMA DigitsSurvive ==
  ASSUME NEW ds \in Seq(DialDigits \cup {"+"})
  PROVE  Dialled(ds) = ds
<1>1. Dialled(ds) = [k \in 1 .. Len(ds) |-> Swapped(ds[k], Letters, Signs)]
  <2>1. Dialled(ds) = Swap(ds, Letters, Signs)
    BY Zenon DEF Dialled, Letters, Signs
  <2> QED
    BY <2>1, SwapIs
<1>2. Len(ds) \in Nat /\ \A k \in 1 .. Len(ds) : ds[k] \in DialDigits \cup {"+"}
  OBVIOUS
<1>3. \A k \in 1 .. Len(ds) : Swapped(ds[k], Letters, Signs) = ds[k]
  BY <1>2, SwapDigits
<1> QED
  BY <1>1, <1>2, <1>3

\* An address: how many digits, their type, the octets, and the digits in these.
AddressOf(num, len, type, os, ds) ==
  /\ len \in Nat /\ type \in Octet /\ os \in Seq(Octet) /\ ds \in Seq(HexDigits \cup {"+"})
  /\ Address(num) = <<len, type>> \o os
  /\ Len(os) = (len + 1) \div 2 /\ (len = 0 <=> num = <<>>)
  /\ Bcd2Hex(os) = ds
  /\ (IF HasBit(type, International) THEN <<"+">> ELSE <<>>) \o ds \in Seq(HexDigits \cup {"+"})
  /\ Dialled((IF HasBit(type, International) THEN <<"+">> ELSE <<>>) \o ds) = num

\* The address of a number holds it.
LEMMA AddressHolds ==
  ASSUME NEW num, IsNumber(num), num # <<"+">>
  PROVE  \E len, type, os, ds : AddressOf(num, len, type, os, ds)
<1>1. DialDigits \subseteq HexDigits \ {"F"}
  BY HexDigitsAre DEF DialDigits
<1>2. CASE num \in Seq(DialSet)
  <2> DEFINE bcd == Swap(num, Keys, <<"A", "B">>)
             type == IF \E k \in DOMAIN num : num[k] \in {"*", "#"} THEN 129 ELSE 161
  <2>1. /\ bcd \in Seq(HexDigits) /\ Len(bcd) = Len(num) /\ Len(num) \in Nat
        /\ \A k \in 1 .. Len(bcd) : bcd[k] # "F"
        /\ Dialled(bcd) = num
    BY <1>2, KeysSurvive, LenProperties
  <2>2. /\ Hex2Bcd(bcd) \in Seq(Octet) /\ Len(Hex2Bcd(bcd)) = (Len(bcd) + 1) \div 2
        /\ Bcd2Hex(Hex2Bcd(bcd)) = bcd
    BY <2>1, Hex2BcdType, BcdIsInverse
  <2>3. ~(num # <<>> /\ Head(num) = "+")
    <3>1. num # <<>> => Head(num) \in DialSet
      BY <1>2
    <3>2. "+" \notin DialSet
      BY DEF DialSet, DialDigits
    <3> QED
      BY <3>1, <3>2
  <2>4. Address(num) = <<Len(num), type>> \o Hex2Bcd(bcd)
    BY <2>3 DEF Address
  <2>5. type \in Octet /\ ~HasBit(type, International)
    BY DEF Octet, HasBit, International
  <2> HIDE DEF type, bcd
  <2>6. bcd \in Seq(HexDigits \cup {"+"})
    BY <2>1, HexDigits \subseteq HexDigits \cup {"+"}, SeqMonotonic
  <2>7. <<>> \o bcd = bcd
    BY <2>1
  <2>8. Len(num) = 0 <=> num = <<>>
    BY <1>2
  <2>9. (IF HasBit(type, International) THEN <<"+">> ELSE <<>>) \o bcd = bcd
    BY <2>5, <2>7, Zenon
  <2>10. AddressOf(num, Len(num), type, Hex2Bcd(bcd), bcd)
    BY <2>1, <2>2, <2>4, <2>5, <2>6, <2>8, <2>9, Zenon DEF AddressOf
  <2> QED
    BY <2>10
<1>3. CASE /\ num \in Seq(DialDigits \cup {"+"}) /\ num # <<>>
           /\ Head(num) = "+" /\ Tail(num) \in Seq(DialDigits)
  <2> DEFINE ds == Tail(num)
  <2>1. ds \in Seq(HexDigits) /\ \A k \in 1 .. Len(ds) : ds[k] # "F"
    <3>1. DialDigits \subseteq HexDigits
      BY <1>1
    <3>2. ds \in Seq(HexDigits)
      BY <1>3, <3>1, SeqMonotonic
    <3>3. \A k \in 1 .. Len(ds) : ds[k] \in DialDigits
      BY <1>3, ElementOfSeq
    <3> QED
      BY <1>1, <3>2, <3>3
  <2>2. /\ Hex2Bcd(ds) \in Seq(Octet) /\ Len(Hex2Bcd(ds)) = (Len(ds) + 1) \div 2
        /\ Bcd2Hex(Hex2Bcd(ds)) = ds
    BY <2>1, Hex2BcdType, BcdIsInverse
  <2>3. num = <<"+">> \o ds /\ Len(ds) = Len(num) - 1 /\ Len(num) \in Nat /\ Len(num) >= 1
    BY <1>3
  <2>4. Len(ds) # 0
    BY <1>3, <2>3
  <2>5. Address(num) = <<Len(ds), 145>> \o Hex2Bcd(ds)
    BY <1>3, <2>3 DEF Address
  <2>6. 145 \in Octet /\ HasBit(145, International)
    BY DEF Octet, HasBit, International
  <2>7. Dialled(num) = num
    BY <1>3, DigitsSurvive
  <2> HIDE DEF ds
  <2>8. ds \in Seq(HexDigits \cup {"+"}) /\ num \in Seq(HexDigits \cup {"+"}) /\ Len(ds) \in Nat
    <3>1. HexDigits \subseteq HexDigits \cup {"+"}
          /\ DialDigits \cup {"+"} \subseteq HexDigits \cup {"+"}
      BY <1>1
    <3>2. ds \in Seq(HexDigits \cup {"+"}) /\ num \in Seq(HexDigits \cup {"+"})
      BY <1>3, <2>1, <3>1, SeqMonotonic
    <3> QED
      BY <3>2, LenProperties
  <2>9. (IF HasBit(145, International) THEN <<"+">> ELSE <<>>) \o ds = num
    BY <2>3, <2>6, Zenon
  <2>10. AddressOf(num, Len(ds), 145, Hex2Bcd(ds), ds)
    BY <1>3, <2>2, <2>4, <2>5, <2>6, <2>7, <2>8, <2>9, Zenon DEF AddressOf
  <2> QED
    BY <2>10
<1> QED
  BY <1>2, <1>3 DEF IsNumber, DialSet

-----------------------------------------------------------------------------
(* What can be composed.                                                   *)

\* A key more leaves a number a number.
LEMMA PressComposed ==
  ASSUME NEW ds, IsNumber(ds), NEW key \in KeyPad,
         ~(key = "+" /\ ds # <<>>), ~(key \in {"*", "#"} /\ IsPrefix(<<"+">>, ds))
  PROVE  IsNumber(Append(ds, key))
<1> DEFINE Keyed == DialDigits \cup {"*", "#"}
<1>1. key \in DialDigits \cup {"+", "*", "#"}
  BY KeyPadAssumption
<1>2. CASE ds \in Seq(Keyed)
  <2>1. CASE key = "+"
    <3>1. ds = <<>> /\ Append(ds, key) = <<"+">>
      BY <2>1
    <3>2. <<"+">> # <<>> /\ Head(<<"+">>) = "+" /\ Tail(<<"+">>) = <<>>
      OBVIOUS
    <3>3. <<>> \in Seq(DialDigits) /\ <<"+">> \in Seq(DialDigits \cup {"+"})
      OBVIOUS
    <3> QED
      BY <3>1, <3>2, <3>3 DEF IsNumber
  <2>2. CASE key # "+"
    <3>1. key \in Keyed
      BY <1>1, <2>2
    <3>2. Append(ds, key) \in Seq(Keyed)
      BY <1>2, <3>1
    <3> QED
      BY <3>2 DEF IsNumber
  <2> QED
    BY <2>1, <2>2
<1>3. CASE /\ ds \in Seq(DialDigits \cup {"+"}) /\ ds # <<>>
           /\ Head(ds) = "+" /\ Tail(ds) \in Seq(DialDigits)
  <2>1. Len(ds) >= 1 /\ ds[1] = "+" /\ Len(ds) \in Nat
    BY <1>3
  <2>2. IsPrefix(<<"+">>, ds)
    <3>1. /\ SubSeq(ds, 1, 1) = <<"+">> /\ SubSeq(<<"+">>, 1, 1) = <<"+">>
          /\ Len(<<"+">>) = 1
      <4>1. SubSeq(ds, 1, 1) = [k \in 1 .. 1 |-> ds[1]]
        BY <1>3, <2>1
      <4>2. SubSeq(<<"+">>, 1, 1) = [k \in 1 .. 1 |-> "+"] /\ <<"+">> = [k \in 1 .. 1 |-> "+"]
        OBVIOUS
      <4> QED
        BY <2>1, <4>1, <4>2
    <3> QED
      BY <2>1, <3>1 DEF IsPrefix
  <2>3. key \in DialDigits
    BY <1>1, <1>3, <2>2
  <2>4. /\ Append(ds, key) \in Seq(DialDigits \cup {"+"}) /\ Append(ds, key) # <<>>
        /\ Head(Append(ds, key)) = "+"
    BY <1>3, <2>1, <2>3
  <2>5. Tail(Append(ds, key)) = Append(Tail(ds), key)
    BY <1>3, <2>1, <2>3
  <2>6. Append(Tail(ds), key) \in Seq(DialDigits)
    BY <1>3, <2>3
  <2> QED
    BY <2>4, <2>5, <2>6 DEF IsNumber
<1> QED
  BY <1>2, <1>3 DEF IsNumber

\* No sequences joined.
LEMMA NoneJoined == FlattenSeq(<<>>) = <<>>
<1>1. \A f : <<>> = [k \in DOMAIN <<>> |-> f[k]]
  OBVIOUS
<1> QED
  BY DEF FlattenSeq

\* An address has two octets at least, and the reply address is not empty.
LEMMA AddressType ==
  ASSUME NEW num, IsNumber(num), num # <<"+">>
  PROVE  Address(num) \in Seq(Octet \cup Nat) /\ Len(Address(num)) >= 2
<1>1. PICK len, type, os, ds : AddressOf(num, len, type, os, ds)
  BY AddressHolds
<1>2. /\ len \in Nat /\ type \in Octet /\ os \in Seq(Octet)
      /\ Address(num) = <<len, type>> \o os
  BY <1>1 DEF AddressOf
<1>3. os \in Seq(Octet \cup Nat)
  BY <1>2, Octet \subseteq Octet \cup Nat, SeqMonotonic
<1> QED
  BY <1>2, <1>3

\* The reply address is a number.
LEMMA ReplyIsNumber == IsNumber(ReplyNumber) /\ ReplyNumber # <<"+">> /\ ReplyNumber # <<>>
BY DEF IsNumber, ReplyNumber, DialDigits

\* The element with the reply address is known by its first octet.
LEMMA ReplyFirst == Reply[1] = 34
<1>1. Address(ReplyNumber) \in Seq(Octet \cup Nat) /\ Len(Address(ReplyNumber)) \in Nat
  BY AddressType, ReplyIsNumber, LenProperties
<1> QED
  BY <1>1 DEF Reply

\* What a user can compose key by key, and what the network can put before it: the
\* inductive invariant behind the theorems on messages.
THEOREM ComposedOnly == ExchangeSpec => []Composed
<1>1. ExchangeInit => Composed
  <2> SUFFICES ASSUME ExchangeInit PROVE Composed
    OBVIOUS
  <2>1. IsNumber(number) /\ chars \in Seq(Chars[kind]) /\ kind \in KindsOfText /\ header = <<>>
    BY DEF ExchangeInit, IsNumber
  <2>3. NumberFits(number)
    <3>1. number = <<>> /\ Len(<<>>) = 0
      BY EmptySeq DEF ExchangeInit
    <3> QED
      BY <3>1 DEF NumberFits, MAX_NUMBER_LENGTH
  <2>2. Fits(Sent)
    <3>1. chars = <<>> /\ Sent.units = <<>> /\ Sent.type \in {"ascii", "ucs2"}
      BY NoneJoined DEF ExchangeInit, Sent, Message
    <3>2. CASE Sent.type = "ucs2"
      <4>1. Coding(Sent) = Ucs2 /\ Ucs2 # Gsm7bit
        BY <3>2 DEF Coding, Ucs2, Gsm7bit
      <4> DEFINE wide == [k \in DOMAIN Sent.units |->
                            <<Sent.units[k] \div 256, Sent.units[k] % 256>>]
      <4>2. wide = <<>>
        BY <3>1
      <4>3. UserData(Sent) = <<2 * Len(Sent.units)>> \o FlattenSeq(wide)
        BY <4>1 DEF UserData
      <4>4. FlattenSeq(wide) = <<>> /\ Len(Sent.units) = 0
        BY <3>1, <4>2, NoneJoined
      <4> HIDE DEF wide
      <4>5. Head(UserData(Sent)) = 0
        BY <4>3, <4>4
      <4> QED
        BY <3>2, <4>5 DEF Fits, MAX_SMS_BYTES
    <3>3. CASE Sent.type = "ascii"
      <4>1. Coding(Sent) = Gsm7bit /\ Gsm7bit # Ucs2
        BY <3>1, <3>3 DEF Coding, Gsm7bit, Ucs2
      <4>2. encode_alphabet(Sent.units) = <<>>
        <5> DEFINE septets == [k \in DOMAIN Sent.units |-> Septets(Sent.units[k])]
        <5>1. septets = <<>> /\ encode_alphabet(Sent.units) = FlattenSeq(septets)
          BY <3>1 DEF encode_alphabet
        <5> HIDE DEF septets
        <5> QED
          BY <5>1, NoneJoined
      <4>3. UserData(Sent) = <<Len(<<>>)>> \o Pack(<<>>)
        <5>1. PICK septets : septets = encode_alphabet(Sent.units)
          OBVIOUS
        <5>2. UserData(Sent) = <<Len(septets)>> \o Pack(septets)
          BY <4>1, <5>1 DEF UserData
        <5> QED
          BY <4>2, <5>1, <5>2
      <4>4. Pack(<<>>) = PackBits(<<>>, 0) /\ Len(<<>>) = 0
        BY PackIsBits, EmptySeq
      <4>5. PackBits(<<>>, 0) = <<>>
        BY <4>4 DEF PackBits
      <4>6. Head(UserData(Sent)) = 0
        BY <4>3, <4>4, <4>5
      <4> QED
        BY <3>3, <4>6 DEF Fits, MAX_MESSAGE_LENGTH
    <3> QED
      BY <3>1, <3>2, <3>3
  <2> QED
    BY <2>1, <2>2, <2>3 DEF Composed
<1>2. Composed /\ [ExchangeNext]_exchangeVars => Composed'
  <2> SUFFICES ASSUME Composed, [ExchangeNext]_exchangeVars PROVE Composed'
    OBVIOUS
  <2>1. ASSUME NEW key \in KeyPad, PressKey(key) PROVE Composed'
    <3>1. IsNumber(number')
      BY <2>1, PressComposed DEF PressKey, Composed
    <3> QED
      BY <2>1, <3>1 DEF PressKey, Composed, Sent, Message
  <2>2. ASSUME NEW c \in Chars[kind], TypeChar(c) PROVE Composed'
    <3>1. chars' \in Seq(Chars[kind])
      BY <2>2 DEF TypeChar, Composed
    <3> QED
      BY <2>2, <3>1 DEF TypeChar, Composed, Sent, Message
  <2>3. ASSUME NEW len \in 1 .. MaxElement, AddElement(len) PROVE Composed'
    <3>1. chars # <<>>
      BY <2>3 DEF AddElement
    <3> QED
      BY <2>3, <3>1 DEF AddElement, Composed, Sent, Message
  <2>4. CASE AddReply
    <3>1. chars # <<>>
      BY <2>4 DEF AddReply
    <3>2. CASE header = <<>>
      <4>1. header' = <<Reply>>
        BY <2>4, <3>2 DEF AddReply
      <4> QED
        BY <2>4, <3>1, <4>1 DEF AddReply, Composed, Sent, Message
    <3>3. CASE header # <<>>
      <4>1. ASSUME header = <<Reply>> PROVE FALSE
        BY <2>4, <4>1, ReplyFirst DEF AddReply
      <4>2. PICK len \in 1 .. MaxElement :
              header = <<Opaque(len)>> \/ header = <<Opaque(len), Reply>>
        BY <3>3, <4>1 DEF Composed
      <4>3. header = <<Opaque(len)>>
        BY <2>4, <4>2 DEF AddReply
      <4>4. header' = <<Opaque(len), Reply>>
        <5>1. header' = Append(header, Reply)
          BY <2>4, Zenon DEF AddReply
        <5>2. PICK o, r : o = Opaque(len) /\ r = Reply
          OBVIOUS
        <5>3. Append(<<o>>, r) = <<o, r>>
          <6> DEFINE T == {o, r}
          <6>1. o \in T /\ r \in T
            OBVIOUS
          <6> HIDE DEF T
          <6>2. <<o>> \in Seq(T)
            BY <6>1
          <6>3. /\ Append(<<o>>, r) \in Seq(T) /\ Len(Append(<<o>>, r)) = 2
                /\ Append(<<o>>, r)[1] = o /\ Append(<<o>>, r)[2] = r
            BY <6>1, <6>2
          <6>4. <<o, r>> \in Seq(T) /\ Len(<<o, r>>) = 2
            BY <6>1
          <6>5. \A k \in 1 .. 2 : Append(<<o>>, r)[k] = <<o, r>>[k]
            <7>1. 1 .. 2 = {1, 2} /\ <<o, r>>[1] = o /\ <<o, r>>[2] = r
              OBVIOUS
            <7> QED
              BY <6>3, <7>1
          <6> QED
            BY <6>3, <6>4, <6>5, SeqEqual
        <5> QED
          BY <4>3, <5>1, <5>2, <5>3
      <4> QED
        BY <2>4, <3>1, <4>4 DEF AddReply, Composed, Sent, Message
    <3> QED
      BY <3>2, <3>3
  <2>5. CASE UNCHANGED exchangeVars
    BY <2>5 DEF exchangeVars, Composed, Sent, Message
  <2> QED
    BY <2>1, <2>2, <2>3, <2>4, <2>5 DEF ExchangeNext
<1> QED
  BY <1>1, <1>2, PTL DEF ExchangeSpec

-----------------------------------------------------------------------------
(* What is announced.                                                      *)

\* The first byte of a pair begins no other character.
LEMMA PairLeads ==
  ASSUME NEW b1, NEW b2, Pair(b1, b2)
  PROVE  b1 \in 129 .. 253
BY DEF Pair

\* The units of a text of ASCII are of the alphabet.
LEMMA AsciiChars ==
  ASSUME Composed, kind = "ascii"
  PROVE  Units \in Seq(Alphabet)
<1>1. \A c \in Chars["ascii"] : c \in Seq(Alphabet)
  <2> SUFFICES ASSUME NEW c \in Chars["ascii"] PROVE c \in Seq(Alphabet)
    OBVIOUS
  <2>1. PICK b \in Alphabet : c = <<b>>
    BY AsciiAssumption DEF SingleByte
  <2> QED
    BY <2>1
<1>2. chars \in Seq(Chars["ascii"])
  BY DEF Composed
<1>3. chars \in Seq(Seq(Alphabet))
  <2>1. Chars["ascii"] \subseteq Seq(Alphabet)
    BY <1>1
  <2> QED
    BY <1>2, <2>1, SeqMonotonic
<1> QED
  BY <1>3, FlatPlaces DEF Units

\* The characters of a text of KS C 5601 are bytes and pairs of bytes.
LEMMA KscChars ==
  ASSUME Composed, kind = "ksc5601"
  PROVE  /\ chars \in Seq(Seq(Octet))
         /\ \A k \in 1 .. Len(chars) : SingleByte(chars[k]) \/ PairOfBytes(chars[k])
<1>1. \A c \in Chars["ksc5601"] : SingleByte(c) \/ PairOfBytes(c)
  <2> SUFFICES ASSUME NEW c \in Chars["ksc5601"] PROVE SingleByte(c) \/ PairOfBytes(c)
    OBVIOUS
  <2> QED
    BY KscAssumption
<1>2. \A c \in Chars["ksc5601"] : c \in Seq(Octet)
  <2> SUFFICES ASSUME NEW c \in Chars["ksc5601"] PROVE c \in Seq(Octet)
    OBVIOUS
  <2>1. CASE SingleByte(c)
    <3>1. PICK b \in Alphabet : c = <<b>>
      BY <2>1 DEF SingleByte
    <3>2. b \in Octet
      BY DEF Octet, Alphabet
    <3> QED
      BY <3>1, <3>2
  <2>2. CASE PairOfBytes(c)
    <3>1. PICK b1, b2 \in Octet : c = <<b1, b2>>
      BY <2>2 DEF PairOfBytes
    <3> QED
      BY <3>1
  <2> QED
    BY <1>1, <2>1, <2>2
<1>3. chars \in Seq(Chars["ksc5601"])
  BY DEF Composed
<1>4. Chars["ksc5601"] \subseteq Seq(Octet)
  BY <1>2
<1>5. \A k \in 1 .. Len(chars) : chars[k] \in Chars["ksc5601"]
  BY <1>3, ElementOfSeq
<1> QED
  BY <1>1, <1>3, <1>4, <1>5, SeqMonotonic

\* The units of a text of UCS2 are sixteen bits, and none is zero.
LEMMA UcsChars ==
  ASSUME Composed, kind = "ucs2"
  PROVE  Units \in Seq(Unit)
<1>1. \A c \in Chars["ucs2"] : c \in Seq(Unit)
  <2> SUFFICES ASSUME NEW c \in Chars["ucs2"] PROVE c \in Seq(Unit)
    OBVIOUS
  <2>1. PICK b \in Unit : c = <<b>>
    BY Ucs2Assumption DEF SingleUnit
  <2> QED
    BY <2>1
<1>2. chars \in Seq(Chars["ucs2"])
  BY DEF Composed
<1>3. chars \in Seq(Seq(Unit))
  <2>1. Chars["ucs2"] \subseteq Seq(Unit)
    BY <1>1
  <2> QED
    BY <1>2, <2>1, SeqMonotonic
<1> QED
  BY <1>3, FlatPlaces DEF Units

\* A text of KS C 5601 without a byte over 127 has no pairs.
LEMMA NoPairs ==
  ASSUME Composed, kind = "ksc5601", ~ \E k \in DOMAIN Units : Units[k] >= 128
  PROVE  Units \in Seq(Alphabet)
<1>1. /\ chars \in Seq(Seq(Octet))
      /\ \A k \in 1 .. Len(chars) : SingleByte(chars[k]) \/ PairOfBytes(chars[k])
  BY KscChars
<1>2. PICK e : Places(chars, Units, e)
  BY <1>1, FlatPlaces DEF Units
<1>3. Units \in Seq(Octet)
  BY <1>1, FlatPlaces DEF Units
<1>4. ASSUME NEW k \in 1 .. Len(chars) PROVE chars[k] \in Seq(Alphabet)
  <2>1. CASE SingleByte(chars[k])
    <3>1. PICK b \in Alphabet : chars[k] = <<b>>
      BY <2>1 DEF SingleByte
    <3> QED
      BY <3>1
  <2>2. ASSUME PairOfBytes(chars[k]) PROVE FALSE
    <3>1. PICK b1, b2 \in Octet : Pair(b1, b2) /\ chars[k] = <<b1, b2>>
      BY <2>2 DEF PairOfBytes
    <3>2. Len(chars[k]) = 2 /\ chars[k][1] = b1 /\ b1 >= 128
      <4>1. b1 \in 129 .. 253
        BY <3>1, PairLeads
      <4>2. b1 >= 128
        BY <4>1
      <4> QED
        BY <3>1, <4>2
    <3>3. /\ e[k] = e[k - 1] + Len(chars[k]) /\ e[k] <= Len(Units)
          /\ \A j \in 1 .. Len(chars[k]) : Units[e[k - 1] + j] = chars[k][j]
          /\ e \in [0 .. Len(chars) -> Nat]
      BY <1>2 DEF Places
    <3>4. k - 1 \in 0 .. Len(chars) /\ Len(chars) \in Nat
      BY <1>1, LenProperties
    <3>5. PICK p : p = e[k - 1]
      OBVIOUS
    <3>6. p \in Nat /\ p + 2 <= Len(Units) /\ Units[p + 1] = b1
      <4>1. p \in Nat
        BY <3>3, <3>4, <3>5
      <4>2. /\ e[k] = p + 2 /\ e[k] <= Len(Units)
            /\ \A j \in 1 .. 2 : Units[p + j] = chars[k][j]
        BY <3>2, <3>3, <3>5, Zenon
      <4>3. 1 \in 1 .. 2
        OBVIOUS
      <4> QED
        BY <3>2, <4>1, <4>2, <4>3, Zenon
    <3>7. p + 1 \in DOMAIN Units
      BY <1>3, <3>6, LenProperties
    <3> QED
      BY <3>2, <3>6, <3>7
  <2> QED
    BY <1>1, <2>1, <2>2
<1>5. chars \in Seq(Seq(Alphabet))
  <2>1. chars = [k \in 1 .. Len(chars) |-> chars[k]] /\ Len(chars) \in Nat
    BY <1>1, LenProperties
  <2> QED
    BY <1>4, <2>1
<1> QED
  BY <1>5, FlatPlaces DEF Units

\* The coding of a text is that of its characters.
LEMMA CodingOfUnits ==
  ASSUME Composed
  PROVE  \/ Coding(Sent) = Gsm7bit /\ kind # "ucs2" /\ Units \in Seq(Alphabet)
         \/ Coding(Sent) = Ucs2 /\ kind = "ucs2" /\ Units \in Seq(Unit)
         \/ Coding(Sent) = Ksc5601 /\ kind = "ksc5601" /\ Units \in Seq(Octet)
<1>1. /\ Sent.units = Units /\ (Sent.type = "ucs2" <=> kind = "ucs2")
      /\ kind \in {"ascii", "ksc5601", "ucs2"}
  BY DEF Sent, Message, Units, Composed, KindsOfText
<1>2. CASE kind = "ascii"
  <2>1. Units \in Seq(Alphabet)
    BY <1>2, AsciiChars
  <2>2. ~ \E k \in DOMAIN Units : Units[k] >= 128
    <3>1. \A k \in DOMAIN Units : Units[k] \in Alphabet
      BY <2>1
    <3>2. \A b \in Alphabet : ~(b >= 128)
      BY DEF Alphabet
    <3> QED
      BY <3>1, <3>2
  <2> QED
    BY <1>1, <1>2, <2>1, <2>2 DEF Coding
<1>3. CASE kind = "ksc5601"
  <2>1. CASE \E k \in DOMAIN Units : Units[k] >= 128
    <3>1. Units \in Seq(Octet)
      BY <1>3, KscChars, FlatPlaces DEF Units
    <3> QED
      BY <1>1, <1>3, <2>1, <3>1 DEF Coding
  <2>2. CASE ~ \E k \in DOMAIN Units : Units[k] >= 128
    BY <1>1, <1>3, <2>2, NoPairs DEF Coding
  <2> QED
    BY <2>1, <2>2
<1>4. CASE kind = "ucs2"
  BY <1>1, <1>4, UcsChars DEF Coding
<1> QED
  BY <1>1, <1>2, <1>3, <1>4

\* One element before others.
LEMMA HeadOfOne ==
  ASSUME NEW T, NEW x \in T, NEW s \in Seq(T)
  PROVE  /\ <<x>> \o s \in Seq(T) /\ Len(<<x>> \o s) = Len(s) + 1
         /\ (<<x>> \o s)[1] = x /\ Head(<<x>> \o s) = x /\ Tail(<<x>> \o s) = s
<1>1. Len(s) \in Nat
  OBVIOUS
<1>2. <<x>> \o s \in Seq(T) /\ Len(<<x>> \o s) = Len(s) + 1 /\ (<<x>> \o s)[1] = x
      /\ \A k \in 1 .. Len(s) : (<<x>> \o s)[k + 1] = s[k]
  BY <1>1
<1>3. PICK r : r = <<x>> \o s
  OBVIOUS
<1>4. r \in Seq(T) /\ r # <<>> /\ Len(r) = Len(s) + 1 /\ \A k \in 1 .. Len(s) : r[k + 1] = s[k]
  BY <1>1, <1>2, <1>3
<1>5. /\ Tail(r) \in Seq(T) /\ Len(Tail(r)) = Len(s)
      /\ \A k \in 1 .. Len(s) : Tail(r)[k] = s[k]
  BY <1>1, <1>4
<1>6. Tail(r) = s
  BY <1>5, SeqEqual
<1> QED
  BY <1>1, <1>2, <1>3, <1>6

\* What EncodePDU makes of a text: the length, and the septets or octets.
Wides(units) == FlattenSeq([k \in DOMAIN units |-> <<units[k] \div 256, units[k] % 256>>])

\* The user data in each coding.
LEMMA UserDataIs ==
  /\ Coding(Sent) = Gsm7bit =>
       UserData(Sent) = <<Len(encode_alphabet(Units))>> \o Pack(encode_alphabet(Units))
  /\ Coding(Sent) = Ucs2 => UserData(Sent) = <<2 * Len(Units)>> \o Wides(Units)
  /\ Coding(Sent) = Ksc5601 => UserData(Sent) = <<Len(Units)>> \o Units
<1>1. Sent.units = Units /\ Gsm7bit # Ucs2 /\ Gsm7bit # Ksc5601 /\ Ucs2 # Ksc5601
  BY DEF Sent, Message, Units, Gsm7bit, Ucs2, Ksc5601
<1>2. PICK septets : septets = encode_alphabet(Sent.units)
  OBVIOUS
<1>3. Coding(Sent) = Gsm7bit => UserData(Sent) = <<Len(septets)>> \o Pack(septets)
  BY <1>1, <1>2 DEF UserData
<1>4. Coding(Sent) = Ucs2 => UserData(Sent) = <<2 * Len(Units)>> \o Wides(Units)
  BY <1>1 DEF UserData, Wides
<1>5. Coding(Sent) = Ksc5601 => UserData(Sent) = <<Len(Units)>> \o Units
  BY <1>1 DEF UserData
<1> QED
  BY <1>1, <1>2, <1>3, <1>4, <1>5, Zenon

\* Sixteen bits.
Word == {u \in Nat : u < 65536}

\* A unit is a word.
LEMMA UnitIsWord ==
  ASSUME NEW u \in Unit
  PROVE  u \in Word
<1>1. LastUnit \in Nat /\ LastUnit < 65536
  BY DEF LastUnit
<1>2. u \in Nat /\ u <= LastUnit
  BY <1>1 DEF Unit
<1> QED
  BY <1>1, <1>2 DEF Word

\* A unit of UCS2 is two octets, and comes back from them.
LEMMA WidesAre ==
  ASSUME NEW units \in Seq(Word)
  PROVE  /\ Wides(units) \in Seq(Octet) /\ Len(Wides(units)) = 2 * Len(units)
         /\ \A k \in 1 .. Len(units) :
              256 * Wides(units)[2 * k - 1] + Wides(units)[2 * k] = units[k]
<1> DEFINE pairs == [k \in DOMAIN units |-> <<units[k] \div 256, units[k] % 256>>]
<1>1. Len(units) \in Nat /\ DOMAIN units = 1 .. Len(units)
  BY LenProperties
<1>2. ASSUME NEW k \in 1 .. Len(units)
      PROVE  /\ pairs[k] \in Seq(Octet) /\ Len(pairs[k]) = 2
             /\ 256 * pairs[k][1] + pairs[k][2] = units[k]
  <2>1. PICK u : u = units[k]
    OBVIOUS
  <2>2. u \in Word
    BY <2>1, ElementOfSeq
  <2>3. u \div 256 \in Octet /\ u % 256 \in Octet /\ 256 * (u \div 256) + (u % 256) = u
    BY <2>2 DEF Octet, Word
  <2>4. pairs[k] = <<u \div 256, u % 256>>
    BY <1>1, <2>1
  <2> QED
    BY <2>1, <2>3, <2>4
<1>3. pairs = [k \in 1 .. Len(units) |-> pairs[k]]
  BY <1>1
<1>4. Wides(units) = FlattenSeq(pairs)
  BY DEF Wides
<1> HIDE DEF pairs
<1>5. pairs \in Seq(Seq(Octet)) /\ Len(pairs) = Len(units)
  BY <1>1, <1>2, <1>3
<1>6. PICK flat : flat = FlattenSeq(pairs)
  OBVIOUS
<1>7. PICK e : Places(pairs, flat, e)
  BY <1>5, <1>6, FlatPlaces
<1>8. /\ Len(flat) = 2 * Len(units)
      /\ \A k \in 1 .. Len(units) : flat[2 * k - 1] = pairs[k][1] /\ flat[2 * k] = pairs[k][2]
  <2>1. \A k \in 1 .. Len(pairs) : Len(pairs[k]) = 2
    BY <1>2, <1>5, Zenon
  <2>2. /\ Len(flat) = 2 * Len(pairs)
        /\ \A k \in 1 .. Len(pairs) :
             flat[2 * k - 1] = pairs[k][1] /\ flat[2 * k] = pairs[k][2]
    BY <1>5, <1>7, <2>1, PlacesPairs
  <2> QED
    BY <1>5, <2>2, Zenon
<1>9. flat \in Seq(Octet)
  BY <1>5, <1>6, FlatPlaces
<1>10. \A k \in 1 .. Len(units) : 256 * flat[2 * k - 1] + flat[2 * k] = units[k]
  BY <1>2, <1>8
<1> QED
  BY <1>4, <1>6, <1>8, <1>9, <1>10, Zenon

\* The length of a text that fits is an octet.
LEMMA DataFits ==
  ASSUME Composed, NEW n \in Nat, Head(UserData(Sent)) = n
  PROVE  n \in Octet
<1>1. Fits(Sent)
  BY Zenon DEF Composed
<1>2. n <= (IF Sent.type = "ucs2" THEN MAX_SMS_BYTES ELSE MAX_MESSAGE_LENGTH)
  BY <1>1, Zenon DEF Fits
<1>3. n <= 160
  BY <1>2 DEF MAX_SMS_BYTES, MAX_MESSAGE_LENGTH
<1> QED
  BY <1>3 DEF Octet

\* The user data announced is the user data sent.
LEMMA DataInBits ==
  ASSUME Composed
  PROVE  PackedInBits
<1>1. CASE Coding(Sent) = Gsm7bit
  <2> DEFINE sq == encode_alphabet(Units)
  <2>1. Units \in Seq(Alphabet)
    BY <1>1, CodingOfUnits DEF Gsm7bit, Ucs2, Ksc5601
  <2>2. sq \in Seq(Septet) /\ Len(sq) \in Nat
    BY <2>1, EncodedAlphabet, LenProperties DEF EncodedAs
  <2>3. UserData(Sent) = <<Len(sq)>> \o Pack(sq)
    BY <1>1, UserDataIs
  <2> HIDE DEF sq
  <2>4. Pack(sq) = PackBits(sq, 0) /\ Pack(sq) \in Seq(Octet)
    BY <2>2, PackIsBits, PackBitsType
  <2>5. Len(sq) \in Octet
    <3>1. Pack(sq) \in Seq(Nat)
      BY <2>4, Octet \subseteq Nat, SeqMonotonic DEF Octet
    <3>2. Head(UserData(Sent)) = Len(sq)
      BY <2>2, <2>3, <3>1, HeadOfOne
    <3> QED
      BY <2>2, <3>2, DataFits
  <2>6. /\ UserData(Sent) \in Seq(Octet)
        /\ Head(UserData(Sent)) = Len(sq) /\ Tail(UserData(Sent)) = Pack(sq)
    BY <2>3, <2>4, <2>5, HeadOfOne
  <2> QED
    BY <1>1, <2>4, <2>6 DEF PackedInBits, sq
<1>2. CASE Coding(Sent) # Gsm7bit
  <2>1. PICK n \in Nat, ud \in Seq(Octet) :
          /\ UserData(Sent) = <<n>> \o ud /\ n = Len(ud)
    <3>1. CASE Coding(Sent) = Ucs2
      <4>1. Units \in Seq(Unit)
        BY <3>1, CodingOfUnits DEF Gsm7bit, Ucs2, Ksc5601
      <4>2. Units \in Seq(Word) /\ Len(Units) \in Nat
        <5>1. Unit \subseteq Word
          BY UnitIsWord
        <5>2. Units \in Seq(Word)
          BY <4>1, <5>1, SeqMonotonic
        <5> QED
          BY <5>2, LenProperties
      <4>3. Wides(Units) \in Seq(Octet) /\ Len(Wides(Units)) = 2 * Len(Units)
        BY <4>2, WidesAre
      <4>4. 2 * Len(Units) \in Nat
        BY <4>2
      <4> QED
        BY <3>1, <4>3, <4>4, UserDataIs
    <3>2. CASE Coding(Sent) = Ksc5601
      <4>1. Units \in Seq(Octet) /\ Len(Units) \in Nat
        BY <3>2, CodingOfUnits, LenProperties DEF Gsm7bit, Ucs2, Ksc5601
      <4> QED
        BY <3>2, <4>1, UserDataIs
    <3> QED
      BY <1>2, <3>1, <3>2, CodingOfUnits
  <2>2. ud \in Seq(Nat)
    BY <2>1, Octet \subseteq Nat, SeqMonotonic DEF Octet
  <2>3. Head(UserData(Sent)) = n
    BY <2>1, <2>2, HeadOfOne
  <2>4. n \in Octet
    BY <2>1, <2>3, DataFits
  <2>5. /\ UserData(Sent) \in Seq(Octet)
        /\ Head(UserData(Sent)) = n /\ Tail(UserData(Sent)) = ud
    BY <2>1, <2>4, HeadOfOne
  <2> QED
    BY <1>2, <2>1, <2>5 DEF PackedInBits
<1> QED
  BY <1>1, <1>2

\* The length EncodePDU announces is that of the septets or octets it sends, and the
\* septets lie in the octets without a gap.
THEOREM SentInBits == ExchangeSpec => []PackedInBits
<1>1. Composed => PackedInBits
  BY DataInBits
<1> QED
  BY <1>1, ComposedOnly, PTL

-----------------------------------------------------------------------------
(* The parts of a PDU.                                                     *)

\* From octet p on there is this part.
HeldAt(pdu, p, part) ==
  /\ p - 1 + Len(part) <= Len(pdu)
  /\ \A j \in 1 .. Len(part) : pdu[p - 1 + j] = part[j]

\* Of two parts that lie together, each lies in its place.
LEMMA HeldConcat ==
  ASSUME NEW pdu \in Seq(Nat), NEW x \in Seq(Nat), NEW y \in Seq(Nat),
         NEW p \in Nat, p >= 1, HeldAt(pdu, p, x \o y)
  PROVE  HeldAt(pdu, p, x) /\ HeldAt(pdu, p + Len(x), y)
<1>1. /\ Len(x \o y) = Len(x) + Len(y)
      /\ \A j \in 1 .. Len(x) : (x \o y)[j] = x[j]
      /\ \A j \in 1 .. Len(y) : (x \o y)[Len(x) + j] = y[j]
  BY ConcatPlaces
<1>2. PICK a, b, n : a = Len(x) /\ b = Len(y) /\ n = Len(pdu)
  OBVIOUS
<1>3. a \in Nat /\ b \in Nat /\ n \in Nat
  BY <1>2, LenProperties
<1>4. PICK z : z = x \o y
  OBVIOUS
<1>5. /\ p - 1 + (a + b) <= n
      /\ \A j \in 1 .. a + b : pdu[p - 1 + j] = z[j]
      /\ \A j \in 1 .. a : z[j] = x[j]
      /\ \A j \in 1 .. b : z[a + j] = y[j]
  BY <1>1, <1>2, <1>4, Zenon DEF HeldAt
<1>6. p - 1 + a <= n /\ ((p + a) - 1) + b <= n
  BY <1>3, <1>5
<1>7. \A j \in 1 .. a : pdu[p - 1 + j] = x[j]
  BY <1>3, <1>5
<1>8. \A j \in 1 .. b : pdu[((p + a) - 1) + j] = y[j]
  <2> SUFFICES ASSUME NEW j \in 1 .. b PROVE pdu[((p + a) - 1) + j] = y[j]
    OBVIOUS
  <2>1. a + j \in 1 .. a + b /\ p - 1 + (a + j) = ((p + a) - 1) + j
    BY <1>3
  <2>2. pdu[p - 1 + (a + j)] = z[a + j] /\ z[a + j] = y[j]
    BY <1>5, <2>1
  <2> QED
    BY <2>1, <2>2
<1> QED
  BY <1>2, <1>6, <1>7, <1>8, Zenon DEF HeldAt

\* A message lies in itself.
LEMMA HeldWhole ==
  ASSUME NEW pdu \in Seq(Nat)
  PROVE  HeldAt(pdu, 1, pdu)
<1>1. Len(pdu) \in Nat
  BY LenProperties
<1> QED
  BY <1>1 DEF HeldAt

\* Octet q ends the part that begins at p.
EndsAt(p, part, q) == q \in Nat /\ q = p - 1 + Len(part)

\* Cut out of the message, a part is itself.
LEMMA HeldIs ==
  ASSUME NEW pdu \in Seq(Nat), NEW x \in Seq(Nat), NEW p \in Nat, p >= 1,
         HeldAt(pdu, p, x), NEW q, EndsAt(p, x, q)
  PROVE  SubSeq(pdu, p, q) = x
<1>1. PICK a, n : a = Len(x) /\ n = Len(pdu)
  OBVIOUS
<1>2. a \in Nat /\ n \in Nat /\ q = p - 1 + a /\ q <= n
  BY <1>1, LenProperties DEF HeldAt, EndsAt
<1>3. \A j \in 1 .. a : pdu[p - 1 + j] = x[j]
  BY <1>1 DEF HeldAt
<1>4. SubSeq(pdu, p, q) = [j \in 1 .. a |-> pdu[p - 1 + j]]
  <2>1. 1 .. (1 + q) - p = 1 .. a
    BY <1>2
  <2>2. \A j \in 1 .. a : (j + p) - 1 = p - 1 + j
    BY <1>2
  <2> QED
    BY <1>2, <2>1, <2>2
<1>5. x = [j \in 1 .. a |-> x[j]]
  BY <1>1, LenProperties
<1> QED
  BY <1>3, <1>4, <1>5

\* A part of one octet.
LEMMA HeldOne ==
  ASSUME NEW pdu, NEW p \in Nat, NEW x, HeldAt(pdu, p, <<x>>)
  PROVE  pdu[p] = x
<1>1. Len(<<x>>) = 1 /\ <<x>>[1] = x /\ 1 \in 1 .. 1 /\ p - 1 + 1 = p
  OBVIOUS
<1> QED
  BY <1>1 DEF HeldAt

\* Two octets, and the part they are.
TwoAt(pdu, p, x, y) == pdu[p] = x /\ pdu[p + 1] = y

\* A part of two octets.
LEMMA HeldTwo ==
  ASSUME NEW pdu, NEW p \in Nat, NEW x, NEW y, HeldAt(pdu, p, <<x, y>>)
  PROVE  TwoAt(pdu, p, x, y)
<1>1. /\ Len(<<x, y>>) = 2 /\ <<x, y>>[1] = x /\ <<x, y>>[2] = y
      /\ 1 \in 1 .. 2 /\ 2 \in 1 .. 2 /\ p - 1 + 1 = p /\ p - 1 + 2 = p + 1
  OBVIOUS
<1> QED
  BY <1>1 DEF HeldAt, TwoAt

\* A part more.
LEMMA PartMore ==
  ASSUME NEW x \in Seq(Nat), NEW y \in Seq(Nat), NEW z, z = x \o y
  PROVE  z \in Seq(Nat) /\ Len(z) = Len(x) + Len(y)
<1>1. x \o y \in Seq(Nat) /\ Len(x \o y) = Len(x) + Len(y)
  OBVIOUS
<1> QED
  BY <1>1, Zenon

\* It does not matter which parts are joined first.
LEMMA PartsAssociate ==
  ASSUME NEW x \in Seq(Nat), NEW y \in Seq(Nat), NEW z \in Seq(Nat)
  PROVE  (x \o y) \o z = x \o (y \o z)
<1> DEFINE Same(S) == \A s \in Seq(S) : \A t \in Seq(S) : \A u \in Seq(S) :
                        (s \o t) \o u = s \o (t \o u)
<1>1. \A S : Same(S)
  BY ConcatAssociative
<1> HIDE DEF Same
<1>2. Same(Nat)
  BY <1>1, Zenon
<1> QED
  BY <1>2, Zenon DEF Same

\* A message as it is delivered.
Frame(flags, address, coding, n, rest) ==
  Center \o <<flags>> \o address \o <<0, coding>> \o Stamp \o <<n>> \o rest

\* Where the parts of a message lie.
Framed(pdu, flags, address, coding, n, rest) ==
  LET q == 5 + Len(address)
  IN  /\ pdu \in Seq(Nat) /\ pdu[1] = 2 /\ pdu[4] = flags /\ HeldAt(pdu, 5, address)
      /\ pdu[q] = 0 /\ pdu[q + 1] = coding /\ pdu[q + 9] = n
      /\ HeldAt(pdu, q + 10, rest) /\ Len(pdu) = (q + 9) + Len(rest)

\* The parts of a message lie where they are looked for.
LEMMA FrameIsFramed ==
  ASSUME NEW flags \in Nat, NEW address \in Seq(Nat), NEW coding \in Nat, NEW n \in Nat,
         NEW rest \in Seq(Nat)
  PROVE  Framed(Frame(flags, address, coding, n, rest), flags, address, coding, n, rest)
<1>1. PICK fl, oc, nn : fl = <<flags>> /\ oc = <<0, coding>> /\ nn = <<n>>
  OBVIOUS
<1>2. PICK s1 : s1 = Center \o fl
  OBVIOUS
<1>3. PICK s2 : s2 = s1 \o address
  OBVIOUS
<1>4. PICK s3 : s3 = s2 \o oc
  OBVIOUS
<1>5. PICK s4 : s4 = s3 \o Stamp
  OBVIOUS
<1>6. PICK s5 : s5 = s4 \o nn
  OBVIOUS
<1>7. PICK pdu : pdu = s5 \o rest
  OBVIOUS
<1>8. Center \in Seq(Nat) /\ Len(Center) = 3 /\ Center[1] = 2 /\ Stamp \in Seq(Nat)
      /\ Len(Stamp) = 7
  BY DEF Center, Stamp
<1>9. /\ fl \in Seq(Nat) /\ Len(fl) = 1 /\ oc \in Seq(Nat) /\ Len(oc) = 2
      /\ nn \in Seq(Nat) /\ Len(nn) = 1
  BY <1>1
<1>10. PICK a, r : a = Len(address) /\ r = Len(rest)
  OBVIOUS
<1>11. a \in Nat /\ r \in Nat
  BY <1>10, LenProperties
<1>12. s1 \in Seq(Nat) /\ Len(s1) = 4
  <2>1. s1 \in Seq(Nat) /\ Len(s1) = Len(Center) + Len(fl)
    BY <1>2, <1>8, <1>9, PartMore, Zenon
  <2> QED
    BY <1>8, <1>9, <2>1
<1>13. s2 \in Seq(Nat) /\ Len(s2) = 4 + a
  BY <1>3, <1>10, <1>12, PartMore, Zenon
<1>14. s3 \in Seq(Nat) /\ Len(s3) = 6 + a
  <2>1. s3 \in Seq(Nat) /\ Len(s3) = Len(s2) + Len(oc)
    BY <1>4, <1>9, <1>13, PartMore, Zenon
  <2> QED
    BY <1>9, <1>13, <1>11, <2>1
<1>15. s4 \in Seq(Nat) /\ Len(s4) = 13 + a
  <2>1. s4 \in Seq(Nat) /\ Len(s4) = Len(s3) + Len(Stamp)
    BY <1>5, <1>8, <1>14, PartMore, Zenon
  <2> QED
    BY <1>8, <1>14, <1>11, <2>1
<1>16. s5 \in Seq(Nat) /\ Len(s5) = 14 + a
  <2>1. s5 \in Seq(Nat) /\ Len(s5) = Len(s4) + Len(nn)
    BY <1>6, <1>9, <1>15, PartMore, Zenon
  <2> QED
    BY <1>9, <1>15, <1>11, <2>1
<1>17. pdu \in Seq(Nat) /\ Len(pdu) = (14 + a) + r
  BY <1>7, <1>10, <1>16, PartMore, Zenon
<1>18. 1 \in Nat /\ 1 >= 1
  OBVIOUS
<1>19. HeldAt(pdu, 1, s5) /\ HeldAt(pdu, 1 + Len(s5), rest)
  <2>1. HeldAt(pdu, 1, s5 \o rest)
    BY <1>7, <1>17, HeldWhole, Zenon
  <2> QED
    BY <1>18, <1>16, <1>17, <2>1, HeldConcat, Zenon
<1>20. HeldAt(pdu, 1, s4) /\ HeldAt(pdu, 1 + Len(s4), nn)
  <2>1. HeldAt(pdu, 1, s4 \o nn)
    BY <1>6, <1>19, Zenon
  <2> QED
    BY <1>18, <1>9, <1>15, <1>17, <2>1, HeldConcat, Zenon
<1>21. HeldAt(pdu, 1, s3)
  <2>1. HeldAt(pdu, 1, s3 \o Stamp)
    BY <1>5, <1>20, Zenon
  <2> QED
    BY <1>18, <1>8, <1>14, <1>17, <2>1, HeldConcat, Zenon
<1>22. HeldAt(pdu, 1, s2) /\ HeldAt(pdu, 1 + Len(s2), oc)
  <2>1. HeldAt(pdu, 1, s2 \o oc)
    BY <1>4, <1>21, Zenon
  <2> QED
    BY <1>18, <1>9, <1>13, <1>17, <2>1, HeldConcat, Zenon
<1>23. HeldAt(pdu, 1, s1) /\ HeldAt(pdu, 1 + Len(s1), address)
  <2>1. HeldAt(pdu, 1, s1 \o address)
    BY <1>3, <1>22, Zenon
  <2> QED
    BY <1>18, <1>12, <1>17, <2>1, HeldConcat, Zenon
<1>24. HeldAt(pdu, 1, Center) /\ HeldAt(pdu, 1 + Len(Center), fl)
  <2>1. HeldAt(pdu, 1, Center \o fl)
    BY <1>2, <1>23, Zenon
  <2> QED
    BY <1>18, <1>8, <1>9, <1>17, <2>1, HeldConcat, Zenon
<1>25. pdu[4] = flags
  <2>1. 1 + Len(Center) = 4
    BY <1>8
  <2>2. HeldAt(pdu, 4, <<flags>>) /\ 4 \in Nat
    BY <1>1, <1>24, <2>1, Zenon
  <2> QED
    BY <2>2, HeldOne
<1>26. pdu[1] = 2
  <2>1. 1 \in 1 .. Len(Center) /\ 1 - 1 + 1 = 1
    BY <1>8
  <2> QED
    BY <1>8, <1>24, <2>1, Zenon DEF HeldAt
<1>27. PICK q : q = 5 + a
  OBVIOUS
<1>28. q \in Nat /\ 1 + Len(s2) = q /\ 1 + Len(s4) = q + 9 /\ 1 + Len(s5) = q + 10
       /\ 1 + Len(s1) = 5 /\ (14 + a) + r = (q + 9) + r /\ q + 9 \in Nat
  BY <1>11, <1>12, <1>13, <1>15, <1>16, <1>27
<1>29. pdu[q] = 0 /\ pdu[q + 1] = coding
  <2>1. HeldAt(pdu, q, <<0, coding>>)
    BY <1>1, <1>22, <1>28, Zenon
  <2>2. TwoAt(pdu, q, 0, coding)
    BY <1>28, <2>1, HeldTwo
  <2> QED
    BY <2>2, Zenon DEF TwoAt
<1>30. pdu[q + 9] = n
  <2>1. HeldAt(pdu, q + 9, <<n>>)
    BY <1>1, <1>20, <1>28, Zenon
  <2> QED
    BY <1>28, <2>1, HeldOne
<1>31. Framed(pdu, flags, address, coding, n, rest)
  <2>1. HeldAt(pdu, q + 10, rest) /\ HeldAt(pdu, 5, address) /\ Len(pdu) = (q + 9) + Len(rest)
        /\ q = 5 + Len(address)
    BY <1>10, <1>17, <1>19, <1>23, <1>27, <1>28, Zenon
  <2> QED
    BY <1>17, <1>25, <1>26, <1>29, <1>30, <2>1, Zenon DEF Framed
<1> QED
  BY <1>1, <1>2, <1>3, <1>4, <1>5, <1>6, <1>7, <1>31, Zenon DEF Frame

\* The first octet of an address counts its digits.
FitsLength(address) ==
  Len(address) >= 2 /\ Len(address) = 2 + ((address[1] + 1) \div 2)

\* A message as it is submitted.
Submitted(address, coding, n, rest) ==
  <<0, TP_MTI, 255>> \o address \o <<0, coding>> \o (<<n>> \o rest)

\* The network delivers what was submitted.
LEMMA DeliveredIs ==
  ASSUME NEW address \in Seq(Nat), FitsLength(address),
         NEW coding \in Nat, NEW n \in Nat, NEW rest \in Seq(Nat)
  PROVE  Delivered(Submitted(address, coding, n, rest)) = Frame(4, address, coding, n, rest)
<1>1. Len(address) >= 2 /\ Len(address) = 2 + ((address[1] + 1) \div 2)
  BY DEF FitsLength
<1>2. PICK p3 : p3 = <<0, TP_MTI, 255>>
  OBVIOUS
<1>3. PICK c2 : c2 = <<0, coding>>
  OBVIOUS
<1>4. PICK u : u = <<n>> \o rest
  OBVIOUS
<1>5. PICK s1 : s1 = p3 \o address
  OBVIOUS
<1>6. PICK s2 : s2 = s1 \o c2
  OBVIOUS
<1>7. PICK submit : submit = s2 \o u
  OBVIOUS
<1>8. PICK end : end = 5 + ((submit[4] + 1) \div 2)
  OBVIOUS
<1>9. 1 \in Nat /\ 1 >= 1 /\ 4 \in Nat /\ 4 >= 1
  OBVIOUS
<1>10. p3 \in Seq(Nat) /\ Len(p3) = 3 /\ c2 \in Seq(Nat) /\ Len(c2) = 2
  BY <1>2, <1>3 DEF TP_MTI
<1>11. u \in Seq(Nat) /\ Len(u) \in Nat /\ <<n>> \in Seq(Nat)
  <2>1. <<n>> \in Seq(Nat)
    OBVIOUS
  <2>2. u \in Seq(Nat)
    BY <1>4, <2>1, PartMore, Zenon
  <2> QED
    BY <2>1, <2>2, LenProperties
<1>12. PICK a : a = Len(address)
  OBVIOUS
<1>13. a \in Nat /\ address[1] \in Nat /\ a = 2 + ((address[1] + 1) \div 2) /\ 1 \in 1 .. a
  <2>1. a \in Nat
    BY <1>12, LenProperties
  <2>2. a >= 2
    BY <1>1, <1>12
  <2>3. 1 \in 1 .. a
    BY <2>1, <2>2
  <2>4. address[1] \in Nat
    BY <1>12, <2>3, ElementOfSeq
  <2> QED
    BY <1>1, <1>12, <2>1, <2>3, <2>4
<1>14. s1 \in Seq(Nat) /\ Len(s1) = 3 + a
  <2>1. s1 \in Seq(Nat) /\ Len(s1) = Len(p3) + Len(address)
    BY <1>5, <1>10, <1>12, PartMore, Zenon
  <2> QED
    BY <1>5, <1>10, <1>12, <2>1, Zenon
<1>15. s2 \in Seq(Nat) /\ Len(s2) = (3 + a) + 2
  <2>1. s2 \in Seq(Nat) /\ Len(s2) = Len(s1) + Len(c2)
    BY <1>6, <1>10, <1>14, PartMore, Zenon
  <2> QED
    BY <1>6, <1>10, <1>14, <2>1, Zenon
<1>16. submit \in Seq(Nat) /\ Len(submit) = ((3 + a) + 2) + Len(u)
  BY <1>7, <1>11, <1>15, PartMore, Zenon
<1>17. PICK ac : ac = address \o c2
  OBVIOUS
<1>18. ac \in Seq(Nat) /\ Len(ac) = a + 2 /\ s2 = p3 \o ac
  <2>1. ac \in Seq(Nat) /\ Len(ac) = Len(address) + Len(c2)
    BY <1>10, <1>17, PartMore, Zenon
  <2>2. ac \in Seq(Nat) /\ Len(ac) = a + 2
    BY <1>10, <1>12, <2>1, Zenon
  <2>3. (p3 \o address) \o c2 = p3 \o (address \o c2)
    BY <1>10, PartsAssociate
  <2> QED
    BY <1>5, <1>6, <1>17, <2>2, <2>3, Zenon
<1>19. HeldAt(submit, 1, s2) /\ HeldAt(submit, 1 + Len(s2), u)
  <2>1. HeldAt(submit, 1, s2 \o u)
    BY <1>7, <1>16, HeldWhole, Zenon
  <2> QED
    BY <1>9, <1>11, <1>15, <1>16, <2>1, HeldConcat, Zenon
<1>20. HeldAt(submit, 4, ac)
  <2>1. HeldAt(submit, 1, p3 \o ac)
    BY <1>19, <1>18, Zenon
  <2>2. HeldAt(submit, 1 + Len(p3), ac)
    BY <1>9, <1>10, <1>16, <1>18, <2>1, HeldConcat, Zenon
  <2>3. 1 + Len(p3) = 4
    BY <1>10
  <2> QED
    BY <2>2, <2>3, Zenon
<1>21. submit[4] = address[1]
  <2>1. HeldAt(submit, 4, address \o c2)
    BY <1>17, <1>20, Zenon
  <2>2. HeldAt(submit, 4, address)
    BY <1>9, <1>10, <1>16, <2>1, HeldConcat, Zenon
  <2>3. 4 - 1 + 1 = 4
    OBVIOUS
  <2> QED
    BY <1>12, <1>13, <2>2, <2>3, Zenon DEF HeldAt
<1>22. end + 2 = (4 - 1) + (a + 2) /\ end + 3 = 6 + a /\ end \in Nat
  <2>1. end = 5 + ((address[1] + 1) \div 2)
    BY <1>8, <1>21, Zenon
  <2>2. PICK x : x = address[1]
    OBVIOUS
  <2>3. x \in Nat /\ end = 5 + ((x + 1) \div 2) /\ a = 2 + ((x + 1) \div 2)
    BY <1>13, <2>1, <2>2, Zenon
  <2>4. PICK d : d = (x + 1) \div 2
    OBVIOUS
  <2>5. d \in Nat /\ end = 5 + d /\ a = 2 + d
    BY <2>3, <2>4
  <2> QED
    BY <2>5
<1>23. SubSeq(submit, 4, end + 2) = ac
  <2>1. end + 2 \in Nat /\ end + 2 = 4 - 1 + Len(ac)
    BY <1>13, <1>22, <1>18
  <2>2. PICK q : q = end + 2
    OBVIOUS
  <2>3. EndsAt(4, ac, q)
    BY <2>1, <2>2, Zenon DEF EndsAt
  <2>4. SubSeq(submit, 4, q) = ac
    BY <1>9, <1>16, <1>18, <1>20, <2>3, HeldIs
  <2> QED
    BY <2>2, <2>4, Zenon
<1>24. SubSeq(submit, end + 3, Len(submit)) = u
  <2>1. PICK p, l, t : p = end + 3 /\ l = Len(u) /\ t = Len(submit)
    OBVIOUS
  <2>2. p \in Nat /\ p >= 1 /\ p = 6 + a /\ l \in Nat /\ t = ((3 + a) + 2) + l
    BY <1>11, <1>13, <1>16, <1>22, <2>1
  <2>3. a \in Nat
    BY <1>13
  <2>4. t \in Nat /\ t = p - 1 + l /\ 1 + ((3 + a) + 2) = p
    BY <2>2, <2>3
  <2>5. HeldAt(submit, p, u) /\ EndsAt(p, u, t)
    BY <1>15, <1>19, <2>1, <2>4, Zenon DEF EndsAt
  <2>6. SubSeq(submit, p, t) = u
    BY <1>11, <1>16, <2>2, <2>4, <2>5, HeldIs
  <2> QED
    BY <2>1, <2>6, Zenon
<1>25. Delivered(submit) = Center \o <<4>> \o ac \o Stamp \o u
  BY <1>8, <1>23, <1>24, Zenon DEF Delivered
<1>26. /\ Center \o <<4>> \in Seq(Nat) /\ Stamp \in Seq(Nat)
  BY DEF Center, Stamp
<1>27. PICK w : w = Center \o <<4>>
  OBVIOUS
<1>28. w \o (address \o c2) = (w \o address) \o c2
  <2>1. w \in Seq(Nat)
    BY <1>26, <1>27
  <2> QED
    BY <1>10, <2>1, PartsAssociate, Zenon
<1>29. PICK v : v = (w \o address) \o c2
  OBVIOUS
<1>30. v \o Stamp \in Seq(Nat)
  <2>1. w \o address \in Seq(Nat)
    BY <1>26, <1>27, PartMore, Zenon
  <2>2. v \in Seq(Nat)
    BY <1>10, <1>29, <2>1, PartMore, Zenon
  <2> QED
    BY <1>26, <2>2, PartMore, Zenon
<1>31. (v \o Stamp) \o (<<n>> \o rest) = ((v \o Stamp) \o <<n>>) \o rest
  BY <1>11, <1>30, PartsAssociate, Zenon
<1>32. Delivered(submit) = Frame(4, address, coding, n, rest)
  BY <1>3, <1>4, <1>17, <1>25, <1>27, <1>28, <1>29, <1>31, Zenon DEF Frame
<1> QED
  BY <1>2, <1>3, <1>4, <1>5, <1>6, <1>7, <1>32, Zenon DEF Submitted

\* The octets of an address are read from octet p on.
AddressIsRead(pdu, p, num) ==
  /\ AddressAt(pdu, p).end = p + Len(Address(num))
  /\ AddressAt(pdu, p).number \in Seq(HexDigits \cup {"+"})
  /\ Dialled(AddressAt(pdu, p).number) = num

\* The octets of an address.
LEMMA AddressOctets ==
  ASSUME NEW num, NEW len, NEW type, NEW os, NEW ds, AddressOf(num, len, type, os, ds)
  PROVE  /\ Address(num) \in Seq(Nat) /\ Len(Address(num)) = 2 + Len(os) /\ Len(os) \in Nat
         /\ Address(num)[1] = len /\ Address(num)[2] = type
         /\ Len(os) = (len + 1) \div 2 /\ os \in Seq(Nat)
         /\ \A j \in 1 .. Len(os) : Address(num)[2 + j] = os[j]
<1>1. /\ len \in Nat /\ type \in Octet /\ os \in Seq(Octet)
      /\ Address(num) = <<len, type>> \o os /\ Len(os) = (len + 1) \div 2
  BY DEF AddressOf
<1>2. os \in Seq(Nat) /\ type \in Nat
  BY <1>1, Octet \subseteq Nat, SeqMonotonic DEF Octet
<1>3. <<len, type>> \in Seq(Nat) /\ Len(<<len, type>>) = 2
      /\ <<len, type>>[1] = len /\ <<len, type>>[2] = type
  BY <1>1, <1>2
<1>4. PICK lt, z : lt = <<len, type>> /\ z = Address(num)
  OBVIOUS
<1>5. lt \in Seq(Nat) /\ Len(lt) = 2 /\ lt[1] = len /\ lt[2] = type /\ z = lt \o os
  BY <1>1, <1>3, <1>4, Zenon
<1>6. lt \in Seq(Nat) /\ os \in Seq(Nat)
  BY <1>2, <1>5, Zenon
<1>7. /\ lt \o os \in Seq(Nat) /\ Len(lt \o os) = Len(lt) + Len(os)
      /\ \A j \in 1 .. Len(lt) : (lt \o os)[j] = lt[j]
      /\ \A j \in 1 .. Len(os) : (lt \o os)[Len(lt) + j] = os[j]
  BY <1>6, ConcatPlaces
<1>8. 1 \in 1 .. 2 /\ 2 \in 1 .. 2
  OBVIOUS
<1>9. /\ z \in Seq(Nat) /\ Len(z) = 2 + Len(os) /\ z[1] = len /\ z[2] = type
      /\ \A j \in 1 .. Len(os) : z[2 + j] = os[j]
  BY <1>5, <1>7, <1>8, Zenon
<1>10. Len(os) \in Nat
  BY <1>2, LenProperties
<1> QED
  BY <1>1, <1>2, <1>4, <1>9, <1>10, Zenon

\* An address is read wherever it lies.
LEMMA AddressRead ==
  ASSUME NEW pdu \in Seq(Nat), NEW p \in Nat, p >= 1, NEW num, IsNumber(num), num # <<"+">>,
         HeldAt(pdu, p, Address(num))
  PROVE  AddressIsRead(pdu, p, num)
<1>1. PICK len, type, os, ds : AddressOf(num, len, type, os, ds)
  BY AddressHolds
<1>2. /\ Address(num) \in Seq(Nat) /\ Len(Address(num)) = 2 + Len(os) /\ Len(os) \in Nat
      /\ Address(num)[1] = len /\ Address(num)[2] = type
      /\ Len(os) = (len + 1) \div 2 /\ os \in Seq(Nat)
      /\ \A j \in 1 .. Len(os) : Address(num)[2 + j] = os[j]
  BY <1>1, AddressOctets
<1>3. PICK o, z : o = Len(os) /\ z = Address(num)
  OBVIOUS
<1>4. o \in Nat /\ Len(z) = 2 + o /\ \A j \in 1 .. o : z[2 + j] = os[j]
  BY <1>2, <1>3, Zenon
<1>5. p - 1 + (2 + o) <= Len(pdu) /\ \A j \in 1 .. 2 + o : pdu[p - 1 + j] = z[j]
  BY <1>3, <1>4, Zenon DEF HeldAt
<1>6. pdu[p] = len /\ pdu[p + 1] = type
  <2>1. 1 \in 1 .. 2 + o /\ 2 \in 1 .. 2 + o /\ p - 1 + 1 = p /\ p - 1 + 2 = p + 1
    BY <1>4
  <2>2. z[1] = len /\ z[2] = type
    BY <1>2, <1>3, Zenon
  <2> QED
    BY <1>5, <2>1, <2>2, Zenon
<1>7. HeldAt(pdu, p + 2, os)
  <2>1. Len(pdu) \in Nat
    BY LenProperties
  <2>2. (p + 2) - 1 + o <= Len(pdu)
    BY <1>4, <1>5, <2>1
  <2>3. \A j \in 1 .. o : pdu[(p + 2) - 1 + j] = os[j]
    <3> SUFFICES ASSUME NEW j \in 1 .. o PROVE pdu[(p + 2) - 1 + j] = os[j]
      OBVIOUS
    <3>1. 2 + j \in 1 .. 2 + o /\ p - 1 + (2 + j) = (p + 2) - 1 + j
      BY <1>4
    <3>2. pdu[p - 1 + (2 + j)] = z[2 + j]
      BY <1>5, <3>1, Zenon
    <3> QED
      BY <1>4, <3>1, <3>2, Zenon
  <2> QED
    BY <1>3, <2>2, <2>3, Zenon DEF HeldAt
<1>8. PICK q : q = p + 1 + o
  OBVIOUS
<1>9. EndsAt(p + 2, os, q)
  BY <1>3, <1>4, <1>8 DEF EndsAt
<1>10. SubSeq(pdu, p + 2, q) = os
  <2>1. PICK r : r = p + 2
    OBVIOUS
  <2>2. r \in Nat /\ r >= 1
    BY <2>1
  <2>3. HeldAt(pdu, r, os) /\ EndsAt(r, os, q)
    BY <1>7, <1>9, <2>1, Zenon
  <2>4. SubSeq(pdu, r, q) = os
    BY <1>2, <2>2, <2>3, HeldIs
  <2> QED
    BY <2>1, <2>4, Zenon
<1>11. (pdu[p] + 1) \div 2 = o
  BY <1>2, <1>3, <1>6, Zenon
<1> DEFINE sign == IF HasBit(type, International) THEN <<"+">> ELSE <<>>
<1>12. AddressAt(pdu, p) = [number |-> IF o = 0 THEN <<>> ELSE sign \o ds, end |-> p + 2 + o]
  <2>1. Bcd2Hex(os) = ds
    BY <1>1 DEF AddressOf
  <2> QED
    BY <1>6, <1>8, <1>10, <1>11, <2>1, Zenon DEF AddressAt
<1>13. AddressAt(pdu, p).end = p + Len(Address(num))
  <2>1. p + 2 + o = p + (2 + o)
    BY <1>4
  <2>2. AddressAt(pdu, p).end = p + 2 + o
    BY <1>12
  <2> QED
    BY <1>3, <1>4, <2>1, <2>2, Zenon
<1>14. /\ sign \o ds \in Seq(HexDigits \cup {"+"}) /\ Dialled(sign \o ds) = num
       /\ (len = 0 <=> num = <<>>) /\ len \in Nat
  BY <1>1, Zenon DEF AddressOf
<1> HIDE DEF sign
<1>15. CASE o = 0
  <2>1. len = 0
    BY <1>2, <1>3, <1>14, <1>15
  <2>2. num = <<>> /\ AddressAt(pdu, p).number = <<>>
    BY <1>12, <1>14, <1>15, <2>1
  <2>3. <<>> \in Seq(HexDigits \cup {"+"}) /\ <<>> \in Seq(DialDigits \cup {"+"})
    OBVIOUS
  <2> QED
    BY <1>13, <2>2, <2>3, DigitsSurvive DEF AddressIsRead
<1>16. CASE o # 0
  <2>1. AddressAt(pdu, p).number = sign \o ds
    BY <1>12, <1>16
  <2> QED
    BY <1>13, <1>14, <2>1, Zenon DEF AddressIsRead
<1> QED
  BY <1>15, <1>16

-----------------------------------------------------------------------------
(* Characters of KS C 5601.                                                *)

\* Between octets c and d of bs lies the character ch.
KscAt(bs, c, d, ch) ==
  /\ c \in Nat /\ d \in Nat /\ c < d /\ d <= Len(bs) /\ bs \in Seq(Octet)
  /\ \/ \E b \in Alphabet : ch = <<b>> /\ d = c + 1 /\ bs[c + 1] = b
     \/ \E b1, b2 \in Octet :
          Pair(b1, b2) /\ ch = <<b1, b2>> /\ d = c + 2 /\ bs[c + 1] = b1 /\ bs[c + 2] = b2

\* Where the characters lie.
KscText(cs, bs, e) ==
  /\ cs \in Seq(Seq(Nat)) /\ Len(cs) <= Len(bs) /\ e[0] = 0 /\ e[Len(cs)] = Len(bs)
  /\ \A k \in 1 .. Len(cs) : KscAt(bs, e[k - 1], e[k], cs[k])

\* The characters of a text lie one behind the other.
LEMMA KscPlaces ==
  ASSUME NEW cs \in Seq(Seq(Octet)),
         \A k \in 1 .. Len(cs) : SingleByte(cs[k]) \/ PairOfBytes(cs[k])
  PROVE  \E e : KscText(cs, FlattenSeq(cs), e)
<1>1. PICK bs : bs = FlattenSeq(cs)
  OBVIOUS
<1>2. PICK e : Places(cs, bs, e)
  BY <1>1, FlatPlaces
<1>3. bs \in Seq(Octet)
  BY <1>1, FlatPlaces
<1>4. ASSUME NEW k \in 1 .. Len(cs) PROVE Len(cs[k]) \in 1 .. 2
  <2>1. CASE SingleByte(cs[k])
    <3>1. PICK b : cs[k] = <<b>>
      BY <2>1 DEF SingleByte
    <3> QED
      BY <3>1
  <2>2. CASE PairOfBytes(cs[k])
    <3>1. PICK b1, b2 : cs[k] = <<b1, b2>>
      BY <2>2 DEF PairOfBytes
    <3> QED
      BY <3>1
  <2> QED
    BY <2>1, <2>2
<1>5. Len(cs) <= Len(bs)
      /\ \A k \in 1 .. Len(cs) : e[k - 1] \in Nat /\ e[k] \in Nat /\ e[k - 1] < e[k]
  BY <1>2, <1>4, PlacesGrow
<1>6. ASSUME NEW k \in 1 .. Len(cs) PROVE KscAt(bs, e[k - 1], e[k], cs[k])
  <2>1. PICK c, d, ch : c = e[k - 1] /\ d = e[k] /\ ch = cs[k]
    OBVIOUS
  <2>2. /\ d = c + Len(ch) /\ d <= Len(bs) /\ c \in Nat /\ d \in Nat /\ c < d
        /\ \A j \in 1 .. Len(ch) : bs[c + j] = ch[j]
    BY <1>2, <1>5, <2>1, Zenon DEF Places
  <2>3. CASE SingleByte(ch)
    <3>1. PICK b \in Alphabet : ch = <<b>>
      BY <2>3 DEF SingleByte
    <3>2. Len(ch) = 1 /\ ch[1] = b /\ 1 \in 1 .. 1
      BY <3>1
    <3>3. d = c + 1 /\ bs[c + 1] = b
      BY <2>2, <3>2, Zenon
    <3> QED
      BY <1>3, <2>1, <2>2, <3>1, <3>3, Zenon DEF KscAt
  <2>4. CASE PairOfBytes(ch)
    <3>1. PICK b1, b2 \in Octet : Pair(b1, b2) /\ ch = <<b1, b2>>
      BY <2>4 DEF PairOfBytes
    <3>2. Len(ch) = 2 /\ ch[1] = b1 /\ ch[2] = b2 /\ 1 \in 1 .. 2 /\ 2 \in 1 .. 2
      BY <3>1
    <3>3. d = c + 2 /\ bs[c + 1] = b1 /\ bs[c + 2] = b2
      BY <2>2, <3>2, Zenon
    <3> QED
      BY <1>3, <2>1, <2>2, <3>1, <3>3, Zenon DEF KscAt
  <2> QED
    BY <2>1, <2>3, <2>4
<1>7. cs \in Seq(Seq(Nat))
  <2>1. Octet \subseteq Nat
    BY DEF Octet
  <2>2. Seq(Octet) \subseteq Seq(Nat)
    BY <2>1, SeqMonotonic
  <2> QED
    BY <2>2, SeqMonotonic
<1>8. e[0] = 0 /\ e[Len(cs)] = Len(bs)
  BY <1>2 DEF Places
<1>9. KscText(cs, bs, e)
  BY <1>5, <1>6, <1>7, <1>8 DEF KscText
<1> QED
  BY <1>1, <1>9

\* The variables of the two loops.
CharStates == [chars : Nat, cnt : Nat]
ConvertStates == [out : Seq(Seq(Nat)), len : Nat]

\* The first n characters are counted, or converted.
CharInv(e, n, a) == a \in CharStates /\ a.chars = n /\ a.cnt = e[n]
ConvertInv(cs, e, n, a) ==
  /\ a \in ConvertStates /\ Len(a.out) = n /\ a.len = e[n]
  /\ \A j \in 1 .. n : a.out[j] = cs[j]

\* A round of GetCharLength counts a character.
LEMMA CharRound ==
  ASSUME NEW cs, NEW bs, NEW e, KscText(cs, bs, e),
         NEW n \in Nat, n + 1 <= Len(cs), NEW a, CharInv(e, n, a)
  PROVE  CharInv(e, n + 1, GetCharBody(bs)[a])
<1>1. PICK m : m = n + 1
  OBVIOUS
<1>2. cs \in Seq(Seq(Nat)) /\ m \in 1 .. Len(cs) /\ m - 1 = n
  BY <1>1, LenProperties DEF KscText
<1>3. PICK c, d, ch : c = e[n] /\ d = e[m] /\ ch = cs[m]
  OBVIOUS
<1>4. KscAt(bs, c, d, ch)
  BY <1>2, <1>3, Zenon DEF KscText
<1>5. /\ c \in Nat /\ d \in Nat /\ Len(bs) \in Nat /\ ~(c >= Len(bs))
      /\ d = c + (IF Lead(bs[c + 1]) THEN 2 ELSE 1)
  <2>1. c \in Nat /\ d \in Nat /\ c < d /\ d <= Len(bs) /\ bs \in Seq(Octet)
    BY <1>4 DEF KscAt
  <2>2. Len(bs) \in Nat
    BY <2>1, LenProperties
  <2>3. CASE \E b \in Alphabet : ch = <<b>> /\ d = c + 1 /\ bs[c + 1] = b
    <3>1. PICK b \in Alphabet : d = c + 1 /\ bs[c + 1] = b
      BY <2>3
    <3>2. ~Lead(b)
      BY DEF Lead, Alphabet
    <3> QED
      BY <2>1, <2>2, <3>1, <3>2
  <2>4. CASE \E b1, b2 \in Octet :
          Pair(b1, b2) /\ ch = <<b1, b2>> /\ d = c + 2 /\ bs[c + 1] = b1 /\ bs[c + 2] = b2
    <3>1. PICK b1, b2 \in Octet : Pair(b1, b2) /\ d = c + 2 /\ bs[c + 1] = b1
      BY <2>4
    <3>2. b1 \in 129 .. 253
      BY <3>1, PairLeads
    <3>3. Lead(b1)
      BY <3>2 DEF Lead
    <3> QED
      BY <2>1, <2>2, <3>1, <3>3
  <2> QED
    BY <1>4, <2>3, <2>4 DEF KscAt
<1>6. a \in CharStates /\ a.chars = n /\ a.cnt = c
  BY <1>3 DEF CharInv
<1>7. GetCharBody(bs)[a] =
        IF a.cnt >= Len(bs) THEN a
        ELSE [chars |-> a.chars + 1, cnt |-> a.cnt + (IF Lead(bs[a.cnt + 1]) THEN 2 ELSE 1)]
  BY <1>6 DEF GetCharBody, CharStates
<1>8. GetCharBody(bs)[a] = [chars |-> m, cnt |-> d]
  BY <1>1, <1>5, <1>6, <1>7, Zenon
<1>9. m \in Nat
  BY <1>1
<1> QED
  BY <1>1, <1>3, <1>5, <1>8, <1>9 DEF CharInv, CharStates

\* GetCharLength counts the characters.
LEMMA CharsAreCounted ==
  ASSUME NEW cs, NEW bs, NEW e, KscText(cs, bs, e)
  PROVE  GetCharLength(bs) = Len(cs)
<1> DEFINE L == Len(cs)
           start == [chars |-> 0, cnt |-> 0]
           at(k) == Rounds(GetCharBody(bs), start, k)
<1>1. L \in Nat /\ L <= Len(bs) /\ e[0] = 0 /\ e[L] = Len(bs)
  BY LenProperties DEF KscText
<1>2. at(0) = start /\ \A k \in Nat : at(k + 1) = GetCharBody(bs)[at(k)]
  BY RoundsDef
<1>3. Len(bs) \in Nat
  <2>1. CASE L = 0
    BY <1>1, <2>1
  <2>2. CASE L # 0
    <3>1. L \in 1 .. L
      BY <1>1, <2>2
    <3>2. bs \in Seq(Octet)
      BY <3>1 DEF KscText, KscAt
    <3> QED
      BY <3>2, LenProperties
  <2> QED
    BY <2>1, <2>2
<1> HIDE DEF at
<1> DEFINE I == {k \in Nat : k <= L => CharInv(e, k, at(k))}
<1>4. 0 \in I
  <2>1. start \in CharStates /\ start.chars = 0 /\ start.cnt = 0
    BY DEF CharStates
  <2>2. CharInv(e, 0, start)
    BY <1>1, <2>1, Zenon DEF CharInv
  <2> QED
    BY <1>2, <2>2
<1>5. ASSUME NEW k \in Nat, k \in I PROVE k + 1 \in I
  <2> SUFFICES ASSUME k + 1 <= L PROVE CharInv(e, k + 1, at(k + 1))
    OBVIOUS
  <2>1. CharInv(e, k, at(k))
    BY <1>1, <1>5
  <2>2. PICK a : a = at(k)
    OBVIOUS
  <2>3. CharInv(e, k + 1, GetCharBody(bs)[a])
    BY <2>1, <2>2, CharRound
  <2> QED
    BY <1>2, <2>2, <2>3
<1> HIDE DEF I
<1>6. \A k \in Nat : k \in I
  BY <1>4, <1>5, AllNumbers
<1>7. CharInv(e, L, at(L))
  BY <1>1, <1>6 DEF I
<1>8. GetCharBody(bs)[at(L)] = at(L)
  <2>1. at(L) \in CharStates /\ at(L).cnt >= Len(bs)
    BY <1>1, <1>7, <1>3 DEF CharInv
  <2> QED
    BY <2>1 DEF GetCharBody, CharStates
<1>9. at(Len(bs)) = at(L)
  BY <1>1, <1>8, <1>3, RoundsStay DEF at
<1>10. at(Len(bs)).chars = L
  BY <1>7, <1>9 DEF CharInv
<1> QED
  BY <1>10 DEF GetCharLength, at

\* A round of KSC5601ToUCS2 converts a character.
LEMMA ConvertRound ==
  ASSUME NEW cs, NEW bs, NEW e, KscText(cs, bs, e),
         NEW n \in Nat, n + 1 <= Len(cs), NEW a, ConvertInv(cs, e, n, a)
  PROVE  ConvertInv(cs, e, n + 1, ConvertBody(bs)[a])
<1>1. PICK m : m = n + 1
  OBVIOUS
<1>2. cs \in Seq(Seq(Nat)) /\ m \in 1 .. Len(cs) /\ m - 1 = n
  BY <1>1, LenProperties DEF KscText
<1>3. PICK c, d, ch : c = e[n] /\ d = e[m] /\ ch = cs[m]
  OBVIOUS
<1>4. KscAt(bs, c, d, ch)
  BY <1>2, <1>3, Zenon DEF KscText
<1>5. a \in ConvertStates /\ a.len = c /\ Len(a.out) = n /\ \A j \in 1 .. n : a.out[j] = cs[j]
  BY <1>3 DEF ConvertInv
<1> DEFINE at(k) == IF k < Len(bs) THEN bs[k + 1] ELSE 0
<1>6. ConvertBody(bs)[a] =
        IF a.len >= Len(bs) THEN a
        ELSE IF Pair(at(a.len), at(a.len + 1))
          THEN [out |-> Append(a.out, <<at(a.len), at(a.len + 1)>>), len |-> a.len + 2]
          ELSE [out |-> Append(a.out, <<Single(at(a.len), at(a.len + 1))>>), len |-> a.len + 1]
  BY <1>5 DEF ConvertBody, ConvertStates
<1>7. c \in Nat /\ d \in Nat /\ c < d /\ d <= Len(bs) /\ bs \in Seq(Octet)
  BY <1>4 DEF KscAt
<1>8. Len(bs) \in Nat /\ ~(c >= Len(bs))
  <2>1. Len(bs) \in Nat
    BY <1>7, LenProperties
  <2> QED
    BY <1>7, <2>1
<1>9. ConvertBody(bs)[a] = [out |-> Append(a.out, ch), len |-> d]
  <2>1. CASE \E b \in Alphabet : ch = <<b>> /\ d = c + 1 /\ bs[c + 1] = b
    <3>1. PICK b \in Alphabet : ch = <<b>> /\ d = c + 1 /\ bs[c + 1] = b
      BY <2>1
    <3>2. b < 128 /\ ~(b \in 129 .. 253)
      BY DEF Alphabet
    <3>3. at(c) = b
      BY <1>7, <1>8, <3>1
    <3>4. ~Pair(b, at(c + 1))
      BY <3>2, PairLeads
    <3>5. Single(b, at(c + 1)) = b
      BY <3>2 DEF Single
    <3> HIDE DEF at
    <3> QED
      BY <1>5, <1>6, <1>8, <3>1, <3>3, <3>4, <3>5, Zenon
  <2>2. CASE \E b1, b2 \in Octet :
          Pair(b1, b2) /\ ch = <<b1, b2>> /\ d = c + 2 /\ bs[c + 1] = b1 /\ bs[c + 2] = b2
    <3>1. PICK b1, b2 \in Octet :
            Pair(b1, b2) /\ ch = <<b1, b2>> /\ d = c + 2 /\ bs[c + 1] = b1 /\ bs[c + 2] = b2
      BY <2>2
    <3>2. c < Len(bs) /\ c + 1 < Len(bs) /\ (c + 1) + 1 = c + 2
      BY <1>7, <1>8, <3>1
    <3>3. at(c) = b1 /\ at(c + 1) = b2
      BY <3>1, <3>2, Zenon
    <3> HIDE DEF at
    <3> QED
      BY <1>5, <1>6, <1>8, <3>1, <3>3, Zenon
  <2> QED
    BY <1>4, <2>1, <2>2 DEF KscAt
<1>10. ch \in Seq(Nat)
  BY <1>2, <1>3, ElementOfSeq
<1>11. PICK b : b = ConvertBody(bs)[a]
  OBVIOUS
<1>12. a.out \in Seq(Seq(Nat))
  BY <1>5 DEF ConvertStates
<1>13. b.out = Append(a.out, ch) /\ b.len = d /\ b \in ConvertStates
  BY <1>7, <1>9, <1>10, <1>11, <1>12 DEF ConvertStates
<1>14. /\ Len(b.out) = m /\ \A j \in 1 .. n : b.out[j] = cs[j]
       /\ b.out[m] = ch
  <2>1. PICK T : T = Seq(Nat)
    OBVIOUS
  <2>2. PICK u : u = a.out
    OBVIOUS
  <2>3. u \in Seq(T) /\ ch \in T /\ Len(u) = n
    BY <1>5, <1>10, <1>12, <2>1, <2>2
  <2>4. Len(Append(u, ch)) = m /\ Append(u, ch)[m] = ch
        /\ \A j \in 1 .. n : Append(u, ch)[j] = u[j]
    BY <1>1, <2>3
  <2> QED
    BY <1>5, <1>13, <2>2, <2>4, Zenon
<1>15. \A j \in 1 .. m : b.out[j] = cs[j]
  <2>1. \A j \in 1 .. m : j \in 1 .. n \/ j = m
    BY <1>1
  <2> QED
    BY <1>3, <1>14, <2>1, Zenon
<1> QED
  BY <1>1, <1>3, <1>11, <1>13, <1>14, <1>15, Zenon DEF ConvertInv

\* KSC5601ToUCS2 makes one unit of each character.
LEMMA CharsAreConverted ==
  ASSUME NEW cs, NEW bs, NEW e, KscText(cs, bs, e)
  PROVE  KSC5601ToUCS2(bs) = cs
<1> DEFINE L == Len(cs)
           start == [out |-> <<>>, len |-> 0]
           at(k) == Rounds(ConvertBody(bs), start, k)
<1>1. L \in Nat /\ L <= Len(bs) /\ e[0] = 0 /\ e[L] = Len(bs) /\ cs \in Seq(Seq(Nat))
  BY LenProperties DEF KscText
<1>2. at(0) = start /\ \A k \in Nat : at(k + 1) = ConvertBody(bs)[at(k)]
  BY RoundsDef
<1>3. Len(bs) \in Nat
  <2>1. CASE L = 0
    BY <1>1, <2>1
  <2>2. CASE L # 0
    <3>1. L \in 1 .. L
      BY <1>1, <2>2
    <3>2. bs \in Seq(Octet)
      BY <3>1 DEF KscText, KscAt
    <3> QED
      BY <3>2, LenProperties
  <2> QED
    BY <2>1, <2>2
<1> HIDE DEF at
<1> DEFINE I == {k \in Nat : k <= L => ConvertInv(cs, e, k, at(k))}
<1>4. 0 \in I
  <2>1. start \in ConvertStates /\ Len(start.out) = 0 /\ start.len = 0
    BY DEF ConvertStates
  <2>2. 1 .. 0 = {}
    OBVIOUS
  <2>3. ConvertInv(cs, e, 0, start)
    BY <1>1, <2>1, <2>2, Zenon DEF ConvertInv
  <2> QED
    BY <1>2, <2>3
<1>5. ASSUME NEW k \in Nat, k \in I PROVE k + 1 \in I
  <2> SUFFICES ASSUME k + 1 <= L PROVE ConvertInv(cs, e, k + 1, at(k + 1))
    OBVIOUS
  <2>1. ConvertInv(cs, e, k, at(k))
    BY <1>1, <1>5
  <2>2. PICK a : a = at(k)
    OBVIOUS
  <2>3. ConvertInv(cs, e, k + 1, ConvertBody(bs)[a])
    BY <2>1, <2>2, ConvertRound
  <2> QED
    BY <1>2, <2>2, <2>3
<1> HIDE DEF I
<1>6. \A k \in Nat : k \in I
  BY <1>4, <1>5, AllNumbers
<1>7. ConvertInv(cs, e, L, at(L))
  BY <1>1, <1>6 DEF I
<1>8. ConvertBody(bs)[at(L)] = at(L)
  <2>1. at(L) \in ConvertStates /\ at(L).len >= Len(bs)
    BY <1>1, <1>7, <1>3 DEF ConvertInv
  <2> QED
    BY <2>1 DEF ConvertBody, ConvertStates
<1>9. at(Len(bs)) = at(L)
  BY <1>1, <1>8, <1>3, RoundsStay DEF at
<1>10. at(L).out = cs
  <2>1. PICK T : T = Seq(Nat)
    OBVIOUS
  <2>2. PICK t : t = at(L).out
    OBVIOUS
  <2>3. t \in Seq(T) /\ Len(t) = Len(cs) /\ \A j \in 1 .. Len(cs) : t[j] = cs[j]
    BY <1>7, <2>1, <2>2 DEF ConvertInv, ConvertStates
  <2>4. cs \in Seq(T)
    BY <1>1, <2>1
  <2>5. t = cs
    BY <2>3, <2>4, SeqEqual
  <2> QED
    BY <2>2, <2>5
<1> QED
  BY <1>9, <1>10 DEF KSC5601ToUCS2, at

-----------------------------------------------------------------------------
(* What is read of the text.                                               *)

\* The whole of a sequence.
LEMMA WholeSeq ==
  ASSUME NEW T, NEW s \in Seq(T)
  PROVE  SubSeq(s, 1, Len(s)) = s
<1>1. Len(s) \in Nat
  OBVIOUS
<1>2. SubSeq(s, 1, Len(s)) \in Seq(T) /\ Len(SubSeq(s, 1, Len(s))) = Len(s)
      /\ \A k \in 1 .. Len(s) : SubSeq(s, 1, Len(s))[k] = s[k]
  BY <1>1
<1>3. PICK r : r = SubSeq(s, 1, Len(s))
  OBVIOUS
<1>4. r \in Seq(T) /\ Len(r) = Len(s) /\ \A k \in 1 .. Len(s) : r[k] = s[k]
  BY <1>2, <1>3, Zenon
<1>5. r = s
  BY <1>4, SeqEqual
<1> QED
  BY <1>3, <1>5

\* n counts septets behind a header of so many octets, which fill bits close.
CountsSeptets(n, octets, fill, sq) ==
  /\ n \in Nat /\ octets \in Nat /\ fill \in 0 .. 6
  /\ 7 * n = 8 * octets + fill + 7 * Len(sq)
  /\ (octets = 0 => fill = 0) /\ (fill # 0 => Len(sq) > 0)

\* What is read of septets is what was written, behind a header too.
LEMMA GsmIsRead ==
  ASSUME NEW text \in Seq(Alphabet), NEW n, NEW octets, NEW fill,
         CountsSeptets(n, octets, fill, encode_alphabet(text))
  PROVE  Text(Gsm7bit, n, octets, PackBits(encode_alphabet(text), fill)) = Ascii(text)
<1>1. PICK sq : sq = encode_alphabet(text)
  OBVIOUS
<1>2. sq \in Seq(Septet)
  BY <1>1, EncodedAlphabet DEF EncodedAs
<1>3. PICK l, bits : l = Len(sq) /\ bits = 7 * n - 8 * octets
  OBVIOUS
<1>4. /\ n \in Nat /\ octets \in Nat /\ fill \in 0 .. 6 /\ l \in Nat
      /\ 7 * n = 8 * octets + fill + 7 * l
      /\ (octets = 0 => fill = 0) /\ (fill # 0 => l > 0)
  BY <1>1, <1>2, <1>3, LenProperties, Zenon DEF CountsSeptets
<1>5. bits = fill + 7 * l
  BY <1>3, <1>4
<1>6. bits \div 7 = l /\ bits % 7 = fill
  BY <1>4, <1>5
<1>7. (IF octets = 0 THEN 0 ELSE bits % 7) = fill
  BY <1>4, <1>6, Zenon
<1>8. Text(Gsm7bit, n, octets, PackBits(sq, fill)) =
        Ascii(decode_alphabet(Unpack(PackBits(sq, fill), l, fill)))
  BY <1>3, <1>6, <1>7, Zenon DEF Text
<1>9. fill = 0 \/ Len(sq) > 0
  BY <1>3, <1>4
<1>10. Unpack(PackBits(sq, fill), Len(sq), fill) = sq
  BY <1>2, <1>4, <1>9, UnpackIsInverse
<1> QED
  BY <1>1, <1>3, <1>8, <1>10, DecodeIsInverse, Zenon

\* What is read of UCS2 is what was written.
LEMMA UcsIsRead ==
  ASSUME NEW units \in Seq(Word), NEW n, NEW octets
  PROVE  Text(Ucs2, n, octets, Wides(units)) = Wide(units)
<1>1. PICK ud : ud = Wides(units)
  OBVIOUS
<1>2. /\ Len(ud) = 2 * Len(units)
      /\ \A k \in 1 .. Len(units) : 256 * ud[2 * k - 1] + ud[2 * k] = units[k]
  BY <1>1, WidesAre
<1>3. Len(units) \in Nat
  BY LenProperties
<1>4. Len(ud) \div 2 = Len(units)
  BY <1>2, <1>3
<1>5. Text(Ucs2, n, octets, ud) =
        Wide([k \in 1 .. Len(ud) \div 2 |-> 256 * ud[2 * k - 1] + ud[2 * k]])
  <2>1. Ucs2 # Gsm7bit
    BY DEF Ucs2, Gsm7bit
  <2> QED
    BY <2>1, Zenon DEF Text
<1>6. [k \in 1 .. Len(units) |-> 256 * ud[2 * k - 1] + ud[2 * k]] =
        [k \in 1 .. Len(units) |-> units[k]]
  BY <1>2
<1>7. units = [k \in 1 .. Len(units) |-> units[k]]
  BY <1>3
<1> QED
  BY <1>1, <1>4, <1>5, <1>6, <1>7, Zenon

\* What is read of KS C 5601 are the characters that were written.
LEMMA KscIsRead ==
  ASSUME NEW cs \in Seq(Seq(Octet)), NEW n, NEW octets,
         \A k \in 1 .. Len(cs) : SingleByte(cs[k]) \/ PairOfBytes(cs[k])
  PROVE  Text(Ksc5601, n, octets, FlattenSeq(cs)) = Wide(cs)
<1>1. PICK ud : ud = FlattenSeq(cs)
  OBVIOUS
<1>2. PICK e : KscText(cs, ud, e)
  BY <1>1, KscPlaces
<1>3. KSC5601ToUCS2(ud) = cs /\ GetCharLength(ud) = Len(cs)
  BY <1>2, CharsAreConverted, CharsAreCounted
<1>4. /\ Ksc5601 # Gsm7bit /\ Ksc5601 # Ucs2
  BY DEF Ksc5601, Ucs2, Gsm7bit
<1>5. Text(Ksc5601, n, octets, ud) =
        Wide(SubSeq(cs, 1, IF Len(cs) < Len(cs) THEN Len(cs) ELSE Len(cs)))
  BY <1>3, <1>4, Zenon DEF Text
<1>6. SubSeq(cs, 1, Len(cs)) = cs
  BY WholeSeq
<1> QED
  BY <1>1, <1>5, <1>6, Zenon

-----------------------------------------------------------------------------
(* What is read of the message.                                            *)

\* What is read behind the header of a message.
Headed(pdu, q, size, num) ==
  LET walk == Elements(pdu, q + 11, size, num)
  IN  [number |-> Dialled(walk.number),
       text |-> Text(pdu[q + 1], pdu[q + 9], size + 1, SubSeq(pdu, walk.p, Len(pdu)))]

\* What DecodePDU makes of the parts of a message.
LEMMA DecodeParts ==
  ASSUME NEW pdu, NEW first, NEW origin, NEW q, NEW size,
         first = 2 + pdu[1], origin = AddressAt(pdu, first + 1), q = origin.end,
         size = pdu[q + 10], pdu[q] = 0
  PROVE  /\ HasBit(pdu[first], TP_UDHI) =>
              DecodePDU(pdu) = Headed(pdu, q, size, origin.number)
         /\ ~HasBit(pdu[first], TP_UDHI) =>
              DecodePDU(pdu) =
                [number |-> Dialled(origin.number),
                 text |-> Text(pdu[q + 1], pdu[q + 9], 0, SubSeq(pdu, q + 10, Len(pdu)))]
<1> DEFINE udhi == HasBit(pdu[first], TP_UDHI)
           walk == IF udhi THEN Elements(pdu, q + 11, size, origin.number)
                             ELSE [number |-> origin.number, p |-> q + 10]
<1>1. DecodePDU(pdu) =
        [number |-> Dialled(walk.number),
         text |-> Text(pdu[q + 1], pdu[q + 9], IF udhi THEN size + 1 ELSE 0,
                       SubSeq(pdu, walk.p, Len(pdu)))]
  BY Zenon DEF DecodePDU
<1>2. CASE udhi
  <2>1. walk = Elements(pdu, q + 11, size, origin.number)
    BY <1>2
  <2>2. (IF udhi THEN size + 1 ELSE 0) = size + 1
    BY <1>2
  <2> HIDE DEF walk
  <2> QED
    BY <1>1, <1>2, <2>1, <2>2, Zenon DEF Headed
<1>3. CASE ~udhi
  <2>1. walk = [number |-> origin.number, p |-> q + 10]
    BY <1>3
  <2>2. (IF udhi THEN size + 1 ELSE 0) = 0
    BY <1>3
  <2>3. walk.number = origin.number /\ walk.p = q + 10
    BY <2>1
  <2> HIDE DEF walk
  <2> QED
    BY <1>1, <1>3, <2>2, <2>3, Zenon
<1> QED
  BY <1>2, <1>3

\* A message without a header is read: who sent it, and the text.
LEMMA FrameIsRead ==
  ASSUME NEW num, IsNumber(num), num # <<"+">>, NEW coding \in Nat, NEW n \in Nat,
         NEW rest \in Seq(Nat)
  PROVE  DecodePDU(Frame(4, Address(num), coding, n, rest)) =
           [number |-> num, text |-> Text(coding, n, 0, rest)]
<1>1. PICK address, pdu : address = Address(num) /\ pdu = Frame(4, address, coding, n, rest)
  OBVIOUS
<1>2. address \in Seq(Nat)
  <2>1. PICK len, type, os, ds : AddressOf(num, len, type, os, ds)
    BY AddressHolds
  <2> QED
    BY <1>1, <2>1, AddressOctets
<1>3. PICK a : a = Len(address)
  OBVIOUS
<1>4. PICK q : q = 5 + a
  OBVIOUS
<1>5. a \in Nat /\ q \in Nat /\ q >= 5
  BY <1>2, <1>3, <1>4, LenProperties
<1>6. Framed(pdu, 4, address, coding, n, rest)
  BY <1>1, <1>2, FrameIsFramed
<1>7. /\ pdu \in Seq(Nat) /\ pdu[1] = 2 /\ pdu[4] = 4 /\ HeldAt(pdu, 5, address)
      /\ pdu[q] = 0 /\ pdu[q + 1] = coding /\ pdu[q + 9] = n
      /\ HeldAt(pdu, q + 10, rest) /\ Len(pdu) = (q + 9) + Len(rest)
  BY <1>3, <1>4, <1>6, Zenon DEF Framed
<1>8. AddressIsRead(pdu, 5, num)
  <2>1. 5 \in Nat /\ 5 >= 1
    OBVIOUS
  <2> QED
    BY <1>1, <1>7, <2>1, AddressRead, Zenon
<1>9. PICK origin : origin = AddressAt(pdu, 5)
  OBVIOUS
<1>10. origin.end = q /\ Dialled(origin.number) = num
  BY <1>1, <1>3, <1>4, <1>8, <1>9, Zenon DEF AddressIsRead
<1>11. 4 = 2 + pdu[1] /\ 4 + 1 = 5
  BY <1>7
<1>12. ~HasBit(pdu[4], TP_UDHI)
  <2>1. ~HasBit(4, TP_UDHI)
    BY DEF HasBit, TP_UDHI
  <2> QED
    BY <1>7, <2>1, Zenon
<1>13. DecodePDU(pdu) =
         [number |-> num, text |-> Text(coding, n, 0, SubSeq(pdu, q + 10, Len(pdu)))]
  <2>1. PICK first, size : first = 4 /\ size = pdu[q + 10]
    OBVIOUS
  <2>2. first = 2 + pdu[1] /\ origin = AddressAt(pdu, first + 1)
    BY <1>9, <1>11, <2>1, Zenon
  <2>3. ~HasBit(pdu[first], TP_UDHI)
    BY <1>12, <2>1, Zenon
  <2>4. q = origin.end /\ pdu[q] = 0
    BY <1>7, <1>10
  <2>5. DecodePDU(pdu) =
          [number |-> Dialled(origin.number),
           text |-> Text(pdu[q + 1], pdu[q + 9], 0, SubSeq(pdu, q + 10, Len(pdu)))]
    BY <2>1, <2>2, <2>3, <2>4, DecodeParts
  <2> QED
    BY <1>7, <1>10, <2>5, Zenon
<1>14. SubSeq(pdu, q + 10, Len(pdu)) = rest
  <2>1. PICK p, e, l : p = q + 10 /\ e = Len(pdu) /\ l = Len(rest)
    OBVIOUS
  <2>2. l \in Nat /\ e = (q + 9) + l
    BY <1>7, <2>1, LenProperties
  <2>3. p \in Nat /\ p >= 1 /\ e \in Nat /\ e = p - 1 + l
    BY <1>5, <2>1, <2>2
  <2>4. EndsAt(p, rest, e)
    BY <2>1, <2>3, Zenon DEF EndsAt
  <2>5. HeldAt(pdu, p, rest)
    BY <1>7, <2>1, Zenon
  <2>6. SubSeq(pdu, p, e) = rest
    BY <1>7, <2>3, <2>4, <2>5, HeldIs
  <2> QED
    BY <2>1, <2>6, Zenon
<1> QED
  BY <1>1, <1>13, <1>14, Zenon

\* The user data of a text is a length and what it is the length of.
DataOf(text, n, rest) ==
  /\ n \in Nat /\ rest \in Seq(Nat) /\ UserData(text) = <<n>> \o rest

\* EncodePDU's message, as the network delivers it.
LEMMA SentIsDelivered ==
  ASSUME NEW num, IsNumber(num), num # <<"+">>, NEW text, NEW n, NEW rest,
         DataOf(text, n, rest), Coding(text) \in Nat
  PROVE  Delivered(EncodePDU(text, num)) = Frame(4, Address(num), Coding(text), n, rest)
<1>1. PICK address : address = Address(num)
  OBVIOUS
<1>2. PICK len, type, os, ds : AddressOf(num, len, type, os, ds)
  BY AddressHolds
<1>3. /\ address \in Seq(Nat) /\ Len(address) = 2 + Len(os) /\ Len(os) \in Nat
      /\ address[1] = len /\ Len(os) = (len + 1) \div 2
  BY <1>1, <1>2, AddressOctets
<1>4. FitsLength(address)
  <2>1. Len(address) >= 2
    BY <1>3
  <2> QED
    BY <1>3, <2>1, Zenon DEF FitsLength
<1>5. Delivered(Submitted(address, Coding(text), n, rest)) =
        Frame(4, address, Coding(text), n, rest)
  <2>1. PICK coding : coding = Coding(text)
    OBVIOUS
  <2>2. coding \in Nat
    BY <2>1
  <2>3. Delivered(Submitted(address, coding, n, rest)) = Frame(4, address, coding, n, rest)
    <3>1. address \in Seq(Nat) /\ n \in Nat /\ rest \in Seq(Nat)
      BY <1>3 DEF DataOf
    <3> QED
      BY <1>4, <2>2, <3>1, DeliveredIs
  <2> QED
    BY <2>1, <2>3, Zenon
<1>6. EncodePDU(text, num) = Submitted(address, Coding(text), n, rest)
  BY <1>1, Zenon DEF EncodePDU, DataOf, Submitted
<1> QED
  BY <1>1, <1>5, <1>6, Zenon

\* The text comes back from its septets or octets, behind a header too, when its fill
\* bits and its length are those of the header.
LEMMA TextIsRead ==
  ASSUME Composed
  PROVE  /\ Coding(Sent) \in Nat
         /\ Coding(Sent) = Gsm7bit =>
              /\ Units \in Seq(Alphabet) /\ encode_alphabet(Units) \in Seq(Septet)
              /\ DataOf(Sent, Len(encode_alphabet(Units)), PackBits(encode_alphabet(Units), 0))
              /\ \A n, octets, fill :
                   CountsSeptets(n, octets, fill, encode_alphabet(Units)) =>
                     Text(Gsm7bit, n, octets, PackBits(encode_alphabet(Units), fill)) = AsRead
         /\ Coding(Sent) # Gsm7bit =>
              \E n, rest :
                /\ DataOf(Sent, n, rest)
                /\ \A m, octets : Text(Coding(Sent), m, octets, rest) = AsRead
<1>1. Gsm7bit # Ucs2 /\ Gsm7bit # Ksc5601 /\ Ucs2 # Ksc5601
      /\ Gsm7bit \in Nat /\ Ucs2 \in Nat /\ Ksc5601 \in Nat
  BY DEF Gsm7bit, Ucs2, Ksc5601
<1>2. Octet \subseteq Nat
  BY DEF Octet
<1>3. CASE Coding(Sent) = Gsm7bit
  <2>1. Units \in Seq(Alphabet)
    BY <1>1, <1>3, CodingOfUnits
  <2>2. AsRead = Ascii(Units)
    BY <1>3 DEF AsRead
  <2>3. PICK sq : sq = encode_alphabet(Units)
    OBVIOUS
  <2>4. sq \in Seq(Septet)
    BY <2>1, <2>3, EncodedAlphabet DEF EncodedAs
  <2>5. PackBits(sq, 0) \in Seq(Nat) /\ Pack(sq) = PackBits(sq, 0)
    <3>1. PackBits(sq, 0) \in Seq(Octet) /\ Pack(sq) = PackBits(sq, 0)
      BY <2>4, PackIsBits, PackBitsType
    <3> QED
      BY <1>2, <3>1, SeqMonotonic
  <2>6. DataOf(Sent, Len(sq), PackBits(sq, 0))
    <3>1. Len(sq) \in Nat
      BY <2>4, LenProperties
    <3>2. UserData(Sent) = <<Len(sq)>> \o Pack(sq)
      BY <1>3, <2>3, UserDataIs
    <3> QED
      BY <2>5, <3>1, <3>2, Zenon DEF DataOf
  <2>7. \A n, octets, fill :
          CountsSeptets(n, octets, fill, sq) => Text(Gsm7bit, n, octets,
            PackBits(sq, fill)) = AsRead
    BY <2>1, <2>2, <2>3, GsmIsRead, Zenon
  <2> QED
    BY <1>1, <1>3, <2>1, <2>3, <2>4, <2>6, <2>7, Zenon
<1>4. CASE Coding(Sent) = Ucs2
  <2>1. kind = "ucs2" /\ Units \in Seq(Unit)
    BY <1>1, <1>4, CodingOfUnits
  <2>2. AsRead = Wide(Units)
    BY <1>1, <1>4, <2>1 DEF AsRead
  <2>3. Units \in Seq(Word)
    <3>1. Unit \subseteq Word
      BY UnitIsWord
    <3> QED
      BY <2>1, <3>1, SeqMonotonic
  <2>4. Wides(Units) \in Seq(Nat) /\ 2 * Len(Units) \in Nat
    <3>1. Len(Units) \in Nat
      BY <2>3, LenProperties
    <3>2. Wides(Units) \in Seq(Octet)
      BY <2>3, WidesAre
    <3>3. Wides(Units) \in Seq(Nat)
      BY <1>2, <3>2, SeqMonotonic
    <3> QED
      BY <3>1, <3>3
  <2>5. DataOf(Sent, 2 * Len(Units), Wides(Units))
    BY <1>4, <2>4, UserDataIs, Zenon DEF DataOf
  <2>6. \A m, octets : Text(Coding(Sent), m, octets, Wides(Units)) = AsRead
    BY <1>4, <2>2, <2>3, UcsIsRead, Zenon
  <2> QED
    BY <1>1, <1>4, <2>5, <2>6, Zenon
<1>5. CASE Coding(Sent) = Ksc5601
  <2>1. kind = "ksc5601" /\ Units \in Seq(Octet)
    BY <1>1, <1>5, CodingOfUnits
  <2>2. AsRead = Wide(chars)
    BY <1>1, <1>5, <2>1 DEF AsRead
  <2>3. chars \in Seq(Seq(Octet))
        /\ \A k \in 1 .. Len(chars) : SingleByte(chars[k]) \/ PairOfBytes(chars[k])
    BY <2>1, KscChars
  <2>4. Units \in Seq(Nat) /\ Len(Units) \in Nat
    <3>1. Units \in Seq(Nat)
      BY <1>2, <2>1, SeqMonotonic
    <3> QED
      BY <3>1, LenProperties
  <2>5. DataOf(Sent, Len(Units), Units)
    BY <1>5, <2>4, UserDataIs, Zenon DEF DataOf
  <2>6. \A m, octets : Text(Coding(Sent), m, octets, Units) = AsRead
    BY <1>5, <2>2, <2>3, KscIsRead, Zenon DEF Units
  <2> QED
    BY <1>1, <1>5, <2>5, <2>6, Zenon
<1> QED
  BY <1>3, <1>4, <1>5, CodingOfUnits

\* The text without a header.
LEMMA PlainTextIsRead ==
  ASSUME Composed
  PROVE  \E n, rest : DataOf(Sent, n, rest) /\ Text(Coding(Sent), n, 0, rest) = AsRead
<1>1. CASE Coding(Sent) = Gsm7bit
  <2>1. PICK sq : sq = encode_alphabet(Units)
    OBVIOUS
  <2>2. /\ sq \in Seq(Septet) /\ DataOf(Sent, Len(sq), PackBits(sq, 0))
        /\ \A n, octets, fill :
             CountsSeptets(n, octets, fill, sq) => Text(Gsm7bit, n, octets,
               PackBits(sq, fill)) = AsRead
    BY <1>1, <2>1, TextIsRead, Zenon
  <2>3. CountsSeptets(Len(sq), 0, 0, sq)
    BY <2>2, LenProperties DEF CountsSeptets
  <2> QED
    BY <1>1, <2>2, <2>3, Zenon
<1>2. CASE Coding(Sent) # Gsm7bit
  BY <1>2, TextIsRead, Zenon
<1> QED
  BY <1>1, <1>2

\* What is composed is read.
LEMMA ComposedIsRead ==
  ASSUME Composed
  PROVE  SentIsRead
<1> SUFFICES ASSUME number # <<"+">>
             PROVE  DecodePDU(Delivered(EncodePDU(Sent, number))) =
                      [number |-> number, text |-> AsRead]
  BY DEF SentIsRead
<1>1. IsNumber(number)
  BY DEF Composed
<1>2. PICK n, rest : DataOf(Sent, n, rest) /\ Text(Coding(Sent), n, 0, rest) = AsRead
  BY PlainTextIsRead
<1>3. Coding(Sent) \in Nat
  BY TextIsRead
<1>4. Delivered(EncodePDU(Sent, number)) = Frame(4, Address(number), Coding(Sent), n, rest)
  BY <1>1, <1>2, <1>3, SentIsDelivered
<1>5. DecodePDU(Frame(4, Address(number), Coding(Sent), n, rest)) =
        [number |-> number, text |-> Text(Coding(Sent), n, 0, rest)]
  BY <1>1, <1>2, <1>3, FrameIsRead DEF DataOf
<1> QED
  BY <1>2, <1>4, <1>5

\* What EncodePDU makes of a number and a text, DecodePDU takes apart again, for every
\* number and every text that fit the arrays: a number of at most eighteen digits,
\* with or without a "+".
THEOREM SentIsAlwaysRead == ExchangeSpec => []SentIsRead
<1>1. Composed => SentIsRead
  BY ComposedIsRead
<1> QED
  BY <1>1, ComposedOnly, PTL

-----------------------------------------------------------------------------
(* The elements of a header.                                               *)

\* One sequence joined, and two.
LEMMA JoinOne ==
  ASSUME NEW T, NEW x \in Seq(T)
  PROVE  FlattenSeq(<<x>>) = x
<1>1. PICK ss, flat : ss = <<x>> /\ flat = FlattenSeq(ss)
  OBVIOUS
<1>2. ss \in Seq(Seq(T)) /\ Len(ss) = 1 /\ ss[1] = x
  BY <1>1
<1>3. flat \in Seq(T)
  BY <1>1, <1>2, FlatPlaces
<1>4. PICK e : Places(ss, flat, e)
  BY <1>1, <1>2, FlatPlaces
<1>5. PICK l : l = Len(x)
  OBVIOUS
<1>6. /\ e[0] = 0 /\ e[1] = Len(flat) /\ e[1] = e[0] + l
      /\ \A j \in 1 .. l : flat[e[0] + j] = x[j]
  <2>1. 1 \in 1 .. 1 /\ 1 - 1 = 0
    OBVIOUS
  <2> QED
    BY <1>2, <1>4, <1>5, <2>1, Zenon DEF Places
<1>7. l \in Nat
  BY <1>5, LenProperties
<1>8. Len(flat) = l /\ \A j \in 1 .. l : flat[j] = x[j]
  BY <1>6, <1>7
<1>9. flat = x
  BY <1>3, <1>5, <1>8, SeqEqual
<1> QED
  BY <1>1, <1>9

\* Two sequences joined.
LEMMA JoinTwo ==
  ASSUME NEW T, NEW x \in Seq(T), NEW y \in Seq(T)
  PROVE  FlattenSeq(<<x, y>>) = x \o y
<1>1. PICK ss, flat : ss = <<x, y>> /\ flat = FlattenSeq(ss)
  OBVIOUS
<1>2. ss \in Seq(Seq(T)) /\ Len(ss) = 2 /\ ss[1] = x /\ ss[2] = y
  BY <1>1
<1>3. flat \in Seq(T)
  BY <1>1, <1>2, FlatPlaces
<1>4. PICK e : Places(ss, flat, e)
  BY <1>1, <1>2, FlatPlaces
<1>5. PICK l, m : l = Len(x) /\ m = Len(y)
  OBVIOUS
<1>6. /\ e[0] = 0 /\ e[2] = Len(flat) /\ e[1] = e[0] + l /\ e[2] = e[1] + m
      /\ \A j \in 1 .. l : flat[e[0] + j] = x[j]
      /\ \A j \in 1 .. m : flat[e[1] + j] = y[j]
  <2>1. 1 \in 1 .. 2 /\ 1 - 1 = 0 /\ 2 \in 1 .. 2 /\ 2 - 1 = 1
    OBVIOUS
  <2>2. /\ e[0] = 0 /\ e[Len(ss)] = Len(flat)
        /\ \A k \in 1 .. Len(ss) : e[k] = e[k - 1] + Len(ss[k])
        /\ \A k \in 1 .. Len(ss) : \A j \in 1 .. Len(ss[k]) : flat[e[k - 1] + j] = ss[k][j]
    BY <1>4, Zenon DEF Places
  <2> QED
    BY <1>2, <1>4, <1>5, <2>1, <2>2, Zenon
<1>7. l \in Nat /\ m \in Nat
  BY <1>5, LenProperties
<1>8. /\ Len(flat) = l + m /\ \A j \in 1 .. l : flat[j] = x[j]
      /\ \A j \in 1 .. m : flat[l + j] = y[j]
  BY <1>6, <1>7
<1>9. PICK z : z = x \o y
  OBVIOUS
<1>10. /\ z \in Seq(T) /\ Len(z) = l + m
       /\ \A j \in 1 .. l : z[j] = x[j]
       /\ \A j \in 1 .. m : z[l + j] = y[j]
  <2>1. /\ x \o y \in Seq(T) /\ Len(x \o y) = Len(x) + Len(y)
        /\ \A j \in 1 .. Len(x) : (x \o y)[j] = x[j]
        /\ \A j \in 1 .. Len(y) : (x \o y)[Len(x) + j] = y[j]
    BY ConcatPlaces
  <2> QED
    BY <1>5, <1>9, <2>1, Zenon
<1>11. \A j \in 1 .. l + m : flat[j] = z[j]
  <2> SUFFICES ASSUME NEW j \in 1 .. l + m PROVE flat[j] = z[j]
    OBVIOUS
  <2>1. CASE j \in 1 .. l
    BY <1>8, <1>10, <2>1
  <2>2. CASE j \notin 1 .. l
    <3>1. j - l \in 1 .. m /\ l + (j - l) = j
      BY <1>7, <2>2
    <3> QED
      BY <1>8, <1>10, <3>1
  <2> QED
    BY <2>1, <2>2
<1>12. flat = z
  BY <1>3, <1>8, <1>10, <1>11, SeqEqual
<1> QED
  BY <1>1, <1>9, <1>12

\* An element's first octets are its identifier and its length.
LEMMA OpaqueType ==
  ASSUME NEW len \in Nat
  PROVE  /\ Opaque(len) \in Seq(Nat) /\ Len(Opaque(len)) = 2 + len
         /\ Opaque(len)[1] = 0 /\ Opaque(len)[2] = len
<1>1. PICK u, v, z : u = <<0, len>> /\ v = [k \in 1 .. len |-> 34] /\ z = u \o v
  OBVIOUS
<1>2. u \in Seq(Nat) /\ v \in Seq(Nat) /\ Len(u) = 2 /\ Len(v) = len /\ u[1] = 0 /\ u[2] = len
  BY <1>1
<1>3. u \in Seq(Nat) /\ v \in Seq(Nat)
  BY <1>2
<1>4. /\ u \o v \in Seq(Nat) /\ Len(u \o v) = Len(u) + Len(v)
      /\ \A j \in 1 .. Len(u) : (u \o v)[j] = u[j]
  BY <1>3, ConcatPlaces
<1>5. 1 \in 1 .. 2 /\ 2 \in 1 .. 2
  OBVIOUS
<1>6. z \in Seq(Nat) /\ Len(z) = 2 + len /\ z[1] = 0 /\ z[2] = len
  BY <1>1, <1>2, <1>4, <1>5, Zenon
<1>7. z = Opaque(len)
  BY <1>1, Zenon DEF Opaque
<1> QED
  BY <1>6, <1>7

\* The element with the reply address: its octets, and those of the address.
LEMMA ReplyType ==
  /\ IsNumber(ReplyNumber) /\ ReplyNumber # <<"+">>
  /\ Address(ReplyNumber) \in Seq(Nat) /\ Address(ReplyNumber)[1] \in Nat
  /\ Address(ReplyNumber)[1] > 0 /\ Len(Address(ReplyNumber)) >= 2
  /\ Reply \in Seq(Nat) /\ Len(Reply) = 2 + Len(Address(ReplyNumber))
  /\ Reply[1] = 34
<1>1. IsNumber(ReplyNumber) /\ ReplyNumber # <<"+">> /\ ReplyNumber # <<>>
  BY ReplyIsNumber
<1>2. PICK len, type, os, ds : AddressOf(ReplyNumber, len, type, os, ds)
  BY <1>1, AddressHolds
<1>3. PICK a : a = Address(ReplyNumber)
  OBVIOUS
<1>4. /\ a \in Seq(Nat) /\ Len(a) = 2 + Len(os) /\ Len(os) \in Nat /\ a[1] = len
  BY <1>2, <1>3, AddressOctets
<1>5. len \in Nat /\ len # 0
  BY <1>1, <1>2, Zenon DEF AddressOf
<1>6. PICK l, u, z : l = Len(a) /\ u = <<34, l>> /\ z = u \o a
  OBVIOUS
<1>7. l \in Nat /\ l >= 2
  BY <1>4, <1>6
<1>8. u \in Seq(Nat) /\ Len(u) = 2 /\ u[1] = 34
  BY <1>6, <1>7
<1>9. a \in Seq(Nat)
  BY <1>4
<1>10. /\ u \o a \in Seq(Nat) /\ Len(u \o a) = Len(u) + Len(a)
       /\ \A j \in 1 .. Len(u) : (u \o a)[j] = u[j]
  <2>1. u \in Seq(Nat)
    BY <1>8
  <2> QED
    BY <1>9, <2>1, ConcatPlaces
<1>11. 1 \in 1 .. 2
  OBVIOUS
<1>12. z \in Seq(Nat) /\ Len(z) = 2 + l /\ z[1] = 34
  BY <1>6, <1>8, <1>10, <1>11, Zenon
<1>13. z = Reply
  BY <1>3, <1>6, Zenon DEF Reply
<1>14. len > 0
  BY <1>5
<1> QED
  BY <1>1, <1>3, <1>4, <1>5, <1>6, <1>7, <1>12, <1>13, <1>14, Zenon

\* The variables of the walk.
WalkStates == [p : Nat, walked : Nat, number : Seq(HexDigits \cup {"+"})]

\* The walk after an element of len octets from octet p.
Walks(b, p, walked, len, num) ==
  b.p = p + len /\ b.walked = walked + len /\ b.number = num /\ b \in WalkStates

\* An element that is not known is walked over.
LEMMA OpaqueIsSkipped ==
  ASSUME NEW pdu \in Seq(Nat), NEW a \in WalkStates, a.p >= 1, NEW len \in Nat,
         HeldAt(pdu, a.p, Opaque(len))
  PROVE  Walks(Element(pdu, a), a.p, a.walked, Len(Opaque(len)), a.number)
<1>1. PICK p, w : p = a.p /\ w = a.walked
  OBVIOUS
<1>2. p \in Nat /\ w \in Nat /\ a.number \in Seq(HexDigits \cup {"+"})
  BY <1>1 DEF WalkStates
<1>3. PICK z : z = Opaque(len)
  OBVIOUS
<1>4. Len(z) = 2 + len /\ z[1] = 0 /\ z[2] = len
  BY <1>3, OpaqueType
<1>5. pdu[p] = 0 /\ pdu[p + 1] = len
  <2>1. 1 \in 1 .. 2 + len /\ 2 \in 1 .. 2 + len /\ p - 1 + 1 = p /\ p - 1 + 2 = p + 1
    BY <1>2
  <2>2. HeldAt(pdu, p, z)
    BY <1>1, <1>3
  <2> QED
    BY <1>4, <2>1, <2>2, Zenon DEF HeldAt
<1>6. pdu[p] # 34
  BY <1>5
<1>7. Element(pdu, a) = [p |-> p + 2 + len, walked |-> w + 2 + len, number |-> a.number]
  BY <1>1, <1>5, <1>6, Zenon DEF Element
<1>8. /\ p + 2 + len = p + (2 + len) /\ w + 2 + len = w + (2 + len)
      /\ p + 2 + len \in Nat /\ w + 2 + len \in Nat
  BY <1>2
<1>9. Element(pdu, a) \in WalkStates
  BY <1>2, <1>7, <1>8 DEF WalkStates
<1>10. /\ Element(pdu, a).p = p + 2 + len /\ Element(pdu, a).walked = w + 2 + len
       /\ Element(pdu, a).number = a.number
  BY <1>7
<1> QED
  BY <1>1, <1>3, <1>4, <1>8, <1>9, <1>10, Zenon DEF Walks

\* A reply address is read.
LEMMA ReplyIsTaken ==
  ASSUME NEW pdu \in Seq(Nat), NEW a \in WalkStates, a.p >= 1, HeldAt(pdu, a.p, Reply)
  PROVE  \E r : /\ Walks(Element(pdu, a), a.p, a.walked, Len(Reply), r)
                /\ Dialled(r) = ReplyNumber
<1>1. PICK p, w : p = a.p /\ w = a.walked
  OBVIOUS
<1>2. p \in Nat /\ w \in Nat /\ p >= 1
  BY <1>1 DEF WalkStates
<1>3. PICK ad : ad = Address(ReplyNumber)
  OBVIOUS
<1>4. /\ IsNumber(ReplyNumber) /\ ReplyNumber # <<"+">> /\ ad \in Seq(Nat)
      /\ ad[1] \in Nat /\ ad[1] > 0 /\ Len(ad) >= 2 /\ Len(Reply) = 2 + Len(ad)
  BY <1>3, ReplyType, Zenon
<1>5. PICK l, u : l = Len(ad) /\ u = <<34, l>>
  OBVIOUS
<1>6. l \in Nat /\ l >= 2
  BY <1>4, <1>5, LenProperties
<1>7. u \in Seq(Nat) /\ Len(u) = 2
  BY <1>5, <1>6
<1>8. HeldAt(pdu, p, u) /\ HeldAt(pdu, p + Len(u), ad)
  <2>1. HeldAt(pdu, p, u \o ad)
    BY <1>1, <1>3, <1>5, Zenon DEF Reply
  <2>2. ad \in Seq(Nat) /\ u \in Seq(Nat)
    BY <1>4, <1>7
  <2> QED
    BY <1>2, <2>1, <2>2, HeldConcat, Zenon
<1>9. pdu[p] = 34 /\ pdu[p + 1] = l
  <2>1. HeldAt(pdu, p, <<34, l>>)
    BY <1>5, <1>8, Zenon
  <2>2. TwoAt(pdu, p, 34, l)
    BY <1>2, <2>1, HeldTwo
  <2> QED
    BY <2>2, Zenon DEF TwoAt
<1>10. PICK q : q = p + 2
  OBVIOUS
<1>11. q \in Nat /\ q >= 1
  BY <1>2, <1>10
<1>12. HeldAt(pdu, q, ad)
  BY <1>7, <1>8, <1>10, Zenon
<1>13. AddressIsRead(pdu, q, ReplyNumber)
  BY <1>3, <1>4, <1>11, <1>12, AddressRead, Zenon
<1>14. pdu[q] > 0
  <2>1. q - 1 + 1 = q /\ 1 \in 1 .. l
    BY <1>6, <1>11
  <2>2. pdu[q] = ad[1]
    BY <1>5, <1>12, <2>1, Zenon DEF HeldAt
  <2> QED
    BY <1>4, <2>2
<1>15. PICK r : r = AddressAt(pdu, q).number
  OBVIOUS
<1>16. /\ AddressAt(pdu, q).end = q + l /\ r \in Seq(HexDigits \cup {"+"})
       /\ Dialled(r) = ReplyNumber
  BY <1>3, <1>5, <1>13, <1>15, Zenon DEF AddressIsRead
<1>17. Element(pdu, a) = [p |-> q + l, walked |-> w + 2 + l, number |-> r]
  BY <1>1, <1>9, <1>10, <1>14, <1>15, <1>16, Zenon DEF Element
<1>18. /\ q + l = p + (2 + l) /\ w + 2 + l = w + (2 + l) /\ q + l \in Nat /\ w + 2 + l \in Nat
  BY <1>2, <1>6, <1>10
<1>19. Element(pdu, a) \in WalkStates
  BY <1>16, <1>17, <1>18 DEF WalkStates
<1>20. /\ Element(pdu, a).p = q + l /\ Element(pdu, a).walked = w + 2 + l
       /\ Element(pdu, a).number = r
  BY <1>17
<1>21. Walks(Element(pdu, a), a.p, a.walked, Len(Reply), r)
  BY <1>1, <1>4, <1>5, <1>18, <1>19, <1>20, Zenon DEF Walks
<1> QED
  BY <1>16, <1>21

\* The walk ends where the elements end.
LEMMA WalkStays ==
  ASSUME NEW pdu, NEW size, NEW a \in WalkStates, a.walked = size
  PROVE  ElementsBody(pdu, size)[a] = a
BY DEF ElementsBody, WalkStates

\* Where the walk over the elements of a header ends, and the number it finds.
WalkedOver(pdu, p, udh, num, r) ==
  /\ Elements(pdu, p, Len(udh), num).p = p + Len(udh)
  /\ Elements(pdu, p, Len(udh), num).number = r

\* One element.
LEMMA WalkOne ==
  ASSUME NEW pdu, NEW p \in Nat, NEW udh \in Seq(Nat), NEW num, NEW r,
         Walks(Element(pdu, [p |-> p, walked |-> 0, number |-> num]), p, 0, Len(udh), r)
  PROVE  WalkedOver(pdu, p, udh, num, r)
<1>1. PICK size, start : size = Len(udh) /\ start = Element(pdu,
      [p |-> p, walked |-> 0, number |-> num])
  OBVIOUS
<1>2. size \in Nat
  BY <1>1, LenProperties
<1>3. start \in WalkStates /\ start.p = p + size /\ start.walked = 0 + size /\ start.number = r
  BY <1>1, Zenon DEF Walks
<1>4. start.walked = size
  BY <1>2, <1>3
<1>5. PICK body : body = ElementsBody(pdu, size)
  OBVIOUS
<1>6. Rounds(body, start, 0) = start /\ body[start] = start
  BY <1>3, <1>4, <1>5, RoundsDef, WalkStays
<1>7. Rounds(body, start, size) = start
  <2>1. 0 \in Nat /\ size >= 0
    BY <1>2
  <2>2. body[Rounds(body, start, 0)] = Rounds(body, start, 0)
    BY <1>6
  <2>3. Rounds(body, start, size) = Rounds(body, start, 0)
    BY <1>2, <2>1, <2>2, RoundsStay
  <2> QED
    BY <1>6, <2>3
<1>8. Elements(pdu, p, size, num) = start
  BY <1>1, <1>5, <1>7, Zenon DEF Elements
<1> QED
  BY <1>1, <1>3, <1>8, Zenon DEF WalkedOver

\* The walk behind an element.
IsElement(b, pdu, a) == b = Element(pdu, a)

\* Two elements, of l and m octets.
LEMMA WalkTwo ==
  ASSUME NEW pdu, NEW p \in Nat, NEW udh \in Seq(Nat), NEW num, NEW l \in Nat, NEW m \in Nat,
         m > 0, Len(udh) = l + m, NEW start, NEW behind, NEW o, NEW r,
         IsElement(start, pdu, [p |-> p, walked |-> 0, number |-> num]),
         Walks(start, p, 0, l, o),
         IsElement(behind, pdu, start),
         Walks(behind, start.p, start.walked, m, r)
  PROVE  WalkedOver(pdu, p, udh, num, r)
<1>1. PICK size : size = Len(udh)
  OBVIOUS
<1>2. size \in Nat /\ size = l + m /\ size >= 1
  BY <1>1
<1>3. start \in WalkStates /\ start.p = p + l /\ start.walked = 0 + l
  BY Zenon DEF Walks
<1>4. behind \in WalkStates /\ behind.p = start.p + m /\ behind.walked = start.walked + m
      /\ behind.number = r
  BY Zenon DEF Walks
<1>5. start.walked = l /\ behind.walked = size /\ behind.p = p + size
  <2>1. PICK sp, sw, np, nw : sp = start.p /\ sw = start.walked /\ np = behind.p
        /\ nw = behind.walked
    OBVIOUS
  <2>2. sp = p + l /\ sw = 0 + l /\ np = sp + m /\ nw = sw + m
    BY <1>3, <1>4, <2>1, Zenon
  <2>3. sw = l /\ nw = size /\ np = p + size
    BY <1>2, <2>2
  <2> QED
    BY <2>1, <2>3, Zenon
<1>6. start.walked # size
  <2>1. l # size
    BY <1>2
  <2> QED
    BY <1>5, <2>1, Zenon
<1>7. PICK body : body = ElementsBody(pdu, size)
  OBVIOUS
<1>8. Rounds(body, start, 0) = start /\ \A n \in Nat : Rounds(body, start, n
      + 1) = body[Rounds(body, start, n)]
  BY RoundsDef
<1>9. body[start] = Element(pdu, start)
  BY <1>3, <1>6, <1>7 DEF ElementsBody, WalkStates
<1>10. IsElement(behind, pdu, start)
  OBVIOUS
<1>11. Rounds(body, start, 1) = behind
  <2>1. 0 \in Nat /\ 0 + 1 = 1
    OBVIOUS
  <2>2. Rounds(body, start, 0 + 1) = body[Rounds(body, start, 0)]
    BY <1>8, <2>1, Zenon
  <2> QED
    BY <1>8, <1>9, <1>10, <2>1, <2>2, Zenon DEF IsElement
<1>12. body[behind] = behind
  <2>1. behind \in WalkStates /\ behind.walked = size
    BY <1>4, <1>5
  <2> QED
    BY <1>7, <2>1, WalkStays
<1>13. Rounds(body, start, size) = behind
  <2>1. body[Rounds(body, start, 1)] = Rounds(body, start, 1) /\ 1 \in Nat
    BY <1>11, <1>12
  <2>2. Rounds(body, start, size) = Rounds(body, start, 1)
    BY <1>2, <2>1, RoundsStay
  <2> QED
    BY <1>11, <2>2
<1>14. Elements(pdu, p, size, num) = behind
  BY <1>7, <1>13, Zenon DEF Elements, IsElement
<1> QED
  BY <1>1, <1>4, <1>5, <1>14, Zenon DEF WalkedOver

-----------------------------------------------------------------------------
(* A message with a header.                                                *)

\* The number a message with this header has, if its sender's is num.
NumberOf(num) == IF Last(header)[1] = 34 THEN ReplyNumber ELSE num

\* The elements that can be composed are walked over.
LEMMA HeaderIsWalked ==
  ASSUME Composed, header # <<>>, NEW pdu \in Seq(Nat), NEW p \in Nat, p >= 1,
         HeldAt(pdu, p, FlattenSeq(header)), NEW num \in Seq(HexDigits \cup {"+"})
  PROVE  \E r : /\ WalkedOver(pdu, p, FlattenSeq(header), num, r)
                /\ Dialled(r) = NumberOf(Dialled(num))
<1> DEFINE start == [p |-> p, walked |-> 0, number |-> num]
           one == Element(pdu, start)
<1>1. start \in WalkStates /\ start.p = p /\ start.walked = 0 /\ start.number = num
  BY DEF WalkStates
<1>2. IsElement(one, pdu, start)
  BY DEF IsElement
<1> HIDE DEF start
<1>3. Reply \in Seq(Nat) /\ Reply[1] = 34 /\ Len(Reply) \in Nat /\ Len(Reply) > 0
  <2>1. Reply \in Seq(Nat) /\ Reply[1] = 34 /\ Len(Reply) = 2 + Len(Address(ReplyNumber))
        /\ Address(ReplyNumber) \in Seq(Nat)
    BY ReplyType, Zenon
  <2>2. Len(Address(ReplyNumber)) \in Nat
    BY <2>1, LenProperties
  <2> QED
    BY <2>1, <2>2
<1>4. CASE header = <<Reply>>
  <2>1. FlattenSeq(header) = Reply
    BY <1>3, <1>4, JoinOne
  <2>2. HeldAt(pdu, start.p, Reply) /\ start.p >= 1
    BY <1>1, <2>1
  <2>3. PICK r : Walks(one, start.p, start.walked, Len(Reply), r) /\ Dialled(r) = ReplyNumber
    BY <1>1, <2>2, ReplyIsTaken
  <2>4. Walks(Element(pdu, [p |-> p, walked |-> 0, number |-> num]), p, 0, Len(Reply), r)
    BY <1>1, <2>3, Zenon DEF start
  <2>5. WalkedOver(pdu, p, Reply, num, r)
    BY <1>3, <2>4, WalkOne
  <2>6. Last(header) = Reply
    BY <1>4 DEF Last
  <2> QED
    BY <1>3, <2>1, <2>3, <2>5, <2>6, Zenon DEF NumberOf
<1>5. ASSUME NEW len \in 1 .. MaxElement
      PROVE  /\ len \in Nat /\ Opaque(len) \in Seq(Nat) /\ Len(Opaque(len)) \in Nat
             /\ Opaque(len)[1] # 34
  <2>1. len \in Nat
    BY BoundsAssumption
  <2>2. PICK z : z = Opaque(len)
    OBVIOUS
  <2>3. z \in Seq(Nat) /\ Len(z) \in Nat /\ z[1] = 0
    BY <2>1, <2>2, OpaqueType, LenProperties
  <2>4. z[1] # 34
    BY <2>3
  <2> QED
    BY <2>1, <2>2, <2>3, <2>4, Zenon
<1>6. ASSUME NEW len \in 1 .. MaxElement, HeldAt(pdu, p, Opaque(len))
      PROVE  Walks(one, p, 0, Len(Opaque(len)), num)
  <2>1. HeldAt(pdu, start.p, Opaque(len)) /\ start.p >= 1 /\ len \in Nat
    BY <1>1, <1>5, <1>6
  <2>2. Walks(one, start.p, start.walked, Len(Opaque(len)), start.number)
    BY <1>1, <2>1, OpaqueIsSkipped
  <2> QED
    BY <1>1, <2>2, Zenon
<1>7. ASSUME NEW len \in 1 .. MaxElement, header = <<Opaque(len)>>
      PROVE  \E r : /\ WalkedOver(pdu, p, FlattenSeq(header), num, r)
                    /\ Dialled(r) = NumberOf(Dialled(num))
  <2>1. FlattenSeq(header) = Opaque(len)
    BY <1>5, <1>7, JoinOne
  <2>2. Walks(one, p, 0, Len(Opaque(len)), num)
    BY <1>6, <2>1, Zenon
  <2>3. Walks(Element(pdu, [p |-> p, walked |-> 0, number |-> num]), p, 0, Len(Opaque(len)),
        num)
    BY <2>2, Zenon DEF start
  <2>4. WalkedOver(pdu, p, Opaque(len), num, num)
    BY <1>5, <2>3, WalkOne
  <2>5. Last(header) = Opaque(len)
    BY <1>7 DEF Last
  <2> QED
    BY <1>5, <2>1, <2>4, <2>5, Zenon DEF NumberOf
<1>8. ASSUME NEW len \in 1 .. MaxElement, header = <<Opaque(len), Reply>>
      PROVE  \E r : /\ WalkedOver(pdu, p, FlattenSeq(header), num, r)
                    /\ Dialled(r) = NumberOf(Dialled(num))
  <2>1. FlattenSeq(header) = Opaque(len) \o Reply
    BY <1>3, <1>5, <1>8, JoinTwo
  <2>2. PICK x, l, m : x = Opaque(len) /\ l = Len(x) /\ m = Len(Reply)
    OBVIOUS
  <2>3. x \in Seq(Nat) /\ l \in Nat /\ m \in Nat /\ m > 0
    BY <1>3, <1>5, <2>2
  <2>4. HeldAt(pdu, p, x) /\ HeldAt(pdu, p + l, Reply)
    <3>1. HeldAt(pdu, p, x \o Reply)
      BY <2>1, <2>2, Zenon
    <3> QED
      BY <1>3, <2>2, <2>3, <3>1, HeldConcat, Zenon
  <2>5. Walks(one, p, 0, l, num)
    BY <1>6, <2>2, <2>4, Zenon
  <2>6. one \in WalkStates /\ one.p = p + l
    BY <2>5, Zenon DEF Walks
  <2>7. PICK a : a = one
    OBVIOUS
  <2>8. a \in WalkStates /\ a.p >= 1 /\ HeldAt(pdu, a.p, Reply)
    <3>1. p + l >= 1
      BY <2>3
    <3> QED
      BY <2>4, <2>6, <2>7, <3>1, Zenon
  <2>9. PICK r : Walks(Element(pdu, a), a.p, a.walked, Len(Reply), r)
        /\ Dialled(r) = ReplyNumber
    BY <2>8, ReplyIsTaken
  <2>10. PICK behind : behind = Element(pdu, a)
    OBVIOUS
  <2>11. /\ IsElement(a, pdu, [p |-> p, walked |-> 0, number |-> num])
         /\ IsElement(behind, pdu, a)
         /\ Walks(a, p, 0, l, num) /\ Walks(behind, a.p, a.walked, m, r)
    BY <1>2, <2>2, <2>5, <2>7, <2>9, <2>10, Zenon DEF start, IsElement
  <2>12. PICK udh : udh = FlattenSeq(header)
    OBVIOUS
  <2>13. udh \in Seq(Nat) /\ Len(udh) = l + m
    BY <1>3, <2>1, <2>2, <2>3, <2>12, PartMore, Zenon
  <2> HIDE DEF one
  <2>14. WalkedOver(pdu, p, udh, num, r)
    BY <2>3, <2>11, <2>13, WalkTwo
  <2>15. Last(header) = Reply
    BY <1>8 DEF Last
  <2> QED
    BY <1>3, <2>9, <2>12, <2>14, <2>15, Zenon DEF NumberOf
<1> QED
  BY <1>4, <1>7, <1>8 DEF Composed

\* A header's octets.
LEMMA HeaderType ==
  ASSUME Composed
  PROVE  FlattenSeq(header) \in Seq(Nat)
<1>1. Reply \in Seq(Nat)
  BY ReplyType, Zenon
<1>2. \A len \in 1 .. MaxElement : Opaque(len) \in Seq(Nat)
  <2> SUFFICES ASSUME NEW len \in 1 .. MaxElement PROVE Opaque(len) \in Seq(Nat)
    OBVIOUS
  <2>1. len \in Nat
    BY BoundsAssumption
  <2> QED
    BY <2>1, OpaqueType
<1>3. header \in Seq(Seq(Nat))
  <2>1. PICK T : T = Seq(Nat)
    OBVIOUS
  <2>2. Reply \in T /\ \A len \in 1 .. MaxElement : Opaque(len) \in T
    BY <1>1, <1>2, <2>1
  <2>3. header \in Seq(T)
    <3>1. CASE header = <<>>
      BY <3>1
    <3>2. CASE header = <<Reply>>
      BY <2>2, <3>2
    <3>3. ASSUME NEW len \in 1 .. MaxElement, header = <<Opaque(len)>> PROVE header \in Seq(T)
      BY <2>2, <3>3
    <3>4. ASSUME NEW len \in 1 .. MaxElement, header = <<Opaque(len), Reply>>
          PROVE  header \in Seq(T)
      BY <2>2, <3>4
    <3> QED
      BY <3>1, <3>2, <3>3, <3>4 DEF Composed
  <2> QED
    BY <2>1, <2>3
<1> QED
  BY <1>3, FlatPlaces

\* A message with a header is read: who sent it, and the text behind the header.
LEMMA HeadedIsRead ==
  ASSUME Composed, header # <<>>, NEW coding \in Nat, NEW n \in Nat, NEW udh,
         udh = FlattenSeq(header), NEW data \in Seq(Nat)
  PROVE  DecodePDU(Frame(68, Address(<<>>), coding, n, <<Len(udh)>> \o (udh \o data))) =
           [number |-> NumberOf(<<>>), text |-> Text(coding, n, Len(udh) + 1, data)]
<1>1. PICK ud : ud = udh \o data
  OBVIOUS
<1>2. PICK L, one : L = Len(udh) /\ one = <<L>>
  OBVIOUS
<1>3. PICK rest : rest = one \o ud
  OBVIOUS
<1>4. /\ udh \in Seq(Nat) /\ L \in Nat /\ one \in Seq(Nat) /\ Len(one) = 1
  <2>1. udh \in Seq(Nat)
    BY HeaderType
  <2>2. L \in Nat
    BY <1>2, <2>1, LenProperties
  <2> QED
    BY <1>2, <2>1, <2>2
<1>5. /\ ud \in Seq(Nat) /\ Len(ud) = L + Len(data)
      /\ rest \in Seq(Nat) /\ Len(rest) = Len(one) + Len(ud)
  BY <1>1, <1>2, <1>3, <1>4, PartMore, Zenon
<1>6. PICK address, pdu : address = Address(<<>>) /\ pdu = Frame(68, address, coding, n, rest)
  OBVIOUS
<1>7. IsNumber(<<>>) /\ <<>> # <<"+">>
  BY DEF IsNumber
<1>8. address \in Seq(Nat)
  <2>1. PICK len, type, os, ds : AddressOf(<<>>, len, type, os, ds)
    BY <1>7, AddressHolds
  <2> QED
    BY <1>6, <2>1, AddressOctets
<1>9. PICK q : q = 5 + Len(address)
  OBVIOUS
<1>10. q \in Nat /\ q >= 5
  BY <1>8, <1>9, LenProperties
<1>11. Framed(pdu, 68, address, coding, n, rest)
  BY <1>5, <1>6, <1>8, FrameIsFramed
<1>12. /\ pdu \in Seq(Nat) /\ pdu[1] = 2 /\ pdu[4] = 68 /\ HeldAt(pdu, 5, address)
       /\ pdu[q] = 0 /\ pdu[q + 1] = coding /\ pdu[q + 9] = n
       /\ HeldAt(pdu, q + 10, rest) /\ Len(pdu) = (q + 9) + Len(rest)
  BY <1>9, <1>11, Zenon DEF Framed
<1>13. AddressIsRead(pdu, 5, <<>>)
  <2>1. 5 \in Nat /\ 5 >= 1
    OBVIOUS
  <2> QED
    BY <1>6, <1>7, <1>12, <2>1, AddressRead, Zenon
<1>14. PICK origin : origin = AddressAt(pdu, 5)
  OBVIOUS
<1>15. /\ origin.end = q /\ Dialled(origin.number) = <<>>
       /\ origin.number \in Seq(HexDigits \cup {"+"})
  BY <1>6, <1>9, <1>13, <1>14, Zenon DEF AddressIsRead
<1>16. PICK p, s : p = q + 10 /\ s = q + 11
  OBVIOUS
<1>17. p \in Nat /\ p >= 1 /\ s \in Nat /\ s >= 1 /\ p + 1 = s
  BY <1>10, <1>16
<1>18. HeldAt(pdu, p, one) /\ HeldAt(pdu, s, ud)
  <2>1. HeldAt(pdu, p, one \o ud)
    BY <1>3, <1>12, <1>16, Zenon
  <2>2. HeldAt(pdu, p, one) /\ HeldAt(pdu, p + Len(one), ud)
    BY <1>4, <1>5, <1>12, <1>17, <2>1, HeldConcat, Zenon
  <2> QED
    BY <1>4, <1>17, <2>2, Zenon
<1>19. pdu[p] = L
  <2>1. HeldAt(pdu, p, <<L>>)
    BY <1>2, <1>18, Zenon
  <2> QED
    BY <1>17, <2>1, HeldOne
<1>20. HeldAt(pdu, s, udh) /\ HeldAt(pdu, s + L, data)
  <2>1. HeldAt(pdu, s, udh \o data)
    BY <1>1, <1>18, Zenon
  <2> QED
    BY <1>2, <1>4, <1>12, <1>17, <2>1, HeldConcat, Zenon
<1>21. PICK r : WalkedOver(pdu, s, udh, origin.number, r)
       /\ Dialled(r) = NumberOf(Dialled(origin.number))
  <2>1. HeldAt(pdu, s, FlattenSeq(header)) /\ pdu \in Seq(Nat) /\ s \in Nat /\ s >= 1
    BY <1>12, <1>17, <1>20, Zenon
  <2>2. \A num \in Seq(HexDigits \cup {"+"}) :
          \E r : /\ WalkedOver(pdu, s, FlattenSeq(header), num, r)
                /\ Dialled(r) = NumberOf(Dialled(num))
    BY <2>1, HeaderIsWalked, Zenon
  <2> QED
    BY <1>15, <2>2, Zenon
<1>22. PICK walk : walk = Elements(pdu, s, L, origin.number)
  OBVIOUS
<1>23. walk.p = s + L /\ Dialled(walk.number) = NumberOf(<<>>)
  BY <1>2, <1>15, <1>21, <1>22, Zenon DEF WalkedOver
<1>24. DecodePDU(pdu) =
         [number |-> Dialled(walk.number),
          text |-> Text(coding, n, L + 1, SubSeq(pdu, walk.p, Len(pdu)))]
  <2>1. PICK first : first = 4
    OBVIOUS
  <2>2. first = 2 + pdu[1] /\ origin = AddressAt(pdu, first + 1)
    <3>1. 4 = 2 + pdu[1] /\ 4 + 1 = 5
      BY <1>12
    <3> QED
      BY <1>14, <2>1, <3>1, Zenon
  <2>3. HasBit(pdu[first], TP_UDHI)
    <3>1. HasBit(68, TP_UDHI)
      BY DEF HasBit, TP_UDHI
    <3> QED
      BY <1>12, <2>1, <3>1, Zenon
  <2>4. q = origin.end /\ pdu[q] = 0
    BY <1>12, <1>15
  <2>5. PICK size : size = pdu[q + 10]
    OBVIOUS
  <2>6. DecodePDU(pdu) = Headed(pdu, q, size, origin.number)
    BY <2>2, <2>3, <2>4, <2>5, DecodeParts
  <2>7. size = L
    BY <1>16, <1>19, <2>5, Zenon
  <2> QED
    BY <1>12, <1>16, <1>22, <2>6, <2>7, Zenon DEF Headed
<1>25. SubSeq(pdu, walk.p, Len(pdu)) = data
  <2>1. PICK d, e, l : d = s + L /\ e = Len(pdu) /\ l = Len(data)
    OBVIOUS
  <2>2. l \in Nat
    BY <2>1, LenProperties
  <2>3. e = (q + 9) + (1 + (L + l))
    BY <1>4, <1>5, <1>12, <2>1, Zenon
  <2>4. d \in Nat /\ d >= 1 /\ e \in Nat /\ e = d - 1 + l
    BY <1>4, <1>10, <1>16, <2>1, <2>2, <2>3
  <2>5. EndsAt(d, data, e)
    BY <2>1, <2>4, Zenon DEF EndsAt
  <2>6. HeldAt(pdu, d, data)
    BY <1>20, <2>1, Zenon
  <2>7. SubSeq(pdu, d, e) = data
    BY <1>12, <2>4, <2>5, <2>6, HeldIs
  <2> QED
    BY <1>23, <2>1, <2>7, Zenon
<1>26. DecodePDU(pdu) = [number |-> NumberOf(<<>>), text |-> Text(coding, n, L + 1, data)]
  BY <1>23, <1>24, <1>25, Zenon
<1> QED
  BY <1>1, <1>2, <1>3, <1>6, <1>26, Zenon

\* The septets of a header with its fill bits.
LEMMA FillIs ==
  ASSUME NEW octets \in Nat, octets > 0, NEW l \in Nat, l > 0, NEW fill,
         fill = (7 - (octets % 7)) % 7
  PROVE  /\ fill \in 0 .. 6
         /\ ((8 * octets + fill) \div 7) + l \in Nat
         /\ 7 * (((8 * octets + fill) \div 7) + l) = 8 * octets + fill + 7 * l
<1>1. PICK k, r : k = octets \div 7 /\ r = octets % 7
  OBVIOUS
<1>2. k \in Nat /\ r \in 0 .. 6 /\ octets = 7 * k + r
  BY <1>1
<1>3. fill = (IF r = 0 THEN 0 ELSE 7 - r)
  <2>1. fill = (7 - r) % 7
    BY <1>1
  <2> QED
    BY <1>2, <2>1
<1>4. PICK m : m = 8 * k + (IF r = 0 THEN 0 ELSE r + 1)
  OBVIOUS
<1>5. m \in Nat /\ fill \in 0 .. 6 /\ 8 * octets + fill = 7 * m
  <2>1. CASE r = 0
    BY <1>2, <1>3, <1>4, <2>1
  <2>2. CASE r # 0
    BY <1>2, <1>3, <1>4, <2>2
  <2> QED
    BY <2>1, <2>2
<1>6. PICK b : b = 8 * octets + fill
  OBVIOUS
<1>7. b = 7 * m
  BY <1>5, <1>6
<1>8. b \div 7 = m
  BY <1>5, <1>7
<1>9. m + l \in Nat /\ 7 * (m + l) = b + 7 * l
  BY <1>5, <1>7
<1> QED
  BY <1>5, <1>6, <1>8, <1>9, Zenon

\* A text of bytes with characters has bytes.
LEMMA SomeUnits ==
  ASSUME Composed, chars # <<>>, Coding(Sent) = Gsm7bit
  PROVE  Len(encode_alphabet(Units)) \in Nat /\ Len(encode_alphabet(Units)) > 0
<1>1. Units \in Seq(Alphabet)
  BY TextIsRead
<1>2. PICK sq, e : sq = encode_alphabet(Units) /\ EncodedAs(Units, sq, e)
  BY <1>1, EncodedAlphabet
<1>3. Len(Units) <= Len(sq) /\ sq \in Seq(Septet)
  BY <1>2 DEF EncodedAs
<1>4. Len(Units) \in Nat /\ Len(sq) \in Nat
  BY <1>1, <1>3, LenProperties
<1>5. /\ chars \in Seq(Seq(Octet))
      /\ \A k \in 1 .. Len(chars) : SingleByte(chars[k]) \/ PairOfBytes(chars[k])
  <2>1. kind = "ascii" \/ kind = "ksc5601"
    <3>1. Gsm7bit # Ucs2 /\ Gsm7bit # Ksc5601
      BY DEF Gsm7bit, Ucs2, Ksc5601
    <3> QED
      BY <3>1, CodingOfUnits DEF Composed, KindsOfText
  <2>2. CASE kind = "ksc5601"
    BY <2>2, KscChars
  <2>3. CASE kind = "ascii"
    <3>1. chars \in Seq(Chars["ascii"])
      BY <2>3 DEF Composed
    <3>2. \A c \in Chars["ascii"] : SingleByte(c) /\ c \in Seq(Octet)
      <4> SUFFICES ASSUME NEW c \in Chars["ascii"] PROVE SingleByte(c) /\ c \in Seq(Octet)
        OBVIOUS
      <4>1. SingleByte(c)
        BY AsciiAssumption
      <4>2. PICK b \in Alphabet : c = <<b>>
        BY <4>1 DEF SingleByte
      <4>3. b \in Octet
        BY DEF Octet, Alphabet
      <4> QED
        BY <4>1, <4>2, <4>3
    <3>3. Chars["ascii"] \subseteq Seq(Octet)
      BY <3>2
    <3>4. \A k \in 1 .. Len(chars) : chars[k] \in Chars["ascii"]
      BY <3>1, ElementOfSeq
    <3> QED
      BY <3>1, <3>2, <3>3, <3>4, SeqMonotonic
  <2> QED
    BY <2>1, <2>2, <2>3
<1>6. PICK f : Places(chars, Units, f)
  BY <1>5, FlatPlaces DEF Units
<1>7. ASSUME NEW k \in 1 .. Len(chars) PROVE Len(chars[k]) \in 1 .. 2
  <2>1. CASE SingleByte(chars[k])
    <3>1. PICK b : chars[k] = <<b>>
      BY <2>1 DEF SingleByte
    <3> QED
      BY <3>1
  <2>2. CASE PairOfBytes(chars[k])
    <3>1. PICK b1, b2 : chars[k] = <<b1, b2>>
      BY <2>2 DEF PairOfBytes
    <3> QED
      BY <3>1
  <2> QED
    BY <1>5, <2>1, <2>2
<1>8. Len(chars) <= Len(Units)
  BY <1>5, <1>6, <1>7, PlacesGrow
<1>9. Len(chars) \in Nat /\ Len(chars) # 0
  <2>1. PICK T : T = Seq(Octet)
    OBVIOUS
  <2>2. chars \in Seq(T)
    BY <1>5, <2>1
  <2> QED
    BY <2>2, EmptySeq, LenProperties
<1>10. Len(sq) > 0
  BY <1>3, <1>4, <1>8, <1>9
<1> QED
  BY <1>2, <1>4, <1>10

\* A message with its header, as the network sends it.
HeadedMessage(address, coding, n, L, udh, data) ==
  Center \o <<68>> \o address \o <<0, coding>> \o Stamp \o <<n, L>> \o udh \o data

\* It is the message whose text begins with the header.
LEMMA HeadedFrame ==
  ASSUME NEW address \in Seq(Nat), NEW coding \in Nat, NEW n \in Nat, NEW L \in Nat,
         NEW udh \in Seq(Nat), NEW data \in Seq(Nat)
  PROVE  HeadedMessage(address, coding, n, L, udh, data) =
           Frame(68, address, coding, n, <<L>> \o (udh \o data))
<1>1. PICK fl, oc, nn, ll : fl = <<68>> /\ oc = <<0, coding>> /\ nn = <<n>> /\ ll = <<L>>
  OBVIOUS
<1>2. fl \in Seq(Nat) /\ oc \in Seq(Nat) /\ nn \in Seq(Nat) /\ ll \in Seq(Nat)
      /\ <<n, L>> = nn \o ll
  <2>1. <<n>> \o <<L>> = <<n, L>>
    <3>1. PICK x, y : x = <<n>> /\ y = <<L>>
      OBVIOUS
    <3>2. x \in Seq(Nat) /\ y \in Seq(Nat) /\ Len(x) = 1 /\ Len(y) = 1 /\ x[1] = n /\ y[1] = L
      BY <3>1
    <3>3. x \in Seq(Nat) /\ y \in Seq(Nat)
      BY <3>2
    <3>4. /\ x \o y \in Seq(Nat) /\ Len(x \o y) = Len(x) + Len(y)
          /\ \A j \in 1 .. Len(x) : (x \o y)[j] = x[j]
          /\ \A j \in 1 .. Len(y) : (x \o y)[Len(x) + j] = y[j]
      BY <3>3, ConcatPlaces
    <3>5. PICK z, t : z = x \o y /\ t = <<n, L>>
      OBVIOUS
    <3>6. 1 \in 1 .. 1 /\ 1 + 1 = 2
      OBVIOUS
    <3>7. z \in Seq(Nat) /\ Len(z) = 2 /\ z[1] = n /\ z[2] = L
      BY <3>2, <3>4, <3>5, <3>6, Zenon
    <3>8. t \in Seq(Nat) /\ Len(t) = 2 /\ t[1] = n /\ t[2] = L
      BY <3>5
    <3>9. z = t
      <4>1. \A j \in 1 .. 2 : z[j] = t[j]
        BY <3>7, <3>8
      <4> QED
        BY <3>7, <3>8, <4>1, SeqEqual
    <3> QED
      BY <3>1, <3>5, <3>9, Zenon
  <2>2. fl \in Seq(Nat) /\ oc \in Seq(Nat) /\ nn \in Seq(Nat) /\ ll \in Seq(Nat)
    BY <1>1
  <2> QED
    BY <1>1, <2>1, <2>2, Zenon
<1>3. Center \in Seq(Nat) /\ Stamp \in Seq(Nat)
  BY DEF Center, Stamp
<1>4. PICK w : w = Center \o fl \o address \o oc \o Stamp
  OBVIOUS
<1>5. w \in Seq(Nat)
  <2>1. Center \o fl \in Seq(Nat)
    BY <1>2, <1>3, PartMore, Zenon
  <2>2. Center \o fl \o address \in Seq(Nat)
    BY <2>1, PartMore, Zenon
  <2>3. Center \o fl \o address \o oc \in Seq(Nat)
    BY <1>2, <2>2, PartMore, Zenon
  <2> QED
    BY <1>3, <1>4, <2>3, PartMore, Zenon
<1>6. w \o (nn \o ll) = (w \o nn) \o ll
  BY <1>2, <1>5, PartsAssociate, ZenonT(60)
<1>7. w \o nn \in Seq(Nat) /\ (w \o nn) \o ll \in Seq(Nat) /\ udh \o data \in Seq(Nat)
  <2>1. w \o nn \in Seq(Nat)
    BY <1>2, <1>5, PartMore, Zenon
  <2> QED
    BY <1>2, <2>1, PartMore, Zenon
<1>8. PICK v, x, ud : v = w \o nn /\ x = v \o ll /\ ud = udh \o data
  OBVIOUS
<1>9. v \in Seq(Nat) /\ x \in Seq(Nat) /\ ud \in Seq(Nat)
  BY <1>7, <1>8, Zenon
<1>10. (x \o udh) \o data = x \o (udh \o data)
  <2>1. x \in Seq(Nat)
    BY <1>9
  <2> QED
    BY <2>1, PartsAssociate
<1>11. (v \o ll) \o ud = v \o (ll \o ud)
  <2>1. v \in Seq(Nat) /\ ll \in Seq(Nat) /\ ud \in Seq(Nat)
    BY <1>2, <1>9, Zenon
  <2> DEFINE Same(a, b, c) == (a \o b) \o c = a \o (b \o c)
  <2>2. \A a, b, c \in Seq(Nat) : Same(a, b, c)
    BY PartsAssociate
  <2> HIDE DEF Same
  <2>3. Same(v, ll, ud)
    BY <2>1, <2>2, Zenon
  <2> QED
    BY <2>3 DEF Same
<1> QED
  BY <1>1, <1>2, <1>4, <1>6, <1>8, <1>10, <1>11, ZenonT(60) DEF Frame, HeadedMessage

\* The text behind a header: its length, its octets, and what is read of them.
HeadedText(n, data, L) ==
  /\ n \in Nat /\ data \in Seq(Nat)
  /\ Text(Coding(Sent), n, L + 1, data) = AsRead

\* A message with its header is a frame, and the text behind the header is read.
LEMMA WithHeaderIs ==
  ASSUME Composed, header # <<>>
  PROVE  \E n, data :
           /\ HeadedText(n, data, Len(FlattenSeq(header)))
           /\ WithHeader = Frame(68, Address(<<>>), Coding(Sent), n,
                                 <<Len(FlattenSeq(header))>> \o (FlattenSeq(header) \o data))
<1>1. PICK udh, L, sq : udh = FlattenSeq(header) /\ L = Len(udh) /\ sq = encode_alphabet(Units)
  OBVIOUS
<1>2. udh \in Seq(Nat) /\ L \in Nat
  <2>1. udh \in Seq(Nat)
    BY <1>1, HeaderType
  <2> QED
    BY <1>1, <2>1, LenProperties
<1>3. number = <<>> /\ chars # <<>> /\ Coding(Sent) \in Nat
  BY TextIsRead DEF Composed
<1>4. PICK octets : octets = L + 1
  OBVIOUS
<1>5. PICK fill : fill = (7 - (octets % 7)) % 7
  OBVIOUS
<1>6. octets \in Nat /\ octets > 0
  BY <1>2, <1>4
<1>7. Address(<<>>) \in Seq(Nat)
  <2>1. IsNumber(<<>>) /\ <<>> # <<"+">>
    BY DEF IsNumber
  <2>2. PICK len, type, os, ds : AddressOf(<<>>, len, type, os, ds)
    BY <2>1, AddressHolds
  <2> QED
    BY <2>2, AddressOctets
<1> DEFINE gsm == Coding(Sent) = Gsm7bit
           n == IF gsm THEN ((8 * octets + fill) \div 7) + Len(sq)
                       ELSE octets + Head(UserData(Sent))
           data == IF gsm THEN PackBits(sq, fill) ELSE Tail(UserData(Sent))
<1>8. WithHeader = HeadedMessage(Address(<<>>), Coding(Sent), n, L, udh, data)
  <2>1. 4 + TP_UDHI = 68
    BY DEF TP_UDHI
  <2> QED
    BY <1>1, <1>3, <1>4, <1>5, <2>1, Zenon DEF WithHeader, HeadedMessage
<1>9. HeadedText(n, data, L)
  <2>1. CASE gsm
    <3>1. /\ sq \in Seq(Septet)
          /\ \A m, o, f : CountsSeptets(m, o, f, sq) =>
                            Text(Gsm7bit, m, o, PackBits(sq, f)) = AsRead
      BY <1>1, <2>1, TextIsRead, Zenon
    <3>2. PICK l : l = Len(sq)
      OBVIOUS
    <3>3. l \in Nat /\ l > 0
      BY <1>1, <1>3, <2>1, <3>2, SomeUnits
    <3>4. PICK m : m = ((8 * octets + fill) \div 7) + l
      OBVIOUS
    <3>5. fill \in 0 .. 6 /\ m \in Nat /\ 7 * m = 8 * octets + fill + 7 * l
      BY <1>5, <1>6, <3>3, <3>4, FillIs, Zenon
    <3>6. CountsSeptets(m, octets, fill, sq)
      <4>1. octets # 0
        BY <1>6
      <4> QED
        BY <1>6, <3>2, <3>3, <3>5, <4>1, Zenon DEF CountsSeptets
    <3>7. Text(Coding(Sent), m, L + 1, PackBits(sq, fill)) = AsRead
      BY <1>4, <2>1, <3>1, <3>6, Zenon
    <3>8. PackBits(sq, fill) \in Seq(Nat)
      <4>1. Octet \subseteq Nat
        BY DEF Octet
      <4>2. PackBits(sq, fill) \in Seq(Octet)
        BY <3>1, <3>5, PackBitsType
      <4> QED
        BY <4>1, <4>2, SeqMonotonic
    <3>9. n = m /\ data = PackBits(sq, fill)
      BY <2>1, <3>2, <3>4, Zenon
    <3> HIDE DEF n, data
    <3> QED
      BY <3>5, <3>7, <3>8, <3>9, Zenon DEF HeadedText
  <2>2. CASE ~gsm
    <3>1. PICK m, rest : /\ DataOf(Sent, m, rest)
                         /\ \A i, o : Text(Coding(Sent), i, o, rest) = AsRead
      BY <2>2, TextIsRead, Zenon
    <3>2. m \in Nat /\ rest \in Seq(Nat) /\ UserData(Sent) = <<m>> \o rest
      BY <3>1 DEF DataOf
    <3>3. Head(UserData(Sent)) = m /\ Tail(UserData(Sent)) = rest
      <4>1. Head(<<m>> \o rest) = m /\ Tail(<<m>> \o rest) = rest
        BY <3>2, HeadOfOne, Zenon
      <4> QED
        BY <3>2, <4>1, Zenon
    <3>4. n = octets + m /\ data = rest
      BY <2>2, <3>3, Zenon
    <3>5. octets + m \in Nat
      BY <1>6, <3>2
    <3> HIDE DEF n, data
    <3> QED
      BY <3>1, <3>2, <3>4, <3>5, Zenon DEF HeadedText
  <2> QED
    BY <2>1, <2>2
<1> HIDE DEF n, data
<1>10. HeadedMessage(Address(<<>>), Coding(Sent), n, L, udh, data) =
         Frame(68, Address(<<>>), Coding(Sent), n, <<L>> \o (udh \o data))
  <2>1. PICK address, coding : address = Address(<<>>) /\ coding = Coding(Sent)
    OBVIOUS
  <2>2. address \in Seq(Nat) /\ coding \in Nat /\ n \in Nat /\ data \in Seq(Nat)
    BY <1>3, <1>7, <1>9, <2>1, Zenon DEF HeadedText
  <2>3. HeadedMessage(address, coding, n, L, udh, data) =
          Frame(68, address, coding, n, <<L>> \o (udh \o data))
    BY <1>2, <2>2, HeadedFrame
  <2> QED
    BY <2>1, <2>3, Zenon
<1> QED
  BY <1>1, <1>8, <1>9, <1>10, Zenon

\* The header of what is composed is skipped.
LEMMA ComposedIsSkipped ==
  ASSUME Composed
  PROVE  HeaderIsSkipped
<1> SUFFICES ASSUME header # <<>>
             PROVE  DecodePDU(WithHeader) = [number |-> NumberOf(number), text |-> AsRead]
  BY DEF HeaderIsSkipped, NumberOf
<1>1. number = <<>> /\ Coding(Sent) \in Nat
  BY TextIsRead DEF Composed
<1>2. PICK udh : udh = FlattenSeq(header)
  OBVIOUS
<1>3. PICK n, data :
        /\ HeadedText(n, data, Len(udh))
        /\ WithHeader = Frame(68, Address(<<>>), Coding(Sent), n, <<Len(udh)>> \o (udh \o data))
  BY <1>2, WithHeaderIs, Zenon
<1>4. n \in Nat /\ data \in Seq(Nat) /\ Text(Coding(Sent), n, Len(udh) + 1, data) = AsRead
  BY <1>3 DEF HeadedText
<1>5. DecodePDU(Frame(68, Address(<<>>), Coding(Sent), n, <<Len(udh)>> \o (udh \o data))) =
        [number |-> NumberOf(<<>>), text |-> Text(Coding(Sent), n, Len(udh) + 1, data)]
  BY <1>1, <1>2, <1>4, HeadedIsRead, ZenonT(60)
<1> QED
  BY <1>1, <1>3, <1>4, <1>5, Zenon

\* DecodePDU skips a header of any length and fill bits, and takes a reply address in
\* it for the sender's number.
THEOREM HeaderIsAlwaysSkipped == ExchangeSpec => []HeaderIsSkipped
<1>1. Composed => HeaderIsSkipped
  BY ComposedIsSkipped
<1> QED
  BY <1>1, ComposedOnly, PTL
=============================================================================
