--------------------------- MODULE QWorkbaseProofs ---------------------------
(***************************************************************************)
(* Proofs about the parts of libs/qworkbase: NavigationManager, for every  *)
(* set of documents and every limit, and ProgressManager, for every set of *)
(* tasks.                                                                  *)
(***************************************************************************)
EXTENDS NavigationManager, ProgressManager, FiniteSetTheorems, SequenceTheorems,
        WellFoundedInduction, TLAPS

-----------------------------------------------------------------------------
(* Positions in lists.                                                     *)

(* A set of natural numbers has a least one.                               *)
LEMMA Least ==
  ASSUME NEW T \in SUBSET Nat, T # {}
  PROVE  \E x \in T : \A y \in T : x <= y
<1> DEFINE R == {ss \in Nat \X Nat : ss[1] < ss[2]}
<1>1. IsWellFoundedOn(R, Nat)
  BY NatLessThanWellFounded DEF OpToRel
<1>2. PICK x \in T : \A y \in T : ~ (<<y, x>> \in R)
  <2> HIDE DEF R
  <2> QED BY <1>1, WFMin
<1>3. ASSUME NEW y \in T PROVE x <= y
  <2>1. ~(<<y, x>> \in R)
    BY <1>2
  <2>2. <<y, x>> \in Nat \X Nat
    OBVIOUS
  <2> QED BY <2>1, <2>2
<1> QED BY <1>3

(* A set of positions has a k-th one for each k up to its size: the first   *)
(* position up to which there are k of them.                               *)
LEMMA NthExists ==
  ASSUME NEW n \in Nat, NEW kept, kept \subseteq 1..n, NEW k \in 1..Cardinality(kept)
  PROVE  \E i \in kept : Cardinality(UpTo(kept, i)) = k
<1>1. \A j \in kept : j \in Nat /\ 1 <= j /\ j <= n
  OBVIOUS
<1>2. IsFiniteSet(kept)
  <2>1. IsFiniteSet(1..n)
    BY FS_Interval
  <2>2. kept \in SUBSET (1..n)
    OBVIOUS
  <2> QED BY <2>1, <2>2, FS_Subset
<1>3. Cardinality(kept) \in Nat /\ k \in Nat /\ 1 <= k /\ k <= Cardinality(kept)
  BY <1>2, FS_CardinalityType
<1>4. ASSUME NEW m \in Nat
      PROVE  IsFiniteSet(UpTo(kept, m)) /\ Cardinality(UpTo(kept, m)) \in Nat
  <2>1. UpTo(kept, m) \in SUBSET kept
    BY DEF UpTo
  <2>2. IsFiniteSet(UpTo(kept, m))
    BY <1>2, <2>1, FS_Subset
  <2> QED BY <2>2, FS_CardinalityType
<1> DEFINE reached == {m \in Nat : Cardinality(UpTo(kept, m)) >= k}
<1>5. UpTo(kept, n) = kept
  BY <1>1 DEF UpTo
<1>6. n \in reached
  BY <1>3, <1>5
<1>7. PICK m \in reached : \A x \in reached : m <= x
  <2> HIDE DEF reached
  <2>1. reached \in SUBSET Nat
    BY DEF reached
  <2> QED BY <1>6, <2>1, Least
<1>8. m \in Nat /\ Cardinality(UpTo(kept, m)) >= k
  BY <1>7
<1>9. m # 0
  <2>1. UpTo(kept, 0) = {}
    <3>1. \A j \in kept : ~(j <= 0)
      BY <1>1
    <3> QED BY <3>1 DEF UpTo
  <2>2. Cardinality(UpTo(kept, 0)) = 0
    BY <2>1, FS_EmptySet
  <2> QED BY <1>3, <1>8, <2>2
<1>10. m - 1 \in Nat /\ ~(m <= m - 1)
  BY <1>8, <1>9
<1>11. m - 1 \notin reached
  <2> HIDE DEF reached
  <2> QED BY <1>7, <1>10
<1>12. Cardinality(UpTo(kept, m - 1)) < k
  <2> Cardinality(UpTo(kept, m - 1)) \in Nat
    BY <1>4, <1>10
  <2> QED BY <1>3, <1>10, <1>11
<1>13. m \in kept /\ Cardinality(UpTo(kept, m)) = Cardinality(UpTo(kept, m - 1)) + 1
  <2>0. \A j \in kept : j <= m <=> j <= m - 1 \/ j = m
    BY <1>1, <1>8
  <2>1. CASE m \in kept
    <3>1. UpTo(kept, m) = UpTo(kept, m - 1) \union {m} /\ m \notin UpTo(kept, m - 1)
      BY <1>10, <2>0, <2>1 DEF UpTo
    <3>2. IsFiniteSet(UpTo(kept, m - 1))
      BY <1>4, <1>10
    <3> QED BY <2>1, <3>1, <3>2, FS_AddElement
  <2>2. CASE m \notin kept
    <3>1. \A j \in kept : j <= m <=> j <= m - 1
      BY <2>0, <2>2
    <3>2. UpTo(kept, m) = UpTo(kept, m - 1)
      BY <3>1 DEF UpTo
    <3>3. FALSE
      <4> HIDE DEF reached
      <4> Cardinality(UpTo(kept, m)) \in Nat
        BY <1>4, <1>8
      <4> QED BY <1>12, <1>8, <3>2, <1>3
    <3> QED BY <3>3
  <2> QED BY <2>1, <2>2
<1> QED
  <2> Cardinality(UpTo(kept, m - 1)) \in Nat /\ Cardinality(UpTo(kept, m)) \in Nat
    BY <1>4, <1>10, <1>8
  <2>1. Cardinality(UpTo(kept, m)) = k
    BY <1>3, <1>8, <1>12, <1>13
  <2> QED BY <1>13, <2>1

(* The k-th position is one of the set, and two of them differ.            *)
LEMMA NthFacts ==
  ASSUME NEW n \in Nat, NEW kept, kept \subseteq 1..n
  PROVE  /\ IsFiniteSet(kept) /\ Cardinality(kept) \in Nat
         /\ \A k \in 1..Cardinality(kept) :
              Nth(kept, k) \in kept /\ Cardinality(UpTo(kept, Nth(kept, k))) = k
<1>1. IsFiniteSet(kept)
  <2>1. IsFiniteSet(1..n)
    BY FS_Interval
  <2>2. kept \in SUBSET (1..n)
    OBVIOUS
  <2> QED BY <2>1, <2>2, FS_Subset
<1>2. ASSUME NEW k \in 1..Cardinality(kept)
      PROVE  Nth(kept, k) \in kept /\ Cardinality(UpTo(kept, Nth(kept, k))) = k
  <2>1. \E i \in kept : Cardinality(UpTo(kept, i)) = k
    BY NthExists
  <2> QED BY <2>1 DEF Nth
<1> QED BY <1>1, <1>2, FS_CardinalityType

(* Every position of the set is its k-th for some k.                       *)
LEMMA NthOnto ==
  ASSUME NEW n \in Nat, NEW kept, kept \subseteq 1..n, NEW i \in kept
  PROVE  \E k \in 1..Cardinality(kept) : Nth(kept, k) = i
<1> DEFINE upTo == UpTo(kept, i)
           k == Cardinality(upTo)
<1>1. IsFiniteSet(kept) /\ Cardinality(kept) \in Nat
  BY NthFacts
<1>2. upTo \in SUBSET kept /\ i \in upTo
  BY DEF UpTo
<1>3. IsFiniteSet(upTo) /\ k \in Nat /\ k <= Cardinality(kept) /\ k # 0
  <2>1. IsFiniteSet(upTo) /\ k <= Cardinality(kept)
    BY <1>1, <1>2, FS_Subset
  <2>2. k \in Nat
    BY <2>1, FS_CardinalityType
  <2>3. k # 0
    BY <1>2, <2>1, FS_EmptySet
  <2> QED BY <2>1, <2>2, <2>3
<1>4. k \in 1..Cardinality(kept)
  <2> HIDE DEF k
  <2> QED BY <1>1, <1>3
<1> DEFINE j == Nth(kept, k)
<1>5. j \in kept /\ Cardinality(UpTo(kept, j)) = k
  BY <1>4, NthFacts
<1>6. i \in 1..n /\ j \in 1..n
  BY <1>5
<1>7. ASSUME NEW u \in kept, NEW v \in kept, u < v
      PROVE  Cardinality(UpTo(kept, u)) # Cardinality(UpTo(kept, v))
  <2>1. u \in Nat /\ v \in Nat /\ \A x \in kept : x \in Nat
    OBVIOUS
  <2>2. UpTo(kept, u) \in SUBSET UpTo(kept, v)
    <3>1. \A x \in kept : x <= u => x <= v
      BY <1>7, <2>1
    <3> QED BY <3>1 DEF UpTo
  <2>3. v \in UpTo(kept, v) /\ v \notin UpTo(kept, u)
    BY <1>7, <2>1 DEF UpTo
  <2>4. UpTo(kept, v) \in SUBSET kept
    BY DEF UpTo
  <2>5. IsFiniteSet(UpTo(kept, v))
    BY <1>1, <2>4, FS_Subset
  <2> QED BY <2>2, <2>3, <2>5, FS_Subset
<1>8. i = j
  <2> HIDE DEF j
  <2>1. ~(i < j)
    BY <1>5, <1>7
  <2>2. ~(j < i)
    BY <1>5, <1>7
  <2> QED BY <1>6, <2>1, <2>2
<1> QED BY <1>4, <1>8

(* What is left of a list when the positions of a set are kept.            *)
LEMMA ElementsAtFacts ==
  ASSUME NEW S, NEW list \in Seq(S), NEW kept, kept \subseteq DOMAIN list
  PROVE  LET rest == ElementsAt(list, kept) IN
         /\ rest \in Seq(S)
         /\ Len(rest) = Cardinality(kept) /\ Len(rest) <= Len(list)
         /\ \A k \in 1..Len(rest) : Nth(kept, k) \in kept /\ rest[k] = list[Nth(kept, k)]
         /\ \A i \in kept : \E k \in 1..Len(rest) : rest[k] = list[i]
         /\ IsInjective(list) => IsInjective(rest)
<1> DEFINE n == Cardinality(kept)
           rest == ElementsAt(list, kept)
<1>1. Len(list) \in Nat /\ DOMAIN list = 1..Len(list) /\ kept \subseteq 1..Len(list)
  OBVIOUS
<1>2. n \in Nat /\ \A k \in 1..n : Nth(kept, k) \in kept /\ Cardinality(UpTo(kept, Nth(kept, k))) = k
  BY <1>1, NthFacts
<1>3. n <= Len(list)
  <2>1. IsFiniteSet(1..Len(list)) /\ Cardinality(1..Len(list)) = Len(list)
    <3>1. Len(list) = IF 1 > Len(list) THEN 0 ELSE Len(list) - 1 + 1
      BY <1>1
    <3> QED BY <1>1, <3>1, FS_Interval
  <2>2. kept \in SUBSET (1..Len(list))
    BY <1>1
  <2> QED BY <2>1, <2>2, FS_Subset
<1>4. \A k \in 1..n : list[Nth(kept, k)] \in S
  BY <1>1, <1>2
<1>5. rest \in [1..n -> S] /\ \A k \in 1..n : rest[k] = list[Nth(kept, k)]
  BY <1>4 DEF ElementsAt
<1>6. rest \in Seq(S) /\ Len(rest) = n /\ DOMAIN rest = 1..n
  <2> HIDE DEF n, rest
  <2> QED BY <1>2, <1>5, SeqDef
<1>7. \A i \in kept : \E k \in 1..n : rest[k] = list[i]
  <2> SUFFICES ASSUME NEW i \in kept
               PROVE  \E k \in 1..n : rest[k] = list[i]
    OBVIOUS
  <2>1. PICK k \in 1..n : Nth(kept, k) = i
    BY <1>1, NthOnto
  <2> QED BY <1>5, <2>1
<1>8. IsInjective(list) => IsInjective(rest)
  <2> SUFFICES ASSUME IsInjective(list), NEW j \in 1..n, NEW k \in 1..n, rest[j] = rest[k]
               PROVE  j = k
    BY <1>6 DEF IsInjective
  <2>1. Nth(kept, j) = Nth(kept, k)
    BY <1>2, <1>5 DEF IsInjective
  <2> QED BY <1>2, <2>1
<1> HIDE DEF n, rest
<1>9. /\ Len(rest) <= Len(list)
      /\ \A k \in 1..Len(rest) : Nth(kept, k) \in kept /\ rest[k] = list[Nth(kept, k)]
      /\ \A i \in kept : \E k \in 1..Len(rest) : rest[k] = list[i]
  BY <1>2, <1>3, <1>5, <1>6, <1>7
<1> QED BY <1>6, <1>8, <1>9 DEF n, rest

-----------------------------------------------------------------------------
(* The navigation history.                                                 *)

(* The current document is open.                                           *)
CurrentOpen == currentDocument # None => currentDocument \in open

NavigationInv == NavigationTypeOK /\ CurrentOpen /\ NoClosedDocuments /\ CommandsAgree /\ PlacesReturn

(* Places in some documents.                                               *)
PlacesIn(docs) == {l \in Locations : l[1] \in docs}

(* The place put into the list is at its position, the others around it.   *)
LEMMA InsertFacts ==
  ASSUME NEW S, NEW list \in Seq(S), NEW pos \in 0..Len(list), NEW x \in S
  PROVE  LET longer == Insert(list, pos, x) IN
         /\ longer \in Seq(S) /\ Len(longer) = Len(list) + 1
         /\ longer[pos + 1] = x
         /\ \A i \in pos + 2..Len(list) + 1 : longer[i] = list[i - 1]
<1> DEFINE u == SubSeq(list, 1, pos)
           v == SubSeq(list, pos + 1, Len(list))
<1>0. pos \in Nat /\ Len(list) \in Nat /\ pos <= Len(list)
  OBVIOUS
<1>1. u \in Seq(S) /\ Len(u) = pos
  BY SMT
<1>2. /\ v \in Seq(S) /\ Len(v) = Len(list) - pos
      /\ \A i \in 1..Len(list) - pos : v[i] = list[pos + i]
  BY SMT
<1>3. <<x>> \in Seq(S) /\ Len(<<x>>) = 1 /\ <<x>>[1] = x
  OBVIOUS
<1> HIDE DEF u, v
<1>4. /\ u \o <<x>> \in Seq(S) /\ Len(u \o <<x>>) = pos + 1
      /\ (u \o <<x>>)[pos + 1] = x
  BY <1>0, <1>1, <1>3
<1> DEFINE w == u \o <<x>>
<1> HIDE DEF w
<1>5. w \in Seq(S) /\ Len(w) = pos + 1 /\ w[pos + 1] = x
  BY <1>4 DEF w
<1>6. /\ w \o v \in Seq(S) /\ Len(w \o v) = Len(w) + Len(v)
      /\ \A i \in 1..Len(w) + Len(v) :
           (w \o v)[i] = IF i <= Len(w) THEN w[i] ELSE v[i - Len(w)]
  BY <1>2, <1>5, ConcatProperties
<1>7. Insert(list, pos, x) = w \o v
  BY DEF Insert, u, v, w
<1>8. (w \o v)[pos + 1] = x
  BY <1>0, <1>2, <1>5, <1>6
<1>9. ASSUME NEW i \in pos + 2..Len(list) + 1
      PROVE  (w \o v)[i] = list[i - 1]
  <2>1. i \in 1..Len(w) + Len(v) /\ ~(i <= Len(w)) /\ i - Len(w) \in 1..Len(list) - pos
    BY <1>0, <1>2, <1>5
  <2>2. (w \o v)[i] = v[i - Len(w)]
    BY <1>6, <2>1
  <2>3. v[i - Len(w)] = list[pos + (i - Len(w))]
    BY <1>2, <2>1
  <2>4. pos + (i - Len(w)) = i - 1
    BY <1>0, <1>5
  <2> QED BY <2>2, <2>3, <2>4
<1> QED BY <1>0, <1>2, <1>5, <1>6, <1>7, <1>8, <1>9

(* The loop that makes room leaves the place before the position and the   *)
(* one after it, and moves the position with them.                         *)
LEMMA TrimFacts ==
  ASSUME NEW S, NEW list \in Seq(S), NEW pos \in 1..Len(list)
  PROVE  LET next == pos - DroppedInFront(Len(list), pos)
             rest == Trim(list, pos)
         IN /\ rest \in Seq(S) /\ next \in 1..Len(rest)
            /\ rest[next] = list[pos]
            /\ pos + 2 <= Len(list) => next + 2 <= Len(rest) /\ rest[next + 2] = list[pos + 2]
<1> DEFINE front == DroppedInFront(Len(list), pos)
           next  == pos - front
           kept  == SubSeq(list, front + 1, Len(list))
           size  == IF Len(kept) >= Limit THEN Limit - 1 ELSE Len(kept)
           rest  == SubSeq(kept, 1, size)
<1>0. pos \in Nat /\ Len(list) \in Nat /\ 1 <= pos /\ pos <= Len(list)
  OBVIOUS
<1>1. /\ front \in Nat /\ front < pos
      /\ Len(list) - front >= Limit => front >= pos - Half
  BY <1>0, LimitAssumption DEF DroppedInFront
<1> HIDE DEF front
<1>2. /\ kept \in Seq(S) /\ Len(kept) = Len(list) - front
      /\ \A i \in 1..Len(list) - front : kept[i] = list[front + i]
  <2>1. front + 1 \in Int /\ Len(list) \in Int /\ \A i \in front + 1..Len(list) : list[i] \in S
    BY <1>0, <1>1
  <2>2. /\ kept \in Seq(S)
        /\ Len(kept) = IF front + 1 <= Len(list) THEN Len(list) - (front + 1) + 1 ELSE 0
        /\ \A i \in 1..Len(list) - (front + 1) + 1 : kept[i] = list[front + 1 + i - 1]
    BY <2>1, SubSeqProperties
  <2> HIDE DEF kept
  <2> QED BY <1>0, <1>1, <2>2
<1> HIDE DEF kept
<1>3. size \in Nat /\ size <= Len(kept) /\ (size = Len(kept) \/ (size = Limit - 1 /\ next <= Half))
  BY <1>0, <1>1, <1>2, LimitAssumption
<1> HIDE DEF size
<1>4. /\ rest \in Seq(S) /\ Len(rest) = size
      /\ \A i \in 1..size : rest[i] = kept[i]
  <2>1. size \in Int /\ \A i \in 1..size : kept[i] \in S
    BY <1>2, <1>3
  <2>2. /\ rest \in Seq(S)
        /\ Len(rest) = IF 1 <= size THEN size - 1 + 1 ELSE 0
        /\ \A i \in 1..size - 1 + 1 : rest[i] = kept[1 + i - 1]
    BY <2>1, SubSeqProperties
  <2> HIDE DEF rest
  <2>3. size - 1 + 1 = size /\ \A i \in 1..size : 1 + i - 1 = i
    BY <1>3
  <2> QED BY <1>3, <2>2, <2>3
<1> HIDE DEF rest
<1>5. next \in 1..size /\ (pos + 2 <= Len(list) => next + 2 <= size)
  BY <1>0, <1>1, <1>2, <1>3, LimitAssumption
<1>6. rest[next] = list[pos]
  <2>1. next \in 1..Len(list) - front /\ front + next = pos
    BY <1>0, <1>1
  <2>2. rest[next] = kept[next]
    BY <1>4, <1>5
  <2>3. kept[next] = list[front + next]
    BY <1>2, <2>1
  <2> QED BY <2>1, <2>2, <2>3
<1>7. ASSUME pos + 2 <= Len(list)
      PROVE  rest[next + 2] = list[pos + 2]
  <2>1. next + 2 \in 1..Len(list) - front /\ front + (next + 2) = pos + 2 /\ next + 2 \in 1..size
    BY <1>0, <1>1, <1>5, <1>7, <1>3
  <2>2. rest[next + 2] = kept[next + 2]
    BY <1>4, <2>1
  <2>3. kept[next + 2] = list[front + (next + 2)]
    BY <1>2, <2>1
  <2> QED BY <2>1, <2>2, <2>3
<1>8. Trim(list, pos) = rest
  BY DEF Trim, rest, size, kept, front
<1> QED BY <1>4, <1>5, <1>6, <1>7, <1>8 DEF front

(* Cutting what is ahead leaves the position.                              *)
LEMMA CutForwardFacts ==
  ASSUME NEW S, NEW list \in Seq(S), NEW pos \in 0..Len(list)
  PROVE  CutForward(list, pos) \in Seq(S) /\ pos \in 0..Len(CutForward(list, pos))
<1> DEFINE n == IF pos < Len(list) - 1 THEN pos + 1 ELSE Len(list)
<1>1. n \in 0..Len(list) /\ pos \in 0..n
  OBVIOUS
<1> HIDE DEF n
<1>2. SubSeq(list, 1, n) \in Seq(S) /\ Len(SubSeq(list, 1, n)) = n
  BY <1>1
<1> QED BY <1>1, <1>2 DEF CutForward, n

(* What is left of the history when a document closes has none of its      *)
(* places, and the position stays in it: as many places are behind it as   *)
(* the list has lost in front of it.                                       *)
LEMMA RemoveFacts ==
  ASSUME NEW S, NEW list \in Seq(S), NEW pos \in 0..Len(list), NEW d
  PROVE  /\ RemoveDocument(list, d) \in Seq({l \in S : l[1] # d})
         /\ PositionWithout(list, pos, d) \in 0..Len(RemoveDocument(list, d))
<1> DEFINE n    == Len(list)
           kept == {i \in DOMAIN list : list[i][1] # d}
           gone == {i \in DOMAIN list : list[i][1] = d}
           upTo == UpTo(gone, pos + 1)
           over == gone \ upTo
           rest == ElementsAt(list, kept)
<1>0. n \in Nat /\ pos \in Nat /\ pos <= n /\ DOMAIN list = 1..n /\ IsFiniteSet(1..n)
  BY FS_Interval
<1>1. /\ rest \in Seq(S) /\ Len(rest) = Cardinality(kept)
      /\ \A k \in 1..Len(rest) : rest[k][1] # d
  <2>1. kept \subseteq DOMAIN list
    OBVIOUS
  <2>2. /\ rest \in Seq(S) /\ Len(rest) = Cardinality(kept)
        /\ \A k \in 1..Len(rest) : Nth(kept, k) \in kept /\ rest[k] = list[Nth(kept, k)]
    <3> HIDE DEF kept
    <3> QED BY <2>1, ElementsAtFacts
  <2> HIDE DEF rest
  <2> QED BY <2>2
<1>2. rest \in Seq({l \in S : l[1] # d})
  <2> HIDE DEF rest
  <2>1. \A k \in 1..Len(rest) : rest[k] \in {l \in S : l[1] # d}
    BY <1>1
  <2> QED BY <1>1, <2>1
<1>3. /\ kept \in SUBSET (1..n) /\ gone \in SUBSET (1..n)
      /\ kept \union gone = 1..n /\ kept \intersect gone = {}
  BY <1>0
<1>4. /\ upTo \in SUBSET gone /\ over \in SUBSET gone
      /\ upTo \union over = gone /\ upTo \intersect over = {}
  BY DEF UpTo
<1>5. over \in SUBSET (pos + 2..n)
  BY <1>0 DEF UpTo
<1> HIDE DEF n, kept, gone, upTo, over
<1>6. IsFiniteSet(kept) /\ IsFiniteSet(gone) /\ IsFiniteSet(upTo) /\ IsFiniteSet(over)
  <2>1. IsFiniteSet(kept) /\ IsFiniteSet(gone)
    BY <1>0, <1>3, FS_Subset
  <2> QED BY <1>4, <2>1, FS_Subset
<1>7. /\ Cardinality(kept) \in Nat /\ Cardinality(gone) \in Nat
      /\ Cardinality(upTo) \in Nat /\ Cardinality(over) \in Nat
  BY <1>6, FS_CardinalityType
<1>8. Cardinality(1..n) = n
  <2>1. Cardinality(1..n) = IF 1 > n THEN 0 ELSE n - 1 + 1
    BY <1>0, FS_Interval
  <2> QED BY <1>0, <2>1
<1>9. n = Cardinality(kept) + Cardinality(gone)
  <2>1. Cardinality(kept \union gone) = Cardinality(kept) + Cardinality(gone) - Cardinality(kept \intersect gone)
    BY <1>6, FS_Union
  <2>2. n = Cardinality(kept \union gone) /\ Cardinality(kept \intersect gone) = 0
    BY <1>3, <1>8, FS_EmptySet
  <2> QED BY <1>7, <2>1, <2>2
<1>10. Cardinality(gone) = Cardinality(upTo) + Cardinality(over)
  <2>1. Cardinality(upTo \union over) = Cardinality(upTo) + Cardinality(over) - Cardinality(upTo \intersect over)
    BY <1>6, FS_Union
  <2>2. Cardinality(gone) = Cardinality(upTo \union over) /\ Cardinality(upTo \intersect over) = 0
    BY <1>4, FS_EmptySet
  <2> QED BY <1>7, <2>1, <2>2
<1>11. Cardinality(over) <= IF pos + 2 > n THEN 0 ELSE n - (pos + 2) + 1
  <2>1. pos + 2 \in Int /\ n \in Int
    BY <1>0
  <2>2. /\ IsFiniteSet(pos + 2..n)
        /\ Cardinality(pos + 2..n) = IF pos + 2 > n THEN 0 ELSE n - (pos + 2) + 1
    BY <2>1, FS_Interval
  <2>3. Cardinality(over) <= Cardinality(pos + 2..n)
    BY <1>5, <2>2, FS_Subset
  <2> QED BY <2>2, <2>3
<1>12. pos - Cardinality(upTo) <= Cardinality(kept)
  BY <1>0, <1>7, <1>9, <1>10, <1>11
<1>13. PositionWithout(list, pos, d) \in 0..Cardinality(kept)
  <2>1. PositionWithout(list, pos, d) = IF pos - Cardinality(upTo) < 0 THEN 0 ELSE pos - Cardinality(upTo)
    BY DEF PositionWithout, LocationsUpTo, upTo, gone
  <2> QED BY <1>0, <1>7, <1>12, <2>1
<1>14. RemoveDocument(list, d) = rest
  BY DEF RemoveDocument, kept
<1> QED BY <1>1, <1>2, <1>13, <1>14

-----------------------------------------------------------------------------
(* The invariant in two parts: the documents, and the history with the     *)
(* commands and the places that are owed.                                  *)
DocumentsOK ==
  /\ open \subseteq Documents /\ currentDocument \in Documents \union {None}
  /\ cursor \in [TextDocuments -> States]
  /\ m_blocked \in BOOLEAN
  /\ CurrentOpen

HistoryOK ==
  /\ history \in Seq(PlacesIn(open)) /\ position \in 0..Len(history)
  /\ canBack \in BOOLEAN /\ canForward \in BOOLEAN
  /\ came \in Locations \union {None} /\ left \in Locations \union {None}
  /\ CommandsAgree /\ PlacesReturn

LEMMA NavigationParts == NavigationInv <=> DocumentsOK /\ HistoryOK
<1>1. ASSUME history \in Seq(Locations), NoClosedDocuments
      PROVE  history \in Seq(PlacesIn(open))
  <2>1. \A i \in 1..Len(history) : history[i] \in PlacesIn(open)
    BY <1>1 DEF NoClosedDocuments, PlacesIn
  <2> QED BY <1>1, <2>1
<1>2. ASSUME history \in Seq(PlacesIn(open))
      PROVE  history \in Seq(Locations) /\ NoClosedDocuments
  <2>1. \A i \in 1..Len(history) : history[i] \in Locations /\ history[i][1] \in open
    BY <1>2 DEF PlacesIn
  <2> QED BY <1>2, <2>1 DEF NoClosedDocuments
<1>3. NavigationInv => DocumentsOK /\ HistoryOK
  BY <1>1, Zenon DEF NavigationInv, NavigationTypeOK, DocumentsOK, HistoryOK, history, position
<1>4. DocumentsOK /\ HistoryOK => NavigationInv
  BY <1>2, Zenon DEF NavigationInv, NavigationTypeOK, DocumentsOK, HistoryOK, history, position
<1> QED BY <1>3, <1>4

(* Where the user is, if it can be recorded, is a place in an open         *)
(* document.                                                               *)
LEMMA PlaceIsOpen == ASSUME DocumentsOK, HasEditor PROVE Place \in PlacesIn(open)
<1>1. currentDocument # None
  BY DocumentsAssumption, NoneAssumption DEF HasEditor
<1> QED BY <1>1 DEF DocumentsOK, CurrentOpen, HasEditor, Place, PlacesIn, Locations

(* Nothing in the history changes, and no document closes.                 *)
LEMMA HistoryKept ==
  ASSUME HistoryOK, open \subseteq open',
         UNCHANGED <<m_navigationHistory, m_currentNavigationHistoryPosition, buttons, owed>>
  PROVE  HistoryOK'
<1>1. /\ history' = history /\ position' = position
      /\ canBack' = canBack /\ canForward' = canForward /\ came' = came /\ left' = left
  BY DEF history, position, buttons, owed
<1>2. history' \in Seq(PlacesIn(open'))
  <2>1. \A i \in 1..Len(history) : history[i] \in PlacesIn(open')
    BY DEF HistoryOK, PlacesIn
  <2> QED BY <1>1, <2>1 DEF HistoryOK
<1>3. CommandsAgree' /\ PlacesReturn'
  BY <1>1 DEF HistoryOK, CommandsAgree, PlacesReturn
<1> QED BY <1>1, <1>2, <1>3 DEF HistoryOK

(* A place that is added is the one going back owes, and one that going    *)
(* forward owes in the list it is added to stays the one ahead.            *)
LEMMA AddPositionStep ==
  ASSUME NEW S, S \subseteq PlacesIn(open'),
         NEW list \in Seq(S), NEW pos \in 0..Len(list), NEW location \in S,
         AddPosition(list, pos, location),
         left' \in Locations \union {None},
         left' # None => pos + 1 < Len(list) /\ At(list, pos + 1) = left'
  PROVE  HistoryOK'
<1> DEFINE longer == Insert(list, pos, location)
           p      == pos + 1
           next   == p - DroppedInFront(Len(longer), p)
           rest   == Trim(longer, p)
<1>0. pos \in Nat /\ Len(list) \in Nat /\ pos <= Len(list)
  OBVIOUS
<1>1. /\ longer = Insert(list, pos, location) /\ p = pos + 1 /\ p \in Nat
      /\ next = p - DroppedInFront(Len(longer), p) /\ rest = Trim(longer, p)
  BY <1>0
<1>2. /\ longer \in Seq(S) /\ Len(longer) = Len(list) + 1
      /\ longer[pos + 1] = location
      /\ \A i \in pos + 2..Len(list) + 1 : longer[i] = list[i - 1]
  BY InsertFacts
<1> HIDE DEF longer, p, next, rest
<1>3. /\ rest \in Seq(S) /\ next \in 1..Len(rest)
      /\ rest[next] = longer[p]
      /\ p + 2 <= Len(longer) => next + 2 <= Len(rest) /\ rest[next + 2] = longer[p + 2]
  <2>1. p \in 1..Len(longer) /\ longer \in Seq(S)
    BY <1>0, <1>1, <1>2
  <2>2. /\ Trim(longer, p) \in Seq(S) /\ p - DroppedInFront(Len(longer), p) \in 1..Len(Trim(longer, p))
        /\ Trim(longer, p)[p - DroppedInFront(Len(longer), p)] = longer[p]
        /\ p + 2 <= Len(longer) =>
             /\ p - DroppedInFront(Len(longer), p) + 2 <= Len(Trim(longer, p))
             /\ Trim(longer, p)[p - DroppedInFront(Len(longer), p) + 2] = longer[p + 2]
    BY <2>1, TrimFacts, Zenon
  <2> QED BY <1>1, <2>2
<1>4. /\ history' = rest /\ position' = next /\ came' = location
      /\ canBack' = (next > 0) /\ canForward' = (next < Len(rest) - 1)
  <2>1. /\ rest = Trim(Insert(list, pos, location), pos + 1)
        /\ next = pos + 1 - DroppedInFront(Len(Insert(list, pos, location)), pos + 1)
    <3>1. DroppedInFront(Len(longer), p) \in Nat
      BY <1>1, <1>2, LimitAssumption DEF DroppedInFront
    <3> QED BY <1>1, <3>1
  <2> QED BY <2>1, Zenon DEF AddPosition, HandleNavigationStateChanged, history, position
<1>5. history' \in Seq(PlacesIn(open'))
  <2>1. \A i \in 1..Len(rest) : rest[i] \in PlacesIn(open')
    BY <1>3
  <2> QED BY <1>3, <1>4, <2>1
<1>6. came' \in Locations /\ position' > 0 /\ At(history', position' - 1) = came'
  <2>1. next - 1 + 1 = next
    BY <1>3
  <2> QED BY <1>1, <1>2, <1>3, <1>4, <2>1 DEF At, PlacesIn
<1>7. ASSUME left' # None
      PROVE  position' + 1 < Len(history') /\ At(history', position' + 1) = left'
  <2>1. p + 2 \in pos + 2..Len(list) + 1 /\ p + 2 <= Len(longer) /\ p + 2 - 1 = pos + 1 + 1
    BY <1>0, <1>1, <1>2, <1>7
  <2>2. longer[p + 2] = left'
    <3>1. longer[p + 2] = list[p + 2 - 1]
      <4>1. \A i \in pos + 2..Len(list) + 1 : longer[i] = list[i - 1]
        BY <1>2
      <4> QED BY <1>0, <1>1, <2>1, <4>1
    <3>2. list[pos + 1 + 1] = left'
      BY <1>7 DEF At
    <3> QED BY <2>1, <3>1, <3>2
  <2>3. next + 2 <= Len(rest) /\ rest[next + 2] = left' /\ next + 2 = next + 1 + 1
    BY <1>3, <2>1, <2>2
  <2> QED BY <1>3, <1>4, <2>3 DEF At
<1>8. CommandsAgree'
  BY <1>4 DEF CommandsAgree
<1>9. PlacesReturn'
  BY <1>6, <1>7 DEF PlacesReturn
<1>10. position' \in 0..Len(history') /\ canBack' \in BOOLEAN /\ canForward' \in BOOLEAN
  BY <1>3, <1>4
<1> QED BY <1>5, <1>6, <1>8, <1>9, <1>10 DEF HistoryOK

(* Recording where the user is changes no other place.                     *)
LEMMA UpdateFacts ==
  ASSUME DocumentsOK, HistoryOK
  PROVE  LET list == UpdateCurrentPosition IN
         /\ list \in Seq(PlacesIn(open)) /\ Len(history) <= Len(list)
         /\ \A i \in 1..Len(history) : i # position + 1 => list[i] = history[i]
         /\ HasEditor => position + 1 <= Len(list) /\ list[position + 1] = Place
<1> DEFINE S == PlacesIn(open)
<1>0. history \in Seq(S) /\ Len(history) \in Nat /\ position \in 0..Len(history) /\ position \in Nat
  BY DEF HistoryOK
<1> HIDE DEF S
<1>1. CASE ~HasEditor
  BY <1>0, <1>1 DEF UpdateCurrentPosition, S
<1>2. CASE HasEditor /\ position < Len(history)
  <2>1. UpdateCurrentPosition = [history EXCEPT ![position + 1] = Place]
    BY <1>2 DEF UpdateCurrentPosition
  <2>2. Place \in S
    BY <1>2, PlaceIsOpen DEF S
  <2> QED BY <1>0, <1>2, <2>1, <2>2 DEF S
<1>3. CASE HasEditor /\ ~(position < Len(history))
  <2>1. UpdateCurrentPosition = Append(history, Place)
    BY <1>3 DEF UpdateCurrentPosition
  <2>2. Place \in S
    BY <1>3, PlaceIsOpen DEF S
  <2>3. position = Len(history)
    BY <1>0, <1>3
  <2> QED BY <1>0, <1>3, <2>1, <2>2, <2>3 DEF S
<1> QED BY <1>1, <1>2, <1>3

(* Where going back or forward leads is a place in an open document.       *)
LEMMA GoToFacts ==
  ASSUME DocumentsOK, NEW location \in PlacesIn(open), GoTo(location), UNCHANGED <<open, m_blocked>>
  PROVE  DocumentsOK'
<1>1. location[1] \in TextDocuments /\ location[2] \in States /\ location[1] \in open
  BY DEF PlacesIn, Locations
<1>2. currentDocument' \in Documents /\ currentDocument' \in open
  BY <1>1 DEF GoTo, DocumentsOK
<1>3. cursor' \in [TextDocuments -> States]
  BY <1>1 DEF GoTo, DocumentsOK
<1> QED BY <1>2, <1>3 DEF DocumentsOK, CurrentOpen

LEMMA GoBackStep == ASSUME DocumentsOK, HistoryOK, GoBack PROVE DocumentsOK' /\ HistoryOK'
<1> DEFINE list == UpdateCurrentPosition
<1>1. /\ list \in Seq(PlacesIn(open)) /\ Len(history) <= Len(list)
      /\ \A i \in 1..Len(history) : i # position + 1 => list[i] = history[i]
      /\ HasEditor => position + 1 <= Len(list) /\ list[position + 1] = Place
  BY UpdateFacts
<1>2. position \in 1..Len(history) /\ history \in Seq(PlacesIn(open))
  BY DEF GoBack, HistoryOK, CommandsAgree
<1>3. /\ history' = list /\ position' = position - 1
      /\ GoTo(At(list, position - 1))
      /\ canBack' = (position - 1 > 0) /\ canForward' = (position - 1 < Len(list) - 1)
      /\ left' = (IF HasEditor THEN Place ELSE None) /\ came' = None
      /\ UNCHANGED <<open, m_blocked>>
  <2>1. position > 0
    BY <1>2
  <2> HIDE DEF list
  <2> QED BY <2>1, Zenon DEF GoBack, HandleNavigationStateChanged, history, position, list
<1> HIDE DEF list
<1>4. At(list, position - 1) = history[position] /\ history[position] \in PlacesIn(open)
  <2>1. list[position] = history[position]
    BY <1>1, <1>2
  <2>2. position - 1 + 1 = position
    BY <1>2
  <2> QED BY <1>2, <2>1, <2>2 DEF At
<1>5. DocumentsOK'
  BY <1>3, <1>4, GoToFacts
<1>6. history' \in Seq(PlacesIn(open')) /\ position' \in 0..Len(history')
  <2>1. PlacesIn(open') = PlacesIn(open)
    BY <1>3
  <2> QED BY <1>1, <1>2, <1>3, <2>1
<1>7. CommandsAgree' /\ canBack' \in BOOLEAN /\ canForward' \in BOOLEAN
  <2>1. canBack' = (position' > 0) /\ canForward' = (position' < Len(history') - 1)
    BY <1>3
  <2>2. CommandsAgree'
    BY <2>1, Zenon DEF CommandsAgree
  <2> QED BY <2>1, <2>2
<1>8. PlacesReturn' /\ came' \in Locations \union {None} /\ left' \in Locations \union {None}
  <2>1. CASE HasEditor
    <3>1. Place \in Locations
      BY <2>1, PlaceIsOpen DEF PlacesIn
    <3>2. position' + 1 < Len(history') /\ At(history', position' + 1) = Place
      <4>1. position - 1 + 1 = position /\ position \in Int /\ Len(list) \in Int
        BY <1>1, <1>2
      <4> QED BY <1>1, <1>3, <2>1, <4>1 DEF At
    <3>3. left' = Place /\ came' = None
      BY <1>3, <2>1
    <3> QED BY <3>1, <3>2, <3>3 DEF PlacesReturn
  <2>2. CASE ~HasEditor
    BY <1>3, <2>2 DEF PlacesReturn
  <2> QED BY <2>1, <2>2
<1> QED BY <1>5, <1>6, <1>7, <1>8 DEF HistoryOK

LEMMA GoForwardStep == ASSUME DocumentsOK, HistoryOK, GoForward PROVE DocumentsOK' /\ HistoryOK'
<1> DEFINE list == UpdateCurrentPosition
<1>1. /\ list \in Seq(PlacesIn(open)) /\ Len(history) <= Len(list)
      /\ \A i \in 1..Len(history) : i # position + 1 => list[i] = history[i]
      /\ HasEditor => position + 1 <= Len(list) /\ list[position + 1] = Place
  BY UpdateFacts
<1>2. position \in Nat /\ position + 2 \in 1..Len(history) /\ history \in Seq(PlacesIn(open))
  BY DEF GoForward, HistoryOK, CommandsAgree
<1>3. /\ history' = list /\ position' = position + 1
      /\ GoTo(At(list, position + 1))
      /\ canBack' = (position + 1 > 0) /\ canForward' = (position + 1 < Len(list) - 1)
      /\ came' = (IF HasEditor THEN Place ELSE None) /\ left' = None
      /\ UNCHANGED <<open, m_blocked>>
  <2>1. position < Len(list) - 1
    BY <1>1, <1>2
  <2> HIDE DEF list
  <2> QED BY <2>1, Zenon DEF GoForward, HandleNavigationStateChanged, history, position, list
<1> HIDE DEF list
<1>4. At(list, position + 1) = history[position + 2] /\ history[position + 2] \in PlacesIn(open)
  <2>1. list[position + 2] = history[position + 2]
    BY <1>1, <1>2
  <2>2. position + 1 + 1 = position + 2
    BY <1>2
  <2> QED BY <1>2, <2>1, <2>2 DEF At
<1>5. DocumentsOK'
  BY <1>3, <1>4, GoToFacts
<1>6. history' \in Seq(PlacesIn(open')) /\ position' \in 0..Len(history')
  <2>1. PlacesIn(open') = PlacesIn(open)
    BY <1>3
  <2> QED BY <1>1, <1>2, <1>3, <2>1
<1>7. CommandsAgree' /\ canBack' \in BOOLEAN /\ canForward' \in BOOLEAN
  <2>1. canBack' = (position' > 0) /\ canForward' = (position' < Len(history') - 1)
    BY <1>3
  <2>2. CommandsAgree'
    BY <2>1, Zenon DEF CommandsAgree
  <2> QED BY <2>1, <2>2
<1>8. PlacesReturn' /\ came' \in Locations \union {None} /\ left' \in Locations \union {None}
  <2>1. CASE HasEditor
    <3>1. Place \in Locations
      BY <2>1, PlaceIsOpen DEF PlacesIn
    <3>2. position' > 0 /\ At(history', position' - 1) = Place
      <4>1. position + 1 - 1 + 1 = position + 1
        BY <1>2
      <4> QED BY <1>1, <1>2, <1>3, <2>1, <4>1 DEF At
    <3>3. came' = Place /\ left' = None
      BY <1>3, <2>1
    <3> QED BY <3>1, <3>2, <3>3 DEF PlacesReturn
  <2>2. CASE ~HasEditor
    BY <1>3, <2>2 DEF PlacesReturn
  <2> QED BY <2>1, <2>2
<1> QED BY <1>5, <1>6, <1>7, <1>8 DEF HistoryOK

LEMMA AddingStep ==
  ASSUME DocumentsOK, HistoryOK, NEW d \in Documents, NEW state \in States,
         OpenDocument(d) \/ MoveCursor(state) \/ JumpFromOutline(state)
  PROVE  DocumentsOK' /\ HistoryOK'
<1> DEFINE S == PlacesIn(open')
           cut == CutForward(history, position)
<1>1. open \subseteq open'
  BY DEF OpenDocument, MoveCursor, JumpFromOutline
<1>2. history \in Seq(S) /\ position \in 0..Len(history)
  <2>1. \A i \in 1..Len(history) : history[i] \in S
    BY <1>1 DEF HistoryOK, PlacesIn
  <2> QED BY <2>1 DEF HistoryOK
<1>3. cut \in Seq(S) /\ position \in 0..Len(cut)
  BY <1>2, CutForwardFacts
<1> HIDE DEF S, cut
<1>4. S \subseteq PlacesIn(open')
  BY DEF S
<1>5. CASE OpenDocument(d)
  <2>1. DocumentsOK'
    BY <1>5 DEF OpenDocument, DocumentsOK, CurrentOpen
  <2>2. CASE d \in TextDocuments /\ ~m_blocked
    <3>1. AddPosition(cut, position, <<d, cursor'[d]>>) /\ left' = None
      BY <1>5, <2>2 DEF OpenDocument, cut
    <3>2. <<d, cursor'[d]>> \in S
      BY <1>5, <2>1, <2>2 DEF S, PlacesIn, Locations, DocumentsOK, OpenDocument
    <3> QED BY <1>3, <1>4, <2>1, <3>1, <3>2, AddPositionStep
  <2>3. CASE ~(d \in TextDocuments /\ ~m_blocked)
    BY <1>1, <1>5, <2>1, <2>3, HistoryKept DEF OpenDocument
  <2> QED BY <2>1, <2>2, <2>3
<1>6. CASE MoveCursor(state)
  <2>1. DocumentsOK'
    BY <1>6 DEF MoveCursor, DocumentsOK, CurrentOpen, HasEditor
  <2>2. CASE AddPosition(history, position, Place) /\ UNCHANGED left
    <3>1. Place \in S
      BY <1>6, PlaceIsOpen DEF MoveCursor, S
    <3>2. /\ left' \in Locations \union {None}
          /\ left' # None => position + 1 < Len(history) /\ At(history, position + 1) = left'
      BY <2>2 DEF HistoryOK, PlacesReturn
    <3> QED BY <1>2, <1>4, <2>1, <2>2, <3>1, <3>2, AddPositionStep
  <2>3. CASE UNCHANGED <<m_navigationHistory, m_currentNavigationHistoryPosition, buttons, owed>>
    BY <1>1, <2>1, <2>3, HistoryKept
  <2> QED BY <1>6, <2>2, <2>3 DEF MoveCursor
<1>7. CASE JumpFromOutline(state)
  <2>1. DocumentsOK'
    BY <1>7 DEF JumpFromOutline, DocumentsOK, CurrentOpen, HasEditor
  <2>2. AddPosition(cut, position, Place) /\ left' = None
    BY <1>7 DEF JumpFromOutline, cut
  <2>3. Place \in S
    BY <1>7, PlaceIsOpen DEF JumpFromOutline, S
  <2> QED BY <1>3, <1>4, <2>1, <2>2, <2>3, AddPositionStep
<1> QED BY <1>5, <1>6, <1>7

LEMMA CloseStep ==
  ASSUME DocumentsOK, HistoryOK, NEW d \in Documents, CloseDocument(d)
  PROVE  DocumentsOK' /\ HistoryOK'
<1> DEFINE S    == PlacesIn(open)
           list == RemoveDocument(history, d)
           pos  == PositionWithout(history, position, d)
<1>1. DocumentsOK'
  BY DEF CloseDocument, CurrentAfter, DocumentsOK, CurrentOpen
<1>2. list \in Seq({l \in S : l[1] # d}) /\ pos \in 0..Len(list)
  BY RemoveFacts DEF HistoryOK
<1>3. /\ history' = list /\ position' = pos /\ came' = None /\ left' = None
      /\ canBack' = (pos > 0) /\ canForward' = (pos < Len(list) - 1)
  BY Zenon DEF CloseDocument, OnDocumentClosed, HandleNavigationStateChanged, history, position
<1>4. {l \in S : l[1] # d} \subseteq PlacesIn(open')
  BY DEF CloseDocument, PlacesIn
<1> HIDE DEF S, list, pos
<1>5. history' \in Seq(PlacesIn(open')) /\ position' \in 0..Len(history')
  <2>1. \A i \in 1..Len(list) : list[i] \in PlacesIn(open')
    BY <1>2, <1>4
  <2> QED BY <1>2, <1>3, <2>1
<1>6. CommandsAgree' /\ canBack' \in BOOLEAN /\ canForward' \in BOOLEAN
  <2>1. canBack' = (position' > 0) /\ canForward' = (position' < Len(history') - 1)
    BY <1>3
  <2>2. CommandsAgree'
    BY <2>1, Zenon DEF CommandsAgree
  <2> QED BY <2>1, <2>2
<1>7. PlacesReturn'
  BY <1>3 DEF PlacesReturn
<1> QED BY <1>1, <1>3, <1>5, <1>6, <1>7 DEF HistoryOK

LEMMA NavigationStep ==
  ASSUME NavigationInv, [NavigationNext]_navigationVars
  PROVE  NavigationInv'
<1>0. DocumentsOK /\ HistoryOK
  BY NavigationParts
<1>1. ASSUME DocumentsOK', HistoryOK'
      PROVE  NavigationInv'
  BY <1>1, NavigationParts, PTL
<1>2. CASE GoBack
  BY <1>0, <1>1, <1>2, GoBackStep
<1>3. CASE GoForward
  BY <1>0, <1>1, <1>3, GoForwardStep
<1>4. CASE LoadSession \/ SessionLoaded \/ UNCHANGED navigationVars
  <2>1. DocumentsOK'
    BY <1>0, <1>4 DEF LoadSession, SessionLoaded, navigationVars, DocumentsOK, CurrentOpen
  <2>2. open \subseteq open' /\ UNCHANGED <<m_navigationHistory, m_currentNavigationHistoryPosition, buttons, owed>>
    BY <1>4 DEF LoadSession, SessionLoaded, navigationVars, buttons, owed
  <2> QED BY <1>0, <1>1, <2>1, <2>2, HistoryKept
<1>5. ASSUME NEW d \in Documents, ActivateDocument(d) \/ NewDocument(d)
      PROVE  NavigationInv'
  <2>1. DocumentsOK'
    BY <1>0, <1>5 DEF ActivateDocument, NewDocument, DocumentsOK, CurrentOpen
  <2>2. open \subseteq open' /\ UNCHANGED <<m_navigationHistory, m_currentNavigationHistoryPosition, buttons, owed>>
    BY <1>5 DEF ActivateDocument, NewDocument
  <2> QED BY <1>0, <1>1, <2>1, <2>2, HistoryKept
<1>6. ASSUME NEW d \in Documents, CloseDocument(d)
      PROVE  NavigationInv'
  BY <1>0, <1>1, <1>6, CloseStep
<1>7. ASSUME NEW d \in Documents, OpenDocument(d)
      PROVE  NavigationInv'
  <2>1. PICK state \in States : TRUE
    BY <1>7 DEF OpenDocument
  <2> QED BY <1>0, <1>1, <1>7, <2>1, AddingStep
<1>8. ASSUME NEW state \in States, MoveCursor(state) \/ JumpFromOutline(state)
      PROVE  NavigationInv'
  <2>1. PICK d \in Documents : TRUE
    BY <1>8, DocumentsAssumption DEF MoveCursor, JumpFromOutline, HasEditor
  <2> QED BY <1>0, <1>1, <1>8, <2>1, AddingStep
<1> QED
  BY <1>2, <1>3, <1>4, <1>5, <1>6, <1>7, <1>8, DocumentsAssumption DEF NavigationNext

LEMMA NavigationInvariant == NavigationSpec => []NavigationInv
<1>1. NavigationInit => NavigationInv
  <2> SUFFICES ASSUME NavigationInit PROVE NavigationInv
    OBVIOUS
  <2>1. DocumentsOK
    BY DEF NavigationInit, DocumentsOK, CurrentOpen
  <2>2. history \in Seq(PlacesIn(open)) /\ Len(history) = 0 /\ position = 0
    BY DEF NavigationInit, history, position
  <2>3. CommandsAgree /\ PlacesReturn
    <3>1. ~canBack /\ ~canForward /\ came = None /\ left = None
      BY Zenon DEF NavigationInit
    <3>2. ~(position > 0) /\ ~(position < Len(history) - 1)
      BY <2>2
    <3> QED BY <3>1, <3>2, Zenon DEF CommandsAgree, PlacesReturn
  <2>4. canBack \in BOOLEAN /\ canForward \in BOOLEAN /\ came = None /\ left = None
    BY DEF NavigationInit
  <2>5. HistoryOK
    BY <2>2, <2>3, <2>4 DEF HistoryOK
  <2> QED BY <2>1, <2>5, NavigationParts
<1>2. NavigationInv /\ [NavigationNext]_navigationVars => NavigationInv'
  BY NavigationStep
<1> QED BY <1>1, <1>2, PTL DEF NavigationSpec

(* The members keep their types, and the position never leaves the list.   *)
THEOREM NavigationTypes == NavigationSpec => []NavigationTypeOK
<1>1. NavigationInv => NavigationTypeOK
  BY DEF NavigationInv
<1> QED BY <1>1, NavigationInvariant, PTL

(* The history never holds a pointer to a document that has been deleted,  *)
(* however many documents and places there are: onDocumentClosed removes   *)
(* them all, and only open documents are recorded.                         *)
THEOREM NoDocumentDangles == NavigationSpec => []NoClosedDocuments
<1>1. NavigationInv => NoClosedDocuments
  BY DEF NavigationInv
<1> QED BY <1>1, NavigationInvariant, PTL

(* The two commands are enabled exactly when there is somewhere to go.     *)
THEOREM CommandsAlwaysAgree == NavigationSpec => []CommandsAgree
<1>1. NavigationInv => CommandsAgree
  BY DEF NavigationInv
<1> QED BY <1>1, NavigationInvariant, PTL

(* Whatever the limit, the place that going back or forward owes the user  *)
(* is the one that he gets.                                                *)
THEOREM PlacesAlwaysReturn == NavigationSpec => []PlacesReturn
<1>1. NavigationInv => PlacesReturn
  BY DEF NavigationInv
<1> QED BY <1>1, NavigationInvariant, PTL

-----------------------------------------------------------------------------
(* Tasks and their indicators.                                             *)

TasksOK ==
  /\ future \in [Tasks -> {"none", "running", "finished"}]
  /\ canceled \subseteq Tasks
  /\ m_isFading \subseteq {t \in Tasks : Finished(t)}

(* The manager holds the tasks that run and those whose end is on its way, *)
(* which comes once.                                                       *)
EventsOK ==
  /\ events \in Seq(Tasks) /\ IsInjective(events)
  /\ ToSet(events) \subseteq {t \in Tasks : Finished(t)}
  /\ m_runningTasks = Running \union ToSet(events)

(* The manager's synchronous task is the only one counted to which none was *)
(* added later.                                                            *)
SyncOK ==
  /\ m_syncTask \in SyncTasks \union {NoTask} /\ overtaken \subseteq SyncTasks
  /\ (m_runningTasks \intersect SyncTasks) \ overtaken = {m_syncTask} \ {NoTask}

StatusOK == status = StatusOf(m_runningTasks, m_syncTask)

(* An indicator belongs to a task that has been added, and is there once.  *)
ViewOK ==
  /\ m_taskList \in Seq(Tasks) /\ IsInjective(m_taskList) /\ Len(m_taskList) <= ViewLimit
  /\ ToSet(m_taskList) \subseteq {t \in Tasks : future[t] # "none"}

ProgressInv == TasksOK /\ EventsOK /\ SyncOK /\ StatusOK /\ ViewOK

(* A new element at the end of a list that does not hold it.               *)
LEMMA AppendFacts ==
  ASSUME NEW S, NEW list \in Seq(S), NEW t \in S, IsInjective(list), t \notin ToSet(list)
  PROVE  LET longer == Append(list, t) IN
         /\ longer \in Seq(S) /\ Len(longer) = Len(list) + 1 /\ IsInjective(longer)
         /\ ToSet(longer) = ToSet(list) \union {t}
         /\ longer[Len(longer)] = t /\ \A i \in DOMAIN list : longer[i] = list[i]
<1> DEFINE longer == Append(list, t)
<1>1. /\ longer \in Seq(S) /\ Len(longer) = Len(list) + 1
      /\ longer[Len(list) + 1] = t /\ \A i \in 1..Len(list) : longer[i] = list[i]
  OBVIOUS
<1>2. /\ DOMAIN list = 1..Len(list) /\ Len(list) \in Nat
      /\ DOMAIN longer = 1..Len(list) + 1
  BY <1>1
<1>3. \A i \in 1..Len(list) : list[i] # t
  BY <1>2 DEF ToSet
<1> HIDE DEF longer
<1>4. IsInjective(longer)
  <2> SUFFICES ASSUME NEW i \in 1..Len(list) + 1, NEW j \in 1..Len(list) + 1, longer[i] = longer[j]
               PROVE  i = j
    BY <1>2 DEF IsInjective
  <2>1. CASE i \in 1..Len(list) /\ j \in 1..Len(list)
    BY <1>1, <1>2, <2>1 DEF IsInjective
  <2>2. CASE i = Len(list) + 1 \/ j = Len(list) + 1
    BY <1>1, <1>2, <1>3, <2>2
  <2> QED BY <1>2, <2>1, <2>2
<1>5. ToSet(longer) = ToSet(list) \union {t}
  <2>1. ASSUME NEW x \in ToSet(longer)
        PROVE  x \in ToSet(list) \union {t}
    BY <1>1, <1>2, <2>1 DEF ToSet
  <2>2. ASSUME NEW x \in ToSet(list)
        PROVE  x \in ToSet(longer)
    BY <1>1, <1>2, <2>2 DEF ToSet
  <2>3. t \in ToSet(longer)
    BY <1>1, <1>2 DEF ToSet
  <2> QED BY <2>1, <2>2, <2>3
<1> QED BY <1>1, <1>2, <1>4, <1>5 DEF longer

(* Taking the first element of a list without repetition.                  *)
LEMMA TailFacts ==
  ASSUME NEW S, NEW list \in Seq(S), IsInjective(list), list # <<>>
  PROVE  /\ Tail(list) \in Seq(S) /\ IsInjective(Tail(list))
         /\ Head(list) \in ToSet(list) /\ Head(list) = list[1]
         /\ ToSet(Tail(list)) = ToSet(list) \ {Head(list)}
         /\ Len(list) \in Nat /\ DOMAIN list = 1..Len(list) /\ DOMAIN Tail(list) = 1..Len(list) - 1
         /\ \A i \in 1..Len(list) - 1 : Tail(list)[i] = list[i + 1]
<1> DEFINE rest == Tail(list)
<1>1. /\ rest \in Seq(S) /\ Len(rest) = Len(list) - 1
      /\ \A i \in 1..Len(list) - 1 : rest[i] = list[i + 1]
  OBVIOUS
<1>2. /\ DOMAIN list = 1..Len(list) /\ Len(list) \in Nat /\ Len(list) # 0
      /\ DOMAIN rest = 1..Len(list) - 1 /\ Head(list) = list[1]
  BY <1>1
<1> HIDE DEF rest
<1>3. IsInjective(rest)
  <2> SUFFICES ASSUME NEW i \in 1..Len(list) - 1, NEW j \in 1..Len(list) - 1, rest[i] = rest[j]
               PROVE  i = j
    BY <1>2 DEF IsInjective
  <2>1. i + 1 \in DOMAIN list /\ j + 1 \in DOMAIN list /\ list[i + 1] = list[j + 1]
    BY <1>1, <1>2
  <2>2. i + 1 = j + 1
    BY <2>1 DEF IsInjective
  <2> QED BY <2>2
<1>4. Head(list) \in ToSet(list)
  BY <1>2 DEF ToSet
<1>5. ASSUME NEW x \in ToSet(rest)
      PROVE  x \in ToSet(list) /\ x # Head(list)
  <2>1. PICK i \in 1..Len(list) - 1 : x = list[i + 1]
    BY <1>1, <1>2, <1>5 DEF ToSet
  <2>2. i + 1 \in DOMAIN list /\ 1 \in DOMAIN list /\ i + 1 # 1
    BY <1>2
  <2>3. x # list[1]
    BY <2>1, <2>2 DEF IsInjective
  <2> QED BY <1>2, <2>1, <2>2, <2>3 DEF ToSet
<1>6. ASSUME NEW x \in ToSet(list), x # Head(list)
      PROVE  x \in ToSet(rest)
  <2>1. PICK i \in 1..Len(list) : x = list[i]
    BY <1>2, <1>6 DEF ToSet
  <2>2. i # 1
    BY <1>2, <1>6, <2>1
  <2>3. i - 1 \in 1..Len(list) - 1 /\ i - 1 + 1 = i
    BY <1>2, <2>2
  <2>4. rest[i - 1] = x
    BY <1>1, <2>1, <2>3
  <2> QED BY <1>2, <2>3, <2>4 DEF ToSet
<1> QED BY <1>1, <1>2, <1>3, <1>4, <1>5, <1>6 DEF rest
(* Keeping the elements at some positions keeps an element wherever it was *)
(* kept, and adds none.                                                    *)
LEMMA KeptFacts ==
  ASSUME NEW S, NEW list \in Seq(S), IsInjective(list), NEW kept, kept \subseteq DOMAIN list
  PROVE  LET rest == ElementsAt(list, kept) IN
         /\ rest \in Seq(S) /\ IsInjective(rest) /\ Len(rest) <= Len(list)
         /\ ToSet(rest) \subseteq ToSet(list)
         /\ \A i \in kept : list[i] \in ToSet(rest)
<1> DEFINE rest == ElementsAt(list, kept)
<1>1. /\ rest \in Seq(S) /\ Len(rest) <= Len(list) /\ IsInjective(rest)
      /\ \A k \in 1..Len(rest) : Nth(kept, k) \in kept /\ rest[k] = list[Nth(kept, k)]
      /\ \A i \in kept : \E k \in 1..Len(rest) : rest[k] = list[i]
  BY ElementsAtFacts
<1> HIDE DEF rest
<1>2. DOMAIN rest = 1..Len(rest)
  BY <1>1
<1>3. ToSet(rest) \subseteq ToSet(list)
  BY <1>1, <1>2 DEF ToSet
<1>4. \A i \in kept : list[i] \in ToSet(rest)
  BY <1>1, <1>2 DEF ToSet
<1> QED BY <1>1, <1>3, <1>4 DEF rest

(* removeOldTasks leaves the tasks that have not finished.                 *)
LEMMA WithoutOldFacts ==
  ASSUME NEW list \in Seq(Tasks), IsInjective(list), NEW type, NEW keepOne
  PROVE  LET rest == WithoutOld(list, type, keepOne) IN
         /\ rest \in Seq(Tasks) /\ IsInjective(rest) /\ Len(rest) <= Len(list)
         /\ ToSet(rest) \subseteq ToSet(list)
         /\ \A t \in ToSet(list) : ~Finished(t) => t \in ToSet(rest)
<1> DEFINE same   == {i \in DOMAIN list : Type[list[i]] = type}
           newest == {i \in same : \A j \in same : j <= i}
           kept   == {i \in DOMAIN list : \/ i \notin same
                                         \/ ~Finished(list[i])
                                         \/ (keepOne /\ i \in newest)}
           rest   == ElementsAt(list, kept)
<1>1. WithoutOld(list, type, keepOne) = rest
  BY Zenon DEF WithoutOld
<1>2. kept \subseteq DOMAIN list /\ \A i \in DOMAIN list : ~Finished(list[i]) => i \in kept
  BY Zenon
<1> HIDE DEF kept
<1>3. /\ rest \in Seq(Tasks) /\ IsInjective(rest) /\ Len(rest) <= Len(list)
      /\ ToSet(rest) \subseteq ToSet(list)
      /\ \A i \in kept : list[i] \in ToSet(rest)
  BY <1>2, KeptFacts
<1> HIDE DEF rest
<1>4. ASSUME NEW t \in ToSet(list), ~Finished(t)
      PROVE  t \in ToSet(rest)
  <2>1. PICK i \in DOMAIN list : t = list[i]
    BY DEF ToSet
  <2>2. i \in kept
    BY <1>2, <1>4, <2>1
  <2> QED BY <1>3, <2>1, <2>2
<1> QED BY <1>1, <1>3, <1>4

(* An element that is removed at its position: the others stay.            *)
LEMMA RemoveAtFacts ==
  ASSUME NEW S, NEW list \in Seq(S), IsInjective(list), NEW i \in DOMAIN list
  PROVE  LET rest == RemoveAt(list, i) IN
         /\ rest \in Seq(S) /\ IsInjective(rest) /\ Len(rest) = Len(list) - 1
         /\ ToSet(rest) \subseteq ToSet(list)
         /\ \A t \in ToSet(list) : t # list[i] => t \in ToSet(rest)
<1> DEFINE u == SubSeq(list, 1, i - 1)
           v == SubSeq(list, i + 1, Len(list))
           rest == u \o v
<1>0. Len(list) \in Nat /\ i \in 1..Len(list) /\ DOMAIN list = 1..Len(list)
  OBVIOUS
<1>1. /\ u \in Seq(S) /\ Len(u) = i - 1
      /\ \A k \in 1..i - 1 : u[k] = list[k]
  BY <1>0
<1>2. /\ v \in Seq(S) /\ Len(v) = Len(list) - i
      /\ \A k \in 1..Len(list) - i : v[k] = list[i + k]
  BY <1>0
<1>3. RemoveAt(list, i) = rest
  BY Zenon DEF RemoveAt
<1> HIDE DEF u, v
<1>4. /\ rest \in Seq(S) /\ Len(rest) = Len(u) + Len(v)
      /\ \A k \in 1..Len(u) + Len(v) :
           rest[k] = IF k <= Len(u) THEN u[k] ELSE v[k - Len(u)]
  BY <1>1, <1>2, ConcatProperties
<1> HIDE DEF rest
<1>5. Len(rest) = Len(list) - 1 /\ DOMAIN rest = 1..Len(list) - 1
  BY <1>0, <1>1, <1>2, <1>4
<1>6. ASSUME NEW k \in 1..Len(list) - 1
      PROVE  rest[k] = IF k < i THEN list[k] ELSE list[k + 1]
  <2>1. CASE k < i
    <3>1. k <= Len(u) /\ k \in 1..Len(u) + Len(v) /\ k \in 1..i - 1
      BY <1>0, <1>1, <1>2, <2>1
    <3> QED BY <1>1, <1>4, <2>1, <3>1
  <2>2. CASE ~(k < i)
    <3>1. ~(k <= Len(u)) /\ k \in 1..Len(u) + Len(v) /\ k - Len(u) \in 1..Len(list) - i
      BY <1>0, <1>1, <1>2, <2>2
    <3>2. rest[k] = v[k - Len(u)]
      BY <1>4, <3>1
    <3>3. v[k - Len(u)] = list[i + (k - Len(u))]
      BY <1>2, <3>1
    <3>4. i + (k - Len(u)) = k + 1
      BY <1>0, <1>1
    <3> QED BY <2>2, <3>2, <3>3, <3>4
  <2> QED BY <2>1, <2>2
<1>7. IsInjective(rest)
  <2> SUFFICES ASSUME NEW j \in 1..Len(list) - 1, NEW k \in 1..Len(list) - 1, rest[j] = rest[k]
               PROVE  j = k
    BY <1>5 DEF IsInjective
  <2> DEFINE at(n) == IF n < i THEN n ELSE n + 1
  <2>1. at(j) \in DOMAIN list /\ at(k) \in DOMAIN list
    BY <1>0
  <2>2. list[at(j)] = list[at(k)]
    BY <1>0, <1>6
  <2>3. at(j) = at(k)
    <3> HIDE DEF at
    <3> QED BY <2>1, <2>2 DEF IsInjective
  <2> QED BY <1>0, <2>3
<1>8. ToSet(rest) \subseteq ToSet(list)
  <2> SUFFICES ASSUME NEW k \in 1..Len(list) - 1
               PROVE  rest[k] \in ToSet(list)
    BY <1>5 DEF ToSet
  <2>1. k \in DOMAIN list /\ k + 1 \in DOMAIN list
    BY <1>0
  <2> QED BY <1>6, <2>1 DEF ToSet
<1>9. ASSUME NEW t \in ToSet(list), t # list[i]
      PROVE  t \in ToSet(rest)
  <2>1. PICK k \in 1..Len(list) : t = list[k]
    BY <1>0 DEF ToSet
  <2>2. CASE k < i
    <3>1. k \in 1..Len(list) - 1
      BY <1>0, <2>2
    <3> QED BY <1>5, <1>6, <2>1, <2>2, <3>1 DEF ToSet
  <2>3. CASE k > i
    <3>1. k - 1 \in 1..Len(list) - 1 /\ ~(k - 1 < i) /\ k - 1 + 1 = k
      BY <1>0, <2>3
    <3>2. rest[k - 1] = t
      BY <1>6, <2>1, <3>1
    <3> QED BY <1>5, <3>1, <3>2 DEF ToSet
  <2>4. k # i
    BY <1>9, <2>1
  <2> QED BY <1>0, <2>2, <2>3, <2>4
<1> QED BY <1>3, <1>4, <1>5, <1>7, <1>8, <1>9
(* removeOneOldTask removes one indicator, and that of a task that has     *)
(* finished if there is one.                                               *)
LEMMA WithoutOneFacts ==
  ASSUME NEW list \in Seq(Tasks), IsInjective(list), list # <<>>
  PROVE  LET rest == WithoutOne(list) IN
         /\ rest \in Seq(Tasks) /\ IsInjective(rest) /\ Len(rest) = Len(list) - 1
         /\ ToSet(rest) \subseteq ToSet(list)
         /\ (\E x \in ToSet(list) : Finished(x)) =>
              \A t \in ToSet(list) : ~Finished(t) => t \in ToSet(rest)
<1> DEFINE ended  == {i \in DOMAIN list : Finished(list[i])}
           shared == {i \in DOMAIN list :
                        \E j \in DOMAIN list \ {i} : Type[list[j]] = Type[list[i]]}
           chosen == IF ended # {} THEN ended ELSE IF shared # {} THEN shared ELSE DOMAIN list
           at     == CHOOSE i \in chosen : \A j \in chosen : i <= j
<1>0. Len(list) \in Nat /\ Len(list) # 0 /\ DOMAIN list = 1..Len(list)
  OBVIOUS
<1>1. WithoutOne(list) = RemoveAt(list, at)
  BY Zenon DEF WithoutOne
<1>2. chosen \in SUBSET DOMAIN list /\ chosen # {}
  <2>1. 1 \in DOMAIN list
    BY <1>0
  <2> QED BY <2>1
<1>3. ended # {} => chosen = ended
  OBVIOUS
<1>4. \A i \in DOMAIN list : i \in ended <=> Finished(list[i])
  OBVIOUS
<1> HIDE DEF ended, chosen
<1>5. at \in chosen
  <2>1. chosen \in SUBSET Nat
    BY <1>0, <1>2
  <2>2. \E i \in chosen : \A j \in chosen : i <= j
    BY <1>2, <2>1, Least
  <2> QED BY <2>2
<1> HIDE DEF at
<1>6. at \in DOMAIN list
  BY <1>2, <1>5
<1> DEFINE rest == RemoveAt(list, at)
<1>7. /\ rest \in Seq(Tasks) /\ IsInjective(rest) /\ Len(rest) = Len(list) - 1
      /\ ToSet(rest) \subseteq ToSet(list)
      /\ \A t \in ToSet(list) : t # list[at] => t \in ToSet(rest)
  BY <1>6, RemoveAtFacts
<1> HIDE DEF rest
<1>8. ASSUME NEW x \in ToSet(list), Finished(x), NEW t \in ToSet(list), ~Finished(t)
      PROVE  t \in ToSet(rest)
  <2>1. PICK i \in DOMAIN list : x = list[i]
    BY DEF ToSet
  <2>2. at \in ended
    BY <1>3, <1>4, <1>5, <1>8, <2>1
  <2>3. Finished(list[at])
    BY <1>4, <1>6, <2>2
  <2>4. t # list[at]
    BY <1>8, <2>3
  <2> QED BY <1>7, <2>4
<1> QED BY <1>1, <1>7, <1>8 DEF rest

(* The view after a task is added has its limit, shows the task, and shows *)
(* each task that it showed and that has not finished, if fewer tasks than *)
(* the limit are still at work.                                            *)
LEMMA WithNewFacts ==
  ASSUME NEW list \in Seq(Tasks), IsInjective(list), Len(list) <= ViewLimit,
         NEW t \in Tasks, t \notin ToSet(list)
  PROVE  LET new == WithNew(list, t) IN
         /\ new \in Seq(Tasks) /\ IsInjective(new) /\ Len(new) <= ViewLimit
         /\ ToSet(new) \subseteq ToSet(list) \union {t} /\ t \in ToSet(new)
         /\ \A busy : /\ IsFiniteSet(busy) /\ Cardinality(busy) < ViewLimit
                      /\ \A x \in ToSet(list) : ~Finished(x) => x \in busy
                      => \A x \in ToSet(list) : ~Finished(x) => x \in ToSet(new)
<1> DEFINE old  == WithoutOld(list, Type[t], FALSE)
           room == IF Len(old) = ViewLimit THEN WithoutOne(old) ELSE old
           new  == Append(room, t)
<1>0. ViewLimit \in Nat /\ ViewLimit # 0 /\ Len(list) \in Nat
  BY BoundsAssumption
<1>1. /\ old \in Seq(Tasks) /\ IsInjective(old) /\ Len(old) <= Len(list)
      /\ ToSet(old) \subseteq ToSet(list)
      /\ \A x \in ToSet(list) : ~Finished(x) => x \in ToSet(old)
  BY WithoutOldFacts
<1>2. WithNew(list, t) = new
  BY Zenon DEF WithNew
<1> HIDE DEF old
<1>3. Len(old) \in Nat /\ DOMAIN old = 1..Len(old)
  BY <1>1
<1>4. ASSUME Len(old) = ViewLimit
      PROVE  LET rest == WithoutOne(old) IN
             /\ rest \in Seq(Tasks) /\ IsInjective(rest) /\ Len(rest) = Len(old) - 1
             /\ ToSet(rest) \subseteq ToSet(old)
             /\ (\E x \in ToSet(old) : Finished(x)) =>
                  \A y \in ToSet(old) : ~Finished(y) => y \in ToSet(rest)
  <2>1. old # <<>>
    BY <1>0, <1>1, <1>4
  <2> QED BY <1>1, <2>1, WithoutOneFacts
<1>5. /\ room \in Seq(Tasks) /\ IsInjective(room) /\ Len(room) < ViewLimit
      /\ ToSet(room) \subseteq ToSet(old)
      /\ (Len(old) # ViewLimit \/ \E x \in ToSet(old) : Finished(x)) =>
           \A y \in ToSet(old) : ~Finished(y) => y \in ToSet(room)
  <2>1. CASE Len(old) = ViewLimit
    BY <1>0, <1>4, <2>1
  <2>2. CASE Len(old) # ViewLimit
    <3>1. room = old
      BY <2>2
    <3>2. Len(old) < ViewLimit
      <4>1. Len(old) <= Len(list) /\ Len(old) \in Nat
        BY <1>1, <1>3
      <4> QED BY <1>0, <2>2, <4>1
    <3> HIDE DEF room
    <3> QED BY <1>1, <3>1, <3>2
  <2> QED BY <2>1, <2>2
<1> HIDE DEF room
<1>6. t \notin ToSet(room)
  BY <1>1, <1>5
<1>7. /\ new \in Seq(Tasks) /\ Len(new) = Len(room) + 1 /\ IsInjective(new)
      /\ ToSet(new) = ToSet(room) \union {t}
  BY <1>5, <1>6, AppendFacts
<1> HIDE DEF new
<1>8. ASSUME NEW busy, IsFiniteSet(busy), Cardinality(busy) < ViewLimit,
             \A x \in ToSet(list) : ~Finished(x) => x \in busy,
             NEW y \in ToSet(list), ~Finished(y)
      PROVE  y \in ToSet(new)
  <2>1. Len(old) # ViewLimit \/ \E x \in ToSet(old) : Finished(x)
    <3> SUFFICES ASSUME Len(old) = ViewLimit, \A x \in ToSet(old) : ~Finished(x)
                 PROVE  FALSE
      OBVIOUS
    <3>1. \A i \in 1..Len(old) : old[i] \in busy
      BY <1>1, <1>3, <1>8 DEF ToSet
    <3>2. old \in [1..Len(old) -> busy]
      BY <1>1, <1>3, <3>1
    <3>3. old \in Injection(1..Len(old), busy)
      BY <1>1, <1>3, <3>2 DEF Injection, IsInjective
    <3>4. Cardinality(1..Len(old)) <= Cardinality(busy)
      BY <1>8, <3>3, FS_Injection
    <3>5. Cardinality(1..Len(old)) = Len(old)
      <4> DEFINE n == Len(old)
      <4>1. n \in Nat
        BY <1>3
      <4> HIDE DEF n
      <4>2. Cardinality(1..n) = IF 1 > n THEN 0 ELSE n - 1 + 1
        BY <4>1, FS_Interval
      <4>3. Cardinality(1..n) = n
        BY <4>1, <4>2
      <4> QED BY <4>3 DEF n
    <3>6. Cardinality(busy) \in Nat
      BY <1>8, FS_CardinalityType
    <3> QED BY <1>0, <1>3, <1>8, <3>4, <3>5, <3>6
  <2>2. y \in ToSet(old)
    BY <1>1, <1>8
  <2> QED BY <1>5, <1>7, <1>8, <2>1, <2>2
<1>9. new \in Seq(Tasks) /\ IsInjective(new) /\ Len(new) <= ViewLimit
  BY <1>0, <1>5, <1>7
<1>10. ToSet(new) \subseteq ToSet(list) \union {t} /\ t \in ToSet(new)
  BY <1>1, <1>5, <1>7
<1> QED BY <1>2, <1>8, <1>9, <1>10

(* When an indicator has faded away, those of tasks at work are still      *)
(* there.                                                                  *)
LEMMA AfterFadingFacts ==
  ASSUME NEW t \in Tasks, m_taskList \in Seq(Tasks), IsInjective(m_taskList)
  PROVE  LET rest == AfterFading(t) IN
         /\ rest \in Seq(Tasks) /\ IsInjective(rest) /\ Len(rest) <= Len(m_taskList)
         /\ ToSet(rest) \subseteq ToSet(m_taskList)
         /\ \A x \in ToSet(m_taskList) : x # t /\ ~Finished(x) => x \in ToSet(rest)
<1> DEFINE kept   == {i \in DOMAIN m_taskList : m_taskList[i] # t}
           others == ElementsAt(m_taskList, kept)
           rest   == WithoutOld(others, Type[t], TRUE)
<1>1. AfterFading(t) = rest
  BY Zenon DEF AfterFading
<1>2. kept \subseteq DOMAIN m_taskList /\ \A i \in DOMAIN m_taskList : m_taskList[i] # t => i \in kept
  OBVIOUS
<1> HIDE DEF kept
<1>3. /\ others \in Seq(Tasks) /\ IsInjective(others) /\ Len(others) <= Len(m_taskList)
      /\ ToSet(others) \subseteq ToSet(m_taskList)
      /\ \A i \in kept : m_taskList[i] \in ToSet(others)
  BY <1>2, KeptFacts
<1> HIDE DEF others
<1>4. /\ rest \in Seq(Tasks) /\ IsInjective(rest) /\ Len(rest) <= Len(others)
      /\ ToSet(rest) \subseteq ToSet(others)
      /\ \A x \in ToSet(others) : ~Finished(x) => x \in ToSet(rest)
  BY <1>3, WithoutOldFacts
<1> HIDE DEF rest
<1>5. ASSUME NEW x \in ToSet(m_taskList), x # t, ~Finished(x)
      PROVE  x \in ToSet(rest)
  <2>1. PICK i \in DOMAIN m_taskList : x = m_taskList[i]
    BY DEF ToSet
  <2>2. x \in ToSet(others)
    BY <1>2, <1>3, <1>5, <2>1
  <2> QED BY <1>4, <1>5, <2>2
<1>6. Len(rest) <= Len(m_taskList)
  <2>1. Len(rest) \in Int /\ Len(others) \in Int /\ Len(m_taskList) \in Int
    BY <1>3, <1>4
  <2> QED BY <1>3, <1>4, <2>1
<1> QED BY <1>1, <1>3, <1>4, <1>5, <1>6
-----------------------------------------------------------------------------
(* A task that is added: what its thread has done by then.                 *)
LEMMA AddTaskStep ==
  ASSUME ProgressInv, NEW t \in Tasks, AddTask(t)
  PROVE  ProgressInv' /\ Running' \subseteq Running \union {t}
<1>0. TasksOK /\ EventsOK /\ SyncOK /\ ViewOK
  BY DEF ProgressInv
<1>1. PICK end \in BOOLEAN :
        /\ future' = [future EXCEPT ![t] = IF end THEN "finished" ELSE "running"]
        /\ events' = IF end THEN Append(events, t) ELSE events
  BY DEF AddTask
<1>2. /\ future[t] = "none"
      /\ m_runningTasks' = m_runningTasks \union {t}
      /\ t \in SyncTasks => m_syncTask' = t /\ overtaken' = m_runningTasks \intersect SyncTasks
      /\ t \notin SyncTasks => m_syncTask' = m_syncTask /\ overtaken' = overtaken
      /\ m_taskList' = WithNew(m_taskList, t)
      /\ canceled' = canceled /\ m_isFading' = m_isFading
  BY DEF AddTask
<1>3. /\ future' \in [Tasks -> {"none", "running", "finished"}]
      /\ future'[t] = IF end THEN "finished" ELSE "running"
      /\ \A x \in Tasks : x # t => future'[x] = future[x]
  BY <1>0, <1>1 DEF TasksOK
<1>4. t \notin ToSet(events) /\ t \notin ToSet(m_taskList) /\ t \notin Running
  BY <1>0, <1>2 DEF EventsOK, ViewOK, Finished, Running
<1>5. TasksOK'
  <2>1. m_isFading' \subseteq {x \in Tasks : Finished(x)'}
    BY <1>0, <1>2, <1>3 DEF TasksOK, Finished
  <2> QED BY <1>0, <1>2, <1>3, <2>1 DEF TasksOK, Finished
<1>6. Running' = IF end THEN Running ELSE Running \union {t}
  BY <1>2, <1>3 DEF Running
<1>7. /\ events' \in Seq(Tasks) /\ IsInjective(events')
      /\ ToSet(events') = IF end THEN ToSet(events) \union {t} ELSE ToSet(events)
      /\ end => events'[Len(events')] = t /\ Len(events') = Len(events) + 1
      /\ \A i \in DOMAIN events : events'[i] = events[i]
  <2>1. CASE end
    BY <1>0, <1>1, <1>4, <2>1, AppendFacts DEF EventsOK
  <2>2. CASE ~end
    BY <1>0, <1>1, <2>2 DEF EventsOK
  <2> QED BY <2>1, <2>2
<1>8. EventsOK'
  <2>1. ToSet(events') \subseteq {x \in Tasks : Finished(x)'}
    <3> SUFFICES ASSUME NEW x \in ToSet(events')
                 PROVE  x \in Tasks /\ future'[x] = "finished"
      BY DEF Finished
    <3>1. CASE x \in ToSet(events)
      BY <1>0, <1>3, <1>4, <3>1 DEF EventsOK, Finished
    <3>2. CASE x \notin ToSet(events)
      <4>1. end /\ x = t
        BY <1>7, <3>2
      <4> QED BY <1>3, <4>1
    <3> QED BY <3>1, <3>2
  <2>2. m_runningTasks' = Running' \union ToSet(events')
    BY <1>0, <1>2, <1>6, <1>7 DEF EventsOK
  <2> QED BY <1>7, <2>1, <2>2 DEF EventsOK, Finished
<1>9. t \notin m_runningTasks
  BY <1>0, <1>4 DEF EventsOK
<1>10. SyncOK'
  BY <1>0, <1>2, <1>9, SyncAssumption DEF SyncOK
<1>11. StatusOK'
  BY DEF AddTask, StatusOK
<1>12. ViewOK'
  <2>1. /\ m_taskList' \in Seq(Tasks) /\ IsInjective(m_taskList') /\ Len(m_taskList') <= ViewLimit
        /\ ToSet(m_taskList') \subseteq ToSet(m_taskList) \union {t}
    BY <1>0, <1>2, <1>4, WithNewFacts DEF ViewOK
  <2>2. ToSet(m_taskList') \subseteq {x \in Tasks : future'[x] # "none"}
    BY <1>0, <1>3, <2>1 DEF ViewOK
  <2> QED BY <2>1, <2>2 DEF ViewOK
<1> QED BY <1>5, <1>6, <1>8, <1>10, <1>11, <1>12 DEF ProgressInv

LEMMA ReportFinishedStep ==
  ASSUME ProgressInv, NEW t \in Tasks, ReportFinished(t)
  PROVE  ProgressInv' /\ Running' \subseteq Running
<1>0. TasksOK /\ EventsOK /\ SyncOK /\ StatusOK /\ ViewOK
  BY DEF ProgressInv
<1>1. /\ future[t] = "running" /\ future' = [future EXCEPT ![t] = "finished"]
      /\ events' = Append(events, t)
      /\ canceled' = canceled /\ m_isFading' = m_isFading /\ m_taskList' = m_taskList
      /\ m_runningTasks' = m_runningTasks /\ m_syncTask' = m_syncTask /\ overtaken' = overtaken
      /\ status' = status
  BY DEF ReportFinished, Running, manager, view
<1>2. /\ future' \in [Tasks -> {"none", "running", "finished"}]
      /\ future'[t] = "finished" /\ \A x \in Tasks : x # t => future'[x] = future[x]
  BY <1>0, <1>1 DEF TasksOK
<1>3. t \notin ToSet(events) /\ Running' = Running \ {t} /\ t \in Running
  BY <1>0, <1>1, <1>2 DEF EventsOK, TasksOK, Finished, Running
<1>4. TasksOK'
  BY <1>0, <1>1, <1>2 DEF TasksOK, Finished
<1>5. /\ events' \in Seq(Tasks) /\ IsInjective(events')
      /\ ToSet(events') = ToSet(events) \union {t}
      /\ events'[Len(events')] = t /\ Len(events') = Len(events) + 1
      /\ \A i \in DOMAIN events : events'[i] = events[i]
  BY <1>0, <1>1, <1>3, AppendFacts DEF EventsOK
<1>6. EventsOK'
  <2>1. ToSet(events') \subseteq {x \in Tasks : Finished(x)'}
    BY <1>0, <1>2, <1>5 DEF EventsOK, Finished
  <2>2. m_runningTasks' = Running' \union ToSet(events')
    BY <1>0, <1>1, <1>3, <1>5 DEF EventsOK
  <2> QED BY <1>5, <2>1, <2>2 DEF EventsOK, Finished
<1>7. SyncOK'
  BY <1>0, <1>1 DEF SyncOK
<1>8. StatusOK'
  BY <1>0, <1>1 DEF StatusOK
<1>9. ViewOK'
  BY <1>0, <1>1, <1>2 DEF ViewOK
<1> QED BY <1>3, <1>4, <1>6, <1>7, <1>8, <1>9 DEF ProgressInv
LEMMA DeliverStep ==
  ASSUME ProgressInv, DeliverFinished
  PROVE  ProgressInv' /\ Running' = Running /\ m_taskList' = m_taskList
<1> DEFINE h == Head(events)
<1>0. TasksOK /\ EventsOK /\ SyncOK /\ StatusOK /\ ViewOK
  BY DEF ProgressInv
<1>1. /\ events # <<>> /\ events' = Tail(events)
      /\ m_runningTasks' = m_runningTasks \ {h}
      /\ m_syncTask' = SyncAfter(h) /\ overtaken' = overtaken \ {h}
      /\ status' = StatusOf(m_runningTasks', m_syncTask')
      /\ m_taskList' = m_taskList /\ future' = future /\ canceled' = canceled
      /\ m_isFading' \subseteq m_isFading \union {h}
  BY DEF DeliverFinished, TaskFinished, SetFinished
<1>2. /\ Tail(events) \in Seq(Tasks) /\ IsInjective(Tail(events))
      /\ h \in ToSet(events) /\ h = events[1]
      /\ ToSet(Tail(events)) = ToSet(events) \ {h}
      /\ Len(events) \in Nat /\ DOMAIN events = 1..Len(events) /\ DOMAIN Tail(events) = 1..Len(events) - 1
      /\ \A i \in 1..Len(events) - 1 : Tail(events)[i] = events[i + 1]
  BY <1>0, <1>1, TailFacts DEF EventsOK
<1> HIDE DEF h
<1>3. h \in Tasks /\ Finished(h) /\ h \notin Running /\ Running' = Running
  BY <1>0, <1>1, <1>2 DEF EventsOK, Finished, Running
<1>4. TasksOK'
  BY <1>0, <1>1, <1>3 DEF TasksOK, Finished
<1>5. EventsOK'
  <2>1. m_runningTasks' = Running' \union ToSet(events')
    BY <1>0, <1>1, <1>2, <1>3 DEF EventsOK
  <2>2. ToSet(events') \subseteq {x \in Tasks : Finished(x)'}
    BY <1>0, <1>1, <1>2 DEF EventsOK, Finished
  <2> QED BY <1>1, <1>2, <2>1, <2>2 DEF EventsOK, Finished
<1>6. SyncOK'
  <2>1. m_syncTask' = IF m_syncTask = h THEN NoTask ELSE m_syncTask
    BY <1>1 DEF SyncAfter
  <2>2. NoTask \notin SyncTasks
    BY SyncAssumption
  <2> QED BY <1>0, <1>1, <2>1, <2>2 DEF SyncOK
<1>7. StatusOK' /\ ViewOK'
  BY <1>0, <1>1 DEF StatusOK, ViewOK
<1> QED BY <1>1, <1>3, <1>4, <1>5, <1>6, <1>7 DEF ProgressInv

LEMMA FadeAwayStep ==
  ASSUME ProgressInv, NEW t \in Tasks, FadeAway(t)
  PROVE  ProgressInv' /\ Running' = Running /\ Finished(t)
<1>0. TasksOK /\ EventsOK /\ SyncOK /\ StatusOK /\ ViewOK
  BY DEF ProgressInv
<1>1. /\ t \in m_isFading /\ m_isFading' = m_isFading \ {t}
      /\ m_taskList' = IF t \in ToSet(m_taskList) THEN AfterFading(t) ELSE m_taskList
      /\ future' = future /\ canceled' = canceled /\ events' = events
      /\ m_runningTasks' = m_runningTasks /\ m_syncTask' = m_syncTask /\ overtaken' = overtaken
      /\ status' = status
  BY DEF FadeAway, manager
<1>2. Running' = Running /\ Finished(t)
  BY <1>0, <1>1 DEF Running, TasksOK
<1>3. TasksOK' /\ StatusOK' /\ SyncOK'
  BY <1>0, <1>1 DEF TasksOK, StatusOK, SyncOK, Finished
<1>4. EventsOK'
  BY <1>0, <1>1, <1>2 DEF EventsOK, Finished
<1>5. ViewOK'
  <2>1. /\ AfterFading(t) \in Seq(Tasks) /\ IsInjective(AfterFading(t))
        /\ Len(AfterFading(t)) <= Len(m_taskList)
        /\ ToSet(AfterFading(t)) \subseteq ToSet(m_taskList)
    BY <1>0, AfterFadingFacts DEF ViewOK
  <2>2. Len(AfterFading(t)) <= ViewLimit
    <3>1. Len(AfterFading(t)) \in Nat /\ Len(m_taskList) \in Nat /\ ViewLimit \in Nat
      BY <1>0, <2>1, BoundsAssumption DEF ViewOK
    <3> QED BY <1>0, <2>1, <3>1 DEF ViewOK
  <2> QED BY <1>0, <1>1, <2>1, <2>2 DEF ViewOK
<1> QED BY <1>2, <1>3, <1>4, <1>5 DEF ProgressInv

LEMMA CancelStep ==
  ASSUME ProgressInv, (\E t \in Tasks : Cancel(t)) \/ UNCHANGED progressVars
  PROVE  ProgressInv' /\ Running' = Running /\ m_taskList' = m_taskList
<1>1. /\ future' = future /\ events' = events /\ m_taskList' = m_taskList /\ m_isFading' = m_isFading
      /\ m_runningTasks' = m_runningTasks /\ m_syncTask' = m_syncTask /\ overtaken' = overtaken
      /\ status' = status
      /\ canceled \subseteq Tasks => canceled' \subseteq Tasks
  BY DEF Cancel, progressVars, manager, view
<1>2. Running' = Running
  BY <1>1 DEF Running
<1> QED
  BY <1>1, <1>2 DEF ProgressInv, TasksOK, EventsOK, SyncOK, StatusOK, ViewOK, Finished

LEMMA ProgressStep == ProgressInv /\ [ProgressNext]_progressVars => ProgressInv'
<1> SUFFICES ASSUME ProgressInv, [ProgressNext]_progressVars PROVE ProgressInv'
  OBVIOUS
<1>1. ASSUME NEW t \in Tasks, AddTask(t)
      PROVE  ProgressInv'
  BY <1>1, AddTaskStep
<1>2. ASSUME NEW t \in Tasks, ReportFinished(t)
      PROVE  ProgressInv'
  BY <1>2, ReportFinishedStep
<1>3. ASSUME NEW t \in Tasks, FadeAway(t)
      PROVE  ProgressInv'
  BY <1>3, FadeAwayStep
<1>4. CASE DeliverFinished
  BY <1>4, DeliverStep
<1>5. CASE (\E t \in Tasks : Cancel(t)) \/ UNCHANGED progressVars
  BY <1>5, CancelStep
<1> QED BY <1>1, <1>2, <1>3, <1>4, <1>5 DEF ProgressNext

LEMMA ProgressInitInv == ProgressInit => ProgressInv /\ Running = {}
<1> SUFFICES ASSUME ProgressInit PROVE ProgressInv /\ Running = {}
  OBVIOUS
<1>1. /\ future = [t \in Tasks |-> "none"] /\ canceled = {} /\ events = <<>>
      /\ m_runningTasks = {} /\ m_syncTask = NoTask /\ overtaken = {}
      /\ status = StatusOf({}, NoTask)
      /\ m_taskList = <<>> /\ m_isFading = {}
  BY DEF ProgressInit
<1>2. ToSet(<<>>) = {} /\ IsInjective(<<>>) /\ Len(<<>>) = 0 /\ <<>> \in Seq(Tasks)
  BY DEF ToSet, IsInjective
<1>3. Running = {}
  BY <1>1 DEF Running
<1>4. TasksOK
  BY <1>1 DEF TasksOK
<1>5. EventsOK /\ SyncOK /\ StatusOK
  BY <1>1, <1>2, <1>3 DEF EventsOK, SyncOK, StatusOK
<1>6. ViewOK
  BY <1>1, <1>2, BoundsAssumption DEF ViewOK
<1> QED BY <1>3, <1>4, <1>5, <1>6 DEF ProgressInv

LEMMA ProgressInvariant == ProgressSpec => []ProgressInv
<1>1. ProgressInit => ProgressInv
  BY ProgressInitInv
<1> QED BY <1>1, ProgressStep, PTL DEF ProgressSpec

(* The types of the members, with the limit of the view and each indicator *)
(* in it once.                                                             *)
THEOREM ProgressTypes == ProgressSpec => []ProgressTypeOK
<1>1. ProgressInv => ProgressTypeOK
  <2> SUFFICES ASSUME ProgressInv PROVE ProgressTypeOK
    OBVIOUS
  <2>1. m_runningTasks \subseteq Tasks
    BY DEF ProgressInv, EventsOK, Running
  <2>2. IsFiniteSet(m_runningTasks) /\ Cardinality(m_runningTasks) <= Cardinality(Tasks)
    BY <2>1, TasksAssumption, FS_Subset
  <2>3. Cardinality(m_runningTasks) \in Nat /\ Cardinality(Tasks) \in Nat
    BY <2>2, TasksAssumption, FS_CardinalityType
  <2>4. status.taskCount \in 0..Cardinality(Tasks)
    BY <2>2, <2>3 DEF ProgressInv, StatusOK, StatusOf
  <2>5. status.state \in {"NoTasks", "AnyTaskExecuted", "SyncTaskExecuted"}
    BY DEF ProgressInv, StatusOK, StatusOf
  <2>6. m_syncTask \in Tasks \union {NoTask}
    BY SyncAssumption DEF ProgressInv, SyncOK
  <2>7. ToSet(m_taskList) \subseteq Tasks
    BY DEF ProgressInv, ViewOK
  <2>8. overtaken \subseteq SyncTasks
    BY DEF ProgressInv, SyncOK
  <2> QED
    BY <2>1, <2>4, <2>5, <2>6, <2>7, <2>8 DEF ProgressInv, TasksOK, EventsOK, ViewOK, ProgressTypeOK
<1> QED BY <1>1, ProgressInvariant, PTL

(* The status bar counts the tasks whose end the manager has not heard of, *)
(* in whichever order they end, and says that a synchronous one is among   *)
(* them for as long as one is to which no later one was added.             *)
THEOREM StatusAlwaysAgrees == ProgressSpec => []StatusAgrees
<1>1. ProgressInv => StatusAgrees
  <2> SUFFICES ASSUME ProgressInv PROVE StatusAgrees
    OBVIOUS
  <2>1. /\ status.taskCount = Cardinality(m_runningTasks)
        /\ status.state = IF m_runningTasks = {} THEN "NoTasks"
                          ELSE IF m_syncTask # NoTask THEN "SyncTaskExecuted" ELSE "AnyTaskExecuted"
    BY DEF ProgressInv, StatusOK, StatusOf
  <2>2. Running \subseteq m_runningTasks
    BY DEF ProgressInv, EventsOK
  <2>3. (m_syncTask # NoTask) <=> (m_runningTasks \intersect SyncTasks) \ overtaken # {}
    BY DEF ProgressInv, SyncOK
  <2> QED BY <2>1, <2>2, <2>3 DEF StatusAgrees
<1> QED BY <1>1, ProgressInvariant, PTL

(* If no more tasks run than the view has room for, none that runs loses   *)
(* its indicator, by which the user could cancel it.                       *)
THEOREM RunningTasksAreShown ==
  ASSUME MaxRunning <= ViewLimit
  PROVE  ProgressSpec => []ShownWhileRunning
<1>1. ASSUME ProgressInv, ShownWhileRunning, [ProgressNext]_progressVars
      PROVE  ShownWhileRunning'
  <2>0. TasksOK /\ ViewOK
    BY <1>1 DEF ProgressInv
  <2>1. ASSUME NEW t \in Tasks, AddTask(t)
        PROVE  ShownWhileRunning'
    <3>1. Running' \subseteq Running \union {t} /\ m_taskList' = WithNew(m_taskList, t)
      BY <1>1, <2>1, AddTaskStep DEF AddTask
    <3>2. t \notin ToSet(m_taskList)
      BY <2>0, <2>1 DEF ViewOK, AddTask
    <3>3. IsFiniteSet(Running) /\ Cardinality(Running) < ViewLimit
      <4>1. IsFiniteSet(Running)
        BY TasksAssumption, FS_Subset DEF Running
      <4>2. Cardinality(Running) \in Nat
        BY <4>1, FS_CardinalityType
      <4> QED BY <2>1, <4>1, <4>2, BoundsAssumption DEF AddTask
    <3>4. \A x \in ToSet(m_taskList) : ~Finished(x) => x \in Running
      BY <2>0 DEF TasksOK, ViewOK, Finished, Running
    <3>5. /\ t \in ToSet(m_taskList')
          /\ \A x \in ToSet(m_taskList) : ~Finished(x) => x \in ToSet(m_taskList')
      <4>1. /\ t \in ToSet(WithNew(m_taskList, t))
            /\ \A busy : /\ IsFiniteSet(busy) /\ Cardinality(busy) < ViewLimit
                         /\ \A x \in ToSet(m_taskList) : ~Finished(x) => x \in busy
                         => \A x \in ToSet(m_taskList) : ~Finished(x) => x \in ToSet(WithNew(m_taskList, t))
        BY <2>0, <3>2, WithNewFacts DEF ViewOK
      <4> QED BY <3>1, <3>3, <3>4, <4>1, Zenon
    <3> QED BY <1>1, <3>1, <3>5 DEF ShownWhileRunning, Running, Finished
  <2>2. ASSUME NEW t \in Tasks, ReportFinished(t)
        PROVE  ShownWhileRunning'
    <3>1. Running' \subseteq Running /\ m_taskList' = m_taskList
      BY <1>1, <2>2, ReportFinishedStep DEF ReportFinished, view
    <3> QED BY <1>1, <3>1 DEF ShownWhileRunning
  <2>3. ASSUME NEW t \in Tasks, FadeAway(t)
        PROVE  ShownWhileRunning'
    <3>1. Running' = Running /\ Finished(t)
      BY <1>1, <2>3, FadeAwayStep
    <3>2. \A x \in ToSet(m_taskList) : x # t /\ ~Finished(x) => x \in ToSet(m_taskList')
      <4>1. \A x \in ToSet(m_taskList) : x # t /\ ~Finished(x) => x \in ToSet(AfterFading(t))
        BY <2>0, AfterFadingFacts DEF ViewOK
      <4> QED BY <2>3, <4>1 DEF FadeAway
    <3> QED BY <1>1, <3>1, <3>2 DEF ShownWhileRunning, Running, Finished
  <2>4. CASE DeliverFinished
    <3>1. Running' = Running /\ m_taskList' = m_taskList
      BY <1>1, <2>4, DeliverStep
    <3> QED BY <1>1, <3>1 DEF ShownWhileRunning
  <2>5. CASE (\E t \in Tasks : Cancel(t)) \/ UNCHANGED progressVars
    <3>1. Running' = Running /\ m_taskList' = m_taskList
      BY <1>1, <2>5, CancelStep
    <3> QED BY <1>1, <3>1 DEF ShownWhileRunning
  <2> QED BY <1>1, <2>1, <2>2, <2>3, <2>4, <2>5 DEF ProgressNext
<1>2. ProgressInit => ShownWhileRunning
  BY ProgressInitInv DEF ShownWhileRunning
<1> QED BY <1>1, <1>2, ProgressInvariant, PTL DEF ProgressSpec
=============================================================================
