--------------------------- MODULE DbManagerProofs ---------------------------
(***************************************************************************)
(* Proofs about DbManager, for every set of connections and engines, and   *)
(* about the catalog of one connection, DbCatalog, for every schema.       *)
(***************************************************************************)
EXTENDS DbManager, DbCatalog, FiniteSetTheorems, SequenceTheorems, TLAPS

(* Rows and tabs follow each other, and one is current if there is any.    *)
SelectionOK ==
  /\ tabIndex = comboIndex
  /\ comboIndex = -1 <=> connectionList = <<>>

(* The names given since the last reset are below the next one.            *)
NamesOK == \A c \in Open : c \in opened /\ databaseName[c] < dbIndex

IInv == /\ TypeOK
        /\ ListsAgree
        /\ SelectionOK
        /\ NamesOK
        /\ NamesUnique
        /\ EngineOfCurrent

-----------------------------------------------------------------------------
(* Lists with one element less, and with some less at the end.             *)
LEMMA WithoutFacts ==
  ASSUME NEW S, NEW s \in Seq(S), NEW i \in 0..Len(s) - 1
  PROVE  /\ Without(s, i) \in Seq(S)
         /\ Len(Without(s, i)) = Len(s) - 1
         /\ \A k \in 1..Len(s) - 1 : Without(s, i)[k] = IF k <= i THEN s[k] ELSE s[k + 1]
<1> DEFINE u == SubSeq(s, 1, i)
           v == SubSeq(s, i + 2, Len(s))
<1>1. /\ u \in Seq(S) /\ Len(u) = i
      /\ \A k \in 1..i : u[k] = s[k]
  BY SMT
<1>2. /\ v \in Seq(S) /\ Len(v) = Len(s) - i - 1
      /\ \A k \in 1..Len(s) - i - 1 : v[k] = s[i + 1 + k]
  BY SMT
<1> HIDE DEF u, v
<1>3. /\ u \o v \in Seq(S) /\ Len(u \o v) = Len(s) - 1
      /\ \A k \in 1..Len(s) - 1 : (u \o v)[k] = IF k <= i THEN s[k] ELSE s[k + 1]
  <2>1. /\ u \o v \in Seq(S) /\ Len(u \o v) = Len(u) + Len(v)
        /\ \A k \in 1..Len(u) + Len(v) :
             (u \o v)[k] = IF k <= Len(u) THEN u[k] ELSE v[k - Len(u)]
    BY <1>1, <1>2, ConcatProperties
  <2>2. Len(u) + Len(v) = Len(s) - 1
    BY <1>1, <1>2
  <2>3. ASSUME NEW k \in 1..Len(s) - 1
        PROVE  (u \o v)[k] = IF k <= i THEN s[k] ELSE s[k + 1]
    <3>1. CASE k <= i
      BY <1>1, <2>1, <2>2, <3>1
    <3>2. CASE ~(k <= i)
      <4>1. k - i \in 1..Len(s) - i - 1 /\ i + 1 + (k - i) = k + 1
        BY <3>2
      <4>2. v[k - i] = s[k + 1]
        BY <1>2, <4>1
      <4>3. (u \o v)[k] = v[k - i]
        BY <1>1, <2>1, <2>2, <3>2
      <4>4. QED
        BY <3>2, <4>2, <4>3
    <3>3. QED
      BY <3>1, <3>2
  <2>4. QED
    BY <2>1, <2>2, <2>3
<1>4. QED
  BY <1>3 DEF Without, u, v

(* A list cut at an element is the list up to it.                          *)
LEMMA PrefixFacts ==
  ASSUME NEW S, NEW s \in Seq(S), NEW left \in 0..Len(s)
  PROVE  /\ SubSeq(s, 1, left) \in Seq(S)
         /\ Len(SubSeq(s, 1, left)) = left
         /\ \A k \in 1..left : SubSeq(s, 1, left)[k] = s[k]
OBVIOUS

(* A position that is not none is the place before that of an element.     *)
LEMMA PositionFacts ==
  \A m \in Int : \A x \in -1..m - 1 : x # -1 => x + 1 \in 1..m
OBVIOUS

-----------------------------------------------------------------------------
(* The invariant holds when the manager is created.                        *)
LEMMA InitInv == Init => IInv
<1> SUFFICES ASSUME Init PROVE IInv
  OBVIOUS
<1>1. TypeOK
  <2>1. <<>> \in Seq(Connections) /\ Len(<<>>) = 0
    OBVIOUS
  <2>2. [c \in Connections |-> 0] \in [Connections -> 0..MaxDbIndex]
    BY BoundAssumption
  <2>3. databaseName \in [Connections -> 0..MaxDbIndex]
    BY <2>2 DEF Init
  <2>4. /\ comboIndex \in Positions /\ tabIndex \in Positions
        /\ pageIndex \in 0..Len(connectionList)
    BY <2>1 DEF Init, Positions
  <2>5. \A list \in {connectionList, connectionInfoList, structWidgetList, rows, tabs, pages} :
          list \in Seq(Connections)
    BY <2>1 DEF Init
  <2>6. dbIndex \in 0..MaxDbIndex
    BY BoundAssumption DEF Init
  <2>7. QED
    BY <2>3, <2>4, <2>5, <2>6 DEF Init, TypeOK
<1>2. ListsAgree /\ SelectionOK /\ EngineOfCurrent
  BY DEF Init, ListsAgree, SelectionOK, EngineOfCurrent
<1>3. Open = {}
  BY DEF Init, Open
<1>4. QED
  BY <1>1, <1>2, <1>3 DEF IInv, NamesOK, NamesUnique

(* What the slot is told: types, and the engine at the position.           *)
LEMMA Told ==
  ASSUME NEW i, NEW conns, NEW structs,
         i # -1 => conns[i + 1] \in Connections /\ structs[i + 1] \in Connections,
         OnCurrentConnectionChanged(i, conns, structs)
  PROVE  /\ currentConnection' \in Connections \cup {None}
         /\ currentEngine' \in Engines \cup {DefaultEngine}
         /\ commitEnabled' \in BOOLEAN
         /\ currentEngine' = IF i = -1 THEN DefaultEngine ELSE EngineOf[structs[i + 1]]
<1>1. CASE i = -1
  BY <1>1 DEF OnCurrentConnectionChanged
<1>2. CASE i # -1
  <2>1. EngineOf[structs[i + 1]] \in Engines
    BY <1>2, EngineAssumption
  <2>2. QED
    BY <1>2, <2>1 DEF OnCurrentConnectionChanged, At
<1>3. QED
  BY <1>1, <1>2

-----------------------------------------------------------------------------
(* Steps that leave the lists and what is current alone.                   *)
LEMMA ListsUntouched ==
  ASSUME IInv, UNCHANGED <<lists, current, currentConnection, currentEngine, databaseName, opened>>,
         dbIndex' \in dbIndex..MaxDbIndex, commitEnabled' \in BOOLEAN,
         transaction' \subseteq opened, working' \subseteq opened
  PROVE  IInv'
<1>1. dbIndex \in Nat /\ databaseName \in [Connections -> Nat]
  BY BoundAssumption DEF IInv, TypeOK
<1>2. Open' = Open /\ Open \subseteq Connections
  BY DEF Open, lists, IInv, TypeOK
<1>3. TypeOK'
  BY <1>1, BoundAssumption DEF IInv, TypeOK, lists, current, Positions
<1>4. ListsAgree' /\ SelectionOK' /\ EngineOfCurrent'
  BY DEF IInv, ListsAgree, SelectionOK, EngineOfCurrent, lists, current, At
<1>5. NamesOK' /\ NamesUnique'
  BY <1>1, <1>2, BoundAssumption DEF IInv, NamesOK, NamesUnique
<1>6. QED
  BY <1>3, <1>4, <1>5 DEF IInv

(* Statements, commits and connections that fail to open keep the          *)
(* invariant.                                                              *)
LEMMA OthersInv ==
  ASSUME IInv, \/ CreateConnectionFails \/ EndTransaction
               \/ \E c \in Connections : StatementStarts(c) \/ StatementEnds(c)
  PROVE  IInv'
<1>1. /\ dbIndex \in 0..MaxDbIndex /\ transaction \subseteq opened /\ working \subseteq opened
      /\ commitEnabled \in BOOLEAN /\ MaxDbIndex \in Nat
  BY BoundAssumption DEF IInv, TypeOK
<1>2. CASE CreateConnectionFails
  BY <1>1, <1>2, ListsUntouched DEF CreateConnectionFails, told
<1>3. CASE EndTransaction
  <2>1. /\ UNCHANGED <<lists, current, currentConnection, currentEngine, naming, working>>
        /\ commitEnabled' \in BOOLEAN /\ transaction' \subseteq transaction
    BY <1>3 DEF EndTransaction
  <2>2. QED
    BY <1>1, <2>1, ListsUntouched DEF naming
<1>4. ASSUME NEW c \in Connections, StatementStarts(c) PROVE IInv'
  <2>1. c \in opened
    BY <1>4 DEF StatementStarts, IInv, NamesOK
  <2>2. QED
    BY <1>1, <1>4, <2>1, ListsUntouched DEF StatementStarts, told, naming
<1>5. ASSUME NEW c \in Connections, StatementEnds(c) PROVE IInv'
  <2>1. commitEnabled' \in BOOLEAN
    <3>1. (c \in transaction') \in BOOLEAN
      OBVIOUS
    <3>2. commitEnabled' = (c \in transaction') \/ commitEnabled' = commitEnabled
      BY <1>5, Zenon DEF StatementEnds
    <3>3. QED
      BY <1>1, <3>1, <3>2, Zenon
  <2>2. QED
    BY <1>1, <1>5, <2>1, ListsUntouched DEF StatementEnds, naming
<1>6. QED
  BY <1>2, <1>3, <1>4, <1>5

-----------------------------------------------------------------------------
(* The connections of a list that has lost some are among those it had.    *)
LEMMA FewerOpen ==
  ASSUME IInv, NEW n \in 0..Len(connectionList), connectionList' \in Seq(Connections),
         Len(connectionList') = n,
         \A k \in 1..n : \E m \in 1..Len(connectionList) : connectionList'[k] = connectionList[m]
  PROVE  Open' \subseteq Open
BY DEF Open

(* What is left of names when connections are closed: the numbers go on, o *)
(* start again with no connection open.                                    *)
LEMMA NamesLeft ==
  ASSUME IInv, Open' \subseteq Open, UNCHANGED <<databaseName, opened>>,
         dbIndex' = dbIndex \/ Open' = {}
  PROVE  NamesOK' /\ NamesUnique'
BY DEF IInv, NamesOK, NamesUnique

(* The types of the lists, by name.                                        *)
LEMMA ListTypes ==
  ASSUME IInv
  PROVE  /\ connectionList \in Seq(Connections) /\ Len(connectionList) \in Nat
         /\ \A k \in 1..Len(connectionList) : connectionList[k] \in Connections
         /\ connectionInfoList = connectionList /\ structWidgetList = connectionList
         /\ rows = connectionList /\ tabs = connectionList /\ pages = connectionList
BY DEF IInv, TypeOK, ListsAgree

(* The parts of TypeOK that a step changes when it changes the lists.      *)
LEMMA ListsChanged ==
  ASSUME IInv, connectionList' \in Seq(Connections), ListsAgree',
         comboIndex' \in Positions', tabIndex' = comboIndex',
         comboIndex' = -1 <=> connectionList' = <<>>,
         pageIndex' \in 0..Len(connectionList'),
         dbIndex' \in 0..MaxDbIndex,
         databaseName' \in [Connections -> 0..MaxDbIndex],
         opened' \subseteq Connections, opened \subseteq opened',
         UNCHANGED <<transaction, working>>,
         currentConnection' \in Connections \cup {None},
         currentEngine' \in Engines \cup {DefaultEngine},
         commitEnabled' \in BOOLEAN, scripted' \in BOOLEAN,
         EngineOfCurrent', NamesOK', NamesUnique'
  PROVE  IInv'
<1>1. TypeOK'
  BY DEF IInv, TypeOK, ListsAgree
<1>2. QED
  BY <1>1 DEF IInv, SelectionOK

-----------------------------------------------------------------------------
(* Selecting a connection keeps the invariant.                             *)
LEMMA SelectInv == ASSUME IInv, NEW i \in 0..Len(connectionList) - 1, Select(i) PROVE IInv'
<1>1. /\ UNCHANGED <<lists, naming, transaction, working>>
      /\ comboIndex' = i /\ tabIndex' = i /\ pageIndex' = i + 1
      /\ scripted' = FALSE
      /\ OnCurrentConnectionChanged(i, connectionList, structWidgetList)
  BY DEF Select
<1>2. /\ currentConnection' \in Connections \cup {None}
      /\ currentEngine' \in Engines \cup {DefaultEngine}
      /\ commitEnabled' \in BOOLEAN
      /\ currentEngine' = IF i = -1 THEN DefaultEngine ELSE EngineOf[connectionList[i + 1]]
  <2>1. connectionList[i + 1] \in Connections /\ structWidgetList = connectionList
    BY ListTypes
  <2>2. QED
    BY <1>1, <2>1, Told
<1>3. connectionList' = connectionList /\ ListsAgree' /\ Open' = Open
  BY <1>1 DEF IInv, lists, ListsAgree, Open
<1>4. EngineOfCurrent'
  BY <1>1, <1>2, <1>3 DEF EngineOfCurrent, At
<1>5. NamesOK' /\ NamesUnique'
  BY <1>1, <1>3, NamesLeft DEF naming
<1>6. /\ comboIndex' \in Positions' /\ pageIndex' \in 0..Len(connectionList')
      /\ comboIndex' = -1 <=> connectionList' = <<>>
  BY <1>1, <1>3, ListTypes DEF Positions
<1>7. /\ dbIndex \in 0..MaxDbIndex /\ databaseName \in [Connections -> 0..MaxDbIndex]
      /\ opened \subseteq Connections
  BY DEF IInv, TypeOK
<1>8. QED
  BY <1>1, <1>2, <1>3, <1>4, <1>5, <1>6, <1>7, ListTypes, ListsChanged DEF naming

(* Opening a connection keeps the invariant.                               *)
LEMMA CreateInv == ASSUME IInv, NEW c \in Connections, CreateConnection(c) PROVE IInv'
<1> DEFINE n == Len(connectionList)
<1>1. /\ connectionList' \in Seq(Connections) /\ Len(connectionList') = n + 1
      /\ connectionList'[n + 1] = c
      /\ \A k \in 1..n : connectionList'[k] = connectionList[k]
  BY ListTypes DEF CreateConnection
<1>2. ListsAgree'
  BY ListTypes DEF CreateConnection, ListsAgree
<1>3. /\ comboIndex' = n /\ tabIndex' = n /\ pageIndex' = n + 1 /\ scripted' = FALSE
      /\ OnCurrentConnectionChanged(n, connectionList', connectionList')
  BY <1>2, ListTypes DEF CreateConnection, ListsAgree
<1>4. \A k \in 1..n + 1 : connectionList'[k] \in Connections
  BY <1>1
<1>5. /\ currentConnection' \in Connections \cup {None}
      /\ currentEngine' \in Engines \cup {DefaultEngine}
      /\ commitEnabled' \in BOOLEAN
      /\ currentEngine' = IF n = -1 THEN DefaultEngine ELSE EngineOf[connectionList'[n + 1]]
  <2>1. n \in Nat /\ n # -1 /\ n + 1 \in 1..n + 1
    BY ListTypes
  <2>2. connectionList'[n + 1] \in Connections /\ EngineOf[connectionList'[n + 1]] \in Engines
    BY <1>4, <2>1, EngineAssumption
  <2>3. /\ currentConnection' = connectionList'[n + 1]
        /\ currentEngine' = EngineOf[connectionList'[n + 1]]
        /\ commitEnabled' = (connectionList'[n + 1] \in transaction)
    BY <1>3, <2>1 DEF OnCurrentConnectionChanged, At
  <2>4. commitEnabled' \in BOOLEAN
    BY <2>3
  <2>5. QED
    BY <2>1, <2>2, <2>3, <2>4
<1>6. EngineOfCurrent'
  BY <1>3, <1>5 DEF EngineOfCurrent, At
<1>7. /\ dbIndex \in 0..MaxDbIndex /\ databaseName \in [Connections -> 0..MaxDbIndex]
      /\ opened \subseteq Connections
  BY DEF IInv, TypeOK
<1>8. /\ dbIndex' = dbIndex + 1 /\ dbIndex' \in 0..MaxDbIndex
      /\ databaseName' = [databaseName EXCEPT ![c] = dbIndex]
      /\ databaseName' \in [Connections -> 0..MaxDbIndex]
      /\ opened' = opened \cup {c} /\ c \notin opened
      /\ UNCHANGED <<transaction, working>>
  BY <1>7, BoundAssumption DEF CreateConnection
<1>9. Open' \subseteq Open \cup {c} /\ Open \subseteq Connections
  BY <1>1, ListTypes DEF Open
<1>10. NamesOK'
  BY <1>7, <1>8, <1>9, BoundAssumption DEF IInv, NamesOK
<1>11. NamesUnique'
  <2>1. \A d \in Open : d # c /\ databaseName'[d] = databaseName[d] /\ databaseName[d] < dbIndex
    BY <1>7, <1>8, <1>9 DEF IInv, NamesOK
  <2>2. databaseName'[c] = dbIndex
    BY <1>7, <1>8
  <2>3. \A d \in Open : databaseName[d] \in Nat /\ dbIndex \in Nat
    BY <1>7, <1>9, BoundAssumption
  <2>4. QED
    BY <1>9, <2>1, <2>2, <2>3 DEF IInv, NamesUnique
<1>12. /\ comboIndex' \in Positions' /\ pageIndex' \in 0..Len(connectionList')
       /\ comboIndex' # -1 /\ connectionList' # <<>>
  BY <1>1, <1>3, ListTypes DEF Positions
<1>13. QED
  BY <1>1, <1>2, <1>3, <1>5, <1>6, <1>7, <1>8, <1>10, <1>11, <1>12, ListsChanged

-----------------------------------------------------------------------------
(* Where the signals of a removal leave the positions, and with which list *)
(* the slot is called last.                                                *)
LEMMA CloseMoves ==
  ASSUME IInv, NEW i \in 0..Len(connectionList) - 1, CloseConnection(i)
  PROVE  /\ tabIndex' = comboIndex'
         /\ comboIndex' \in -1..Len(connectionList) - 2
         /\ comboIndex' = -1 <=> Len(connectionList) = 1
         /\ pageIndex' \in 0..Len(connectionList) - 1
         /\ \/ OnCurrentConnectionChanged(comboIndex', connectionList, Without(connectionList, i))
            \/ /\ OnCurrentConnectionChanged(comboIndex', connectionList, connectionList)
               /\ comboIndex' \in 0..i - 1
            \/ UNCHANGED told /\ comboIndex' = comboIndex /\ comboIndex \in 0..i - 1
<1> DEFINE n == Len(connectionList)
<1>1. /\ n \in Nat /\ n >= 1 /\ comboIndex \in 0..n - 1 /\ tabIndex = comboIndex
      /\ pageIndex \in 0..n /\ structWidgetList = connectionList
  <2>1. comboIndex \in Positions /\ pageIndex \in 0..n /\ n \in Nat /\ n >= 1
    BY ListTypes DEF IInv, TypeOK
  <2>2. comboIndex # -1
    BY <2>1, ListTypes DEF IInv, SelectionOK
  <2>3. QED
    BY <2>1, <2>2, ListTypes DEF IInv, SelectionOK, Positions
<1>2. i \in 0..n - 1
  OBVIOUS
<1> HIDE DEF n
<1>3. CASE i > comboIndex
  <2>1. comboIndex' = comboIndex /\ tabIndex' = comboIndex /\ UNCHANGED told
        /\ pageIndex' = PageAfterRemoval(pageIndex, i + 1, n)
    BY <1>1, <1>2, <1>3 DEF CloseConnection, ComboAfterRemoval, TabAfterRemoval, DetailsPage, n
  <2>2. pageIndex' \in 0..n - 1
    BY <1>1, <1>2, <2>1 DEF PageAfterRemoval, Smaller
  <2>3. comboIndex \in -1..n - 2 /\ comboIndex # -1 /\ n # 1 /\ comboIndex \in 0..i - 1
    BY <1>1, <1>2, <1>3
  <2>4. QED
    BY <2>1, <2>2, <2>3, Zenon DEF n
<1>4. CASE i <= comboIndex /\ comboIndex = 0
  <2>1. /\ comboIndex' = Smaller(0, n - 2) /\ tabIndex' = comboIndex'
        /\ pageIndex' = PageAfterRemoval(IF comboIndex' # -1 THEN comboIndex' + 1 ELSE 0, 1, n)
        /\ OnCurrentConnectionChanged(comboIndex', connectionList, Without(connectionList, i))
    BY <1>1, <1>2, <1>4
    DEF CloseConnection, ComboAfterRemoval, TabAfterRemoval, DetailsPage, StructsAtTabRemoval, n
  <2>2. pageIndex' \in 0..n - 1 /\ comboIndex' \in -1..n - 2 /\ (comboIndex' = -1 <=> n = 1)
    BY <1>1, <1>2, <2>1 DEF PageAfterRemoval, Smaller
  <2>3. QED
    BY <2>1, <2>2 DEF n
<1>5. CASE i = comboIndex /\ comboIndex > 0
  <2>1. /\ comboIndex' = i - 1 /\ tabIndex' = comboIndex'
        /\ pageIndex' = PageAfterRemoval(i, i + 1, n)
        /\ OnCurrentConnectionChanged(i - 1, connectionList, connectionList)
    BY <1>1, <1>2, <1>5
    DEF CloseConnection, ComboAfterRemoval, TabAfterRemoval, DetailsPage, n
  <2>2. pageIndex' \in 0..n - 1
    BY <1>1, <1>2, <2>1 DEF PageAfterRemoval, Smaller
  <2>3. i - 1 \in -1..n - 2 /\ i - 1 # -1 /\ n # 1 /\ i - 1 \in 0..i - 1
    BY <1>1, <1>2, <1>5
  <2>4. QED
    BY <2>1, <2>2, <2>3, Zenon DEF n
<1>6. CASE i < comboIndex
  <2>1. comboIndex - 1 \in i..n - 2 /\ comboIndex - 1 # -1 /\ comboIndex - 1 # comboIndex
    BY <1>1, <1>2, <1>6
  <2> DEFINE tab == TabAfterRemoval(comboIndex - 1, i, n)
  <2>2. tab \in 0..n - 2
    BY <1>1, <1>2, <1>6, <2>1 DEF TabAfterRemoval, Smaller
  <2>3. /\ comboIndex' = tab /\ tabIndex' = tab
        /\ pageIndex' = PageAfterRemoval(IF tab # comboIndex - 1 THEN tab + 1 ELSE comboIndex, i + 1, n)
        /\ OnCurrentConnectionChanged(tab, connectionList, Without(connectionList, i))
    BY <1>1, <1>2, <1>6, <2>1
    DEF CloseConnection, ComboAfterRemoval, DetailsPage, StructsAtTabRemoval, n
  <2> HIDE DEF tab
  <2>4. pageIndex' \in 0..n - 1
    BY <1>1, <1>2, <2>2, <2>3 DEF PageAfterRemoval, Smaller
  <2>5. tab \in -1..n - 2 /\ tab # -1 /\ n # 1
    BY <1>1, <1>2, <1>6, <2>2
  <2>6. QED
    BY <2>3, <2>4, <2>5, Zenon DEF n
<1>7. QED
  BY <1>1, <1>2, <1>3, <1>4, <1>5, <1>6

(* Closing the connection at any position keeps the invariant.             *)
LEMMA CloseInv ==
  ASSUME IInv, NEW i \in 0..Len(connectionList) - 1, CloseConnection(i), scripted' \in BOOLEAN
  PROVE  IInv'
<1> DEFINE n == Len(connectionList)
<1>1. /\ UNCHANGED <<naming, transaction, working>> /\ RemoveFromLists(i)
  BY DEF CloseConnection
<1>2. /\ connectionList' = Without(connectionList, i)
      /\ connectionList' \in Seq(Connections) /\ Len(connectionList') = n - 1
      /\ \A k \in 1..n - 1 :
           connectionList'[k] = IF k <= i THEN connectionList[k] ELSE connectionList[k + 1]
  BY <1>1, ListTypes, WithoutFacts DEF RemoveFromLists
<1>3. ListsAgree'
  BY <1>1, ListTypes DEF RemoveFromLists, ListsAgree
<1>4. n \in Nat /\ i \in 0..n - 1
  BY ListTypes
<1>5. /\ tabIndex' = comboIndex' /\ comboIndex' \in -1..n - 2
      /\ comboIndex' = -1 <=> n = 1
      /\ pageIndex' \in 0..n - 1
  BY CloseMoves
<1>6. /\ comboIndex' \in Positions' /\ pageIndex' \in 0..Len(connectionList')
  BY <1>2, <1>4, <1>5 DEF Positions
<1>7. comboIndex' = -1 <=> connectionList' = <<>>
  <2>1. connectionList' = <<>> <=> Len(connectionList') = 0
    BY <1>2
  <2>2. n - 1 = 0 <=> n = 1
    BY <1>4
  <2>3. QED
    BY <1>2, <1>5, <2>1, <2>2
<1>8. /\ currentConnection' \in Connections \cup {None}
      /\ currentEngine' \in Engines \cup {DefaultEngine}
      /\ commitEnabled' \in BOOLEAN
      /\ currentEngine' = IF comboIndex' = -1 THEN DefaultEngine
                          ELSE EngineOf[connectionList'[comboIndex' + 1]]
  <2>1. ASSUME comboIndex' # -1 PROVE comboIndex' + 1 \in 1..n - 1 /\ comboIndex' + 1 \in 1..n
    <3> HIDE DEF n
    <3>1. PICK p \in -1..n - 2 : p = comboIndex'
      BY <1>5 DEF n
    <3>2. p \in -1..(n - 1) - 1 /\ p \in -1..n - 1 /\ n \in Int /\ n - 1 \in Int
      BY <1>4
    <3>3. p # -1
      BY <2>1, <3>1
    <3>4. p + 1 \in 1..n - 1 /\ p + 1 \in 1..n
      BY <3>2, <3>3, PositionFacts
    <3>5. QED
      BY <3>1, <3>4
  <2>2. comboIndex' # -1 => /\ connectionList[comboIndex' + 1] \in Connections
                           /\ connectionList'[comboIndex' + 1] \in Connections
    <3> SUFFICES ASSUME comboIndex' # -1
                 PROVE  /\ connectionList[comboIndex' + 1] \in Connections
                        /\ connectionList'[comboIndex' + 1] \in Connections
      OBVIOUS
    <3> DEFINE k == comboIndex' + 1
    <3>1. k \in 1..n - 1 /\ k \in 1..n
      BY <2>1
    <3> HIDE DEF k
    <3>2. connectionList[k] \in Connections /\ connectionList'[k] \in Connections
      BY <1>2, <3>1, ListTypes
    <3>3. QED
      BY <3>2 DEF k
  <2>3. CASE OnCurrentConnectionChanged(comboIndex', connectionList, Without(connectionList, i))
    BY <1>2, <2>2, <2>3, Told
  <2>4. CASE /\ OnCurrentConnectionChanged(comboIndex', connectionList, connectionList)
             /\ comboIndex' \in 0..i - 1
    <3> DEFINE k == comboIndex' + 1
    <3>1. k \in 1..n - 1 /\ k <= i
      <4> HIDE DEF n
      <4>1. PICK p \in 0..i - 1 : p = comboIndex'
        BY <2>4
      <4>2. p # -1 /\ p + 1 \in 1..n - 1 /\ p + 1 <= i
        BY <1>4
      <4>3. QED
        BY <4>1, <4>2
    <3> HIDE DEF k
    <3>2. connectionList'[k] = connectionList[k]
      BY <1>2, <3>1
    <3>3. connectionList'[comboIndex' + 1] = connectionList[comboIndex' + 1]
      BY <3>2 DEF k
    <3>4. QED
      BY <2>2, <2>4, <3>3, Told
  <2>5. CASE UNCHANGED told /\ comboIndex' = comboIndex /\ comboIndex \in 0..i - 1
    <3>1. connectionList'[comboIndex + 1] = connectionList[comboIndex + 1] /\ comboIndex # -1
      BY <1>2, <1>4, <2>1, <2>5
    <3>2. QED
      BY <2>5, <3>1 DEF IInv, TypeOK, EngineOfCurrent, At, told
  <2>6. QED
    BY <2>3, <2>4, <2>5, CloseMoves
<1>9. EngineOfCurrent'
  BY <1>8 DEF EngineOfCurrent, At
<1>10. Open' \subseteq Open
  <2>1. ASSUME NEW k \in 1..n - 1
        PROVE  \E m \in 1..n : connectionList'[k] = connectionList[m]
    BY <1>2, <1>4
  <2>2. ASSUME NEW c \in Open' PROVE c \in Open
    <3>1. PICK k \in 1..n - 1 : c = connectionList'[k]
      <4>1. Len(connectionList') = n - 1
        BY <1>2, <1>4
      <4>2. QED
        BY <2>2, <4>1 DEF Open
    <3>2. PICK m \in 1..n : connectionList'[k] = connectionList[m]
      BY <2>1
    <3>3. QED
      BY <3>1, <3>2 DEF Open
  <2>3. QED
    BY <2>2
<1>11. NamesOK' /\ NamesUnique'
  BY <1>1, <1>10, NamesLeft DEF naming
<1>12. /\ dbIndex \in 0..MaxDbIndex /\ databaseName \in [Connections -> 0..MaxDbIndex]
       /\ opened \subseteq Connections
  BY DEF IInv, TypeOK
<1>13. QED
  BY <1>1, <1>2, <1>3, <1>5, <1>6, <1>7, <1>8, <1>9, <1>11, <1>12, ListsChanged DEF naming

(* Closing all of them, as far as it gets, keeps the invariant.            *)
LEMMA CloseAllInv ==
  ASSUME IInv, NEW left \in 0..Len(connectionList), CloseAllDbConnections(left)
  PROVE  IInv'
<1> DEFINE n == Len(connectionList)
<1>1. /\ UNCHANGED <<databaseName, opened, transaction, working>>
      /\ connectionList' = SubSeq(connectionList, 1, left)
      /\ dbIndex' = IF left = 0 THEN 0 ELSE dbIndex
  BY DEF CloseAllDbConnections, DbIndexAfterCloseAll
<1>2. /\ connectionList' \in Seq(Connections) /\ Len(connectionList') = left
      /\ \A k \in 1..left : connectionList'[k] = connectionList[k]
  BY <1>1, ListTypes, PrefixFacts
<1>3. ListsAgree'
  BY <1>1, ListTypes DEF CloseAllDbConnections, ListsAgree
<1>4. /\ n \in Nat /\ left \in 0..n /\ comboIndex \in -1..n - 1 /\ tabIndex = comboIndex
      /\ pageIndex \in 0..n /\ (comboIndex = -1 <=> n = 0)
  BY ListTypes DEF IInv, TypeOK, SelectionOK, Positions
<1>5. /\ comboIndex' = Smaller(comboIndex, left - 1) /\ tabIndex' = comboIndex'
      /\ pageIndex' = IF comboIndex' # comboIndex THEN comboIndex' + 1 ELSE Smaller(pageIndex, left)
  BY <1>4 DEF CloseAllDbConnections
<1>6. /\ comboIndex' \in -1..left - 1 /\ (comboIndex' = -1 <=> left = 0)
      /\ pageIndex' \in 0..left
  BY <1>4, <1>5 DEF Smaller
<1>7. /\ comboIndex' \in Positions' /\ pageIndex' \in 0..Len(connectionList')
      /\ comboIndex' = -1 <=> connectionList' = <<>>
  BY <1>2, <1>6 DEF Positions
<1>8. /\ currentConnection' \in Connections \cup {None}
      /\ currentEngine' \in Engines \cup {DefaultEngine}
      /\ commitEnabled' \in BOOLEAN
      /\ currentEngine' = IF comboIndex' = -1 THEN DefaultEngine
                          ELSE EngineOf[connectionList'[comboIndex' + 1]]
  <2>1. ASSUME comboIndex' # -1 PROVE comboIndex' + 1 \in 1..left /\ comboIndex' + 1 \in 1..n
    <3> HIDE DEF n
    <3>1. PICK p \in -1..left - 1 : p = comboIndex'
      BY <1>6
    <3>2. p \in -1..n - 1 /\ n \in Int /\ left \in Int
      BY <1>4
    <3>3. p # -1
      BY <2>1, <3>1
    <3>4. p + 1 \in 1..left /\ p + 1 \in 1..n
      BY <3>2, <3>3, PositionFacts
    <3>5. QED
      BY <3>1, <3>4
  <2>2. comboIndex' # -1 => /\ connectionList[comboIndex' + 1] \in Connections
                           /\ connectionList'[comboIndex' + 1] = connectionList[comboIndex' + 1]
    <3> SUFFICES ASSUME comboIndex' # -1
                 PROVE  /\ connectionList[comboIndex' + 1] \in Connections
                        /\ connectionList'[comboIndex' + 1] = connectionList[comboIndex' + 1]
      OBVIOUS
    <3> DEFINE k == comboIndex' + 1
    <3>1. k \in 1..left /\ k \in 1..n
      BY <2>1
    <3> HIDE DEF k
    <3>2. connectionList[k] \in Connections /\ connectionList'[k] = connectionList[k]
      BY <1>2, <3>1, ListTypes
    <3>3. QED
      BY <3>2 DEF k
  <2>3. CASE comboIndex' # comboIndex
    <3>1. OnCurrentConnectionChanged(comboIndex', connectionList, connectionList)
      BY <1>4, <1>5, <2>3, ListTypes DEF CloseAllDbConnections
    <3>2. QED
      BY <2>2, <3>1, Told
  <2>4. CASE comboIndex' = comboIndex
    <3>1. UNCHANGED told
      BY <1>4, <1>5, <2>4 DEF CloseAllDbConnections
    <3>2. QED
      BY <2>2, <2>4, <3>1 DEF IInv, TypeOK, EngineOfCurrent, At, told
  <2>5. QED
    BY <2>3, <2>4
<1>9. EngineOfCurrent'
  BY <1>8 DEF EngineOfCurrent, At
<1>10. Open' \subseteq Open /\ (left = 0 => Open' = {})
  BY <1>2, <1>4 DEF Open
<1>11. NamesOK' /\ NamesUnique'
  BY <1>1, <1>10, NamesLeft
<1>12. /\ dbIndex \in 0..MaxDbIndex /\ databaseName \in [Connections -> 0..MaxDbIndex]
       /\ opened \subseteq Connections /\ 0 \in 0..MaxDbIndex /\ scripted' \in BOOLEAN
  BY BoundAssumption DEF IInv, TypeOK, CloseAllDbConnections
<1>13. QED
  BY <1>1, <1>2, <1>3, <1>5, <1>7, <1>8, <1>9, <1>11, <1>12, ListsChanged

-----------------------------------------------------------------------------
(* So does a step that changes nothing.                                    *)
LEMMA StutterInv == IInv /\ UNCHANGED vars => IInv'
<1> SUFFICES ASSUME IInv, UNCHANGED vars PROVE IInv'
  OBVIOUS
<1>1. /\ UNCHANGED <<lists, current, currentConnection, currentEngine, databaseName, opened>>
      /\ UNCHANGED <<dbIndex, commitEnabled, transaction, working>>
  BY DEF vars, lists, current
<1>2. /\ dbIndex \in 0..MaxDbIndex /\ transaction \subseteq opened /\ working \subseteq opened
      /\ commitEnabled \in BOOLEAN /\ MaxDbIndex \in Nat
  BY BoundAssumption DEF IInv, TypeOK
<1>3. QED
  BY <1>1, <1>2, ListsUntouched

(* Every step of the manager keeps the invariant.                          *)
LEMMA NextInv == IInv /\ [Next]_vars => IInv'
<1> SUFFICES ASSUME IInv, Next PROVE IInv'
  BY StutterInv
<1>1. ASSUME NEW i \in 0..Len(connectionList) - 1, Select(i) PROVE IInv'
  BY <1>1, SelectInv
<1>2. ASSUME NEW i \in 0..Len(connectionList) - 1, ScriptCloseConnection(i) PROVE IInv'
  BY <1>2, CloseInv DEF ScriptCloseConnection
<1>3. ASSUME NEW c \in Connections, CreateConnection(c) PROVE IInv'
  BY <1>3, CreateInv
<1>4. ASSUME CloseDbConnection PROVE IInv'
  <2>1. comboIndex \in 0..Len(connectionList) - 1
    BY <1>4, ListTypes DEF CloseDbConnection, IInv, TypeOK, Positions
  <2>2. QED
    BY <1>4, <2>1, CloseInv DEF CloseDbConnection, IInv, TypeOK
<1>5. ASSUME NEW left \in 0..Len(connectionList), CloseAllDbConnections(left) PROVE IInv'
  BY <1>5, CloseAllInv
<1>6. QED
  BY <1>1, <1>2, <1>3, <1>4, <1>5, OthersInv DEF Next

(* The invariant of the manager: lists, positions, names and what the slot *)
(* told the editors hold together after every operation.                   *)
THEOREM Inductive == Spec => []IInv
<1>1. QED
  BY InitInv, NextInv, PTL DEF Spec

(* The members and widgets keep their types, and the positions are         *)
(* positions of the lists.                                                 *)
THEOREM TypeCorrect == Spec => []TypeOK
<1>1. IInv => TypeOK
  BY DEF IInv
<1>2. QED
  BY <1>1, Inductive, PTL

(* The six parallel lists hold the same connections in the same order.     *)
THEOREM ListsStayParallel == Spec => []ListsAgree
<1>1. IInv => ListsAgree
  BY DEF IInv
<1>2. QED
  BY <1>1, Inductive, PTL

(* No two open connections have the same name, whenever the numbers start  *)
(* again.                                                                  *)
THEOREM NamesStayUnique == Spec => []NamesUnique
<1>1. IInv => NamesUnique
  BY DEF IInv
<1>2. QED
  BY <1>1, Inductive, PTL

(* The engine of the editors is that of the current connection, also when  *)
(* scripts close connections on either side of it.                         *)
THEOREM EngineFollowsCurrent == Spec => []EngineOfCurrent
<1>1. IInv => EngineOfCurrent
  BY DEF IInv
<1>2. QED
  BY <1>1, Inductive, PTL

-----------------------------------------------------------------------------
(* The page of the current connection is removed with it.                  *)
LEMMA CloseCurrentPanes ==
  ASSUME IInv, PanesAgree, ~scripted, comboIndex # -1, CloseConnection(comboIndex)
  PROVE  pageIndex' = comboIndex' + 1
<1> DEFINE n == Len(connectionList)
<1>1. /\ n \in Nat /\ n >= 1 /\ comboIndex \in 0..n - 1 /\ tabIndex = comboIndex
      /\ pageIndex = comboIndex + 1
  BY ListTypes DEF IInv, TypeOK, SelectionOK, Positions, PanesAgree
<1> HIDE DEF n
<1>2. CASE comboIndex = 0
  <2>1. /\ comboIndex' = Smaller(0, n - 2)
        /\ pageIndex' = PageAfterRemoval(IF Smaller(0, n - 2) # -1 THEN Smaller(0, n - 2) + 1 ELSE 0, 1, n)
    BY <1>1, <1>2
    DEF CloseConnection, ComboAfterRemoval, TabAfterRemoval, DetailsPage, n
  <2>2. QED
    BY <1>1, <2>1 DEF PageAfterRemoval, Smaller
<1>3. CASE comboIndex > 0
  <2>1. /\ comboIndex' = comboIndex - 1
        /\ pageIndex' = PageAfterRemoval(comboIndex, comboIndex + 1, n)
    BY <1>1, <1>3
    DEF CloseConnection, ComboAfterRemoval, TabAfterRemoval, DetailsPage, n
  <2>2. QED
    BY <1>1, <2>1 DEF PageAfterRemoval
<1>4. QED
  BY <1>1, <1>2, <1>3

(* Unless a script has moved it, each step leaves the page at the current  *)
(* row.                                                                    *)
LEMMA PanesStep ==
  ASSUME IInv, IInv', PanesAgree, [Next]_vars
  PROVE  PanesAgree'
<1>1. SUFFICES ASSUME ~scripted' PROVE pageIndex' = comboIndex' + 1
  BY DEF IInv, SelectionOK, PanesAgree
<1>2. ~scripted => pageIndex = comboIndex + 1
  BY DEF PanesAgree
<1>3. ASSUME NEW i \in 0..Len(connectionList) - 1, Select(i) PROVE pageIndex' = comboIndex' + 1
  BY <1>3 DEF Select
<1>4. ASSUME NEW c \in Connections, CreateConnection(c) PROVE pageIndex' = comboIndex' + 1
  BY <1>4, ListTypes DEF CreateConnection
<1>5. ASSUME CloseDbConnection PROVE pageIndex' = comboIndex' + 1
  BY <1>1, <1>5, CloseCurrentPanes DEF CloseDbConnection
<1>6. ASSUME NEW left \in 0..Len(connectionList), CloseAllDbConnections(left)
      PROVE  pageIndex' = comboIndex' + 1
  <2>1. /\ comboIndex' = Smaller(comboIndex, left - 1)
        /\ pageIndex' = IF comboIndex' # comboIndex THEN comboIndex' + 1 ELSE Smaller(pageIndex, left)
        /\ ~scripted
    BY <1>1, <1>6 DEF CloseAllDbConnections
  <2>2. left \in Nat /\ comboIndex \in Int
    BY ListTypes DEF IInv, TypeOK, Positions
  <2>3. QED
    BY <1>2, <2>1, <2>2 DEF Smaller
<1>7. ASSUME \/ CreateConnectionFails \/ EndTransaction \/ UNCHANGED vars
             \/ \E c \in Connections : StatementStarts(c) \/ StatementEnds(c)
      PROVE  pageIndex' = comboIndex' + 1
  BY <1>1, <1>2, <1>7
  DEF CreateConnectionFails, EndTransaction, StatementStarts, StatementEnds, current, vars
<1>8. QED
  BY <1>1, <1>3, <1>4, <1>5, <1>6, <1>7 DEF Next, ScriptCloseConnection

(* The row, the tab and the page show the same connection, the page unless *)
(* a script has closed one since the last selection.                       *)
THEOREM PanesStayTogether == Spec => []PanesAgree
<1>1. Init => PanesAgree
  BY DEF Init, PanesAgree
<1>2. IInv /\ IInv' /\ PanesAgree /\ [Next]_vars => PanesAgree'
  BY PanesStep
<1>3. QED
  BY <1>1, <1>2, Inductive, PTL DEF Spec

-----------------------------------------------------------------------------
(* The catalog: paths.                                                     *)
Names == {"tables", "indexes"} \union Tables \union Indexes

(* All but the last element of a list.                                     *)
LEMMA FrontOfSeq ==
  ASSUME NEW S, NEW s \in Seq(S), Len(s) # 0
  PROVE  /\ Front(s) \in Seq(S) /\ Len(Front(s)) = Len(s) - 1
         /\ \A i \in 1..Len(s) - 1 : Front(s)[i] = s[i]
<1> DEFINE n == Len(s) - 1
<1>1. n \in Nat /\ 1 \in Int /\ n \in Int /\ \A i \in 1..n : s[i] \in S
  OBVIOUS
<1> HIDE DEF n
<1>2. /\ SubSeq(s, 1, n) \in Seq(S)
      /\ Len(SubSeq(s, 1, n)) = IF 1 <= n THEN n - 1 + 1 ELSE 0
      /\ \A i \in 1..n - 1 + 1 : SubSeq(s, 1, n)[i] = s[1 + i - 1]
  BY <1>1, SubSeqProperties
<1>3. Len(SubSeq(s, 1, n)) = n /\ n - 1 + 1 = n /\ \A i \in 1..n : 1 + i - 1 = i
  BY <1>1, <1>2
<1>4. \A i \in 1..n : SubSeq(s, 1, n)[i] = s[i]
  BY <1>2, <1>3
<1>5. Front(s) = SubSeq(s, 1, n)
  BY DEF Front, n
<1> QED BY <1>2, <1>3, <1>4, <1>5 DEF n

(* Two lists with the same elements.                                       *)
LEMMA SameList ==
  ASSUME NEW S, NEW s \in Seq(S), NEW u \in Seq(S), Len(s) = Len(u),
         \A i \in 1..Len(s) : s[i] = u[i]
  PROVE  s = u
BY SeqEqual

(* A place is a category, an object, the indexes of a table or one of      *)
(* them, by the length of its path, and so is the place above it.          *)
LEMMA NodeFacts ==
  \A n \in Nodes :
    /\ n \in Seq(Names) /\ Len(n) \in 1..4
    /\ n \in Categories <=> Len(n) = 1
    /\ n \in Objects <=> Len(n) = 2
    /\ Len(n) # 1 => Front(n) \in Nodes
<1>1. ASSUME NEW n \in Categories
      PROVE  n \in Seq(Names) /\ Len(n) = 1
  BY DEF Categories, TheTables, TheIndexes, Names
<1>2. ASSUME NEW n \in Objects
      PROVE  n \in Seq(Names) /\ Len(n) = 2 /\ Front(n) \in Nodes
  <2>1. ASSUME NEW t \in Tables, n = Table(t)
        PROVE  n \in Seq(Names) /\ Len(n) = 2 /\ Front(n) \in Nodes
    <3>1. n = <<"tables", t>> /\ n \in Seq(Names) /\ Len(n) = 2
      BY <2>1 DEF Table, Names
    <3>2. Front(n) = TheTables
      <4>0. Len(n) = 2 /\ n \in Seq(Names) /\ Len(n) # 0
        BY <3>1
      <4>5. /\ Front(n) \in Seq(Names) /\ Len(Front(n)) = Len(n) - 1
            /\ \A i \in 1..Len(n) - 1 : Front(n)[i] = n[i]
        BY <4>0, FrontOfSeq
      <4>1. Front(n) \in Seq(Names) /\ Len(Front(n)) = 1 /\ Front(n)[1] = n[1]
        BY <4>0, <4>5
      <4>2. TheTables \in Seq(Names) /\ Len(TheTables) = 1 /\ TheTables[1] = n[1]
        BY <3>1 DEF TheTables, Names
      <4>3. \A i \in 1..Len(Front(n)) : Front(n)[i] = TheTables[i]
        BY <4>1, <4>2
      <4> QED BY <4>1, <4>2, <4>3, SameList
    <3> QED BY <3>1, <3>2 DEF Nodes, Categories
  <2>2. ASSUME NEW i \in Indexes, n = Index(i)
        PROVE  n \in Seq(Names) /\ Len(n) = 2 /\ Front(n) \in Nodes
    <3>1. n = <<"indexes", i>> /\ n \in Seq(Names) /\ Len(n) = 2
      BY <2>2 DEF Index, Names
    <3>2. Front(n) = TheIndexes
      <4>0. Len(n) = 2 /\ n \in Seq(Names) /\ Len(n) # 0
        BY <3>1
      <4>5. /\ Front(n) \in Seq(Names) /\ Len(Front(n)) = Len(n) - 1
            /\ \A j \in 1..Len(n) - 1 : Front(n)[j] = n[j]
        BY <4>0, FrontOfSeq
      <4>1. Front(n) \in Seq(Names) /\ Len(Front(n)) = 1 /\ Front(n)[1] = n[1]
        BY <4>0, <4>5
      <4>2. TheIndexes \in Seq(Names) /\ Len(TheIndexes) = 1 /\ TheIndexes[1] = n[1]
        BY <3>1 DEF TheIndexes, Names
      <4>3. \A j \in 1..Len(Front(n)) : Front(n)[j] = TheIndexes[j]
        BY <4>1, <4>2
      <4> QED BY <4>1, <4>2, <4>3, SameList
    <3> QED BY <3>1, <3>2 DEF Nodes, Categories
  <2> QED BY <2>1, <2>2 DEF Objects
<1>3. ASSUME NEW t \in Tables
      PROVE  LET n == IndexesOf(t) IN n \in Seq(Names) /\ Len(n) = 3 /\ Front(n) \in Nodes
  <2>1. IndexesOf(t) = <<"tables", t, "indexes">> /\ IndexesOf(t) \in Seq(Names) /\ Len(IndexesOf(t)) = 3
    BY DEF IndexesOf, Names
  <2> DEFINE n == IndexesOf(t)
  <2>2. Front(n) = Table(t)
    <3>0. n \in Seq(Names) /\ Len(n) = 3 /\ Len(n) # 0
      BY <2>1
    <3>5. /\ Front(n) \in Seq(Names) /\ Len(Front(n)) = Len(n) - 1
          /\ \A j \in 1..Len(n) - 1 : Front(n)[j] = n[j]
      BY <3>0, FrontOfSeq
    <3>1. /\ Front(n) \in Seq(Names) /\ Len(Front(n)) = 2
          /\ Front(n)[1] = n[1] /\ Front(n)[2] = n[2]
      BY <3>0, <3>5
    <3>2. /\ Table(t) \in Seq(Names) /\ Len(Table(t)) = 2
          /\ Table(t)[1] = n[1] /\ Table(t)[2] = n[2]
      BY <2>1 DEF Table, Names
    <3>3. \A j \in 1..2 : j = 1 \/ j = 2
      OBVIOUS
    <3>4. \A j \in 1..Len(Front(n)) : Front(n)[j] = Table(t)[j]
      BY <3>1, <3>2, <3>3
    <3> QED BY <3>1, <3>2, <3>4, SameList
  <2> QED BY <2>1, <2>2 DEF Nodes, Objects
<1>4. ASSUME NEW i \in Indexes
      PROVE  LET n == IndexOf(TableOf[i], i) IN n \in Seq(Names) /\ Len(n) = 4 /\ Front(n) \in Nodes
  <2> DEFINE t == TableOf[i]
             n == IndexOf(t, i)
  <2>1. t \in Tables
    BY TablesAssumption
  <2> HIDE DEF t
  <2>2. n = <<"tables", t, "indexes", i>> /\ n \in Seq(Names) /\ Len(n) = 4
    BY <2>1 DEF IndexOf, Names
  <2>3. Front(n) = IndexesOf(t)
    <3>0. n \in Seq(Names) /\ Len(n) = 4 /\ Len(n) # 0
      BY <2>2
    <3>5. /\ Front(n) \in Seq(Names) /\ Len(Front(n)) = Len(n) - 1
          /\ \A j \in 1..Len(n) - 1 : Front(n)[j] = n[j]
      BY <3>0, FrontOfSeq
    <3>1. /\ Front(n) \in Seq(Names) /\ Len(Front(n)) = 3
          /\ Front(n)[1] = n[1] /\ Front(n)[2] = n[2] /\ Front(n)[3] = n[3]
      BY <3>0, <3>5
    <3>2. /\ IndexesOf(t) \in Seq(Names) /\ Len(IndexesOf(t)) = 3
          /\ IndexesOf(t)[1] = n[1] /\ IndexesOf(t)[2] = n[2] /\ IndexesOf(t)[3] = n[3]
      BY <2>1, <2>2 DEF IndexesOf, Names
    <3>3. \A j \in 1..3 : j = 1 \/ j = 2 \/ j = 3
      OBVIOUS
    <3>4. \A j \in 1..Len(Front(n)) : Front(n)[j] = IndexesOf(t)[j]
      BY <3>1, <3>2, <3>3
    <3> QED BY <3>1, <3>2, <3>4, SameList
  <2>4. Front(n) \in Nodes
    BY <2>1, <2>3 DEF Nodes
  <2> QED BY <2>2, <2>4 DEF t
<1>5. ASSUME NEW n \in Nodes
      PROVE  \/ n \in Categories
             \/ n \in Objects
             \/ \E t \in Tables : n = IndexesOf(t)
             \/ \E i \in Indexes : n = IndexOf(TableOf[i], i)
  BY DEF Nodes, Subobjects
<1>6. ASSUME NEW n \in Nodes
      PROVE  /\ n \in Seq(Names) /\ Len(n) \in 1..4
             /\ n \in Categories <=> Len(n) = 1
             /\ n \in Objects <=> Len(n) = 2
             /\ Len(n) # 1 => Front(n) \in Nodes
  <2>1. CASE n \in Categories
    BY <1>1, <1>2, <2>1
  <2>2. CASE n \in Objects
    BY <1>1, <1>2, <2>2
  <2>3. ASSUME NEW t \in Tables, n = IndexesOf(t)
        PROVE  n \in Seq(Names) /\ Len(n) = 3 /\ Front(n) \in Nodes
    BY <1>3, <2>3
  <2>4. ASSUME NEW i \in Indexes, n = IndexOf(TableOf[i], i)
        PROVE  n \in Seq(Names) /\ Len(n) = 4 /\ Front(n) \in Nodes
    BY <1>4, <2>4
  <2>5. CASE n \notin Categories /\ n \notin Objects
    <3>1. n \in Seq(Names) /\ (Len(n) = 3 \/ Len(n) = 4) /\ Front(n) \in Nodes
      BY <1>5, <2>3, <2>4, <2>5
    <3> QED BY <2>5, <3>1
  <2> QED BY <2>1, <2>2, <2>5
<1> QED BY <1>6

(* The place above a path.                                                 *)
LEMMA FrontFacts ==
  ASSUME NEW n \in Nodes, Len(n) # 1
  PROVE  /\ Front(n) \in Nodes /\ Len(Front(n)) = Len(n) - 1
         /\ \A i \in 1..Len(n) - 1 : Front(n)[i] = n[i]
<1>1. n \in Seq(Names) /\ Len(n) \in 1..4 /\ Front(n) \in Nodes
  BY NodeFacts
<1>3. \A a \in 1..4 : a # 0
  OBVIOUS
<1>4. Len(n) # 0 /\ n \in Seq(Names)
  BY <1>1, <1>3
<1>2. Len(Front(n)) = Len(n) - 1 /\ \A i \in 1..Len(n) - 1 : Front(n)[i] = n[i]
  BY <1>4, FrontOfSeq
<1> QED BY <1>1, <1>2

(* What is below an item is what has it above.                             *)
LEMMA BelowFacts ==
  ASSUME NEW n \in Nodes, NEW c \in Nodes
  PROVE  c \in Below(n) <=> Len(c) # 1 /\ Front(c) = n
<1>1. /\ n \in Seq(Names) /\ Len(n) \in 1..4 /\ c \in Seq(Names) /\ Len(c) \in 1..4
  BY NodeFacts
<1>2. SubSeq(n, 1, Len(n)) = n
  BY <1>1
<1>3. ASSUME c \in Below(n)
      PROVE  Len(c) # 1 /\ Front(c) = n
  <2>1. Len(c) = Len(n) + 1 /\ SubSeq(n, 1, Len(n)) = SubSeq(c, 1, Len(n))
    BY <1>3 DEF Below, IsPrefix
  <2>2. Len(n) = Len(c) - 1
    BY <1>1, <2>1
  <2> QED BY <1>1, <1>2, <2>1, <2>2 DEF Front
<1>4. ASSUME Len(c) # 1, Front(c) = n
      PROVE  c \in Below(n)
  <2>1. Len(n) = Len(c) - 1
    BY <1>4, FrontFacts
  <2>2. Len(c) = Len(n) + 1 /\ Len(n) <= Len(c)
    BY <1>1, <2>1
  <2>3. SubSeq(c, 1, Len(n)) = n
    BY <1>4, <2>1 DEF Front
  <2> QED BY <1>2, <2>2, <2>3 DEF Below, IsPrefix
<1> QED BY <1>3, <1>4

(* An item that is above another is reached from it in at most three       *)
(* steps.                                                                  *)
LEMMA Lineage ==
  ASSUME NEW n \in Nodes, NEW c \in Nodes, IsPrefix(n, c)
  PROVE  \/ n = c
         \/ Len(c) # 1 /\ n = Front(c)
         \/ Len(c) \notin 1..2 /\ n = Front(Front(c))
         \/ Len(c) \notin 1..3 /\ n = Front(Front(Front(c)))
<1>1. /\ n \in Seq(Names) /\ Len(n) \in 1..4 /\ c \in Seq(Names) /\ Len(c) \in 1..4
  BY NodeFacts
<1>2. Len(n) <= Len(c) /\ SubSeq(n, 1, Len(n)) = SubSeq(c, 1, Len(n))
  BY DEF IsPrefix
<1>3. \A i \in 1..Len(n) : n[i] = c[i]
  <2> DEFINE k == Len(n)
  <2>1. k \in 1..4 /\ (\A i \in 1..k : n[i] \in Names) /\ (\A i \in 1..k : c[i] \in Names)
    BY <1>1, <1>2
  <2>2. \A i \in 1..k : SubSeq(n, 1, k)[i] = n[i] /\ SubSeq(c, 1, k)[i] = c[i]
    <3> HIDE DEF k
    <3>1. 1 \in Int /\ k \in Int /\ k - 1 + 1 = k
      BY <2>1
    <3>2. \A i \in 1..k - 1 + 1 : SubSeq(n, 1, k)[i] = n[1 + i - 1]
      BY <2>1, <3>1, SubSeqProperties
    <3>3. \A i \in 1..k - 1 + 1 : SubSeq(c, 1, k)[i] = c[1 + i - 1]
      BY <2>1, <3>1, SubSeqProperties
    <3>4. \A i \in 1..k : 1 + i - 1 = i
      BY <3>1
    <3> QED BY <3>1, <3>2, <3>3, <3>4
  <2> QED BY <1>2, <2>2
<1>4. ASSUME NEW m \in Nodes, Len(m) = Len(n), \A i \in 1..Len(n) : m[i] = c[i]
      PROVE  n = m
  <2>1. m \in Seq(Names)
    BY NodeFacts
  <2>2. \A i \in 1..Len(n) : m[i] = n[i]
    BY <1>3, <1>4
  <2> QED BY <1>1, <1>4, <2>1, <2>2, SameList
<1> DEFINE a == Len(n)
           b == Len(c)
<1>5. a \in 1..4 /\ b \in 1..4 /\ a <= b
  BY <1>1, <1>2
<1>6. Len(n) = a /\ Len(c) = b
  OBVIOUS
<1> HIDE DEF a, b
<1>7. CASE a = b
  BY <1>4, <1>6, <1>7
<1>8. ASSUME a < b
      PROVE  /\ b # 1 /\ Front(c) \in Nodes /\ Len(Front(c)) = b - 1
             /\ \A i \in 1..a : Front(c)[i] = c[i]
  <2>1. b # 1 /\ \A i \in 1..a : i \in 1..b - 1
    BY <1>5, <1>8
  <2>2. /\ Front(c) \in Nodes /\ Len(Front(c)) = b - 1
        /\ \A i \in 1..b - 1 : Front(c)[i] = c[i]
    BY <1>6, <2>1, FrontFacts
  <2> QED BY <2>1, <2>2
<1>9. ASSUME a < b - 1
      PROVE  /\ b \notin 1..2 /\ Front(Front(c)) \in Nodes /\ Len(Front(Front(c))) = b - 2
             /\ \A i \in 1..a : Front(Front(c))[i] = c[i]
  <2>1. b \notin 1..2 /\ b - 1 # 1 /\ a < b /\ b - 1 - 1 = b - 2 /\ \A i \in 1..a : i \in 1..b - 2
    BY <1>5, <1>9
  <2> DEFINE f == Front(c)
  <2>2. /\ f \in Nodes /\ Len(f) = b - 1 /\ Len(f) # 1 /\ \A i \in 1..a : f[i] = c[i]
    BY <1>8, <2>1
  <2> HIDE DEF f
  <2>3. /\ Front(f) \in Nodes /\ Len(Front(f)) = b - 2
        /\ \A i \in 1..b - 2 : Front(f)[i] = f[i]
    <3>1. /\ Front(f) \in Nodes /\ Len(Front(f)) = Len(f) - 1
          /\ \A i \in 1..Len(f) - 1 : Front(f)[i] = f[i]
      BY <2>2, FrontFacts
    <3>2. Len(f) - 1 = b - 2
      BY <1>5, <2>2
    <3> QED BY <3>1, <3>2
  <2> QED BY <2>1, <2>2, <2>3 DEF f
<1>10. ASSUME a < b - 2
       PROVE  /\ b \notin 1..3 /\ Front(Front(Front(c))) \in Nodes
              /\ Len(Front(Front(Front(c)))) = b - 3
              /\ \A i \in 1..a : Front(Front(Front(c)))[i] = c[i]
  <2>1. b \notin 1..3 /\ b - 2 # 1 /\ a < b - 1 /\ b - 2 - 1 = b - 3 /\ \A i \in 1..a : i \in 1..b - 3
    BY <1>5, <1>10
  <2> DEFINE f == Front(Front(c))
  <2>2. /\ f \in Nodes /\ Len(f) = b - 2 /\ Len(f) # 1 /\ \A i \in 1..a : f[i] = c[i]
    BY <1>9, <2>1
  <2> HIDE DEF f
  <2>3. /\ Front(f) \in Nodes /\ Len(Front(f)) = b - 3
        /\ \A i \in 1..b - 3 : Front(f)[i] = f[i]
    <3>1. /\ Front(f) \in Nodes /\ Len(Front(f)) = Len(f) - 1
          /\ \A i \in 1..Len(f) - 1 : Front(f)[i] = f[i]
      BY <2>2, FrontFacts
    <3>2. Len(f) - 1 = b - 3
      BY <1>5, <2>2
    <3> QED BY <3>1, <3>2
  <2> QED BY <2>1, <2>2, <2>3 DEF f
<1>11. CASE a = b - 1
  <2>1. a < b
    BY <1>5, <1>11
  <2> QED BY <1>4, <1>6, <1>8, <1>11, <2>1
<1>12. CASE a = b - 2
  <2>1. a < b - 1
    BY <1>5, <1>12
  <2> QED BY <1>4, <1>6, <1>9, <1>12, <2>1
<1>13. CASE a = b - 3
  <2>1. a < b - 2
    BY <1>5, <1>13
  <2> QED BY <1>4, <1>6, <1>10, <1>13, <2>1
<1>14. a = b \/ a = b - 1 \/ a = b - 2 \/ a = b - 3
  BY <1>5
<1> QED BY <1>7, <1>11, <1>12, <1>13, <1>14

-----------------------------------------------------------------------------
(* The catalog: the tree.                                                  *)

Trees == [children : [Nodes -> SUBSET Nodes], loaded : SUBSET Nodes, made : [Nodes -> 0..1]]

(* What is not loaded has no children, what is loaded is in the tree, an   *)
(* object in the tree has its categories, and what is in the tree was made *)
(* once.                                                                   *)
TreeOK(t) ==
  /\ t \in Trees
  /\ \A n \in Nodes : t.children[n] \subseteq Below(n)
  /\ \A n \in Nodes : n \notin t.loaded => t.children[n] = {}
  /\ \A n \in t.loaded : Present(t, n)
  /\ \A o \in Objects : Present(t, o) => o \in t.loaded /\ t.children[o] = Below(o)
  /\ \A n \in Nodes : t.made[n] = IF n \notin Categories /\ Present(t, n) THEN 1 ELSE 0

(* A tree that has loaded more.                                            *)
Grows(t, u) ==
  /\ t.loaded \subseteq u.loaded
  /\ \A n \in Nodes : t.children[n] \subseteq u.children[n]
  /\ \A n \in t.loaded : u.children[n] = t.children[n]

LEMMA GrowsOn ==
  ASSUME NEW t, NEW u, NEW v, t \in Trees, Grows(t, u), Grows(u, v)
  PROVE  Grows(t, v)
BY DEF Grows, Trees

LEMMA StaysPresent ==
  ASSUME NEW t, NEW u, Grows(t, u), NEW n \in Nodes, Present(t, n)
  PROVE  Present(u, n)
<1>1. CASE n \in Categories
  BY <1>1 DEF Present
<1>2. CASE n \notin Categories
  <2>1. Front(n) \in Nodes /\ n \in t.children[Front(n)]
    BY <1>2, NodeFacts DEF Present
  <2> QED BY <2>1 DEF Present, Grows
<1> QED BY <1>1, <1>2

(* What is in the tree has its ancestors loaded.                           *)
LEMMA AboveLoaded ==
  ASSUME NEW t, TreeOK(t), NEW c \in Nodes, Len(c) # 1, c \in t.loaded \/ Present(t, c)
  PROVE  Front(c) \in Nodes /\ c \in t.children[Front(c)] /\ Front(c) \in t.loaded
<1>1. c \notin Categories /\ Front(c) \in Nodes
  BY NodeFacts
<1>2. Present(t, c)
  BY DEF TreeOK
<1>3. c \in t.children[Front(c)]
  BY <1>1, <1>2 DEF Present
<1> QED BY <1>1, <1>3 DEF TreeOK

(* Clearing what is not loaded changes nothing.                            *)
LEMMA ClearNothing ==
  ASSUME NEW t, TreeOK(t), NEW n \in Nodes, n \notin t.loaded
  PROVE  ClearChildrens(t, n) = t
<1> DEFINE gone == {c \in Nodes : IsPrefix(n, c)}
<1>1. ASSUME NEW c \in Nodes, IsPrefix(n, c), c \in t.loaded
      PROVE  FALSE
  <2>1. /\ c \in Seq(Names) /\ Len(c) \in 1..4
    BY NodeFacts
  <2>2. CASE n = c
    BY <1>1, <2>2
  <2>3. CASE Len(c) # 1 /\ n = Front(c)
    BY <1>1, <2>3, AboveLoaded
  <2>4. CASE Len(c) \notin 1..2 /\ n = Front(Front(c))
    <3>1. Len(c) # 1 /\ Len(c) - 1 # 1
      BY <2>1, <2>4
    <3>2. Front(c) \in Nodes /\ Front(c) \in t.loaded /\ Len(Front(c)) # 1
      BY <1>1, <3>1, AboveLoaded, FrontFacts
    <3> QED BY <2>4, <3>2, AboveLoaded
  <2>5. CASE Len(c) \notin 1..3 /\ n = Front(Front(Front(c)))
    <3>1. Len(c) # 1 /\ Len(c) - 1 # 1 /\ Len(c) - 1 - 1 # 1
      BY <2>1, <2>5
    <3>2. Front(c) \in Nodes /\ Front(c) \in t.loaded /\ Len(Front(c)) = Len(c) - 1
      BY <1>1, <3>1, AboveLoaded, FrontFacts
    <3> DEFINE f == Front(c)
    <3>3. f \in Nodes /\ f \in t.loaded /\ Len(f) # 1 /\ Len(f) - 1 # 1
      BY <3>1, <3>2
    <3>4. n = Front(Front(f))
      BY <2>5
    <3> HIDE DEF f
    <3>5. Front(f) \in Nodes /\ Front(f) \in t.loaded /\ Len(Front(f)) # 1
      BY <3>3, AboveLoaded, FrontFacts
    <3> QED BY <3>4, <3>5, AboveLoaded
  <2> QED BY <1>1, <2>2, <2>3, <2>4, <2>5, Lineage
<1>2. t.loaded \ gone = t.loaded
  BY <1>1
<1>3. t \in Trees /\ \A c \in gone : t.children[c] = {}
  BY <1>1 DEF TreeOK
<1>4. [c \in Nodes |-> IF c \in gone THEN {} ELSE t.children[c]] = t.children
  BY <1>3 DEF Trees
<1>5. ClearChildrens(t, n) = [t EXCEPT !.children = t.children, !.loaded = t.loaded]
  BY <1>2, <1>4 DEF ClearChildrens
<1> QED BY <1>3, <1>5 DEF Trees

(* Loading keeps the tree in order and only adds to it.                    *)
LEMMA DoLoadFacts ==
  ASSUME NEW t, TreeOK(t), NEW n \in Nodes, n \notin t.loaded, Present(t, n),
         NEW answer \in SUBSET Below(n)
  PROVE  LET u == DoLoadChildrens(t, n, answer) IN
         TreeOK(u) /\ Grows(t, u) /\ n \in u.loaded
<1> DEFINE objects == answer \intersect Objects
           made    == answer \union UNION {Below(o) : o \in objects}
           u       == DoLoadChildrens(t, n, answer)
<1>1. /\ t \in Trees /\ answer \subseteq Nodes /\ objects \subseteq Nodes
      /\ made \subseteq Nodes /\ t.children[n] = {}
  BY DEF TreeOK, Below
<1>2. /\ u.children = [c \in Nodes |-> IF c = n THEN answer
                                       ELSE IF c \in objects THEN Below(c) ELSE t.children[c]]
      /\ u.loaded = t.loaded \union {n} \union objects
      /\ u.made = [c \in Nodes |-> IF c \in made THEN t.made[c] + 1 ELSE t.made[c]]
      /\ u = [children |-> u.children, loaded |-> u.loaded, made |-> u.made]
  BY DEF DoLoadChildrens
<1>3. \A c \in answer : c \in Nodes /\ Len(c) # 1 /\ Front(c) = n /\ ~Present(t, c) /\ c \notin t.loaded
  <2> SUFFICES ASSUME NEW c \in answer
               PROVE  c \in Nodes /\ Len(c) # 1 /\ Front(c) = n /\ ~Present(t, c) /\ c \notin t.loaded
    OBVIOUS
  <2>1. c \in Nodes /\ Len(c) # 1 /\ Front(c) = n
    BY <1>1, BelowFacts
  <2>2. c \notin Categories
    BY <2>1, NodeFacts
  <2>3. ~Present(t, c)
    BY <1>1, <2>1, <2>2 DEF Present
  <2> QED BY <2>1, <2>3 DEF TreeOK
<1>4. n \notin answer /\ n \notin objects
  BY <1>3
<1> HIDE DEF u
<1>5. ASSUME NEW m \in Nodes, m \notin Categories
      PROVE  /\ Front(m) \in Nodes
             /\ m \in made <=> (Front(m) = n /\ m \in answer) \/ Front(m) \in objects
             /\ m \in made => ~Present(t, m)
             /\ Present(u, m) <=> Present(t, m) \/ m \in made
  <2>1. Front(m) \in Nodes /\ Len(m) # 1
    BY <1>5, NodeFacts
  <2>2. \A o \in objects : m \in Below(o) <=> Front(m) = o
    BY <1>1, <2>1, BelowFacts
  <2>3. m \in made <=> (Front(m) = n /\ m \in answer) \/ Front(m) \in objects
    BY <1>3, <2>2
  <2>4. Front(m) \in objects => t.children[Front(m)] = {}
    BY <1>1, <1>3 DEF TreeOK
  <2>5. /\ Present(t, m) <=> m \in t.children[Front(m)]
        /\ Present(u, m) <=> m \in u.children[Front(m)]
    BY <1>5 DEF Present
  <2>6. CASE Front(m) = n
    BY <1>1, <1>2, <1>4, <2>1, <2>3, <2>5, <2>6
  <2>7. CASE Front(m) # n /\ Front(m) \in objects
    BY <1>2, <2>1, <2>2, <2>3, <2>4, <2>5, <2>7
  <2>8. CASE Front(m) # n /\ Front(m) \notin objects
    BY <1>2, <2>1, <2>3, <2>5, <2>8
  <2> QED BY <2>1, <2>3, <2>6, <2>7, <2>8
<1>6. ASSUME NEW m \in Nodes
      PROVE  u.made[m] = IF m \notin Categories /\ Present(u, m) THEN 1 ELSE 0
  <2>1. CASE m \in Categories
    <3>1. m \notin made
      <4>1. Len(m) = 1
        BY <2>1, NodeFacts
      <4>2. \A o \in objects : m \notin Below(o)
        BY <1>1, <4>1, BelowFacts
      <4> QED BY <1>3, <4>1, <4>2
    <3>2. t.made[m] = 0
      BY <2>1 DEF TreeOK
    <3> QED BY <1>2, <2>1, <3>1, <3>2
  <2>2. CASE m \notin Categories
    <3>1. t.made[m] = IF Present(t, m) THEN 1 ELSE 0
      BY <2>2 DEF TreeOK
    <3>2. CASE m \in made
      BY <1>2, <1>5, <2>2, <3>1, <3>2
    <3>3. CASE m \notin made
      BY <1>2, <1>5, <2>2, <3>1, <3>3
    <3> QED BY <3>2, <3>3
  <2> QED BY <2>1, <2>2
<1>7. u \in Trees
  <2>1. u.children \in [Nodes -> SUBSET Nodes]
    <3>1. \A c \in objects : Below(c) \in SUBSET Nodes
      BY DEF Below
    <3> QED BY <1>1, <1>2, <3>1 DEF Trees
  <2>2. u.loaded \in SUBSET Nodes
    BY <1>1, <1>2 DEF Trees
  <2>3. u.made \in [Nodes -> 0..1]
    BY <1>2, <1>6
  <2> QED BY <1>2, <2>1, <2>2, <2>3 DEF Trees
<1>8. \A m \in Nodes : u.children[m] \subseteq Below(m)
  BY <1>2 DEF TreeOK
<1>9. \A m \in Nodes : m \notin u.loaded => u.children[m] = {}
  BY <1>2 DEF TreeOK
<1>10. Grows(t, u)
  <2>1. \A m \in Nodes : m \notin t.loaded => t.children[m] = {}
    BY DEF TreeOK
  <2>2. \A m \in Nodes : t.children[m] \subseteq u.children[m]
    BY <1>1, <1>2, <1>3, <2>1
  <2>3. \A m \in t.loaded : m \in Nodes /\ m # n /\ m \notin objects
    BY <1>1, <1>3 DEF Trees
  <2>4. \A m \in t.loaded : u.children[m] = t.children[m]
    BY <1>2, <2>3
  <2> QED BY <1>2, <2>2, <2>4 DEF Grows
<1>11. \A m \in u.loaded : Present(u, m)
  <2>1. \A m \in t.loaded \union {n} : m \in Nodes /\ Present(t, m)
    BY <1>1 DEF TreeOK, Trees
  <2>2. \A m \in objects : m \in u.children[Front(m)]
    BY <1>2, <1>3
  <2> QED BY <1>2, <1>10, <2>1, <2>2, StaysPresent DEF Present
<1>12. ASSUME NEW o \in Objects, Present(u, o)
       PROVE  o \in u.loaded /\ u.children[o] = Below(o)
  <2>1. o \in Nodes /\ Len(o) = 2
    BY NodeFacts DEF Nodes
  <2>2. o \notin Categories /\ Len(o) # 1 /\ Len(o) - 1 = 1
    BY <2>1, NodeFacts
  <2>3. Front(o) \notin objects
    <3>1. Front(o) \in Nodes /\ Len(Front(o)) = 1
      BY <2>1, <2>2, FrontFacts
    <3> QED BY <3>1, NodeFacts
  <2>4. CASE Present(t, o)
    <3>1. o \in t.loaded /\ t.children[o] = Below(o)
      BY <2>4 DEF TreeOK
    <3> QED BY <1>10, <3>1 DEF Grows
  <2>5. CASE o \in made
    <3>1. o \in objects
      BY <1>5, <2>1, <2>2, <2>3, <2>5
    <3> QED BY <1>2, <1>4, <2>1, <3>1
  <2> QED BY <1>5, <1>12, <2>1, <2>2, <2>4, <2>5
<1>13. TreeOK(u) /\ Grows(t, u) /\ n \in u.loaded
  BY <1>2, <1>6, <1>7, <1>8, <1>9, <1>10, <1>11, <1>12 DEF TreeOK
<1> QED BY <1>13 DEF u

(* What a query answers.                                                   *)
AnswersOf(n) == (SUBSET Below(n)) \union {Failed}

LEMMA LoadFacts ==
  ASSUME NEW t, TreeOK(t), NEW n \in Nodes, Present(t, n), NEW answer \in AnswersOf(n)
  PROVE  LET u == LoadChildrens(t, n, answer) IN
         /\ TreeOK(u) /\ Grows(t, u)
         /\ n \in u.loaded \/ (u = t /\ answer = Failed)
<1>1. t \in Trees /\ Grows(t, t)
  BY DEF TreeOK, Grows
<1>2. CASE n \in t.loaded
  BY <1>1, <1>2 DEF LoadChildrens
<1>3. CASE n \notin t.loaded /\ answer = Failed
  BY <1>1, <1>3, ClearNothing DEF LoadChildrens
<1>4. CASE n \notin t.loaded /\ answer # Failed
  <2>1. answer \in SUBSET Below(n)
    BY <1>4 DEF AnswersOf
  <2>2. LoadChildrens(t, n, answer) = DoLoadChildrens(t, n, answer)
    BY <1>4, ClearNothing DEF LoadChildrens
  <2> QED BY <1>4, <2>1, <2>2, DoLoadFacts
<1> QED BY <1>2, <1>3, <1>4

-----------------------------------------------------------------------------
(* The catalog: the rows of the view.                                      *)

LEMMA NodesFinite == IsFiniteSet(Nodes)
<1>1. IsFiniteSet({Table(t) : t \in Tables}) /\ IsFiniteSet({IndexesOf(t) : t \in Tables})
  <2> DEFINE f == [t \in Tables |-> Table(t)]
             g == [t \in Tables |-> IndexesOf(t)]
  <2>1. f \in Surjection(Tables, {Table(t) : t \in Tables})
    BY DEF Surjection
  <2>2. g \in Surjection(Tables, {IndexesOf(t) : t \in Tables})
    BY DEF Surjection
  <2> HIDE DEF f, g
  <2> QED BY <2>1, <2>2, FiniteAssumption, FS_Surjection
<1>2. IsFiniteSet({Index(i) : i \in Indexes}) /\ IsFiniteSet(Subobjects)
  <2> DEFINE f == [i \in Indexes |-> Index(i)]
             g == [i \in Indexes |-> IndexOf(TableOf[i], i)]
  <2>1. f \in Surjection(Indexes, {Index(i) : i \in Indexes})
    BY DEF Surjection
  <2>2. g \in Surjection(Indexes, Subobjects)
    BY DEF Surjection, Subobjects
  <2> HIDE DEF f, g
  <2> QED BY <2>1, <2>2, FiniteAssumption, FS_Surjection
<1>3. IsFiniteSet(Categories)
  <2>1. IsFiniteSet({TheTables}) /\ IsFiniteSet({TheIndexes})
    BY FS_Singleton
  <2>2. Categories = {TheTables} \union {TheIndexes}
    BY DEF Categories
  <2> QED BY <2>1, <2>2, FS_Union
<1>4. IsFiniteSet(Objects)
  BY <1>1, <1>2, FS_Union DEF Objects
<1>5. IsFiniteSet(Categories \union Objects)
  BY <1>3, <1>4, FS_Union
<1>6. IsFiniteSet((Categories \union Objects) \union {IndexesOf(t) : t \in Tables})
  BY <1>1, <1>5, FS_Union
<1> QED BY <1>2, <1>6, FS_Union DEF Nodes

LEMMA ChildrenCounted ==
  ASSUME NEW t, TreeOK(t), NEW n \in Nodes
  PROVE  /\ Cardinality(t.children[n]) \in Nat /\ Cardinality(Below(n)) \in Nat
         /\ Cardinality(t.children[n]) <= Cardinality(Below(n))
         /\ Cardinality(t.children[n]) = 0 <=> t.children[n] = {}
<1>1. Below(n) \in SUBSET Nodes
  BY DEF Below
<1>2. IsFiniteSet(Below(n))
  BY <1>1, NodesFinite, FS_Subset
<1>3. t.children[n] \in SUBSET Below(n)
  BY DEF TreeOK
<1>4. IsFiniteSet(t.children[n]) /\ Cardinality(t.children[n]) <= Cardinality(Below(n))
  BY <1>2, <1>3, FS_Subset
<1>5. Cardinality(t.children[n]) \in Nat /\ Cardinality(Below(n)) \in Nat
  BY <1>2, <1>4, FS_CardinalityType
<1>6. Cardinality(t.children[n]) = 0 <=> t.children[n] = {}
  BY <1>4, FS_EmptySet
<1> QED BY <1>4, <1>5, <1>6

(* A mapped item has as many rows as children, all of them loaded, or no   *)
(* row after a failure of the query for them.                              *)
RowsOK(t, r, f) ==
  /\ r \in [Nodes -> Int]
  /\ \A n \in Nodes : \/ r[n] = Unmapped
                      \/ n \in t.loaded /\ r[n] = Cardinality(t.children[n])
                      \/ r[n] = 0 /\ n \in f

LEMMA RowsGrow ==
  ASSUME NEW t, NEW u, NEW r, NEW f, RowsOK(t, r, f), Grows(t, u)
  PROVE  RowsOK(u, r, f)
BY DEF RowsOK, Grows

(* What the filter model takes over when it looks at an item.              *)
LEMMA MappedRows ==
  ASSUME NEW t, TreeOK(t), NEW r, NEW f, RowsOK(t, r, f), NEW n \in Nodes,
         n \in t.loaded \/ n \in f
  PROVE  RowsOK(t, Mapped(t, r, n), f)
<1> DEFINE q == Mapped(t, r, n)
<1>1. /\ r \in [Nodes -> Int]
      /\ \A m \in Nodes : \/ r[m] = Unmapped
                          \/ m \in t.loaded /\ r[m] = Cardinality(t.children[m])
                          \/ r[m] = 0 /\ m \in f
  BY DEF RowsOK
<1>2. Cardinality(t.children[n]) \in Int
  BY ChildrenCounted
<1>3. /\ q \in [Nodes -> Int]
      /\ q[n] = IF r[n] = Unmapped THEN Cardinality(t.children[n]) ELSE r[n]
      /\ \A m \in Nodes \ {n} : q[m] = r[m]
  BY <1>1, <1>2 DEF Mapped
<1>4. n \in t.loaded \/ Cardinality(t.children[n]) = 0
  BY ChildrenCounted DEF TreeOK
<1> HIDE DEF q
<1>5. RowsOK(t, q, f)
  BY <1>1, <1>3, <1>4 DEF RowsOK
<1> QED BY <1>5 DEF q

(* A fetch announces the children it loads, and no others.                 *)
LEMMA FetchFacts ==
  ASSUME TreeOK(tree), RowsOK(tree, viewRows, failed), NEW n \in Nodes, Present(tree, n),
         NEW answer \in AnswersOf(n)
  PROVE  LET fetched == FetchMore(n, answer) IN
         /\ TreeOK(fetched.tree) /\ Grows(tree, fetched.tree)
         /\ RowsOK(fetched.tree, fetched.rows, failed)
         /\ HasChildrens(n) => n \in fetched.tree.loaded \/ answer = Failed
<1> DEFINE u     == LoadChildrens(tree, n, answer)
           count == Cardinality(u.children[n])
           q     == [Mapped(tree, viewRows, n) EXCEPT ![n] = @ + count]
<1>1. TreeOK(u) /\ Grows(tree, u) /\ (n \in u.loaded \/ (u = tree /\ answer = Failed))
  BY LoadFacts
<1>2. FetchMore(n, answer) =
        IF ~CanFetchMore(n) THEN [tree |-> tree, rows |-> viewRows]
        ELSE IF n \notin u.loaded \/ count = 0
        THEN [tree |-> [u EXCEPT !.children[n] = tree.children[n]], rows |-> viewRows]
        ELSE [tree |-> u, rows |-> q]
  BY DEF FetchMore
<1>3. Grows(tree, tree)
  BY DEF Grows
<1>4. RowsOK(u, viewRows, failed)
  BY <1>1, RowsGrow
<1> HIDE DEF u
<1>5. count \in Nat /\ (count = 0 <=> u.children[n] = {})
  BY <1>1, ChildrenCounted
<1>6. CASE ~CanFetchMore(n)
  BY <1>2, <1>3, <1>6 DEF CanFetchMore
<1>7. CASE CanFetchMore(n) /\ (n \notin u.loaded \/ count = 0)
  <2>1. u.children[n] = tree.children[n]
    <3>1. CASE n \notin u.loaded
      BY <1>1, <3>1
    <3>2. CASE count = 0
      <4>1. n \notin tree.loaded
        BY <1>7 DEF CanFetchMore
      <4> QED BY <1>5, <3>2, <4>1 DEF TreeOK
    <3> QED BY <1>7, <3>1, <3>2
  <2>2. u \in Trees
    BY <1>1 DEF TreeOK
  <2>3. [u EXCEPT !.children[n] = tree.children[n]] = u
    BY <2>1, <2>2 DEF Trees
  <2>4. FetchMore(n, answer) = [tree |-> u, rows |-> viewRows]
    BY <1>2, <1>7, <2>3
  <2> QED BY <1>1, <1>4, <2>4
<1>8. CASE CanFetchMore(n) /\ n \in u.loaded /\ count # 0
  <2>1. FetchMore(n, answer) = [tree |-> u, rows |-> q]
    BY <1>2, <1>8
  <2>2. n \notin tree.loaded
    BY <1>8 DEF CanFetchMore
  <2>3. Cardinality(tree.children[n]) = 0
    BY <2>2, ChildrenCounted DEF TreeOK
  <2>4. viewRows \in [Nodes -> Int] /\ (viewRows[n] = Unmapped \/ viewRows[n] = 0)
    BY <2>2 DEF RowsOK
  <2>5. Mapped(tree, viewRows, n) = [viewRows EXCEPT ![n] = 0]
    BY <2>3, <2>4 DEF Mapped
  <2>6. q = [viewRows EXCEPT ![n] = count]
    <3>1. q = [[viewRows EXCEPT ![n] = 0] EXCEPT ![n] = 0 + count]
      BY <2>4, <2>5
    <3>2. 0 + count = count
      BY <1>5
    <3> QED BY <2>4, <3>1, <3>2
  <2>7. RowsOK(u, [viewRows EXCEPT ![n] = count], failed)
    BY <1>4, <1>5, <1>8, <2>4 DEF RowsOK
  <2>8. RowsOK(u, q, failed)
    BY <2>6, <2>7
  <2> QED BY <1>1, <1>8, <2>1, <2>8
<1> QED BY <1>6, <1>7, <1>8

(* The view only reaches what is in the tree.                              *)
LEMMA VisiblePresent ==
  ASSUME TreeOK(tree), NEW n \in Nodes, Visible(n)
  PROVE  Present(tree, n)
<1>1. n \in Seq(Names) /\ Len(n) \in 1..4
  BY NodeFacts
<1>2. CASE Len(n) = 1
  BY <1>2, NodeFacts DEF Present
<1>3. CASE Len(n) # 1
  <2> DEFINE k == Len(n) - 1
  <2>1. k \in 1..Len(n) - 1 /\ k + 1 = Len(n)
    BY <1>1, <1>3
  <2>2. SubSeq(n, 1, k + 1) \in tree.children[SubSeq(n, 1, k)]
    BY <2>1 DEF Visible
  <2>3. SubSeq(n, 1, Len(n)) = n
    BY <1>1
  <2> QED BY <2>1, <2>2, <2>3 DEF Present, Front
<1> QED BY <1>2, <1>3

-----------------------------------------------------------------------------
(* The catalog: details.                                                   *)

(* The object of an item in the tree is in the tree.                       *)
LEMMA ObjectAbove ==
  ASSUME NEW t, TreeOK(t), NEW n \in Nodes, n \notin Categories, Present(t, n)
  PROVE  SubSeq(n, 1, 2) \in Objects /\ Present(t, SubSeq(n, 1, 2))
<1>1. n \in Seq(Names) /\ Len(n) \in 1..4 /\ Len(n) # 1
  BY NodeFacts
<1>2. /\ SubSeq(n, 1, 2) \in Seq(Names) /\ Len(SubSeq(n, 1, 2)) = 2
      /\ SubSeq(n, 1, 2)[1] = n[1] /\ SubSeq(n, 1, 2)[2] = n[2]
  <2>1. Len(n) >= 2 /\ \A i \in 1..2 : i \in 1..Len(n)
    BY <1>1
  <2>2. 1 \in Int /\ 2 \in Int /\ \A i \in 1..2 : n[i] \in Names
    BY <1>1, <2>1
  <2>3. /\ SubSeq(n, 1, 2) \in Seq(Names) /\ Len(SubSeq(n, 1, 2)) = IF 1 <= 2 THEN 2 - 1 + 1 ELSE 0
        /\ \A i \in 1..2 - 1 + 1 : SubSeq(n, 1, 2)[i] = n[1 + i - 1]
    BY <2>2, SubSeqProperties
  <2>4. 1 \in 1..2 - 1 + 1 /\ 2 \in 1..2 - 1 + 1 /\ 1 + 1 - 1 = 1 /\ 1 + 2 - 1 = 2
    OBVIOUS
  <2>5. SubSeq(n, 1, 2)[1] = n[1] /\ SubSeq(n, 1, 2)[2] = n[2]
    <3>1. SubSeq(n, 1, 2)[1] = n[1 + 1 - 1] /\ SubSeq(n, 1, 2)[2] = n[1 + 2 - 1]
      BY <2>3, <2>4
    <3> QED BY <2>4, <3>1
  <2> QED BY <2>3, <2>5
<1>3. ASSUME NEW m \in Nodes, Len(m) = 2, m[1] = n[1], m[2] = n[2], Present(t, m)
      PROVE  SubSeq(n, 1, 2) \in Objects /\ Present(t, SubSeq(n, 1, 2))
  <2>1. m \in Seq(Names) /\ m \in Objects
    BY <1>3, NodeFacts
  <2>2. \A i \in 1..2 : i = 1 \/ i = 2
    OBVIOUS
  <2>3. \A i \in 1..Len(m) : m[i] = SubSeq(n, 1, 2)[i]
    BY <1>2, <1>3, <2>2
  <2>4. m = SubSeq(n, 1, 2)
    BY <1>2, <1>3, <2>1, <2>3, SameList
  <2> QED BY <1>3, <2>1, <2>4
<1>4. CASE Len(n) = 2
  BY <1>3, <1>4
<1>5. CASE Len(n) = 3
  <2>1. Len(n) - 1 = 2 /\ 1 \in 1..2 /\ 2 \in 1..2
    BY <1>5
  <2>2. /\ Front(n) \in Nodes /\ Len(Front(n)) = 2 /\ Front(n)[1] = n[1] /\ Front(n)[2] = n[2]
    BY <1>1, <2>1, FrontFacts
  <2>3. Present(t, Front(n))
    BY <1>1, AboveLoaded DEF TreeOK
  <2> QED BY <1>3, <2>2, <2>3
<1>6. CASE Len(n) = 4
  <2>1. Len(n) - 1 = 3 /\ 3 - 1 = 2 /\ 1 \in 1..3 /\ 2 \in 1..3 /\ 1 \in 1..2 /\ 2 \in 1..2
    BY <1>6
  <2> DEFINE f == Front(n)
  <2>2. f \in Nodes /\ Len(f) = 3 /\ f[1] = n[1] /\ f[2] = n[2] /\ f \in t.loaded
    BY <1>1, <2>1, FrontFacts, AboveLoaded
  <2> HIDE DEF f
  <2>3. Len(f) # 1 /\ Len(f) - 1 = 2
    BY <2>2
  <2>4. /\ Front(f) \in Nodes /\ Len(Front(f)) = 2 /\ Front(f)[1] = f[1] /\ Front(f)[2] = f[2]
    BY <2>1, <2>2, <2>3, FrontFacts
  <2>5. Present(t, Front(f))
    BY <2>2, <2>3, AboveLoaded DEF TreeOK
  <2> QED BY <1>3, <2>2, <2>4, <2>5
<1>7. Len(n) = 2 \/ Len(n) = 3 \/ Len(n) = 4
  BY <1>1
<1> QED BY <1>4, <1>5, <1>6, <1>7

(* The details of objects that are in a tree.                              *)
Details(t, r) == {d \in [node : Objects, made : {1}, root : {r}] : Present(t, d.node)}

LEMMA ListOfSet ==
  ASSUME NEW S, IsFiniteSet(S)
  PROVE  SetToSeq(S) \in Seq(S)
<1> DEFINE n == Cardinality(S)
<1>1. n \in Nat /\ ExistsBijection(1..n, S)
  BY FS_CardinalityType
<1> HIDE DEF n
<1>2. PICK f \in Bijection(1..n, S) : TRUE
  BY <1>1 DEF ExistsBijection
<1>3. f \in [1..n -> S] /\ IsInjective(f)
  BY <1>2 DEF Bijection, Injection
<1>4. SetToSeq(S) \in [1..n -> S]
  BY <1>3 DEF SetToSeq, n
<1> QED BY <1>1, <1>4, SeqDef

LEMMA AddDetails ==
  ASSUME NEW t, TreeOK(t), NEW r, m_details \in Seq(Details(t, r)),
         NEW item \in SUBSET Nodes, \A n \in item : Present(t, n), AddDbDetails(t, r, item)
  PROVE  m_details' \in Seq(Details(t, r))
<1> DEFINE D       == UNION {DbDetailItem(n) : n \in item}
           details == {[node |-> d, made |-> t.made[d], root |-> r] : d \in D}
           new     == details \ ToSet(m_details)
<1>1. \A d \in D : d \in Objects /\ Present(t, d)
  <2> SUFFICES ASSUME NEW n \in item, NEW d \in DbDetailItem(n)
               PROVE  d \in Objects /\ Present(t, d)
    OBVIOUS
  <2>1. n \in Nodes /\ n \notin Categories /\ d = SubSeq(n, 1, 2) /\ Present(t, n)
    BY DEF DbDetailItem
  <2> QED BY <2>1, ObjectAbove
<1>2. D \in SUBSET Nodes
  BY <1>1 DEF Nodes
<1> HIDE DEF D
<1>3. IsFiniteSet(details)
  <2>1. IsFiniteSet(D)
    BY <1>2, NodesFinite, FS_Subset
  <2> DEFINE f == [d \in D |-> [node |-> d, made |-> t.made[d], root |-> r]]
  <2>2. f \in Surjection(D, details)
    BY DEF Surjection
  <2> HIDE DEF f, details
  <2> QED BY <2>1, <2>2, FS_Surjection
<1>4. details \subseteq Details(t, r)
  <2> SUFFICES ASSUME NEW d \in D
               PROVE  [node |-> d, made |-> t.made[d], root |-> r] \in Details(t, r)
    OBVIOUS
  <2>1. d \in Objects /\ d \in Nodes /\ Present(t, d)
    BY <1>1, <1>2
  <2>2. d \notin Categories
    <3>1. Len(d) = 2
      BY <2>1, NodeFacts
    <3>2. d \in Categories <=> Len(d) = 1
      BY <2>1, NodeFacts
    <3>3. Len(d) # 1
      BY <3>1
    <3> QED BY <3>2, <3>3
  <2>3. t.made[d] = 1
    BY <2>1, <2>2 DEF TreeOK
  <2> QED BY <2>1, <2>3 DEF Details
<1>5. m_details' = m_details \o SetToSeq(new)
  BY DEF AddDbDetails, D
<1> HIDE DEF details
<1>6. new \in SUBSET details
  OBVIOUS
<1> HIDE DEF new
<1>7. IsFiniteSet(new) /\ new \subseteq Details(t, r)
  BY <1>3, <1>4, <1>6, FS_Subset
<1>8. SetToSeq(new) \in Seq(new)
  BY <1>7, ListOfSet
<1>9. SetToSeq(new) \in Seq(Details(t, r))
  BY <1>7, <1>8, SeqMonotonic
<1> QED BY <1>5, <1>9, ConcatProperties

(* Details stay while the tree grows.                                      *)
LEMMA DetailsStay ==
  ASSUME NEW t, NEW u, Grows(t, u), NEW r, NEW s \in Seq(Details(t, r))
  PROVE  s \in Seq(Details(u, r))
<1>1. \A o \in Objects : Present(t, o) => Present(u, o)
  BY StaysPresent DEF Nodes
<1>2. Details(t, r) \subseteq Details(u, r)
  BY <1>1 DEF Details
<1> QED BY <1>2, SeqMonotonic

(* What the indexes of a table are asked for once the table is found.      *)
LEMMA TableFound ==
  ASSUME NEW t, TreeOK(t), NEW table \in Tables, Table(table) \in t.children[TheTables]
  PROVE  IndexesOf(table) \in Nodes /\ Present(t, IndexesOf(table))
<1>1. /\ Table(table) \in Nodes /\ Table(table) \in Objects /\ TheTables \in Nodes
      /\ IndexesOf(table) \in Nodes /\ Len(IndexesOf(table)) = 3
  BY DEF Nodes, Objects, Categories, IndexesOf
<1>2. Front(Table(table)) = TheTables
  <2>1. Table(table) \in Below(TheTables)
    BY <1>1 DEF TreeOK
  <2> QED BY <1>1, <2>1, BelowFacts
<1>3. Present(t, Table(table))
  BY <1>2 DEF Present
<1>4. IndexesOf(table) \in Below(Table(table))
  BY <1>1 DEF Below, IndexesOf, Table, IsPrefix
<1>5. Front(IndexesOf(table)) = Table(table)
  BY <1>1, <1>4, BelowFacts
<1> QED BY <1>1, <1>3, <1>4, <1>5 DEF TreeOK, Present

(* An index of the schema stands for the index of its table.               *)
LEMMA ReferencedFacts ==
  ASSUME NEW t, TreeOK(t), NEW n \in Nodes, Present(t, n), NEW table \in Tables,
         n \in Objects => Belongs(n, table),
         NEW a \in AnswersOf(TheTables), NEW b \in AnswersOf(IndexesOf(table))
  PROVE  LET referenced == ReferencedItem(t, n, a, b) IN
         /\ TreeOK(referenced.tree) /\ Grows(t, referenced.tree)
         /\ referenced.item \in SUBSET Nodes
         /\ \A m \in referenced.item : Present(referenced.tree, m)
<1>1. CASE n \notin {Index(i) : i \in Indexes}
  <2>1. ReferencedItem(t, n, a, b) = [tree |-> t, item |-> {n}]
    BY <1>1 DEF ReferencedItem
  <2>2. Grows(t, t)
    BY DEF Grows
  <2> QED BY <2>1, <2>2
<1>2. ASSUME NEW i \in Indexes, n = Index(i)
      PROVE  LET referenced == ReferencedItem(t, n, a, b) IN
             /\ TreeOK(referenced.tree) /\ Grows(t, referenced.tree)
             /\ referenced.item \in SUBSET Nodes
             /\ \A m \in referenced.item : Present(referenced.tree, m)
  <2>1. n[2] = i /\ TableOf[n[2]] = table
    <3>1. n[2] = i /\ n[1] = "indexes"
      BY <1>2 DEF Index
    <3>2. Belongs(n, table)
      BY <1>2 DEF Objects
    <3>3. n # Table(table)
      BY <3>1 DEF Table
    <3>4. \A j \in Indexes : n = Index(j) => j = i
      BY <1>2 DEF Index
    <3> QED BY <3>1, <3>2, <3>3, <3>4 DEF Belongs
  <2> DEFINE found   == LoadChildrens(t, TheTables, a)
             indexes == LoadChildrens(found, IndexesOf(table), b)
  <2>2. TheTables \in Nodes /\ TheTables \in Categories
    BY DEF Categories, Nodes
  <2>3. TreeOK(found) /\ Grows(t, found)
    BY <2>2, LoadFacts DEF Present
  <2>4. ReferencedItem(t, n, a, b) =
          IF Table(table) \notin found.children[TheTables] THEN [tree |-> found, item |-> {n}]
          ELSE [tree |-> indexes,
                item |-> {IndexOf(table, n[2])} \intersect indexes.children[IndexesOf(table)]]
    BY <1>2, <2>1 DEF ReferencedItem
  <2> HIDE DEF found
  <2>5. CASE Table(table) \notin found.children[TheTables]
    BY <2>3, <2>4, <2>5, StaysPresent
  <2>6. CASE Table(table) \in found.children[TheTables]
    <3>1. IndexesOf(table) \in Nodes /\ Present(found, IndexesOf(table))
      BY <2>3, <2>6, TableFound
    <3>2. TreeOK(indexes) /\ Grows(found, indexes)
      BY <2>3, <3>1, LoadFacts
    <3> HIDE DEF indexes
    <3>3. t \in Trees /\ indexes \in Trees
      BY <3>2 DEF TreeOK
    <3>4. Grows(t, indexes)
      BY <2>3, <3>2, <3>3, GrowsOn
    <3>5. ASSUME NEW m \in indexes.children[IndexesOf(table)]
           PROVE  m \in Nodes /\ Present(indexes, m)
      <4>1. m \in Nodes /\ m \in Below(IndexesOf(table))
        BY <3>1, <3>2, <3>3, <3>5 DEF TreeOK, Below
      <4>2. Front(m) = IndexesOf(table)
        BY <3>1, <4>1, BelowFacts
      <4> QED BY <3>5, <4>1, <4>2 DEF Present
    <3> QED BY <2>4, <2>6, <3>2, <3>4, <3>5
  <2> QED BY <2>5, <2>6
<1> QED BY <1>1, <1>2

-----------------------------------------------------------------------------
(* The catalog: the theorems.                                              *)

CatalogInv ==
  /\ TreeOK(tree) /\ RowsOK(tree, viewRows, failed)
  /\ m_details \in Seq(Details(tree, root))
  /\ root \in 0..MaxRefreshes /\ m_rootItem = root /\ failed \subseteq Nodes

LEMMA EmptyTree ==
  ASSUME NEW f
  PROVE  TreeOK(NewTree) /\ RowsOK(NewTree, [n \in Nodes |-> Unmapped], f)
<1>1. /\ NewTree \in Trees /\ NewTree.loaded = {}
      /\ \A n \in Nodes : NewTree.children[n] = {} /\ NewTree.made[n] = 0
  BY DEF NewTree, Trees
<1>2. \A n \in Nodes : Present(NewTree, n) <=> n \in Categories
  <2> SUFFICES ASSUME NEW n \in Nodes, n \notin Categories
               PROVE  ~Present(NewTree, n)
    BY DEF Present
  <2>1. Front(n) \in Nodes
    BY NodeFacts
  <2> QED BY <1>1, <2>1 DEF Present
<1>3. \A o \in Objects : o \in Nodes /\ o \notin Categories
  <2> SUFFICES ASSUME NEW o \in Objects
               PROVE  o \in Nodes /\ o \notin Categories
    OBVIOUS
  <2>1. o \in Nodes
    BY DEF Nodes
  <2>2. (o \in Objects <=> Len(o) = 2) /\ (o \in Categories <=> Len(o) = 1)
    BY <2>1, NodeFacts
  <2>3. Len(o) # 1
    BY <2>2
  <2> QED BY <2>1, <2>2, <2>3
<1>4. TreeOK(NewTree)
  BY <1>1, <1>2, <1>3 DEF TreeOK
<1>5. RowsOK(NewTree, [n \in Nodes |-> Unmapped], f)
  BY DEF RowsOK, Unmapped
<1> QED BY <1>4, <1>5

LEMMA CatalogInitInv == CatalogInit => CatalogInv
<1> SUFFICES ASSUME CatalogInit PROVE CatalogInv
  OBVIOUS
<1>1. TreeOK(tree) /\ RowsOK(tree, viewRows, failed)
  BY EmptyTree DEF CatalogInit
<1>2. <<>> \in Seq(Details(tree, root))
  OBVIOUS
<1> QED BY <1>1, <1>2, RefreshAssumption DEF CatalogInit, CatalogInv

(* A step that only loads more.                                            *)
LEMMA LoadsInv ==
  ASSUME CatalogInv, TreeOK(tree'), Grows(tree, tree'),
         UNCHANGED <<root, m_rootItem, viewRows, m_details, failed>>
  PROVE  CatalogInv'
<1>1. RowsOK(tree', viewRows', failed')
  BY RowsGrow DEF CatalogInv
<1>2. m_details' \in Seq(Details(tree', root'))
  BY DetailsStay DEF CatalogInv
<1> QED BY <1>1, <1>2 DEF CatalogInv

LEMMA QueryAnswers ==
  ASSUME NEW n, NEW answer \in Answers(n)
  PROVE  answer \in AnswersOf(n)
BY DEF Answers, AnswersOf

LEMMA CategoryFacts ==
  \A c \in Categories : c \in Nodes /\ \A t : Present(t, c)
BY DEF Nodes, Present

LEMMA OnRefreshInv == ASSUME CatalogInv, OnRefresh PROVE CatalogInv'
<1>1. TreeOK(tree') /\ RowsOK(tree', viewRows', failed')
  BY EmptyTree DEF OnRefresh
<1>2. <<>> \in Seq(Details(tree', root'))
  OBVIOUS
<1>3. root' \in 0..MaxRefreshes
  BY RefreshAssumption DEF CatalogInv, OnRefresh
<1> QED BY <1>1, <1>2, <1>3 DEF CatalogInv, OnRefresh

LEMMA TabCloseInv ==
  ASSUME CatalogInv, NEW k \in DOMAIN m_details, OnDetailsTabClose(k)
  PROVE  CatalogInv'
<1> DEFINE D == Details(tree, root)
<1>1. m_details \in Seq(D)
  BY DEF CatalogInv
<1> HIDE DEF D
<1>2. k \in 1..Len(m_details) /\ Len(m_details) \in Nat
  BY <1>1
<1> DEFINE u == SubSeq(m_details, 1, k - 1)
           v == SubSeq(m_details, k + 1, Len(m_details))
<1>3. u \in Seq(D)
  <2>1. 1 \in Int /\ k - 1 \in Int /\ \A i \in 1..k - 1 : i \in 1..Len(m_details)
    BY <1>2
  <2>2. \A i \in 1..k - 1 : m_details[i] \in D
    BY <1>1, <2>1
  <2> QED BY <2>1, <2>2, SubSeqProperties
<1>4. v \in Seq(D)
  <2>1. k + 1 \in Int /\ Len(m_details) \in Int /\ \A i \in k + 1..Len(m_details) : i \in 1..Len(m_details)
    BY <1>2
  <2>2. \A i \in k + 1..Len(m_details) : m_details[i] \in D
    BY <1>1, <2>1
  <2> QED BY <2>1, <2>2, SubSeqProperties
<1>5. m_details' = u \o v
  BY DEF OnDetailsTabClose, RemoveAt
<1> HIDE DEF u, v
<1>6. m_details' \in Seq(D)
  BY <1>3, <1>4, <1>5, ConcatProperties
<1> QED BY <1>6 DEF CatalogInv, OnDetailsTabClose, D

LEMMA ExpandInv ==
  ASSUME CatalogInv, NEW n \in Nodes, NEW answer \in Answers(n), Expand(n, answer)
  PROVE  CatalogInv'
<1> DEFINE fetched == FetchMore(n, answer)
<1>1. /\ TreeOK(tree) /\ RowsOK(tree, viewRows, failed) /\ Present(tree, n) /\ HasChildrens(n)
      /\ answer \in AnswersOf(n)
  BY VisiblePresent, QueryAnswers DEF CatalogInv, Expand
<1>2. /\ TreeOK(fetched.tree) /\ Grows(tree, fetched.tree)
      /\ RowsOK(fetched.tree, fetched.rows, failed)
      /\ n \in fetched.tree.loaded \/ answer = Failed
  BY <1>1, FetchFacts
<1>3. /\ tree' = fetched.tree /\ viewRows' = Mapped(fetched.tree, fetched.rows, n)
      /\ failed' = IF answer = Failed THEN failed \union {n} ELSE failed
      /\ UNCHANGED <<root, m_rootItem, m_details>>
  BY DEF Expand
<1> HIDE DEF fetched
<1>4. RowsOK(fetched.tree, fetched.rows, failed')
  BY <1>2, <1>3 DEF RowsOK
<1>5. n \in fetched.tree.loaded \/ n \in failed'
  BY <1>2, <1>3
<1>6. RowsOK(tree', viewRows', failed')
  BY <1>2, <1>3, <1>4, <1>5, MappedRows
<1>7. m_details' \in Seq(Details(tree', root'))
  BY <1>2, <1>3, DetailsStay DEF CatalogInv
<1> QED BY <1>2, <1>3, <1>6, <1>7 DEF CatalogInv

LEMMA SchemaObjectsInv ==
  ASSUME CatalogInv, NEW c \in Categories, NEW answer \in Answers(c), SchemaObjects(c, answer)
  PROVE  CatalogInv'
<1>1. TreeOK(tree) /\ c \in Nodes /\ Present(tree, c) /\ answer \in AnswersOf(c)
  BY CategoryFacts, QueryAnswers DEF CatalogInv
<1>2. tree' = LoadChildrens(tree, c, answer)
  BY DEF SchemaObjects
<1>3. TreeOK(tree') /\ Grows(tree, tree')
  BY <1>1, <1>2, LoadFacts
<1> QED BY <1>3, LoadsInv DEF SchemaObjects

LEMMA SchemaObjectObjectsInv ==
  ASSUME CatalogInv, NEW t \in Tables, NEW a \in Answers(TheTables),
         NEW b \in Answers(IndexesOf(t)), SchemaObjectObjects(t, a, b)
  PROVE  CatalogInv'
<1> DEFINE tables == LoadChildrens(tree, TheTables, a)
           u      == LoadChildrens(tables, IndexesOf(t), b)
<1>1. /\ TreeOK(tree) /\ tree \in Trees /\ TheTables \in Nodes /\ Present(tree, TheTables)
      /\ a \in AnswersOf(TheTables) /\ b \in AnswersOf(IndexesOf(t))
  BY CategoryFacts, QueryAnswers DEF CatalogInv, Categories, TreeOK
<1>2. TreeOK(tables) /\ Grows(tree, tables)
  BY <1>1, LoadFacts
<1>3. tree' = IF Table(t) \in tables.children[TheTables] THEN u ELSE tables
  BY DEF SchemaObjectObjects
<1> HIDE DEF tables
<1>4. ASSUME Table(t) \in tables.children[TheTables]
      PROVE  TreeOK(u) /\ Grows(tree, u)
  <2>1. IndexesOf(t) \in Nodes /\ Present(tables, IndexesOf(t))
    BY <1>2, <1>4, TableFound
  <2>2. TreeOK(u) /\ Grows(tables, u)
    BY <1>1, <1>2, <2>1, LoadFacts
  <2> QED BY <1>1, <1>2, <2>2, GrowsOn
<1>5. TreeOK(tree') /\ Grows(tree, tree')
  BY <1>2, <1>3, <1>4
<1> QED BY <1>5, LoadsInv DEF SchemaObjectObjects

LEMMA OnDetailsInv ==
  ASSUME CatalogInv, NEW t \in Tables, NEW a \in Answers(TheTables),
         NEW b \in Answers(IndexesOf(t)), NEW n \in Nodes, n \in Objects => Belongs(n, t),
         NEW answer \in Answers(n), OnDetails(n, answer, a, b)
  PROVE  CatalogInv'
<1> DEFINE fetched    == FetchMore(n, answer)
           referenced == ReferencedItem(fetched.tree, n, a, b)
<1>1. /\ TreeOK(tree) /\ RowsOK(tree, viewRows, failed) /\ Present(tree, n)
      /\ answer \in AnswersOf(n) /\ a \in AnswersOf(TheTables) /\ b \in AnswersOf(IndexesOf(t))
  BY VisiblePresent, QueryAnswers DEF CatalogInv, OnDetails
<1>2. /\ TreeOK(fetched.tree) /\ Grows(tree, fetched.tree)
      /\ RowsOK(fetched.tree, fetched.rows, failed)
  BY <1>1, FetchFacts
<1>3. /\ tree' = referenced.tree /\ viewRows' = fetched.rows
      /\ AddDbDetails(referenced.tree, root, referenced.item)
      /\ UNCHANGED <<root, m_rootItem, failed>>
  BY DEF OnDetails
<1> HIDE DEF fetched
<1>4. Present(fetched.tree, n)
  BY <1>1, <1>2, StaysPresent
<1>5. /\ TreeOK(referenced.tree) /\ Grows(fetched.tree, referenced.tree)
      /\ referenced.item \in SUBSET Nodes
      /\ \A m \in referenced.item : Present(referenced.tree, m)
  BY <1>1, <1>2, <1>4, ReferencedFacts
<1> HIDE DEF referenced
<1>6. Grows(tree, referenced.tree)
  BY <1>1, <1>2, <1>5, GrowsOn DEF TreeOK
<1>7. RowsOK(tree', viewRows', failed')
  BY <1>2, <1>3, <1>5, RowsGrow
<1>8. m_details \in Seq(Details(referenced.tree, root))
  BY <1>6, DetailsStay DEF CatalogInv
<1>9. m_details' \in Seq(Details(tree', root'))
  BY <1>3, <1>5, <1>8, AddDetails
<1> QED BY <1>3, <1>5, <1>7, <1>9 DEF CatalogInv

LEMMA OpenLinkInv ==
  ASSUME CatalogInv, NEW t \in Tables, NEW a \in Answers(TheTables),
         NEW b \in Answers(IndexesOf(t)), NEW o \in Objects, Belongs(o, t),
         NEW answer \in Answers(Front(o)), OpenLink(o, answer, a, b)
  PROVE  CatalogInv'
<1> DEFINE listed     == LoadChildrens(tree, Front(o), answer)
           referenced == ReferencedItem(listed, o, a, b)
<1>1. /\ TreeOK(tree) /\ tree \in Trees /\ RowsOK(tree, viewRows, failed)
      /\ answer \in AnswersOf(Front(o)) /\ a \in AnswersOf(TheTables)
      /\ b \in AnswersOf(IndexesOf(t))
  BY QueryAnswers DEF CatalogInv, TreeOK
<1>2. o \in Nodes /\ Front(o) \in Nodes /\ Front(o) \in Categories
  <2>1. o \in Nodes
    BY DEF Nodes
  <2>2. Len(o) = 2
    BY <2>1, NodeFacts
  <2>3. Len(o) # 1 /\ Len(o) - 1 = 1
    BY <2>2
  <2>4. Front(o) \in Nodes /\ Len(Front(o)) = 1
    BY <2>1, <2>3, FrontFacts
  <2> QED BY <2>1, <2>4, NodeFacts
<1>3. TreeOK(listed) /\ Grows(tree, listed)
  BY <1>1, <1>2, LoadFacts DEF Present
<1>4. /\ o \in listed.children[Front(o)] /\ tree' = referenced.tree
      /\ AddDbDetails(referenced.tree, m_rootItem, referenced.item)
      /\ UNCHANGED <<root, m_rootItem, viewRows, failed>>
  BY DEF OpenLink
<1> HIDE DEF listed
<1>5. Present(listed, o)
  BY <1>4 DEF Present
<1>6. /\ TreeOK(referenced.tree) /\ Grows(listed, referenced.tree)
      /\ referenced.item \in SUBSET Nodes
      /\ \A m \in referenced.item : Present(referenced.tree, m)
  BY <1>1, <1>2, <1>3, <1>5, ReferencedFacts
<1> HIDE DEF referenced
<1>7. Grows(tree, referenced.tree)
  BY <1>1, <1>3, <1>6, GrowsOn
<1>8. RowsOK(tree', viewRows', failed')
  BY <1>1, <1>4, <1>7, RowsGrow
<1>9. m_details \in Seq(Details(referenced.tree, m_rootItem))
  BY <1>7, DetailsStay DEF CatalogInv
<1>10. m_details' \in Seq(Details(tree', root'))
  <2>1. m_details' \in Seq(Details(referenced.tree, m_rootItem))
    BY <1>4, <1>6, <1>9, AddDetails
  <2> QED BY <1>4, <2>1 DEF CatalogInv
<1> QED BY <1>4, <1>6, <1>8, <1>10 DEF CatalogInv

LEMMA CatalogNextInv == CatalogInv /\ [CatalogNext]_catalogVars => CatalogInv'
<1> SUFFICES ASSUME CatalogInv, [CatalogNext]_catalogVars PROVE CatalogInv'
  OBVIOUS
<1>1. CASE UNCHANGED catalogVars
  BY <1>1 DEF CatalogInv, catalogVars
<1>2. CASE OnRefresh
  BY <1>2, OnRefreshInv
<1>3. ASSUME NEW k \in DOMAIN m_details, OnDetailsTabClose(k) PROVE CatalogInv'
  BY <1>3, TabCloseInv
<1>4. ASSUME NEW n \in Nodes, NEW answer \in Answers(n), Expand(n, answer) PROVE CatalogInv'
  BY <1>4, ExpandInv
<1>5. ASSUME NEW c \in Categories, NEW answer \in Answers(c), SchemaObjects(c, answer)
      PROVE  CatalogInv'
  BY <1>5, SchemaObjectsInv
<1>6. ASSUME NEW t \in Tables, NEW a \in Answers(TheTables), NEW b \in Answers(IndexesOf(t)),
             SchemaObjectObjects(t, a, b)
      PROVE  CatalogInv'
  BY <1>6, SchemaObjectObjectsInv
<1>7. ASSUME NEW t \in Tables, NEW a \in Answers(TheTables), NEW b \in Answers(IndexesOf(t)),
             NEW n \in Nodes, n \in Objects => Belongs(n, t), NEW answer \in Answers(n),
             OnDetails(n, answer, a, b)
      PROVE  CatalogInv'
  BY <1>7, OnDetailsInv
<1>8. ASSUME NEW t \in Tables, NEW a \in Answers(TheTables), NEW b \in Answers(IndexesOf(t)),
             NEW o \in Objects, Belongs(o, t), NEW answer \in Answers(Front(o)),
             OpenLink(o, answer, a, b)
      PROVE  CatalogInv'
  BY <1>8, OpenLinkInv
<1> QED BY <1>1, <1>2, <1>3, <1>4, <1>5, <1>6, <1>7, <1>8 DEF CatalogNext

(* The tree of a connection, the rows of its view and its details keep     *)
(* this invariant whatever loads children and in whatever order.           *)
THEOREM CatalogInductive == CatalogSpec => []CatalogInv
<1>1. CatalogInit => CatalogInv
  BY CatalogInitInv
<1>2. CatalogInv /\ [CatalogNext]_catalogVars => CatalogInv'
  BY CatalogNextInv
<1> QED BY <1>1, <1>2, PTL DEF CatalogSpec

(* Every item of a tree is made once, and an object in a tree has its      *)
(* categories (DoLoadChildrens).                                           *)
THEOREM CatalogTypes == CatalogSpec => []CatalogTypeOK
<1>1. CatalogInv => CatalogTypeOK
  <2> SUFFICES ASSUME CatalogInv PROVE CatalogTypeOK
    OBVIOUS
  <2>1. /\ \A n \in Nodes : tree.children[n] \subseteq Below(n)
        /\ tree.loaded \subseteq Nodes /\ tree.made \in [Nodes -> 0..1]
        /\ \A o \in Objects : Present(tree, o) => o \in tree.loaded /\ tree.children[o] = Below(o)
    BY DEF CatalogInv, TreeOK, Trees
  <2>2. {root, m_rootItem} \subseteq 0..MaxRefreshes /\ failed \subseteq Nodes
    BY DEF CatalogInv
  <2>3. ASSUME NEW n \in Nodes
        PROVE  viewRows[n] \in {Unmapped} \union 0..Cardinality(Below(n))
    <3> DEFINE shown == Cardinality(tree.children[n])
               below == Cardinality(Below(n))
    <3>1. shown \in Nat /\ below \in Nat /\ shown <= below
      BY ChildrenCounted DEF CatalogInv
    <3>2. viewRows[n] = Unmapped \/ viewRows[n] = shown \/ viewRows[n] = 0
      BY DEF CatalogInv, RowsOK
    <3> HIDE DEF shown, below
    <3>3. viewRows[n] \in {Unmapped} \union 0..below
      BY <3>1, <3>2
    <3> QED BY <3>3 DEF below
  <2>4. \A k \in DOMAIN m_details : m_details[k].node \in Objects
    <3>1. \A k \in DOMAIN m_details : m_details[k] \in Details(tree, root)
      BY DEF CatalogInv
    <3> QED BY <3>1 DEF Details
  <2> QED BY <2>1, <2>2, <2>3, <2>4 DEF CatalogTypeOK
<1> QED BY <1>1, CatalogInductive, PTL

(* The items details point to are in the tree that is shown, and are the   *)
(* ones that were made there (OnRefresh, LoadChildrens).                   *)
THEOREM DetailsStayAlive == CatalogSpec => []DetailsAlive
<1>1. CatalogInv => DetailsAlive
  <2> SUFFICES ASSUME CatalogInv, NEW k \in DOMAIN m_details
               PROVE  LET d == m_details[k] IN
                      d.root = root /\ Present(tree, d.node) /\ d.made = tree.made[d.node]
    BY DEF DetailsAlive
  <2> DEFINE d == m_details[k]
  <2>1. d \in Details(tree, root)
    BY DEF CatalogInv
  <2> HIDE DEF d
  <2>2. d.node \in Objects /\ d.made = 1 /\ d.root = root /\ Present(tree, d.node)
    BY <2>1 DEF Details
  <2>3. d.node \in Nodes
    BY <2>2 DEF Nodes
  <2>4. d.node \notin Categories
    <3>1. (d.node \in Objects <=> Len(d.node) = 2) /\ (d.node \in Categories <=> Len(d.node) = 1)
      BY <2>3, NodeFacts
    <3>2. Len(d.node) # 1
      BY <2>2, <3>1
    <3> QED BY <3>1, <3>2
  <2>5. tree.made[d.node] = 1
    BY <2>2, <2>3, <2>4 DEF CatalogInv, TreeOK
  <2> QED BY <2>2, <2>5 DEF d
<1> QED BY <1>1, CatalogInductive, PTL

(* What is loaded behind the back of the view is seen there too            *)
(* (FetchMore, SchemaObjects, ReferencedItem).                             *)
THEOREM RowsAlwaysMatch == CatalogSpec => []RowsMatch
<1>1. CatalogInv => RowsMatch
  BY DEF CatalogInv, RowsOK, RowsMatch
<1> QED BY <1>1, CatalogInductive, PTL
=============================================================================
