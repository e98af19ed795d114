----------------------------- MODULE DbManager -----------------------------
(***************************************************************************)
(* The manager of the open database connections (plugins/db/dbbrowser/     *)
(* DbManager.cpp).  The connections, what was entered to open them and     *)
(* their trees are parallel lists; a combo box row, a tab and a page of    *)
(* the details stack stand for each of them.  Which connection is current  *)
(* is known only by position: to the combo box, to the tabs and to the     *)
(* stack, which set one another through signals, and, as a pointer, to the *)
(* parser engine manager, the completion and the Commit command, which are *)
(* told by the slot of the tabs' signal.                                   *)
(*                                                                         *)
(* Positions count from 0 and -1 is none, as in Qt.  Page 0 of the stack   *)
(* is a label, so the page of position i is i + 1.                         *)
(***************************************************************************)
EXTENDS Integers, Sequences

CONSTANTS
  Connections,   \* the connections that may be opened, each once
  Engines,       \* parser engines of the database types
  EngineOf,      \* the engine of each connection's type
  None,          \* no connection
  DefaultEngine, \* the engine when no connection is current
  MaxDbIndex     \* bound: connections opened or tried since the last reset

ASSUME EngineAssumption == EngineOf \in [Connections -> Engines]
ASSUME NoneAssumption   == None \notin Connections /\ DefaultEngine \notin Engines
ASSUME BoundAssumption  == MaxDbIndex \in Nat

VARIABLES
  connectionList, connectionInfoList, structWidgetList,
  rows,            \* rows of databaseComboBox
  tabs,            \* tabs of dbTabWidget
  pages,           \* pages of m_detailsStack after the label
  comboIndex, tabIndex,  \* the current row and the current tab
  pageIndex,       \* the current page, 0 is the label
  dbIndex,         \* number of the next connection
  databaseName,    \* "DB_%1" given to each connection
  opened,          \* the connections ever opened
  transaction,     \* connections whose transaction flag is set
  working,         \* connections with a job
  currentConnection, currentEngine,  \* what SqlParserEngineManager was told
  commitEnabled,   \* the Commit and Rollback commands are enabled
  scripted         \* history: a script has closed one since one was selected

lists    == <<connectionList, connectionInfoList, structWidgetList, rows, tabs, pages>>
current  == <<comboIndex, tabIndex, pageIndex, scripted>>
told     == <<currentConnection, currentEngine, commitEnabled>>
naming   == <<dbIndex, databaseName, opened>>
vars == <<connectionList, connectionInfoList, structWidgetList, rows, tabs, pages, comboIndex,
          tabIndex, pageIndex, dbIndex, databaseName, opened, transaction, working,
          currentConnection, currentEngine, commitEnabled, scripted>>

At(list, i)      == list[i + 1]
Without(list, i) == SubSeq(list, 1, i) \o SubSeq(list, i + 2, Len(list))
Smaller(a, b)    == IF a < b THEN a ELSE b
Open             == {connectionList[i] : i \in 1..Len(connectionList)}

Init ==
  /\ connectionList = <<>> /\ connectionInfoList = <<>> /\ structWidgetList = <<>>
  /\ rows = <<>> /\ tabs = <<>> /\ pages = <<>>
  /\ comboIndex = -1 /\ tabIndex = -1 /\ pageIndex = 0
  /\ dbIndex = 0
  /\ databaseName = [c \in Connections |-> 0]
  /\ opened = {}
  /\ transaction = {} /\ working = {}
  /\ currentConnection = None /\ currentEngine = DefaultEngine /\ commitEnabled = FALSE
  /\ scripted = FALSE

-----------------------------------------------------------------------------
(* onCurrentConnectionChanged(i), called by the tabs, with the lists as     *)
(* they are at that time.                                                   *)
OnCurrentConnectionChanged(i, connections, structs) ==
  IF i = -1
  THEN currentConnection' = None /\ currentEngine' = DefaultEngine /\ commitEnabled' = FALSE
  ELSE /\ currentConnection' = At(connections, i)
       /\ currentEngine' = EngineOf[At(structs, i)]
       /\ commitEnabled' = (At(connections, i) \in transaction)

(* The user picks a row or a tab, or a script sets the current index.       *)
Select(i) ==
  /\ i \in 0..Len(connectionList) - 1 /\ i # comboIndex
  /\ comboIndex' = i /\ tabIndex' = i /\ pageIndex' = i + 1 /\ scripted' = FALSE
  /\ OnCurrentConnectionChanged(i, connectionList, structWidgetList)
  /\ UNCHANGED <<lists, naming, transaction, working>>

(* createConnection and connectToDb: the new connection becomes current.    *)
CreateConnection(c) ==
  /\ c \notin opened /\ dbIndex < MaxDbIndex
  /\ opened' = opened \cup {c}
  /\ databaseName' = [databaseName EXCEPT ![c] = dbIndex]
  /\ dbIndex' = dbIndex + 1
  /\ connectionList' = Append(connectionList, c)
  /\ connectionInfoList' = Append(connectionInfoList, c)
  /\ structWidgetList' = Append(structWidgetList, c)
  /\ rows' = Append(rows, c) /\ tabs' = Append(tabs, c) /\ pages' = Append(pages, c)
  /\ comboIndex' = Len(rows) /\ tabIndex' = Len(tabs) /\ pageIndex' = Len(pages) + 1
  /\ scripted' = FALSE
  /\ OnCurrentConnectionChanged(Len(rows), connectionList', structWidgetList')
  /\ UNCHANGED <<transaction, working>>

(* The loader cannot connect: the number has been taken.                    *)
CreateConnectionFails ==
  /\ dbIndex < MaxDbIndex
  /\ dbIndex' = dbIndex + 1
  /\ UNCHANGED <<lists, current, told, databaseName, opened, transaction, working>>

-----------------------------------------------------------------------------
(* What Qt's widgets do when something is removed.                          *)

(* QComboBox: row i of the current row cur.                                 *)
ComboAfterRemoval(cur, i) == IF i <= cur THEN cur - 1 ELSE cur

(* QTabBar: tab i of n tabs; it selects the right neighbour.                *)
TabAfterRemoval(cur, i, n) ==
  IF i = cur THEN Smaller(i, n - 2) ELSE IF i < cur THEN cur - 1 ELSE cur

(* QStackedLayout: page p of n pages, the label not counted.                *)
PageAfterRemoval(cur, p, n) ==
  IF p = cur THEN Smaller(p, n - 1) ELSE IF p < cur THEN cur - 1 ELSE cur

(* Mutants: the page before the connection's is removed; the tree leaves    *)
(* its list after the tab; the info stays in its list.                      *)
DetailsPageOfPosition(i) == i
StructsAtTabRemovalTooLate(i) == structWidgetList
RemoveFromListsButInfo(i) ==
  /\ connectionList' = Without(connectionList, i)
  /\ UNCHANGED connectionInfoList
  /\ structWidgetList' = Without(structWidgetList, i)
  /\ rows' = Without(rows, i) /\ tabs' = Without(tabs, i) /\ pages' = Without(pages, i)

DetailsPage(i) == i + 1

(* structWidgetList when removeTab emits currentChanged.                    *)
StructsAtTabRemoval(i) == Without(structWidgetList, i)

RemoveFromLists(i) ==
  /\ connectionList' = Without(connectionList, i)
  /\ connectionInfoList' = Without(connectionInfoList, i)
  /\ structWidgetList' = Without(structWidgetList, i)
  /\ rows' = Without(rows, i) /\ tabs' = Without(tabs, i) /\ pages' = Without(pages, i)

(* DbConnection::closeConnection: refused while there are jobs, and by the  *)
(* Cancel of its prompt when the flag is set; the flag is not reset.        *)
MayClose(c)  == c \notin working
MayRefuse(c) == c \in working \cup transaction

(* closeConnection(i).  Removing the row sets the tab, and through it all   *)
(* that is told, while the lists still hold the closed connection; removing *)
(* the tab does it again, after structWidgetList and before connectionList  *)
(* is shortened.                                                            *)
CloseConnection(i) ==
  /\ MayClose(At(connectionList, i))
  /\ LET n          == Len(connectionList)
         rowChanged == i <= comboIndex
         row        == ComboAfterRemoval(comboIndex, i)
         tabMoved   == rowChanged /\ row # -1 /\ row # tabIndex
         tab        == IF tabMoved THEN row ELSE tabIndex
         tabChanged == i <= tab
         newTab     == TabAfterRemoval(tab, i, n)
         newRow     == IF tabChanged THEN newTab ELSE row
         page       == IF tabChanged /\ newTab # row THEN newTab + 1
                       ELSE IF rowChanged THEN row + 1 ELSE pageIndex
     IN /\ comboIndex' = newRow
        /\ tabIndex' = newTab
        /\ pageIndex' = PageAfterRemoval(page, DetailsPage(i), n)
        /\ IF tabChanged
           THEN OnCurrentConnectionChanged(newTab, connectionList, StructsAtTabRemoval(i))
           ELSE IF tabMoved
                THEN OnCurrentConnectionChanged(tab, connectionList, structWidgetList)
                ELSE UNCHANGED told
  /\ RemoveFromLists(i)
  /\ UNCHANGED <<naming, transaction, working>>

CloseDbConnection ==
  comboIndex # -1 /\ CloseConnection(comboIndex) /\ UNCHANGED scripted

(* closeConnection of the Python module, and close() of a connection.       *)
ScriptCloseConnection(i) ==
  /\ i \in 0..Len(connectionList) - 1
  /\ CloseConnection(i) /\ scripted' = TRUE

(* Mutant: the numbers start again although connections are left.           *)
DbIndexAlwaysReset(left) == 0

DbIndexAfterCloseAll(left) == IF left = 0 THEN 0 ELSE dbIndex

(* closeAllDbConnections: from the last one down to the first that refuses. *)
CloseAllDbConnections(left) ==
  LET n == Len(connectionList) IN
  /\ left \in 0..n
  /\ \A i \in left..n - 1 : MayClose(At(connectionList, i))
  /\ left > 0 => MayRefuse(At(connectionList, left - 1))
  /\ connectionList' = SubSeq(connectionList, 1, left)
  /\ connectionInfoList' = SubSeq(connectionInfoList, 1, left)
  /\ structWidgetList' = SubSeq(structWidgetList, 1, left)
  /\ rows' = SubSeq(rows, 1, left) /\ tabs' = SubSeq(tabs, 1, left)
  /\ pages' = SubSeq(pages, 1, left)
  /\ comboIndex' = Smaller(comboIndex, left - 1)
  /\ tabIndex' = Smaller(tabIndex, left - 1)
  /\ pageIndex' = IF comboIndex' # comboIndex THEN comboIndex' + 1 ELSE Smaller(pageIndex, left)
  /\ IF tabIndex' # tabIndex
     THEN OnCurrentConnectionChanged(tabIndex', connectionList, structWidgetList)
     ELSE UNCHANGED told
  /\ dbIndex' = DbIndexAfterCloseAll(left)
  /\ UNCHANGED <<databaseName, opened, transaction, working, scripted>>

-----------------------------------------------------------------------------
(* What the connections do meanwhile (see DbConnection).                    *)

(* A statement is started; wake() may open a transaction, without a signal. *)
StatementStarts(c) ==
  /\ c \in Open \ working
  /\ working' = working \cup {c}
  /\ transaction' \in {transaction, transaction \cup {c}}
  /\ UNCHANGED <<lists, current, told, naming>>

(* It ends, possibly the transaction with it: onTransactionChanged.         *)
StatementEnds(c) ==
  /\ c \in working
  /\ working' = working \ {c}
  /\ transaction' \in {transaction, transaction \ {c}}
  /\ commitEnabled' = IF comboIndex # -1 /\ At(connectionList, comboIndex) = c
                      THEN c \in transaction' ELSE commitEnabled
  /\ UNCHANGED <<lists, current, currentConnection, currentEngine, naming>>

(* The Commit and Rollback commands; the driver's failure changes nothing.  *)
EndTransaction ==
  /\ commitEnabled /\ comboIndex # -1
  /\ At(connectionList, comboIndex) \in transaction
  /\ transaction' = transaction \ {At(connectionList, comboIndex)}
  /\ commitEnabled' = FALSE
  /\ UNCHANGED <<lists, current, currentConnection, currentEngine, naming, working>>

-----------------------------------------------------------------------------
Next == \/ \E i \in 0..Len(connectionList) - 1 : Select(i) \/ ScriptCloseConnection(i)
        \/ \E c \in Connections : CreateConnection(c) \/ StatementStarts(c) \/ StatementEnds(c)
        \/ CreateConnectionFails
        \/ CloseDbConnection
        \/ \E left \in 0..Len(connectionList) : CloseAllDbConnections(left)
        \/ EndTransaction

Spec == Init /\ [][Next]_vars

-----------------------------------------------------------------------------
(* Properties.                                                              *)

Positions == -1..Len(connectionList) - 1

(* The types of the manager's members and widgets: positions are positions  *)
(* of the lists.                                                            *)
TypeOK ==
  /\ \A list \in {connectionList, connectionInfoList, structWidgetList, rows, tabs, pages} :
       list \in Seq(Connections)
  /\ comboIndex \in Positions /\ tabIndex \in Positions
  /\ pageIndex \in 0..Len(connectionList)
  /\ dbIndex \in 0..MaxDbIndex
  /\ databaseName \in [Connections -> 0..MaxDbIndex]
  /\ opened \subseteq Connections
  /\ transaction \subseteq opened /\ working \subseteq opened
  /\ currentConnection \in Connections \cup {None}
  /\ currentEngine \in Engines \cup {DefaultEngine}
  /\ commitEnabled \in BOOLEAN /\ scripted \in BOOLEAN

(* Six lists are changed one after the other by each operation and indexed  *)
(* by one another's positions: they hold the same connections in the same   *)
(* order.                                                                   *)
ListsAgree ==
  \A list \in {connectionInfoList, structWidgetList, rows, tabs, pages} : list = connectionList

(* However rows, tabs and pages set one another while one is removed, in    *)
(* the end they show the same connection, and none only if none is open.    *)
(* The page alone may be that of another one after a script has closed a    *)
(* connection, until one is selected or opened.                             *)
PanesAgree ==
  /\ tabIndex = comboIndex
  /\ ~scripted => pageIndex = comboIndex + 1
  /\ comboIndex = -1 <=> connectionList = <<>>

(* QSqlDatabase knows a connection by its name: after the numbers have been *)
(* reset no two open connections have the same one.                         *)
NamesUnique ==
  \A c, d \in Open : databaseName[c] = databaseName[d] => c = d

(* The editors parse with the engine of the current connection, also right  *)
(* after the slot was called in the middle of a removal.                    *)
EngineOfCurrent ==
  currentEngine = IF comboIndex = -1 THEN DefaultEngine
                  ELSE EngineOf[At(connectionList, comboIndex)]
=============================================================================
