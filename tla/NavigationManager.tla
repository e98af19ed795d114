------------------------- MODULE NavigationManager -------------------------
(***************************************************************************)
(* Going back and forward among the places the user has edited             *)
(* (libs/qworkbase/NavigationManager.cpp).  The history is a list of       *)
(* locations and a position in it: locations before the position are       *)
(* behind the user, the one at the position is overwritten with the place  *)
(* the user is at when he goes back or forward, and those after it are     *)
(* ahead.  Locations hold raw pointers to documents, which the document    *)
(* manager deletes.                                                        *)
(*                                                                         *)
(* Positions count from 0 and are translated by At.  Only documents with   *)
(* an editor (IDocument::editor() is not 0) get into the history.          *)
(***************************************************************************)
EXTENDS Integers, Sequences, FiniteSets, Subsequences

CONSTANTS
  Documents,      \* documents that may be opened
  TextDocuments,  \* those with an editor
  States,         \* what an editor saves of its cursor and scroll bars
  None,           \* no document, no location
  Limit, Half     \* 30 and 15 in the code

ASSUME DocumentsAssumption == TextDocuments \subseteq Documents
ASSUME NoneAssumption == None \notin Documents \union (TextDocuments \X States)
ASSUME LimitAssumption == Limit \in Nat /\ Half \in Nat \ {0} /\ Half + 2 < Limit

VARIABLES
  open,                  \* open documents
  currentDocument,
  cursor,                \* the state of each document's editor
  m_navigationHistory,
  m_currentNavigationHistoryPosition,
  m_blocked,             \* a session is being loaded
  canBack, canForward,   \* the two commands are enabled
  came, left             \* history: the place that going back or forward owes the user

history  == m_navigationHistory
position == m_currentNavigationHistoryPosition
buttons  == <<canBack, canForward>>
owed     == <<came, left>>
navigationVars == <<open, currentDocument, cursor, m_navigationHistory,
          m_currentNavigationHistoryPosition, m_blocked, canBack, canForward, came, left>>

Locations      == TextDocuments \X States
At(list, i)    == list[i + 1]
Without(list, i) == SubSeq(list, 1, i) \o SubSeq(list, i + 2, Len(list))
Place          == <<currentDocument, cursor[currentDocument]>>
HasEditor      == currentDocument \in TextDocuments

NavigationInit ==
  /\ open = {} /\ currentDocument = None
  /\ cursor \in [TextDocuments -> States]
  /\ m_navigationHistory = <<>> /\ m_currentNavigationHistoryPosition = 0
  /\ m_blocked = FALSE
  /\ canBack = FALSE /\ canForward = FALSE
  /\ came = None /\ left = None

(***************************************************************************)
(* The manager.                                                            *)
(***************************************************************************)
\* A mutant: the commands keep their state.
NavigationStateNotHandled(list, pos) == UNCHANGED buttons

\* canGoBack and canGoForward, as the two commands are told by
\* QWorkMainWindow::handleNavigationStateChanged.
HandleNavigationStateChanged(list, pos) ==
  canBack' = (pos > 0) /\ canForward' = (pos < Len(list) - 1)

\* insert(pos, location), and ++pos.
Insert(list, pos, location) == SubSeq(list, 1, pos) \o <<location>> \o SubSeq(list, pos + 1, Len(list))

\* A mutant: always from the front.
DroppedInFrontAlways(size, pos) == IF size >= Limit THEN size - Limit + 1 ELSE 0

\* The loop that makes room: how many locations it drops in front.  It
\* drops from the front as long as the position is beyond Half, from the
\* back otherwise, until fewer than Limit are left.
DroppedInFront(size, pos) ==
  LET excess == IF size >= Limit THEN size - Limit + 1 ELSE 0
      beyond == IF pos > Half THEN pos - Half ELSE 0
  IN IF excess < beyond THEN excess ELSE beyond

\* The history after the loop.
Trim(list, pos) ==
  LET front == DroppedInFront(Len(list), pos)
      rest  == SubSeq(list, front + 1, Len(list))
  IN SubSeq(rest, 1, IF Len(rest) >= Limit THEN Limit - 1 ELSE Len(rest))

\* addCurrentPositionToNavigationHistory, the list and position given being
\* those after a cut.
AddPosition(list, pos, location) ==
  LET longer == Insert(list, pos, location)
      next   == pos + 1 - DroppedInFront(Len(longer), pos + 1)
  IN /\ m_navigationHistory' = Trim(longer, pos + 1)
     /\ m_currentNavigationHistoryPosition' = next
     /\ HandleNavigationStateChanged(Trim(longer, pos + 1), next)
     /\ came' = location

\* cutForwardNavigationHistory: the location at the position stays.
CutForward(list, pos) == SubSeq(list, 1, IF pos < Len(list) - 1 THEN pos + 1 ELSE Len(list))

\* A mutant: the place the user is at is not recorded.
UpdateNothing == history

\* updateCurrentPositionInNavigationHistory.
UpdateCurrentPosition ==
  IF ~HasEditor THEN history
  ELSE IF position < Len(history) THEN [history EXCEPT ![position + 1] = Place]
  ELSE Append(history, Place)

\* activateDocument, and the editor's restoreState.
GoTo(location) ==
  /\ currentDocument' = location[1]
  /\ cursor' = [cursor EXCEPT ![location[1]] = location[2]]

\* The loop of goBack removes locations whose document has no editor and
\* goes on; the first location ends it, as only documents with an editor
\* are ever recorded.
GoBack ==
  LET list == UpdateCurrentPosition
  IN /\ canBack /\ ~m_blocked
     /\ m_navigationHistory' = list
     /\ IF position > 0
        THEN /\ m_currentNavigationHistoryPosition' = position - 1
             /\ GoTo(At(list, position - 1))
             /\ HandleNavigationStateChanged(list, position - 1)
             /\ left' = IF HasEditor THEN Place ELSE None
        ELSE /\ UNCHANGED <<m_currentNavigationHistoryPosition, currentDocument, cursor, left>>
             /\ UNCHANGED buttons
     /\ came' = None
     /\ UNCHANGED <<open, m_blocked>>

GoForward ==
  LET list == UpdateCurrentPosition
  IN /\ canForward /\ ~m_blocked
     /\ m_navigationHistory' = list
     /\ IF position < Len(list) - 1
        THEN /\ m_currentNavigationHistoryPosition' = position + 1
             /\ GoTo(At(list, position + 1))
             /\ HandleNavigationStateChanged(list, position + 1)
             /\ came' = IF HasEditor THEN Place ELSE None
        ELSE /\ UNCHANGED <<m_currentNavigationHistoryPosition, currentDocument, cursor, came>>
             /\ UNCHANGED buttons
     /\ left' = None
     /\ UNCHANGED <<open, m_blocked>>

\* A mutant: a document at the position itself does not move it.
PositionWithoutOne(list, pos, d) ==
  pos - Cardinality({i \in 1..Len(list) : i <= pos - 1 /\ list[i][1] = d})

\* A mutant: only the last location of the document is removed.
RemoveOne(list, d) ==
  LET at == {i \in 1..Len(list) : list[i][1] = d}
      last == CHOOSE i \in at : \A j \in at : j <= i
  IN IF at = {} THEN list ELSE Without(list, last - 1)

\* onDocumentClosed: from the last location to the first, and the position
\* moves for each one that is not behind it.
RemoveDocument(list, d) == ElementsAt(list, {i \in DOMAIN list : list[i][1] # d})
LocationsUpTo(list, pos, d) == UpTo({i \in DOMAIN list : list[i][1] = d}, pos + 1)
PositionWithout(list, pos, d) ==
  LET moved == pos - Cardinality(LocationsUpTo(list, pos, d))
  IN IF moved < 0 THEN 0 ELSE moved

OnDocumentClosed(d) ==
  LET list == RemoveDocument(history, d)
      pos  == PositionWithout(history, position, d)
  IN /\ m_navigationHistory' = list
     /\ m_currentNavigationHistoryPosition' = pos
     /\ HandleNavigationStateChanged(list, pos)
     /\ came' = None /\ left' = None

(***************************************************************************)
(* Those who call it.                                                      *)
(***************************************************************************)
\* openDocumentInternal, for a document that is not open yet: shown first,
\* then added to the history if it has an editor and no session is loading.
OpenDocument(d) ==
  /\ d \notin open
  /\ open' = open \union {d} /\ currentDocument' = d
  /\ \E state \in States :
       cursor' = IF d \in TextDocuments THEN [cursor EXCEPT ![d] = state] ELSE cursor
  /\ IF d \in TextDocuments /\ ~m_blocked
     THEN /\ AddPosition(CutForward(history, position), position, <<d, cursor'[d]>>)
          /\ left' = None
     ELSE UNCHANGED <<m_navigationHistory, m_currentNavigationHistoryPosition, buttons, owed>>
  /\ UNCHANGED m_blocked

\* openDocumentInternal for an open document, the tabs, the list of windows,
\* activateDocument by scripts; newDocument opens without adding.
ActivateDocument(d) ==
  /\ d \in open \ {currentDocument} /\ ~m_blocked
  /\ currentDocument' = d
  /\ UNCHANGED <<open, cursor, m_navigationHistory, m_currentNavigationHistoryPosition,
                 m_blocked, buttons, owed>>
NewDocument(d) ==
  /\ d \notin open /\ ~m_blocked
  /\ open' = open \union {d} /\ currentDocument' = d
  /\ UNCHANGED <<cursor, m_navigationHistory, m_currentNavigationHistoryPosition,
                 m_blocked, buttons, owed>>

\* The cursor moves (slotCursorPositionChanged).  The place it leaves is
\* added if the editor thinks it interesting: it had been jumped to.
MoveCursor(state) ==
  /\ HasEditor /\ ~m_blocked /\ state # cursor[currentDocument]
  /\ cursor' = [cursor EXCEPT ![currentDocument] = state]
  /\ \/ AddPosition(history, position, Place) /\ UNCHANGED left
     \/ UNCHANGED <<m_navigationHistory, m_currentNavigationHistoryPosition, buttons, owed>>
  /\ UNCHANGED <<open, currentDocument, m_blocked>>

\* A jump from the outline: the place before it cuts what is ahead.
JumpFromOutline(state) ==
  /\ HasEditor /\ ~m_blocked
  /\ AddPosition(CutForward(history, position), position, Place)
  /\ cursor' = [cursor EXCEPT ![currentDocument] = state]
  /\ left' = None
  /\ UNCHANGED <<open, currentDocument, m_blocked>>

\* The container shows what it likes after a document is gone.
CurrentAfter(d) == IF open = {d} THEN {None} ELSE open \ {d}

\* tryCloseFile emits documentClosed, then the container deletes the
\* document.
CloseDocument(d) ==
  /\ d \in open /\ ~m_blocked
  /\ OnDocumentClosed(d)
  /\ open' = open \ {d}
  /\ currentDocument' \in CurrentAfter(d)
  /\ UNCHANGED <<cursor, m_blocked>>

\* loadSession blocks the history while it opens its documents.
LoadSession ==
  /\ ~m_blocked
  /\ m_blocked' = TRUE
  /\ UNCHANGED <<open, currentDocument, cursor, m_navigationHistory,
                 m_currentNavigationHistoryPosition, buttons, owed>>
SessionLoaded ==
  /\ m_blocked
  /\ m_blocked' = FALSE
  /\ UNCHANGED <<open, currentDocument, cursor, m_navigationHistory,
                 m_currentNavigationHistoryPosition, buttons, owed>>

NavigationNext ==
  \/ GoBack \/ GoForward \/ LoadSession \/ SessionLoaded
  \/ \E d \in Documents : OpenDocument(d) \/ ActivateDocument(d) \/ CloseDocument(d)
  \/ \E d \in TextDocuments : NewDocument(d)
  \/ \E state \in States : MoveCursor(state) \/ JumpFromOutline(state)

NavigationSpec == NavigationInit /\ [][NavigationNext]_navigationVars

(***************************************************************************)
(* Properties.                                                             *)
(***************************************************************************)
\* The types of the members; the position never leaves the list.
NavigationTypeOK ==
  /\ open \subseteq Documents /\ currentDocument \in Documents \union {None}
  /\ cursor \in [TextDocuments -> States]
  /\ m_navigationHistory \in Seq(Locations)
  /\ m_currentNavigationHistoryPosition \in 0..Len(m_navigationHistory)
  /\ m_blocked \in BOOLEAN /\ canBack \in BOOLEAN /\ canForward \in BOOLEAN
  /\ came \in Locations \union {None} /\ left \in Locations \union {None}

\* The history holds no pointer to a document that has been deleted, in
\* whichever order documents are opened, visited and closed.
NoClosedDocuments == \A i \in 1..Len(history) : history[i][1] \in open

\* The commands Go Back and Go Forward are enabled exactly when the history
\* has a location to go to, although going back and forward may append a
\* location without telling them.
CommandsAgree ==
  /\ canBack <=> position > 0
  /\ canForward <=> position < Len(history) - 1

\* The place that was added last, or that the user came forward from, is the
\* one he gets when he goes back, and the place he left by going back the one
\* he gets when he goes forward, whatever places have been added in between
\* and the limit has dropped.  A jump within a document adds the place before
\* it; opening a document adds its own.
PlacesReturn ==
  /\ came # None => position > 0 /\ At(history, position - 1) = came
  /\ left # None => position + 1 < Len(history) /\ At(history, position + 1) = left
=============================================================================
