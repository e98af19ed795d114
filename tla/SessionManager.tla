--------------------------- MODULE SessionManager ---------------------------
(***************************************************************************)
(* Sessions (libs/corelib/SessionManager.cpp, SessionsDialog.cpp) and the  *)
(* end of the application (QWorkMainWindow::closeEvent): all clients are   *)
(* asked, then the session is saved, then all clients close, then, for a   *)
(* switch, the next session is loaded.  Of the clients, DocumentManager    *)
(* keeps new documents, whose text exists nowhere else, in the session's   *)
(* directory and DbManager the connections; both are items here.           *)
(*                                                                         *)
(* Questions are modal dialogs, so asking is several steps; the dialog of  *)
(* the sessions is modal too, so nothing else is asked meanwhile.          *)
(***************************************************************************)
EXTENDS Integers, Sequences, FiniteSets

CONSTANTS
  Sessions, Default,    \* session names; m_sessions[0] is Default
  Texts, Connections,   \* new modified documents, database connections
  Clients,              \* number of clients that are asked
  MaxStarts             \* bound: times the program is started

ASSUME NamesAssumption   == Default \in Sessions
ASSUME ItemsAssumption   == Texts \intersect Connections = {}
ASSUME ClientsAssumption == Clients \in Nat \ {0}
ASSUME BoundAssumption   == MaxStarts \in Nat

VARIABLES
  m_sessions, m_currentSessionIndex,
  sessionsXml, lastSessionIndex,     \* what ~SessionManager writes
  stored,      \* the sessions' directories
  open,        \* the items that are open
  phase,       \* where switchToSession or closeEvent has got to
  target,      \* the session to switch to, or Exit
  asked,       \* clients that have agreed
  used,        \* history: items ever opened
  ended,       \* history: items closed, saved in files, or given up
  starts       \* bounded count

files   == <<sessionsXml, lastSessionIndex, stored>>
list    == <<m_sessions, m_currentSessionIndex>>
dialog  == <<phase, target, asked>>
history == <<used, ended, starts>>
vars == <<m_sessions, m_currentSessionIndex, sessionsXml, lastSessionIndex, stored, open,
          phase, target, asked, used, ended, starts>>

Items == Texts \union Connections
Exit  == -1
At(names, i) == names[i + 1]
Current == At(m_sessions, m_currentSessionIndex)
Listed(names) == {names[i] : i \in 1..Len(names)}
OnDisk  == <<Default>> \o sessionsXml
running == phase # "stopped"

\* Before the first start.
Init ==
  /\ m_sessions = <<Default>> /\ m_currentSessionIndex = 0
  /\ sessionsXml = <<>> /\ lastSessionIndex = 0
  /\ stored = [s \in Sessions |-> {}]
  /\ open = {}
  /\ phase = "stopped" /\ target = Exit /\ asked = 0
  /\ used = {} /\ ended = {} /\ starts = 0

-----------------------------------------------------------------------------
\* The constructor reads the list and, if the box "Restore Last Session" is
\* checked, the index; switchToSession() then loads that session, or none
\* and takes Default, whose contents are given up with the next save.
Start ==
  /\ phase = "stopped" /\ starts < MaxStarts
  /\ starts' = starts + 1
  /\ m_sessions' = OnDisk
  /\ \/ /\ m_currentSessionIndex' =
             IF lastSessionIndex \in 0..Len(sessionsXml) THEN lastSessionIndex ELSE 0
        /\ open' = stored[At(m_sessions', m_currentSessionIndex')] /\ ended' = ended
     \/ /\ m_currentSessionIndex' = 0 /\ open' = {}
        /\ ended' = ended \union stored[Default]
  /\ phase' = "idle"
  /\ UNCHANGED <<files, target, asked, used>>

\* A document is made and edited, or a connection opened.
Open(x) ==
  /\ phase = "idle" /\ x \in Items \ used
  /\ open' = open \union {x} /\ used' = used \union {x}
  /\ UNCHANGED <<list, files, dialog, ended, starts>>

\* The user saves the document in a file, discards it, or closes the
\* connection.
Close(x) ==
  /\ phase = "idle" /\ x \in open
  /\ open' = open \ {x} /\ ended' = ended \union {x}
  /\ UNCHANGED <<list, files, dialog, used, starts>>

\* onSessionNew: nothing is saved, closed or loaded.
OnSessionNew(s) ==
  /\ phase = "idle" /\ s \notin Listed(m_sessions)
  /\ m_sessions' = Append(m_sessions, s)
  /\ m_currentSessionIndex' = Len(m_sessions)
  /\ UNCHANGED <<files, open, dialog, history>>

\* Mutant: the index is not moved with the list.
IndexAfterDeletionUnmoved(i) == m_currentSessionIndex

IndexAfterDeletion(i) ==
  IF i < m_currentSessionIndex THEN m_currentSessionIndex - 1 ELSE m_currentSessionIndex

\* onSessionDelete: the directory of the session goes too.
DeleteSession(i) ==
  /\ phase = "idle" /\ i \in 1..Len(m_sessions) - 1 /\ i # m_currentSessionIndex
  /\ m_sessions' = SubSeq(m_sessions, 1, i) \o SubSeq(m_sessions, i + 2, Len(m_sessions))
  /\ m_currentSessionIndex' = IndexAfterDeletion(i)
  /\ stored' = [stored EXCEPT ![At(m_sessions, i)] = {}]
  /\ ended' = ended \union (stored[At(m_sessions, i)] \ open)
  /\ UNCHANGED <<sessionsXml, lastSessionIndex, open, dialog, used, starts>>

-----------------------------------------------------------------------------
\* onSwitchToSession for another row, or closeEvent (Exit).
Request(i) ==
  /\ phase = "idle" /\ i \in {Exit} \union 0..Len(m_sessions) - 1 /\ i # m_currentSessionIndex
  /\ phase' = "asking" /\ target' = i /\ asked' = 0
  /\ UNCHANGED <<list, files, open, history>>

\* The next client agrees.  DocumentManager, which is the first, asks about
\* new documents only when the application closes; one that is saved then
\* is not new any more.
Agree ==
  /\ phase = "asking" /\ asked < Clients
  /\ asked' = asked + 1
  /\ IF target = Exit /\ asked = 0
     THEN /\ \E written \in SUBSET (open \intersect Texts) : open' = open \ written
          /\ ended' = ended \union (open \intersect Texts)
     ELSE UNCHANGED <<open, ended>>
  /\ UNCHANGED <<list, files, phase, target, used, starts>>

\* It does not, and no other is asked.
Refuse ==
  /\ phase = "asking" /\ asked < Clients
  /\ phase' = "idle" /\ target' = Exit /\ asked' = 0
  /\ UNCHANGED <<list, files, open, history>>

\* Mutant: the session is saved when all is closed.
SavedNothing(lost) == {}

\* What saveSession of the clients leaves in the directory.
Saved(lost) == open \ lost

\* A new document the disk does not take is given up.
SaveCurrentSession ==
  /\ phase = "asking" /\ asked = Clients
  /\ \E lost \in SUBSET (open \intersect Texts) :
       /\ stored' = [stored EXCEPT ![Current] = Saved(lost)]
       /\ ended' = ended \union lost
  /\ phase' = "closing"
  /\ UNCHANGED <<list, sessionsXml, lastSessionIndex, open, target, asked, used, starts>>

\* sessionClose of all clients, after which the other session is current.
\* DocumentManager closes by force; DbManager stops at a connection that
\* refuses, see DbManager.
SessionClose ==
  /\ phase = "closing" /\ target # Exit
  /\ open' \in SUBSET (open \intersect Connections)
  /\ m_currentSessionIndex' = target
  /\ phase' = "loading"
  /\ UNCHANGED <<m_sessions, files, target, asked, history>>

\* Mutant: what is open takes the place of what was stored.
LoadedNothing(s) == {}

\* loadSession of the clients adds to what is open.
Loaded(s) == stored[s]

LoadSession ==
  /\ phase = "loading"
  /\ open' = open \union Loaded(Current)
  /\ phase' = "idle" /\ target' = Exit /\ asked' = 0
  /\ UNCHANGED <<list, files, history>>

\* applicationClose, and ~SessionManager.
ApplicationClose ==
  /\ phase = "closing" /\ target = Exit
  /\ open' = {}
  /\ sessionsXml' = Tail(m_sessions) /\ lastSessionIndex' = m_currentSessionIndex
  /\ phase' = "stopped" /\ asked' = 0
  /\ UNCHANGED <<list, stored, target, used, ended, starts>>

\* What is in a session the written list does not have.
Unlisted == UNION {stored[s] : s \in Listed(m_sessions) \ Listed(OnDisk)}

\* Whenever the program ends otherwise, nothing more is written: what is in
\* no directory yet is lost, and so is a session made since the start.
Crash ==
  /\ running
  /\ ended' = ended \union Unlisted \union
              (IF phase = "closing" THEN {} ELSE open \ stored[Current])
  /\ open' = {}
  /\ phase' = "stopped" /\ target' = Exit /\ asked' = 0
  /\ UNCHANGED <<list, files, used, starts>>

Next == \/ Start \/ Agree \/ Refuse \/ SaveCurrentSession \/ SessionClose \/ LoadSession
        \/ ApplicationClose \/ Crash
        \/ \E x \in Items : Open(x) \/ Close(x)
        \/ \E s \in Sessions : OnSessionNew(s)
        \/ \E i \in 0..Len(m_sessions) : DeleteSession(i) \/ Request(i)
        \/ Request(Exit)

Spec == Init /\ [][Next]_vars

-----------------------------------------------------------------------------
(***************************************************************************)
(* Properties.                                                             *)
(***************************************************************************)

\* The index is an index of the list, as switchToSession asserts, through
\* deletions and starts; the files name a session of theirs.
TypeOK ==
  /\ m_sessions \in Seq(Sessions) /\ m_sessions # <<>>
  /\ m_currentSessionIndex \in 0..Len(m_sessions) - 1
  /\ sessionsXml \in Seq(Sessions) /\ lastSessionIndex \in 0..Len(sessionsXml)
  /\ stored \in [Sessions -> SUBSET Items]
  /\ open \in SUBSET Items
  /\ phase \in {"stopped", "idle", "asking", "closing", "loading"}
  /\ target \in {Exit} \union 0..Len(m_sessions) - 1
  /\ asked \in 0..Clients
  /\ used \in SUBSET Items /\ ended \in SUBSET Items
  /\ starts \in 0..MaxStarts

\* The text of a new document exists only in the editor and, when sessions
\* are switched, in a session's directory, and the user is not asked: until
\* it is ended, it is open or in a session that can be opened.  It is given
\* up unasked only by a disk that does not take it, a crash, and a start
\* that does not restore.
NewTextsKept ==
  \A t \in (used \intersect Texts) \ ended :
    t \in open \/ \E s \in Listed(IF running THEN m_sessions ELSE OnDisk) : t \in stored[s]

-----------------------------------------------------------------------------
\* The steps of a switch or an end seen as one: between save and close what
\* is open is what is stored, and between close and load the next session is
\* open already.
store == INSTANCE SessionStore WITH
  on      <- running,
  listed  <- Listed(IF running THEN m_sessions ELSE OnDisk),
  current <- IF running THEN Current ELSE At(OnDisk, lastSessionIndex),
  listedOnDisk <- Listed(OnDisk), currentOnDisk <- At(OnDisk, lastSessionIndex),
  saved   <- stored,
  open    <- IF phase = "closing" THEN stored[Current]
             ELSE open \union (IF phase = "loading" THEN stored[Current] ELSE {})

\* However many clients are asked, refuse, save, close and load, and whenever
\* the program ends, sessions do what SessionStore says.
ImplementsStore == store!Spec
=============================================================================
