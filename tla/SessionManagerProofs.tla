------------------------ MODULE SessionManagerProofs ------------------------
(***************************************************************************)
(* Proofs about SessionManager: the types, with the range of the index, and*)
(* that it implements SessionStore.                                        *)
(***************************************************************************)
EXTENDS SessionManager, TLAPS

-----------------------------------------------------------------------------
(* The list of names: appending, and taking away all but one name.          *)

Different(names) == \A i, j \in 1..Len(names) : names[i] = names[j] => i = j

TakenAway(names, i) == SubSeq(names, 1, i) \o SubSeq(names, i + 2, Len(names))

\* A name is appended (OnSessionNew).
LEMMA Appended ==
  ASSUME NEW names \in Seq(Sessions), NEW s \in Sessions \ Listed(names), Different(names)
  PROVE  /\ Append(names, s) \in Seq(Sessions)
         /\ Len(Append(names, s)) = Len(names) + 1
         /\ \A k \in 1..Len(names) : Append(names, s)[k] = names[k]
         /\ Append(names, s)[Len(names) + 1] = s
         /\ Different(Append(names, s))
         /\ Listed(Append(names, s)) = Listed(names) \union {s}
<1> DEFINE q == Append(names, s)
<1>1. /\ q \in Seq(Sessions) /\ Len(q) = Len(names) + 1
      /\ \A k \in 1..Len(names) : q[k] = names[k]
      /\ q[Len(names) + 1] = s
  OBVIOUS
<1>2. \A k \in 1..Len(names) : names[k] # s
  BY DEF Listed
<1>3. Different(q)
  <2> SUFFICES ASSUME NEW i \in 1..Len(q), NEW j \in 1..Len(q), q[i] = q[j]
               PROVE  i = j
    BY DEF Different
  <2> QED BY <1>1, <1>2 DEF Different
<1>4. Listed(q) \subseteq Listed(names) \union {s}
  <2> SUFFICES ASSUME NEW k \in 1..Len(q) PROVE q[k] \in Listed(names) \union {s}
    BY DEF Listed
  <2>1. CASE k = Len(names) + 1
    BY <2>1, <1>1
  <2>2. CASE k \in 1..Len(names)
    BY <2>2, <1>1 DEF Listed
  <2> QED BY <2>1, <2>2, <1>1
<1>5. Listed(names) \subseteq Listed(q)
  <2> SUFFICES ASSUME NEW k \in 1..Len(names) PROVE names[k] \in Listed(q)
    BY DEF Listed
  <2>1. q[k] = names[k] /\ k \in 1..Len(q)
    BY <1>1
  <2> QED BY <2>1 DEF Listed
<1>6. s \in Listed(q)
  <2>1. Len(names) + 1 \in 1..Len(q)
    BY <1>1
  <2> QED BY <2>1, <1>1 DEF Listed
<1> QED BY <1>1, <1>3, <1>4, <1>5, <1>6

\* A name is taken away (DeleteSession).
LEMMA Removed ==
  ASSUME NEW names \in Seq(Sessions), NEW i \in 1..Len(names) - 1, Different(names)
  PROVE  /\ TakenAway(names, i) \in Seq(Sessions)
         /\ Len(TakenAway(names, i)) = Len(names) - 1
         /\ \A k \in 1..Len(names) - 1 :
              TakenAway(names, i)[k] = IF k <= i THEN names[k] ELSE names[k + 1]
         /\ Different(TakenAway(names, i))
         /\ Listed(TakenAway(names, i)) = Listed(names) \ {names[i + 1]}
<1> DEFINE q == TakenAway(names, i)
<1>1. q \in Seq(Sessions) /\ Len(q) = Len(names) - 1
  BY DEF TakenAway
<1>2. \A k \in 1..Len(names) - 1 : q[k] = IF k <= i THEN names[k] ELSE names[k + 1]
  BY DEF TakenAway
<1> HIDE DEF q
<1>3. Different(q)
  <2> SUFFICES ASSUME NEW k \in 1..Len(q), NEW l \in 1..Len(q), q[k] = q[l]
               PROVE  k = l
    BY DEF Different
  <2>1. k \in 1..Len(names) - 1 /\ l \in 1..Len(names) - 1
    BY <1>1
  <2> QED BY <2>1, <1>2 DEF Different
<1>4. Listed(q) \subseteq Listed(names) \ {names[i + 1]}
  <2> SUFFICES ASSUME NEW k \in 1..Len(q) PROVE q[k] \in Listed(names) /\ q[k] # names[i + 1]
    BY DEF Listed
  <2>1. k \in 1..Len(names) - 1
    BY <1>1
  <2>2. CASE k <= i
    <3>1. q[k] = names[k] /\ k \in 1..Len(names) /\ i + 1 \in 1..Len(names) /\ k # i + 1
      BY <2>1, <2>2, <1>2
    <3> QED BY <3>1 DEF Listed, Different
  <2>3. CASE ~(k <= i)
    <3>1. q[k] = names[k + 1] /\ k + 1 \in 1..Len(names) /\ i + 1 \in 1..Len(names) /\ k + 1 # i + 1
      BY <2>1, <2>3, <1>2
    <3> QED BY <3>1 DEF Listed, Different
  <2> QED BY <2>2, <2>3
<1>5. Listed(names) \ {names[i + 1]} \subseteq Listed(q)
  <2> SUFFICES ASSUME NEW k \in 1..Len(names), names[k] # names[i + 1] PROVE names[k] \in Listed(q)
    BY DEF Listed
  <2>1. CASE k <= i
    <3>1. k \in 1..Len(q) /\ q[k] = names[k]
      BY <2>1, <1>1, <1>2
    <3> QED BY <3>1 DEF Listed
  <2>2. CASE k > i
    <3>1. k - 1 \in 1..Len(q) /\ q[k - 1] = names[k]
      BY <2>2, <1>1, <1>2
    <3> QED BY <3>1 DEF Listed
  <2> QED BY <2>1, <2>2
<1>6. Listed(q) = Listed(names) \ {names[i + 1]}
  BY <1>4, <1>5
<1> QED BY <1>1, <1>2, <1>3, <1>6 DEF q

\* The list read at the next start is the list written (loadSessions,
\* saveSessions).
LEMMA ReadIsWritten ==
  ASSUME NEW names \in Seq(Sessions), names # <<>>, names[1] = Default
  PROVE  Tail(names) \in Seq(Sessions) /\ <<Default>> \o Tail(names) = names
<1> DEFINE q == <<Default>> \o Tail(names)
<1>1. Tail(names) \in Seq(Sessions) /\ Len(Tail(names)) = Len(names) - 1 /\ Len(names) >= 1
  OBVIOUS
<1>2. q \in Seq(Sessions) /\ Len(q) = Len(names)
  BY <1>1, NamesAssumption
<1>3. \A k \in 1..Len(names) : q[k] = names[k]
  BY <1>1
<1> HIDE DEF q
<1>4. q = names
  BY <1>2, <1>3
<1> QED BY <1>1, <1>4 DEF q

-----------------------------------------------------------------------------
(***************************************************************************)
(* The inductive invariant.  The index stays in range because the current  *)
(* session is never deleted; the target because the list does not change   *)
(* while clients are asked; that names differ is what makes "delete        *)
(* another session" the same for names as for indices; and a connection    *)
(* that does not close in time is stored already.                          *)
(***************************************************************************)
NamesOK == Different(m_sessions) /\ Different(OnDisk) /\ m_sessions[1] = Default

NoTarget == phase \in {"stopped", "idle"} => target = Exit

ConnectionsSaved == phase = "closing" => open \intersect Connections \subseteq stored[Current]

IInv == TypeOK /\ NamesOK /\ NoTarget /\ ConnectionsSaved

LEMMA InitIInv == Init => IInv
<1> SUFFICES ASSUME Init PROVE IInv
  OBVIOUS
<1>1. m_sessions \in Seq(Sessions) /\ m_sessions # <<>> /\ Len(m_sessions) = 1 /\ m_sessions[1] = Default
  BY NamesAssumption DEF Init
<1>2. sessionsXml \in Seq(Sessions) /\ Len(sessionsXml) = 0
  BY DEF Init
<1>3. OnDisk \in Seq(Sessions) /\ Len(OnDisk) = 1
  BY <1>2, NamesAssumption DEF OnDisk
<1>4. TypeOK
  BY <1>1, <1>2, NamesAssumption, ClientsAssumption, BoundAssumption DEF Init, TypeOK, Exit
<1> QED BY <1>1, <1>3, <1>4 DEF IInv, NamesOK, NoTarget, ConnectionsSaved, Different, Init

\* What a crash gives up are items.
LEMMA UnlistedItems ==
  ASSUME TypeOK PROVE Unlisted \subseteq Items
<1> SUFFICES ASSUME NEW s \in Listed(m_sessions) PROVE stored[s] \subseteq Items
  BY DEF Unlisted
<1>1. s \in Sessions
  BY DEF TypeOK, Listed
<1> QED BY <1>1 DEF TypeOK

LEMMA NextIInv == IInv /\ [Next]_vars => IInv'
<1> SUFFICES ASSUME IInv, [Next]_vars PROVE IInv'
  OBVIOUS
<1> USE NamesAssumption, ClientsAssumption, BoundAssumption
<1>t. /\ m_sessions \in Seq(Sessions) /\ m_sessions # <<>> /\ Len(m_sessions) \in Nat \ {0}
      /\ m_currentSessionIndex \in 0..Len(m_sessions) - 1 /\ Current \in Sessions
      /\ sessionsXml \in Seq(Sessions) /\ lastSessionIndex \in 0..Len(sessionsXml)
      /\ stored \in [Sessions -> SUBSET Items] /\ open \in SUBSET Items
      /\ target \in {Exit} \union 0..Len(m_sessions) - 1
      /\ asked \in 0..Clients /\ used \in SUBSET Items /\ ended \in SUBSET Items
      /\ starts \in 0..MaxStarts
  BY DEF IInv, TypeOK, Current, At
<1>d. /\ OnDisk \in Seq(Sessions) /\ Len(OnDisk) = Len(sessionsXml) + 1
      /\ OnDisk[1] = Default /\ OnDisk # <<>>
  BY <1>t DEF OnDisk
<1>f. ASSUME UNCHANGED sessionsXml PROVE OnDisk' = OnDisk
  BY <1>f DEF OnDisk
<1>c. ASSUME UNCHANGED list PROVE Current' = Current
  BY <1>c DEF list, Current
<1>1. CASE Start
  <2>1. /\ m_sessions' = OnDisk /\ UNCHANGED sessionsXml /\ OnDisk' = OnDisk
        /\ m_currentSessionIndex' \in 0..Len(sessionsXml)
    BY <1>1, <1>t, <1>f DEF Start, files
  <2>2. OnDisk[m_currentSessionIndex' + 1] \in Sessions
    <3>1. m_currentSessionIndex' + 1 \in 1..Len(OnDisk)
      <4>1. m_currentSessionIndex' \in 0..Len(sessionsXml) /\ Len(OnDisk) = Len(sessionsXml) + 1
        BY <2>1, <1>d
      <4>2. Len(sessionsXml) \in Nat
        BY <1>t
      <4>3. \A n \in Nat : \A k \in 0..n : k + 1 \in 1..n + 1
        OBVIOUS
      <4> QED BY <4>1, <4>2, <4>3, Zenon
    <3> QED BY <3>1, <1>d
  <2>3. open' \in SUBSET Items /\ ended' \in SUBSET Items
    BY <1>1, <1>t, <2>1, <2>2 DEF Start, At
  <2>4. TypeOK'
    BY <1>1, <1>t, <1>d, <2>1, <2>3 DEF Start, TypeOK, files, IInv, NoTarget
  <2> QED BY <1>1, <2>1, <2>4, <1>d DEF IInv, NamesOK, NoTarget, ConnectionsSaved, Start
<1>2. CASE Agree
  <2>1. open' \in SUBSET Items /\ ended' \in SUBSET Items
    BY <1>2, <1>t DEF Agree
  <2> QED BY <1>2, <1>t, <1>f, <2>1 DEF Agree, IInv, TypeOK, NamesOK, NoTarget, ConnectionsSaved, list, files
<1>3. CASE Refuse
  BY <1>3, <1>t, <1>f DEF Refuse, IInv, TypeOK, NamesOK, NoTarget, ConnectionsSaved, list, files, history, Exit
<1>4. CASE SaveCurrentSession
  <2>1. PICK lost \in SUBSET (open \intersect Texts) :
          /\ stored' = [stored EXCEPT ![Current] = open \ lost]
          /\ ended' = ended \union lost
    BY <1>4 DEF SaveCurrentSession, Saved
  <2>2. stored' \in [Sessions -> SUBSET Items] /\ ended' \in SUBSET Items
    BY <2>1, <1>t DEF Items
  <2>3. Current' = Current /\ stored'[Current] = open \ lost
    BY <1>4, <1>t, <2>1, <1>c DEF SaveCurrentSession
  <2>4. open \intersect Connections \subseteq open \ lost
    BY <2>1, ItemsAssumption
  <2> QED BY <1>4, <1>t, <1>f, <2>2, <2>3, <2>4
          DEF SaveCurrentSession, IInv, TypeOK, NamesOK, NoTarget, ConnectionsSaved, list
<1>5. CASE SessionClose
  <2>1. open' \in SUBSET Items
    BY <1>5, <1>t DEF SessionClose
  <2> QED BY <1>5, <1>t, <1>f, <2>1
          DEF SessionClose, IInv, TypeOK, NamesOK, NoTarget, ConnectionsSaved, files, history, Exit
<1>6. CASE LoadSession
  <2>1. open' \in SUBSET Items
    BY <1>6, <1>t DEF LoadSession, Loaded
  <2> QED BY <1>6, <1>t, <1>f, <2>1
          DEF LoadSession, IInv, TypeOK, NamesOK, NoTarget, ConnectionsSaved, list, files, history, Exit
<1>7. CASE ApplicationClose
  <2>1. sessionsXml' = Tail(m_sessions) /\ sessionsXml' \in Seq(Sessions) /\ OnDisk' = m_sessions
    BY <1>7, <1>t, ReadIsWritten DEF ApplicationClose, OnDisk, IInv, NamesOK
  <2>2. lastSessionIndex' \in 0..Len(sessionsXml')
    BY <1>7, <1>t, <2>1 DEF ApplicationClose
  <2> QED BY <1>7, <1>t, <2>1, <2>2
          DEF ApplicationClose, IInv, TypeOK, NamesOK, NoTarget, ConnectionsSaved, list, Exit
<1>8. CASE Crash
  <2>1. ended' \in SUBSET Items
    BY <1>8, <1>t, UnlistedItems DEF Crash, IInv
  <2>2. TypeOK'
    BY <1>8, <1>t, <2>1 DEF Crash, IInv, TypeOK, list, files, Exit
  <2>3. NamesOK' /\ NoTarget' /\ ConnectionsSaved'
    BY <1>8, <1>f DEF Crash, IInv, NamesOK, NoTarget, ConnectionsSaved, list, files
  <2> QED BY <2>2, <2>3 DEF IInv
<1>9. ASSUME NEW x \in Items, Open(x) PROVE IInv'
  BY <1>9, <1>t, <1>f DEF Open, IInv, TypeOK, NamesOK, NoTarget, ConnectionsSaved, list, files, dialog
<1>10. ASSUME NEW x \in Items, Close(x) PROVE IInv'
  BY <1>10, <1>t, <1>f DEF Close, IInv, TypeOK, NamesOK, NoTarget, ConnectionsSaved, list, files, dialog
<1>11. ASSUME NEW s \in Sessions, OnSessionNew(s) PROVE IInv'
  <2>1. /\ m_sessions' \in Seq(Sessions) /\ Len(m_sessions') = Len(m_sessions) + 1
        /\ m_sessions'[1] = Default /\ Different(m_sessions') /\ m_sessions' # <<>>
        /\ m_currentSessionIndex' = Len(m_sessions)
    BY <1>11, <1>t, Appended DEF OnSessionNew, IInv, NamesOK
  <2> QED BY <1>11, <1>t, <1>f, <2>1
          DEF OnSessionNew, IInv, TypeOK, NamesOK, NoTarget, ConnectionsSaved, files, dialog, history
<1>12. ASSUME NEW i \in 0..Len(m_sessions), DeleteSession(i) PROVE IInv'
  <2>1. i \in 1..Len(m_sessions) - 1 /\ i # m_currentSessionIndex /\ target = Exit
    BY <1>12 DEF DeleteSession, IInv, NoTarget
  <2>2. /\ m_sessions' \in Seq(Sessions) /\ Len(m_sessions') = Len(m_sessions) - 1
        /\ m_sessions'[1] = Default /\ Different(m_sessions') /\ m_sessions' # <<>>
    <3>1. m_sessions' = TakenAway(m_sessions, i)
      BY <1>12 DEF DeleteSession, TakenAway
    <3>2. Different(m_sessions) /\ m_sessions[1] = Default
      BY DEF IInv, NamesOK
    <3>3. /\ TakenAway(m_sessions, i) \in Seq(Sessions)
          /\ Len(TakenAway(m_sessions, i)) = Len(m_sessions) - 1
          /\ \A k \in 1..Len(m_sessions) - 1 :
               TakenAway(m_sessions, i)[k] = IF k <= i THEN m_sessions[k] ELSE m_sessions[k + 1]
          /\ Different(TakenAway(m_sessions, i))
      BY <1>t, <2>1, <3>2, Removed, Zenon
    <3>4. 1 \in 1..Len(m_sessions) - 1 /\ 1 <= i
      BY <1>t, <2>1
    <3>5. TakenAway(m_sessions, i)[1] = m_sessions[1]
      BY <3>3, <3>4
    <3> QED BY <1>t, <3>1, <3>2, <3>3, <3>4, <3>5
  <2>3. m_currentSessionIndex' \in 0..Len(m_sessions') - 1
    BY <1>12, <1>t, <2>1, <2>2 DEF DeleteSession, IndexAfterDeletion
  <2>4. At(m_sessions, i) \in Sessions
    BY <1>t, <2>1 DEF At
  <2>5. stored' \in [Sessions -> SUBSET Items] /\ ended' \in SUBSET Items
    BY <1>12, <1>t, <2>4 DEF DeleteSession
  <2> QED BY <1>12, <1>t, <1>f, <2>1, <2>2, <2>3, <2>5
          DEF DeleteSession, IInv, TypeOK, NamesOK, NoTarget, ConnectionsSaved, dialog
<1>13. ASSUME NEW i \in {Exit} \union 0..Len(m_sessions), Request(i) PROVE IInv'
  BY <1>13, <1>t, <1>f DEF Request, IInv, TypeOK, NamesOK, NoTarget, ConnectionsSaved, list, files, history
<1>14. CASE UNCHANGED vars
  BY <1>14, <1>f, <1>c DEF list, IInv, TypeOK, NamesOK, NoTarget, ConnectionsSaved, vars
<1> QED BY <1>1, <1>2, <1>3, <1>4, <1>5, <1>6, <1>7, <1>8, <1>9, <1>10, <1>11, <1>12, <1>13,
           <1>14 DEF Next

\* The types; above all, the index is an index of the list after any
\* sequence of new, deleted and switched sessions, starts and crashes.
THEOREM SessionTypes == Spec => []TypeOK
<1>1. IInv => TypeOK
  BY DEF IInv
<1> QED BY InitIInv, NextIInv, <1>1, PTL DEF Spec

-----------------------------------------------------------------------------
(***************************************************************************)
(* The text of a new document is not lost.  A save writes over what the    *)
(* session's directory held, so what is there must be open or given up     *)
(* (CurrentIsOpen); a new session may have the name of one that a crash    *)
(* has taken from the list, so what it still holds must be given up        *)
(* (UnlistedEnded); and clients close what has been saved (TextsSaved).    *)
(***************************************************************************)
ListedNow == Listed(IF running THEN m_sessions ELSE OnDisk)

UnlistedEnded == \A s \in Sessions \ ListedNow : stored[s] \intersect Texts \subseteq ended

CurrentIsOpen ==
  phase \in {"idle", "asking"} => stored[Current] \intersect Texts \subseteq open \union ended

TextsSaved == phase = "closing" => open \intersect Texts \subseteq stored[Current] \union ended

StoppedIsEmpty == phase = "stopped" => open = {}

TextsInv == NewTextsKept /\ UnlistedEnded /\ CurrentIsOpen /\ TextsSaved /\ StoppedIsEmpty

LEMMA InitTextsInv == Init => TextsInv
<1> SUFFICES ASSUME Init PROVE TextsInv
  OBVIOUS
<1>1. used = {} /\ phase = "stopped" /\ \A s \in Sessions : stored[s] = {}
  BY DEF Init
<1> QED BY <1>1 DEF Init, TextsInv, NewTextsKept, UnlistedEnded, CurrentIsOpen, TextsSaved, StoppedIsEmpty

\* As long as the list and the directories stay, opening, closing, asking
\* and giving up keep the invariant.
LEMMA ItemsChange ==
  ASSUME TextsInv, UNCHANGED <<list, files>>, phase \in {"idle", "asking"}, phase' \in {"idle", "asking"},
         used' \subseteq used \union open', ended \subseteq ended', open \subseteq open' \union ended'
  PROVE  TextsInv'
<1>1. Current' = Current /\ ListedNow' = ListedNow /\ running' = running
      /\ m_sessions' = m_sessions /\ OnDisk' = OnDisk /\ stored' = stored
  BY DEF Current, ListedNow, running, OnDisk, list, files
<1>2. NewTextsKept'
  <2> SUFFICES ASSUME NEW t \in (used' \intersect Texts) \ ended', t \notin open'
               PROVE  \E s \in ListedNow : t \in stored[s]
    BY <1>1 DEF NewTextsKept, ListedNow
  <2>1. t \in (used \intersect Texts) \ ended /\ t \notin open
    OBVIOUS
  <2> QED BY <2>1 DEF TextsInv, NewTextsKept, ListedNow
<1>3. UnlistedEnded' /\ CurrentIsOpen' /\ TextsSaved' /\ StoppedIsEmpty'
  BY <1>1 DEF TextsInv, UnlistedEnded, CurrentIsOpen, TextsSaved, StoppedIsEmpty
<1> QED BY <1>2, <1>3 DEF TextsInv

LEMMA NextTextsInv == IInv /\ TextsInv /\ [Next]_vars => TextsInv'
<1> SUFFICES ASSUME IInv, TextsInv, [Next]_vars PROVE TextsInv'
  OBVIOUS
<1>t. /\ m_sessions \in Seq(Sessions) /\ Len(m_sessions) \in Nat \ {0}
      /\ m_currentSessionIndex \in 0..Len(m_sessions) - 1
      /\ Current \in Sessions /\ Current \in Listed(m_sessions)
      /\ sessionsXml \in Seq(Sessions) /\ lastSessionIndex \in 0..Len(sessionsXml)
      /\ stored \in [Sessions -> SUBSET Items]
      /\ OnDisk \in Seq(Sessions) /\ Different(m_sessions)
      /\ \A s \in Listed(m_sessions) : s \in Sessions
  BY NamesAssumption DEF IInv, TypeOK, NamesOK, Current, At, Listed, OnDisk
<1>k. \A t \in (used \intersect Texts) \ ended : t \in open \/ \E s \in ListedNow : t \in stored[s]
  BY DEF TextsInv, NewTextsKept, ListedNow
<1> USE DEF TextsInv
<1>1. CASE Start
  <2>1. /\ phase = "stopped" /\ phase' = "idle" /\ m_sessions' = OnDisk /\ OnDisk' = OnDisk
        /\ stored' = stored /\ used' = used
    BY <1>1 DEF Start, files, OnDisk
  <2>2. ListedNow' = ListedNow
    BY <2>1 DEF ListedNow, running
  <2>3. ended \subseteq ended'
    BY <1>1 DEF Start
  <2>4. stored[Current'] \subseteq open' \union ended'
    <3>1. CASE /\ open' = stored[At(m_sessions', m_currentSessionIndex')]
      BY <3>1 DEF Current
    <3>2. CASE m_currentSessionIndex' = 0 /\ ended' = ended \union stored[Default]
      <4>1. OnDisk[1] = Default
        BY <1>t, NamesAssumption DEF OnDisk
      <4> QED BY <2>1, <3>2, <4>1 DEF Current, At
    <3> QED BY <1>1, <3>1, <3>2 DEF Start
  <2>5. NewTextsKept'
    <3> SUFFICES ASSUME NEW t \in (used' \intersect Texts) \ ended', t \notin open'
                 PROVE  \E s \in ListedNow' : t \in stored'[s]
      BY DEF NewTextsKept, ListedNow
    <3>1. t \in (used \intersect Texts) \ ended
      BY <2>1, <2>3
    <3>2. CASE t \in open
      BY <2>1, <3>2 DEF StoppedIsEmpty
    <3> QED BY <1>k, <2>1, <2>2, <3>1, <3>2
  <2>6. UnlistedEnded' /\ CurrentIsOpen' /\ TextsSaved' /\ StoppedIsEmpty'
    BY <2>1, <2>2, <2>3, <2>4 DEF UnlistedEnded, CurrentIsOpen, TextsSaved, StoppedIsEmpty
  <2> QED BY <2>5, <2>6
<1>2. CASE Agree \/ Refuse
  <2>1. /\ phase = "asking" /\ phase' \in {"idle", "asking"} /\ UNCHANGED <<list, files, used>>
        /\ ended \subseteq ended' /\ open \subseteq open' \union ended'
    BY <1>2, <1>t DEF Agree, Refuse, history
  <2> QED BY <2>1, ItemsChange
<1>3. ASSUME NEW x \in Items, Open(x) \/ Close(x) PROVE TextsInv'
  <2>1. /\ phase = "idle" /\ phase' = "idle" /\ UNCHANGED <<list, files>>
        /\ ended \subseteq ended' /\ open \subseteq open' \union ended'
        /\ used' \subseteq used \union open'
    BY <1>3 DEF Open, Close, dialog
  <2> QED BY <2>1, ItemsChange
<1>4. ASSUME NEW i, Request(i) PROVE TextsInv'
  <2>1. /\ phase = "idle" /\ phase' = "asking" /\ UNCHANGED <<list, files, open, used, ended>>
    BY <1>4 DEF Request, history
  <2> QED BY <2>1, ItemsChange
<1>5. CASE SaveCurrentSession
  <2>1. PICK lost \in SUBSET (open \intersect Texts) :
          /\ stored' = [stored EXCEPT ![Current] = open \ lost]
          /\ ended' = ended \union lost
    BY <1>5 DEF SaveCurrentSession, Saved
  <2>2. /\ phase = "asking" /\ phase' = "closing" /\ open' = open /\ used' = used
        /\ Current' = Current /\ m_sessions' = m_sessions
    BY <1>5 DEF SaveCurrentSession, list, Current
  <2>3. ListedNow = Listed(m_sessions) /\ ListedNow' = Listed(m_sessions)
    BY <2>2 DEF ListedNow, running
  <2>4. /\ \A s \in Sessions \ {Current} : stored'[s] = stored[s]
        /\ stored'[Current] = open \ lost
    BY <1>t, <2>1
  <2>5. NewTextsKept'
    <3> SUFFICES ASSUME NEW t \in (used' \intersect Texts) \ ended', t \notin open'
                 PROVE  \E s \in ListedNow' : t \in stored'[s]
      BY DEF NewTextsKept, ListedNow
    <3>1. t \in (used \intersect Texts) \ ended /\ t \notin open
      BY <2>1, <2>2
    <3>2. PICK s \in Listed(m_sessions) : t \in stored[s]
      BY <1>k, <2>3, <3>1
    <3>3. s # Current
      BY <2>2, <3>1, <3>2 DEF CurrentIsOpen
    <3> QED BY <1>t, <2>3, <2>4, <3>2, <3>3
  <2>6. UnlistedEnded'
    BY <1>t, <2>1, <2>3, <2>4 DEF UnlistedEnded
  <2>7. CurrentIsOpen' /\ TextsSaved' /\ StoppedIsEmpty'
    BY <2>1, <2>2, <2>4 DEF CurrentIsOpen, TextsSaved, StoppedIsEmpty
  <2> QED BY <2>5, <2>6, <2>7
<1>6. CASE SessionClose
  <2>1. /\ phase = "closing" /\ phase' = "loading" /\ m_sessions' = m_sessions
        /\ stored' = stored /\ used' = used /\ ended' = ended
    BY <1>6 DEF SessionClose, files, history
  <2>2. ListedNow = Listed(m_sessions) /\ ListedNow' = Listed(m_sessions)
    BY <2>1 DEF ListedNow, running
  <2>3. NewTextsKept'
    <3> SUFFICES ASSUME NEW t \in (used \intersect Texts) \ ended
                 PROVE  \E s \in ListedNow' : t \in stored[s]
      BY <2>1 DEF NewTextsKept, ListedNow
    <3>1. CASE t \in open
      BY <1>t, <2>1, <2>2, <3>1 DEF TextsSaved
    <3> QED BY <1>k, <2>2, <3>1
  <2>4. UnlistedEnded' /\ CurrentIsOpen' /\ TextsSaved' /\ StoppedIsEmpty'
    BY <2>1, <2>2 DEF UnlistedEnded, CurrentIsOpen, TextsSaved, StoppedIsEmpty
  <2> QED BY <2>3, <2>4
<1>7. CASE LoadSession
  <2>1. /\ phase = "loading" /\ phase' = "idle" /\ m_sessions' = m_sessions /\ Current' = Current
        /\ stored' = stored /\ used' = used /\ ended' = ended /\ open' = open \union stored[Current]
    BY <1>7 DEF LoadSession, Loaded, list, files, history, Current
  <2>2. ListedNow = Listed(m_sessions) /\ ListedNow' = Listed(m_sessions)
    BY <2>1 DEF ListedNow, running
  <2>3. NewTextsKept'
    <3> SUFFICES ASSUME NEW t \in (used \intersect Texts) \ ended, t \notin open'
                 PROVE  \E s \in ListedNow' : t \in stored[s]
      BY <2>1 DEF NewTextsKept, ListedNow
    <3> QED BY <1>k, <2>1, <2>2
  <2>4. UnlistedEnded' /\ CurrentIsOpen' /\ TextsSaved' /\ StoppedIsEmpty'
    BY <2>1, <2>2 DEF UnlistedEnded, CurrentIsOpen, TextsSaved, StoppedIsEmpty
  <2> QED BY <2>3, <2>4
<1>8. CASE ApplicationClose
  <2>1. /\ phase = "closing" /\ phase' = "stopped" /\ open' = {}
        /\ stored' = stored /\ used' = used /\ ended' = ended
    BY <1>8 DEF ApplicationClose
  <2>2. OnDisk' = m_sessions
    BY <1>8, <1>t, ReadIsWritten DEF ApplicationClose, OnDisk, IInv, TypeOK, NamesOK
  <2>3. ListedNow = Listed(m_sessions) /\ ListedNow' = Listed(m_sessions)
    BY <2>1, <2>2 DEF ListedNow, running
  <2>4. NewTextsKept'
    <3> SUFFICES ASSUME NEW t \in (used \intersect Texts) \ ended
                 PROVE  \E s \in ListedNow' : t \in stored[s]
      BY <2>1 DEF NewTextsKept, ListedNow
    <3>1. CASE t \in open
      BY <1>t, <2>1, <2>3, <3>1 DEF TextsSaved
    <3> QED BY <1>k, <2>3, <3>1
  <2>5. UnlistedEnded' /\ CurrentIsOpen' /\ TextsSaved' /\ StoppedIsEmpty'
    BY <2>1, <2>3 DEF UnlistedEnded, CurrentIsOpen, TextsSaved, StoppedIsEmpty
  <2> QED BY <2>4, <2>5
<1>9. CASE Crash
  <2>1. /\ running /\ phase' = "stopped" /\ open' = {} /\ OnDisk' = OnDisk
        /\ stored' = stored /\ used' = used /\ ended \subseteq ended' /\ Unlisted \subseteq ended'
        /\ phase # "closing" => open \ stored[Current] \subseteq ended'
    BY <1>9 DEF Crash, files, OnDisk
  <2>2. ListedNow = Listed(m_sessions) /\ ListedNow' = Listed(OnDisk)
    BY <2>1 DEF ListedNow, running
  <2>3. \A s \in Listed(m_sessions) : s \in Listed(OnDisk) \/ stored[s] \subseteq ended'
    BY <2>1 DEF Unlisted
  <2>4. NewTextsKept'
    <3> SUFFICES ASSUME NEW t \in (used \intersect Texts) \ ended'
                 PROVE  \E s \in Listed(OnDisk) : t \in stored[s]
      BY <2>1, <2>2 DEF NewTextsKept, ListedNow
    <3>1. t \in (used \intersect Texts) \ ended
      BY <2>1
    <3>2. \E s \in Listed(m_sessions) : t \in stored[s]
      <4>1. CASE t \in open
        <5>1. t \in stored[Current]
          BY <2>1, <3>1, <4>1 DEF TextsSaved
        <5> QED BY <1>t, <5>1
      <4> QED BY <1>k, <2>2, <3>1, <4>1
    <3> QED BY <2>3, <3>2
  <2>5. UnlistedEnded'
    <3> SUFFICES ASSUME NEW s \in Sessions \ Listed(OnDisk)
                 PROVE  stored[s] \intersect Texts \subseteq ended'
      BY <2>1, <2>2 DEF UnlistedEnded
    <3>1. CASE s \in Listed(m_sessions)
      BY <2>3, <3>1
    <3>2. CASE s \notin Listed(m_sessions)
      BY <2>1, <2>2, <3>2 DEF UnlistedEnded
    <3> QED BY <3>1, <3>2
  <2>6. CurrentIsOpen' /\ TextsSaved' /\ StoppedIsEmpty'
    BY <2>1 DEF CurrentIsOpen, TextsSaved, StoppedIsEmpty
  <2> QED BY <2>4, <2>5, <2>6
<1>10. ASSUME NEW s \in Sessions, OnSessionNew(s) PROVE TextsInv'
  <2>1. /\ phase = "idle" /\ phase' = "idle" /\ s \notin Listed(m_sessions)
        /\ stored' = stored /\ open' = open /\ used' = used /\ ended' = ended
    BY <1>10 DEF OnSessionNew, files, dialog, history
  <2>2. /\ Listed(m_sessions') = Listed(m_sessions) \union {s}
        /\ m_sessions'[Len(m_sessions) + 1] = s
    BY <1>10, <1>t, <2>1, Appended DEF OnSessionNew
  <2>3. Current' = s
    BY <1>10, <2>2 DEF OnSessionNew, Current, At
  <2>4. ListedNow = Listed(m_sessions) /\ ListedNow' = Listed(m_sessions) \union {s}
    BY <2>1, <2>2 DEF ListedNow, running
  <2>5. NewTextsKept'
    BY <1>k, <2>1, <2>4 DEF NewTextsKept, ListedNow
  <2>6. UnlistedEnded' /\ TextsSaved' /\ StoppedIsEmpty'
    BY <2>1, <2>4 DEF UnlistedEnded, TextsSaved, StoppedIsEmpty
  <2>7. CurrentIsOpen'
    BY <2>1, <2>3, <2>4 DEF CurrentIsOpen, UnlistedEnded
  <2> QED BY <2>5, <2>6, <2>7
<1>11. ASSUME NEW i, DeleteSession(i) PROVE TextsInv'
  <2> DEFINE name == m_sessions[i + 1]
  <2>1. /\ i \in 1..Len(m_sessions) - 1 /\ i # m_currentSessionIndex
        /\ phase = "idle" /\ phase' = "idle"
        /\ stored' = [stored EXCEPT ![name] = {}] /\ open' = open /\ used' = used
        /\ ended' = ended \union (stored[name] \ open)
    BY <1>11 DEF DeleteSession, dialog, At
  <2>2. m_sessions' = TakenAway(m_sessions, i)
    BY <1>11 DEF DeleteSession, TakenAway
  <2>3. /\ Listed(m_sessions') = Listed(m_sessions) \ {name}
        /\ \A k \in 1..Len(m_sessions) - 1 :
             m_sessions'[k] = IF k <= i THEN m_sessions[k] ELSE m_sessions[k + 1]
    BY <1>t, <2>1, <2>2, Removed
  <2>4. name \in Sessions /\ name # Current
    BY <1>t, <2>1 DEF Different, Current, At
  <2>5. m_currentSessionIndex' =
          IF i < m_currentSessionIndex THEN m_currentSessionIndex - 1 ELSE m_currentSessionIndex
    BY <1>11 DEF DeleteSession, IndexAfterDeletion
  <2>6. Current' = Current
    <3>1. i \in 1..Len(m_sessions) - 1 /\ i # m_currentSessionIndex
      BY <2>1
    <3> QED BY <1>t, <2>3, <2>5, <3>1 DEF Current, At
  <2>7. /\ ListedNow = Listed(m_sessions) /\ ListedNow' = Listed(m_sessions) \ {name}
        /\ stored'[name] = {} /\ \A s \in Sessions \ {name} : stored'[s] = stored[s]
    BY <1>t, <2>1, <2>3, <2>4 DEF ListedNow, running
  <2>8. NewTextsKept'
    <3> SUFFICES ASSUME NEW t \in (used \intersect Texts) \ ended', t \notin open
                 PROVE  \E s \in ListedNow' : t \in stored'[s]
      BY <2>1 DEF NewTextsKept, ListedNow
    <3>1. PICK s \in Listed(m_sessions) : t \in stored[s]
      BY <1>k, <2>1, <2>7
    <3>2. s # name
      BY <2>1, <3>1
    <3> QED BY <1>t, <2>7, <3>1, <3>2
  <2>9. UnlistedEnded'
    BY <2>1, <2>4, <2>7 DEF UnlistedEnded
  <2>10. CurrentIsOpen' /\ TextsSaved' /\ StoppedIsEmpty'
    BY <1>t, <2>1, <2>4, <2>6, <2>7 DEF CurrentIsOpen, TextsSaved, StoppedIsEmpty
  <2> QED BY <2>8, <2>9, <2>10
<1>12. CASE UNCHANGED vars
  BY <1>12 DEF vars, NewTextsKept, UnlistedEnded, CurrentIsOpen, TextsSaved, StoppedIsEmpty, ListedNow,
               running, OnDisk, Current
<1> QED BY <1>1, <1>2, <1>3, <1>4, <1>5, <1>6, <1>7, <1>8, <1>9, <1>10, <1>11, <1>12 DEF Next

\* The text of a new document that is not saved in a file is open or in a
\* session that can be opened: no order of new, deleted, switched and
\* crashed sessions loses it, whatever clients refuse.
THEOREM NewTextsAreKept == Spec => []NewTextsKept
<1>1. IInv /\ TextsInv => NewTextsKept
  BY DEF TextsInv
<1> QED BY InitIInv, NextIInv, InitTextsInv, NextTextsInv, <1>1, PTL DEF Spec

-----------------------------------------------------------------------------
(***************************************************************************)
(* SessionManager implements SessionStore.  Of the steps of a switch, only *)
(* the save, the close and, through what clients ask, the user's own work  *)
(* are seen; asking, refusing and loading are not.                         *)
(***************************************************************************)
LEMMA StoreInit == Init => store!Init
<1> SUFFICES ASSUME Init PROVE store!Init
  OBVIOUS
<1>1. OnDisk = <<Default>>
  BY NamesAssumption DEF Init, OnDisk
<1>2. Listed(OnDisk) = {Default} /\ At(OnDisk, lastSessionIndex) = Default
  BY <1>1 DEF Init, Listed, At
<1> QED BY <1>2 DEF store!Init, Init, running

LEMMA StoreNext ==
  ASSUME IInv, [Next]_vars
  PROVE  [store!Next]_(store!vars)
<1>t. /\ m_sessions \in Seq(Sessions) /\ Len(m_sessions) \in Nat \ {0}
      /\ m_currentSessionIndex \in 0..Len(m_sessions) - 1 /\ Current \in Sessions
      /\ Current \in Listed(m_sessions)
      /\ sessionsXml \in Seq(Sessions) /\ lastSessionIndex \in 0..Len(sessionsXml)
      /\ stored \in [Sessions -> SUBSET Items] /\ open \in SUBSET Items
      /\ ended \in SUBSET Items
      /\ Different(m_sessions) /\ m_sessions[1] = Default
      /\ OnDisk[1] = Default
  BY NamesAssumption DEF IInv, TypeOK, NamesOK, Current, At, Listed, OnDisk
<1>f. ASSUME UNCHANGED sessionsXml PROVE OnDisk' = OnDisk
  BY <1>f DEF OnDisk
<1>c. ASSUME UNCHANGED list PROVE Current' = Current
  BY <1>c DEF list, Current
<1>1. CASE Start
  <2>1. m_sessions' = OnDisk /\ OnDisk' = OnDisk /\ UNCHANGED <<stored, lastSessionIndex>>
    BY <1>1, <1>f DEF Start, files
  <2>2. CASE m_currentSessionIndex' = lastSessionIndex /\ ended' = ended
             /\ open' = stored[At(m_sessions', m_currentSessionIndex')]
    <3>1. Current' = At(OnDisk, lastSessionIndex) /\ open' = stored[Current']
      BY <2>1, <2>2 DEF Current, At
    <3>2. store!Start
      BY <1>1, <2>1, <2>2, <3>1 DEF store!Start, store!disk, Start, running
    <3> QED BY <3>2 DEF store!Next
  <2>3. CASE m_currentSessionIndex' = 0 /\ open' = {} /\ ended' = ended \union stored[Default]
    <3>1. Current' = Default
      BY <1>t, <2>1, <2>3 DEF Current, At
    <3>2. store!StartEmpty
      BY <1>1, <2>1, <2>3, <3>1 DEF store!StartEmpty, store!disk, Start, running
    <3> QED BY <3>2 DEF store!Next
  <2> QED BY <1>1, <1>t, <2>2, <2>3 DEF Start
<1>2. CASE Agree
  <2>1. /\ phase = "asking" /\ phase' = "asking" /\ Current' = Current /\ OnDisk' = OnDisk
        /\ UNCHANGED <<m_sessions, stored, lastSessionIndex>>
    BY <1>2, <1>c, <1>f DEF Agree, list, files
  <2>2. /\ open' \in SUBSET Items /\ ended' \in SUBSET Items
        /\ ended \union (open \ open') \subseteq ended'
    BY <1>2, <1>t DEF Agree
  <2>3. store!Work
    BY <2>1, <2>2 DEF store!Work, store!Items, Items, store!disk, running
  <2> QED BY <2>3 DEF store!Next
<1>3. CASE Refuse
  BY <1>3, <1>c, <1>f DEF Refuse, store!vars, running, list, files, history
<1>4. CASE SaveCurrentSession
  <2>1. PICK lost \in SUBSET (open \intersect Texts) :
          /\ stored' = [stored EXCEPT ![Current] = open \ lost]
          /\ ended' = ended \union lost
    BY <1>4 DEF SaveCurrentSession, Saved
  <2>2. stored'[Current] = open \ lost /\ Current' = Current /\ OnDisk' = OnDisk
    BY <1>4, <1>t, <1>c, <1>f, <2>1 DEF SaveCurrentSession
  <2>3. store!Save
    BY <1>4, <2>1, <2>2 DEF store!Save, store!disk, SaveCurrentSession, running, list
  <2> QED BY <2>3 DEF store!Next
<1>5. CASE SessionClose
  <2>1. /\ phase = "closing" /\ phase' = "loading" /\ OnDisk' = OnDisk
        /\ UNCHANGED <<m_sessions, stored, lastSessionIndex, ended>>
    BY <1>5, <1>f DEF SessionClose, files, history
  <2>2. target \in 0..Len(m_sessions) - 1
    BY <1>5 DEF SessionClose, IInv, TypeOK
  <2>3. Current' = m_sessions[target + 1] /\ Current' \in Sessions /\ Current' \in Listed(m_sessions)
    BY <1>5, <1>t, <2>1, <2>2 DEF SessionClose, Current, At, Listed
  <2>4. open' \in SUBSET (stored[Current] \intersect Connections)
    BY <1>5, <2>1 DEF SessionClose, IInv, ConnectionsSaved
  <2>5. store!Switch(Current')
    BY <2>1, <2>3, <2>4 DEF store!Switch, store!disk, running
  <2> QED BY <2>3, <2>5 DEF store!Next
<1>6. CASE LoadSession
  <2>1. open' = open \union stored[Current] /\ Current' = Current
    BY <1>6, <1>c DEF LoadSession, Loaded
  <2> QED BY <1>6, <1>f, <2>1 DEF LoadSession, store!vars, running, list, files, history
<1>7. CASE ApplicationClose
  <2>1. OnDisk' = m_sessions
    BY <1>7, <1>t, ReadIsWritten DEF ApplicationClose, OnDisk, IInv, TypeOK
  <2>2. At(OnDisk', lastSessionIndex') = Current
    BY <1>7, <2>1 DEF ApplicationClose, Current, At
  <2>3. store!Exit
    BY <1>7, <2>1, <2>2 DEF store!Exit, ApplicationClose, running, list
  <2> QED BY <2>3 DEF store!Next
<1>8. CASE Crash
  <2>1. OnDisk' = OnDisk
    BY <1>8, <1>f DEF Crash, files
  <2>2. phase = "loading" => open \ stored[Current] = (open \union stored[Current]) \ stored[Current]
    OBVIOUS
  <2>3. store!Crash
    BY <1>8, <2>1, <2>2 DEF store!Crash, store!disk, Crash, Unlisted, running, files, IInv, TypeOK
  <2> QED BY <2>3 DEF store!Next
<1>9. ASSUME NEW x \in Items, Open(x) PROVE store!Work
  <2>1. OnDisk' = OnDisk /\ Current' = Current
    BY <1>9, <1>c, <1>f DEF Open, files
  <2> QED BY <1>9, <1>t, <2>1 DEF store!Work, store!Items, Items, store!disk, Open, running, list, files, dialog
<1>10. ASSUME NEW x \in Items, Close(x) PROVE store!Work
  <2>1. OnDisk' = OnDisk /\ Current' = Current
    BY <1>10, <1>c, <1>f DEF Close, files
  <2> QED BY <1>10, <1>t, <2>1 DEF store!Work, store!Items, Items, store!disk, Close, running, list, files, dialog
<1>11. ASSUME NEW s \in Sessions, OnSessionNew(s) PROVE store!New(s)
  <2>1. /\ Listed(m_sessions') = Listed(m_sessions) \union {s}
        /\ m_sessions'[Len(m_sessions) + 1] = s /\ s \notin Listed(m_sessions)
    BY <1>11, <1>t, Appended DEF OnSessionNew
  <2>2. Current' = s /\ OnDisk' = OnDisk
    BY <1>11, <1>f, <2>1 DEF OnSessionNew, Current, At, files
  <2> QED BY <1>11, <2>1, <2>2 DEF store!New, store!disk, OnSessionNew, running, files, dialog, history
<1>12. ASSUME NEW i \in 0..Len(m_sessions), DeleteSession(i) PROVE \E s \in Sessions : store!Delete(s)
  <2> DEFINE name == m_sessions[i + 1]
  <2>1. i \in 1..Len(m_sessions) - 1 /\ i # m_currentSessionIndex /\ phase = "idle" /\ phase' = "idle"
    BY <1>12 DEF DeleteSession, dialog
  <2>2. m_sessions' = TakenAway(m_sessions, i)
    BY <1>12 DEF DeleteSession, TakenAway
  <2>3. /\ Listed(m_sessions') = Listed(m_sessions) \ {name}
        /\ \A k \in 1..Len(m_sessions) - 1 :
             m_sessions'[k] = IF k <= i THEN m_sessions[k] ELSE m_sessions[k + 1]
    BY <1>t, <2>1, <2>2, Removed
  <2>4. name \in Sessions /\ name \in Listed(m_sessions) /\ name # Default /\ name # Current
    BY <1>t, <2>1 DEF Listed, Different, Current, At
  <2>5. m_currentSessionIndex' =
          IF i < m_currentSessionIndex THEN m_currentSessionIndex - 1 ELSE m_currentSessionIndex
    BY <1>12 DEF DeleteSession, IndexAfterDeletion
  <2>6. Current' = Current
    BY <1>t, <2>1, <2>3, <2>5 DEF Current, At
  <2>7. OnDisk' = OnDisk
    BY <1>12, <1>f DEF DeleteSession
  <2>8. store!Delete(name)
    BY <1>12, <2>1, <2>3, <2>4, <2>6, <2>7 DEF store!Delete, store!disk, DeleteSession, running, At
  <2> QED BY <2>4, <2>8
<1>13. ASSUME NEW i \in {Exit} \union 0..Len(m_sessions), Request(i) PROVE UNCHANGED store!vars
  <2>1. OnDisk' = OnDisk /\ Current' = Current
    BY <1>13, <1>c, <1>f DEF Request, files
  <2> QED BY <1>13, <2>1 DEF Request, store!vars, running, list, files, history
<1>14. CASE UNCHANGED vars
  BY <1>14, <1>f, <1>c DEF vars, store!vars, running, list
<1> QED BY <1>1, <1>2, <1>3, <1>4, <1>5, <1>6, <1>7, <1>8, <1>9, <1>10, <1>11, <1>12, <1>13,
           <1>14 DEF Next, store!Next

\* Switching sessions, ending and starting the program are, together with
\* crashes at any point, a disk that loses texts and connections that do not
\* close, the one-step operations of SessionStore.
THEOREM SessionsImplementStore == Spec => ImplementsStore
<1>1. IInv /\ [Next]_vars => [store!Next]_(store!vars)
  BY StoreNext
<1> QED BY InitIInv, NextIInv, StoreInit, <1>1, PTL DEF Spec, ImplementsStore, store!Spec
=============================================================================
