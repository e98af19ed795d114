-------------------- MODULE SqlSemanticHighlighterProofs --------------------
(***************************************************************************)
(* Proofs about SqlSemanticHighlighter, for every set of engines and every *)
(* bound.                                                                  *)
(***************************************************************************)
EXTENDS SqlSemanticHighlighter, SequenceTheorems, TLAPS

USE EnginesAssumption, BoundsAssumption

(* A future the editor still looks at was started for the revision of the  *)
(* last answer, which is the revision the painting is for.                 *)
FutureOK ==
  /\ m_highlightRevision = editorInfo.revision
  /\ m_highlighter.state = "running" => m_highlighter.doc.revision = editorInfo.revision

IInv == /\ TypeOK
        /\ NoLostRehighlight
        /\ WaiterHasNothingToDo
        /\ FutureOK

(* The infos, sources and futures that stand for nothing have their types. *)
LEMMA EmptyTypes ==
  /\ EmptyInfo \in Infos /\ DefaultSource \in Sources /\ Clear(DefaultSource) \in Sources
  /\ NoFuture \in [state : FutureStates, doc : Infos]
BY DEF EmptyInfo, DefaultSource, Clear, NoFuture, Texts, Infos, Sources, FutureStates

(* The invariant holds in the new editor, whose thread has just been       *)
(* started.                                                                *)
THEOREM InitIInv == Init => IInv
<1> SUFFICES ASSUME Init PROVE IInv
  OBVIOUS
<1>1. TypeOK
  <2>1. m_source \in Sources /\ pc \in {"look", "wait", "parse", "publish", "ended"}
    BY EmptyTypes DEF Init
  <2>2. /\ revision \in 1..MaxRevision /\ m_highlightRevision \in Texts
        /\ requests \in 0..MaxRequests /\ changed \in Seq(Infos)
    BY DEF Init, Texts
  <2> QED
    BY <2>1, <2>2, EmptyTypes DEF Init, TypeOK
<1>2. NoLostRehighlight /\ WaiterHasNothingToDo
  BY DEF Init, NoLostRehighlight, WaiterHasNothingToDo, DefaultSource, Clear
<1>3. FutureOK
  BY DEF Init, FutureOK, EmptyInfo, NoFuture
<1> QED
  BY <1>1, <1>2, <1>3 DEF IInv

-----------------------------------------------------------------------------
(* The request the editor leaves is well typed and wakes the thread.       *)
LEMMA RequestIsLeft ==
  ASSUME TypeOK, NEW eng \in Engines, SemanticRehighlight(eng)
  PROVE  /\ m_source' \in Sources /\ ~m_source'.ended
         /\ pc' \in {"look", "wait", "parse", "publish", "ended"} /\ pc' # "wait"
BY DEF TypeOK, SemanticRehighlight, CurrentSource, WakeOne, Texts, Infos, Sources

(* clear() of a request keeps its type.                                    *)
LEMMA ClearedSource ==
  ASSUME NEW s \in Sources
  PROVE  Clear(s) \in Sources
BY DEF Clear, Sources, Texts

(* What an announcement or a cancellation does to the future keeps its type.*)
LEMMA MovedFuture ==
  ASSUME NEW f \in [state : FutureStates, doc : Infos], NEW s \in FutureStates
  PROVE  Moved(f, s) \in [state : FutureStates, doc : Infos]
BY DEF Moved

(* cancel() of a future keeps its type.                                    *)
LEMMA CanceledFuture ==
  ASSUME NEW f \in [state : FutureStates, doc : Infos]
  PROVE  Canceled(f) \in [state : FutureStates, doc : Infos]
<1>1. "canceled" \in FutureStates
  BY DEF FutureStates
<1> QED
  BY <1>1, MovedFuture DEF Canceled

-----------------------------------------------------------------------------
(* Each action preserves the types.                                        *)
THEOREM TypeStep == ASSUME TypeOK, [Next]_vars PROVE TypeOK'
<1>1. CASE Look
  <2>1. m_source' \in Sources /\ source' \in Sources
    BY <1>1, ClearedSource DEF TypeOK, Look
  <2> QED
    BY <1>1, <2>1 DEF TypeOK, Look, answerVars, screenVars
<1>2. CASE Parse
  <2>1. ParsedText(source) \in Texts
    BY DEF TypeOK, ParsedText, Sources, Infos
  <2>2. info' \in Infos
    BY <1>2, <2>1 DEF TypeOK, Parse, Sources, Infos
  <2> QED
    BY <1>2, <2>2 DEF TypeOK, Parse, answerVars, screenVars
<1>3. CASE Publish
  BY <1>3 DEF TypeOK, Publish, answerVars, screenVars
<1>4. CASE TimerFires
  BY <1>4, RequestIsLeft DEF TypeOK, TimerFires, workerVars, answerVars, screenVars
<1>5. CASE UpdateSemanticInfo
  <2>1. Head(changed) \in Infos /\ changed' \in Seq(Infos)
    BY <1>5 DEF TypeOK, UpdateSemanticInfo
  <2>2. CASE RejectAnswer(Head(changed))
    BY <1>5, <2>1, <2>2, RequestIsLeft
    DEF TypeOK, UpdateSemanticInfo, RejectAnswer, workerVars, answerVars, screenVars
  <2>3. CASE AcceptAnswer(Head(changed))
    <3>1. m_highlighter' \in [state : FutureStates, doc : Infos]
      BY <2>1, <2>3 DEF TypeOK, AcceptAnswer, FutureStates
    <3>2. /\ editorInfo' \in Infos
          /\ m_highlightRevision' \in Texts /\ m_highlightEngine' \in Engines \cup {NoEngine}
      BY <2>1, <2>3 DEF AcceptAnswer, Infos
    <3>3. UNCHANGED <<m_source, pc>>
      BY <2>3 DEF AcceptAnswer
    <3> QED
      BY <1>5, <2>1, <3>1, <3>2, <3>3 DEF TypeOK, UpdateSemanticInfo, workerVars, screenVars
  <2> QED
    BY <1>5, <2>2, <2>3 DEF UpdateSemanticInfo
<1>6. CASE HighlightSymbolUsages
  <2>1. "reported" \in FutureStates
    BY DEF FutureStates
  <2>2. m_highlighter' \in [state : FutureStates, doc : Infos] /\ usages' \in Infos
    BY <1>6, <2>1, MovedFuture DEF TypeOK, HighlightSymbolUsages
  <2> QED
    BY <1>6, <2>2 DEF TypeOK, HighlightSymbolUsages, workerVars, answerVars
<1>7. CASE FinishHighlightSymbolUsages
  <2>1. "finished" \in FutureStates
    BY DEF FutureStates
  <2>2. m_highlighter' \in [state : FutureStates, doc : Infos] /\ diagnostics' \in Infos
    BY <1>7, <2>1, MovedFuture DEF TypeOK, FinishHighlightSymbolUsages
  <2> QED
    BY <1>7, <2>2 DEF TypeOK, FinishHighlightSymbolUsages, workerVars, answerVars
<1>8. CASE Edit
  <2>1. m_highlighter' \in [state : FutureStates, doc : Infos]
    BY <1>8, CanceledFuture DEF TypeOK, Edit
  <2>2. revision' \in 1..MaxRevision
    BY <1>8 DEF TypeOK, Edit
  <2> QED
    BY <1>8, <2>1, <2>2 DEF TypeOK, Edit, workerVars, answerVars, screenVars
<1>9. ASSUME NEW eng \in Engines, ChangeEngine(eng) PROVE TypeOK'
  BY <1>9, RequestIsLeft DEF TypeOK, ChangeEngine, workerVars, answerVars, screenVars
<1>10. CASE ChangeFormats
  BY <1>10, RequestIsLeft DEF TypeOK, ChangeFormats, workerVars, answerVars, screenVars
<1>11. CASE StopSemanticHiglighter
  BY <1>11 DEF TypeOK, StopSemanticHiglighter, WakeOne, workerVars, answerVars, screenVars
<1>12. CASE UNCHANGED vars
  BY <1>12 DEF TypeOK, vars
<1> QED
  BY <1>1, <1>2, <1>3, <1>4, <1>5, <1>6, <1>7, <1>8, <1>9, <1>10, <1>11, <1>12
  DEF Next, Worker, EditorEvent, User

-----------------------------------------------------------------------------
(* No request is lost on its way from the editor to its next answer.       *)
THEOREM RehighlightStep ==
  ASSUME TypeOK, NoLostRehighlight, [Next]_vars
  PROVE  NoLostRehighlight'
<1> USE DEF NoLostRehighlight, UpToDate
<1>1. CASE Look
  BY <1>1 DEF Look, answerVars
<1>2. CASE Parse
  BY <1>2 DEF Parse, answerVars
<1>3. CASE Publish
  <2>1. changed' # <<>>
    BY <1>3, AppendProperties DEF TypeOK, Publish
  <2> QED
    BY <2>1
<1>4. CASE TimerFires
  BY <1>4, RequestIsLeft DEF TypeOK, TimerFires
<1>5. CASE UpdateSemanticInfo
  <2>1. CASE RejectAnswer(Head(changed))
    BY <2>1, RequestIsLeft DEF TypeOK, RejectAnswer
  <2>2. CASE AcceptAnswer(Head(changed))
    BY <1>5, <2>2 DEF UpdateSemanticInfo, AcceptAnswer
  <2> QED
    BY <1>5, <2>1, <2>2 DEF UpdateSemanticInfo
<1>6. CASE HighlightSymbolUsages
  BY <1>6 DEF HighlightSymbolUsages, answerVars
<1>7. CASE FinishHighlightSymbolUsages
  BY <1>7 DEF FinishHighlightSymbolUsages, answerVars
<1>8. CASE Edit
  BY <1>8 DEF Edit
<1>9. ASSUME NEW eng \in Engines, ChangeEngine(eng) PROVE NoLostRehighlight'
  BY <1>9, RequestIsLeft DEF ChangeEngine
<1>10. CASE ChangeFormats
  BY <1>10, RequestIsLeft DEF TypeOK, ChangeFormats
<1>11. CASE StopSemanticHiglighter
  BY <1>11 DEF StopSemanticHiglighter
<1>12. CASE UNCHANGED vars
  BY <1>12 DEF vars
<1> QED
  BY <1>1, <1>2, <1>3, <1>4, <1>5, <1>6, <1>7, <1>8, <1>9, <1>10, <1>11, <1>12
  DEF Next, Worker, EditorEvent, User

(* Whoever fills the slot or asks the thread to end also wakes it.         *)
THEOREM WaiterStep ==
  ASSUME TypeOK, WaiterHasNothingToDo, [Next]_vars
  PROVE  WaiterHasNothingToDo'
<1> USE DEF WaiterHasNothingToDo
<1>1. CASE Look
  BY <1>1 DEF Look
<1>2. CASE Parse
  BY <1>2 DEF Parse
<1>3. CASE Publish
  BY <1>3 DEF Publish
<1>4. CASE TimerFires
  BY <1>4, RequestIsLeft DEF TypeOK, TimerFires
<1>5. CASE UpdateSemanticInfo
  <2>1. CASE RejectAnswer(Head(changed))
    BY <2>1, RequestIsLeft DEF TypeOK, RejectAnswer
  <2>2. CASE AcceptAnswer(Head(changed))
    BY <1>5, <2>2 DEF UpdateSemanticInfo, AcceptAnswer
  <2> QED
    BY <1>5, <2>1, <2>2 DEF UpdateSemanticInfo
<1>6. CASE HighlightSymbolUsages
  BY <1>6 DEF HighlightSymbolUsages
<1>7. CASE FinishHighlightSymbolUsages
  BY <1>7 DEF FinishHighlightSymbolUsages
<1>8. CASE Edit
  BY <1>8 DEF Edit
<1>9. ASSUME NEW eng \in Engines, ChangeEngine(eng) PROVE WaiterHasNothingToDo'
  BY <1>9, RequestIsLeft DEF ChangeEngine
<1>10. CASE ChangeFormats
  BY <1>10, RequestIsLeft DEF TypeOK, ChangeFormats
<1>11. CASE StopSemanticHiglighter
  BY <1>11 DEF StopSemanticHiglighter, WakeOne
<1>12. CASE UNCHANGED vars
  BY <1>12 DEF vars
<1> QED
  BY <1>1, <1>2, <1>3, <1>4, <1>5, <1>6, <1>7, <1>8, <1>9, <1>10, <1>11, <1>12
  DEF Next, Worker, EditorEvent, User

(* A new answer for another revision replaces the future.                  *)
THEOREM FutureStep ==
  ASSUME TypeOK, FutureOK, [Next]_vars
  PROVE  FutureOK'
<1> USE DEF FutureOK
<1>1. CASE Look \/ Parse \/ Publish
  BY <1>1 DEF Look, Parse, Publish, answerVars
<1>2. CASE TimerFires \/ ChangeFormats \/ StopSemanticHiglighter
  BY <1>2 DEF TimerFires, ChangeFormats, StopSemanticHiglighter, answerVars
<1>3. CASE UpdateSemanticInfo
  <2>1. CASE RejectAnswer(Head(changed))
    BY <2>1 DEF RejectAnswer, answerVars
  <2>2. CASE AcceptAnswer(Head(changed))
    BY <2>2 DEF AcceptAnswer
  <2> QED
    BY <1>3, <2>1, <2>2 DEF UpdateSemanticInfo
<1>4. CASE HighlightSymbolUsages
  BY <1>4 DEF TypeOK, Moved, HighlightSymbolUsages, answerVars
<1>5. CASE FinishHighlightSymbolUsages
  BY <1>5 DEF TypeOK, Moved, FinishHighlightSymbolUsages, answerVars
<1>6. CASE Edit
  <2>1. /\ Canceled(m_highlighter).doc = m_highlighter.doc
        /\ Canceled(m_highlighter).state = "running" => m_highlighter.state = "running"
    BY DEF TypeOK, Canceled, Moved
  <2> QED
    BY <1>6, <2>1 DEF Edit, answerVars
<1>7. ASSUME NEW eng \in Engines, ChangeEngine(eng) PROVE FutureOK'
  BY <1>7 DEF ChangeEngine, answerVars
<1>8. CASE UNCHANGED vars
  BY <1>8 DEF vars
<1> QED
  BY <1>1, <1>2, <1>3, <1>4, <1>5, <1>6, <1>7, <1>8
  DEF Next, Worker, EditorEvent, User

-----------------------------------------------------------------------------
(* The invariant of the editor, its highlighter and the pool's future.     *)
THEOREM Inductive == Spec => []IInv
<1>1. IInv /\ [Next]_vars => IInv'
  BY TypeStep, RehighlightStep, WaiterStep, FutureStep DEF IInv
<1> QED
  BY <1>1, InitIInv, PTL DEF Spec

(* Type correctness.                                                       *)
THEOREM TypeCorrect == Spec => []TypeOK
<1>1. IInv => TypeOK
  BY DEF IInv
<1> QED
  BY <1>1, Inductive, PTL

(* An editor whose answer is out of date always has another one coming.    *)
THEOREM RehighlightsAreNotLost == Spec => []NoLostRehighlight
<1>1. IInv => NoLostRehighlight
  BY DEF IInv
<1> QED
  BY <1>1, Inductive, PTL

(* The thread never sleeps on a request or on the order to end.            *)
THEOREM WakeOnesAreNotLost == Spec => []WaiterHasNothingToDo
<1>1. IInv => WaiterHasNothingToDo
  BY DEF IInv
<1> QED
  BY <1>1, Inductive, PTL

(* Names are painted only on the text they were found in.                  *)
THEOREM PaintsTheCurrentText == Spec => UsagesMatchText
<1>1. IInv /\ [Next]_vars => [usages' # usages => usages'.revision = revision]_vars
  <2> SUFFICES ASSUME IInv, Next, usages' # usages PROVE usages'.revision = revision
    OBVIOUS
  <2>1. HighlightSymbolUsages
    BY DEF Next, Worker, EditorEvent, User, Look, Parse, Publish, TimerFires, UpdateSemanticInfo,
           FinishHighlightSymbolUsages, Edit, ChangeEngine, ChangeFormats,
           StopSemanticHiglighter, screenVars
  <2>2. usages' = m_highlighter.doc /\ m_highlighter.state = "running" /\ ~Outdated(revision, engine)
    BY <2>1 DEF HighlightSymbolUsages
  <2> QED
    BY <2>2 DEF Outdated, IInv, FutureOK
<1> QED
  BY <1>1, Inductive, PTL DEF Spec, UsagesMatchText

-----------------------------------------------------------------------------
(* With one engine, a request without its text is answered from the last   *)
(* answer.  Revisions only grow from the editor's answer over the queued   *)
(* ones and the thread's to the request in the slot, so such a request can *)
(* only be for the revision the thread has answered last.                  *)

Faithful(i)   == i.text = i.revision
Known(i)      == i.revision >= 1 => i.engine \in Engines
Between(r)    == workerInfo.revision <= r /\ r <= revision
Answerable(s) == Faithful(s) \/ (1 <= s.revision /\ s.revision <= workerInfo.revision)

DocInv ==
  /\ Faithful(workerInfo) /\ Known(workerInfo) /\ workerInfo.revision <= revision
  /\ Faithful(editorInfo) /\ editorInfo.revision <= workerInfo.revision
  /\ \A i \in 1..Len(changed) :
       Faithful(changed[i]) /\ changed[i].revision <= workerInfo.revision
  /\ pc = "publish" => Faithful(info) /\ Known(info) /\ Between(info.revision)
  /\ pc = "parse" => Answerable(source) /\ Known(source) /\ Between(source.revision)
  /\ ~m_source.ended =>
       /\ Answerable(m_source) /\ Known(m_source) /\ Between(m_source.revision)
       /\ pc = "parse" => source.revision <= m_source.revision
       /\ pc = "publish" => info.revision <= m_source.revision

OneEngine == \A a, b \in Engines : a = b

(* The revisions of what is compared are numbers.                          *)
LEMMA RevisionsAreNumbers ==
  ASSUME TypeOK
  PROVE  /\ revision \in Nat \ {0}
         /\ \A i \in {m_source, source, info, workerInfo, editorInfo} :
              i.revision \in Nat /\ i.text \in Nat
         /\ \A i \in 1..Len(changed) : changed[i].revision \in Nat
<1>1. \A i \in Infos \cup Sources : i.revision \in Nat /\ i.text \in Nat
  BY DEF Texts, Infos, Sources
<1>2. revision \in Nat \ {0}
  BY DEF TypeOK
<1>3. /\ m_source \in Sources /\ source \in Sources
      /\ info \in Infos /\ workerInfo \in Infos /\ editorInfo \in Infos
  BY DEF TypeOK
<1>4. \A i \in 1..Len(changed) : changed[i] \in Infos
  BY DEF TypeOK
<1> QED
  BY <1>1, <1>2, <1>3, <1>4

(* A new request is for the newest revision and can be answered.           *)
LEMMA RequestIsAnswerable ==
  ASSUME TypeOK, DocInv, NEW eng \in Engines, SemanticRehighlight(eng),
         UNCHANGED <<revision, source, info, workerInfo, editorInfo>>,
         Len(changed') <= Len(changed),
         \A i \in 1..Len(changed') :
           Faithful(changed'[i]) /\ changed'[i].revision <= workerInfo.revision
  PROVE  DocInv'
<1>1. /\ m_source' = CurrentSource(eng)
      /\ pc' \in {"parse", "publish"} => pc' = pc
  BY DEF SemanticRehighlight, WakeOne
<1>2. /\ m_source'.revision = revision /\ m_source'.engine = eng
      /\ Faithful(m_source)' \/ m_source'.revision = editorInfo.revision
  BY <1>1 DEF CurrentSource, Faithful
<1> QED
  BY <1>1, <1>2, RevisionsAreNumbers DEF DocInv, Faithful, Known, Between, Answerable

(* With one engine, every step of the editor, of the thread and of the     *)
(* pool keeps documents, requests and answers faithful to their revisions. *)
THEOREM DocumentStep ==
  ASSUME OneEngine, TypeOK, DocInv, [Next]_vars
  PROVE  DocInv'
<1>1. CASE Look
  BY <1>1, RevisionsAreNumbers
  DEF Look, Clear, DocInv, Faithful, Known, Between, Answerable, answerVars
<1>2. CASE Parse
  <2>1. Faithful(info)'
    <3>1. CASE Faithful(source)
      BY <1>2, <3>1 DEF Parse, ParsedText, DocInv, Faithful
    <3>2. CASE 1 <= source.revision /\ source.revision <= workerInfo.revision
      <4>1. workerInfo.revision = source.revision /\ workerInfo.engine = source.engine
        BY <1>2, <3>2, RevisionsAreNumbers DEF Parse, DocInv, Between, Known, OneEngine
      <4> QED
        BY <1>2, <4>1 DEF Parse, ParsedText, DocInv, Faithful
    <3> QED
      BY <1>2, <3>1, <3>2 DEF Parse, DocInv, Answerable
  <2>2. info'.revision = source.revision /\ info'.engine = source.engine
    BY <1>2 DEF Parse
  <2> QED
    BY <1>2, <2>1, <2>2, RevisionsAreNumbers
    DEF Parse, DocInv, Faithful, Known, Between, Answerable, answerVars
<1>3. CASE Publish
  <2>1. /\ Len(changed') = Len(changed) + 1 /\ changed'[Len(changed) + 1] = info
        /\ \A i \in 1..Len(changed) : changed'[i] = changed[i]
    BY <1>3, AppendProperties DEF TypeOK, Publish
  <2>2. Len(changed) \in Nat
    BY DEF TypeOK
  <2>3. \A i \in 1..Len(changed') : Faithful(changed'[i]) /\ changed'[i].revision <= info.revision
    BY <1>3, <2>1, <2>2, RevisionsAreNumbers DEF Publish, DocInv, Between
  <2>4. workerInfo' = info /\ pc' = "look"
    BY <1>3 DEF Publish
  <2> QED
    BY <1>3, <2>3, <2>4, RevisionsAreNumbers
    DEF Publish, DocInv, Faithful, Known, Between, Answerable, answerVars
<1>4. CASE TimerFires
  BY <1>4, RequestIsAnswerable DEF TypeOK, TimerFires, DocInv, workerVars, answerVars
<1>5. CASE UpdateSemanticInfo
  <2>1. /\ changed # <<>> /\ Len(changed) \in Nat \ {0} /\ Len(changed') = Len(changed) - 1
        /\ \A i \in 1..Len(changed') : changed'[i] = changed[i + 1]
        /\ Head(changed) = changed[1]
    BY <1>5, HeadTailProperties, EmptySeq DEF TypeOK, UpdateSemanticInfo
  <2>2. \A i \in 1..Len(changed') :
          Faithful(changed'[i]) /\ changed'[i].revision <= workerInfo.revision
    BY <2>1 DEF DocInv
  <2>3. Faithful(Head(changed)) /\ Head(changed).revision <= workerInfo.revision
    BY <2>1 DEF DocInv
  <2>4. CASE RejectAnswer(Head(changed))
    BY <1>5, <2>1, <2>2, <2>4, RequestIsAnswerable
    DEF TypeOK, UpdateSemanticInfo, RejectAnswer, workerVars, answerVars
  <2>5. CASE AcceptAnswer(Head(changed))
    BY <1>5, <2>2, <2>3, <2>5
    DEF UpdateSemanticInfo, AcceptAnswer, DocInv, Faithful, Known, Between, Answerable, workerVars
  <2> QED
    BY <1>5, <2>4, <2>5 DEF UpdateSemanticInfo
<1>6. CASE HighlightSymbolUsages \/ FinishHighlightSymbolUsages \/ StopSemanticHiglighter
  BY <1>6 DEF HighlightSymbolUsages, FinishHighlightSymbolUsages, StopSemanticHiglighter, WakeOne,
              DocInv, Faithful, Known, Between, Answerable, workerVars, answerVars
<1>7. CASE Edit
  BY <1>7, RevisionsAreNumbers
  DEF Edit, DocInv, Faithful, Known, Between, Answerable, workerVars, answerVars
<1>8. ASSUME NEW eng \in Engines, ChangeEngine(eng) PROVE DocInv'
  BY <1>8, RequestIsAnswerable DEF TypeOK, ChangeEngine, DocInv, workerVars, answerVars
<1>9. CASE ChangeFormats
  BY <1>9, RequestIsAnswerable DEF TypeOK, ChangeFormats, DocInv, workerVars, answerVars
<1>10. CASE UNCHANGED vars
  BY <1>10 DEF vars, DocInv, Faithful, Known, Between, Answerable
<1> QED
  BY <1>1, <1>2, <1>3, <1>4, <1>5, <1>6, <1>7, <1>8, <1>9, <1>10
  DEF Next, Worker, EditorEvent, User

(* As long as there is one engine, the document of the editor's semantic   *)
(* info was parsed from the text of its revision.                          *)
THEOREM DocumentsMatch == ASSUME OneEngine PROVE Spec => []DocumentMatchesText
<1>1. Init => DocInv
  BY DEF Init, DocInv, Faithful, Known, Between, Answerable, EmptyInfo, DefaultSource, Clear
<1>2. TypeOK /\ DocInv /\ [Next]_vars => DocInv'
  BY DocumentStep
<1>3. DocInv => DocumentMatchesText
  BY DEF DocInv, Faithful, DocumentMatchesText
<1> QED
  BY <1>1, <1>2, <1>3, TypeCorrect, PTL DEF Spec
=============================================================================
