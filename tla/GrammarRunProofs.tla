-------------------------- MODULE GrammarRunProofs --------------------------
(***************************************************************************)
(* The grammar's run manager is never half running, and never reads a      *)
(* file that lacks what is in the editor, whatever the documents.          *)
(***************************************************************************)
EXTENDS GrammarRun, TLAPS

-----------------------------------------------------------------------------
(* The runner's own operations.                                             *)

\* A new manager is idle.
LEMMA RunnerInitInv == RunnerInit => RunnerInv
BY TargetsAssumption DEF RunnerInit, RunnerInv, RunnerTypeOK, MembersAgree, NoOrphan

\* Each operation keeps the runner's invariant: a process is started by an
\* idle manager, which has no process anywhere, and both ways out of a run
\* leave none.
LEMMA RunnerStep ==
  ASSUME RunnerInv,
         \/ UNCHANGED runner \/ SlotProcessFinished \/ CancelBuildAction \/ IndicatorCancelled
         \/ \E t \in Targets : Start(t) \/ ProcessExits(t)
  PROVE  RunnerInv'
<1> USE TargetsAssumption DEF RunnerInv, RunnerTypeOK, MembersAgree, NoOrphan
<1>1. ASSUME ~m_dirty PROVE processes = {} /\ m_process = None
  BY <1>1
<1>2. CASE UNCHANGED runner
  BY <1>2 DEF runner
<1>3. ASSUME NEW t \in Targets, Start(t) PROVE RunnerInv'
  <2>1. CASE ~m_dirty /\ ProcessStarted(t)
    <3>1. processes' = {t} /\ m_process' = t /\ t # None
      BY <1>1, <2>1 DEF ProcessStarted
    <3> QED BY <2>1, <3>1 DEF ProcessStarted
  <2>2. CASE ~m_dirty /\ StartFailed
    BY <1>1, <2>2 DEF StartFailed
  <2> QED BY <1>2, <1>3, <2>1, <2>2 DEF Start
<1>4. ASSUME NEW t \in Targets, ProcessExits(t) PROVE RunnerInv'
  BY <1>4 DEF ProcessExits
<1>5. CASE SlotProcessFinished \/ CancelBuildAction
  <2>1. Finish /\ processes' = {}
    BY <1>5 DEF SlotProcessFinished, CancelBuildAction
  <2> QED BY <2>1 DEF Finish
<1>6. CASE IndicatorCancelled
  BY <1>6 DEF IndicatorCancelled
<1> QED BY <1>2, <1>3, <1>4, <1>5, <1>6

-----------------------------------------------------------------------------
\* The inductive invariant: the manager's, and the types.
IInv == RunnerInv /\ TypeOK

\* The first state.
LEMMA InitIInv == Init => IInv
<1>1. Init => RunnerInv
  BY RunnerInitInv DEF Init
<1>2. Init => TypeOK
  BY <1>1 DEF Init, TypeOK, RunnerInv, Documents
<1>3. QED
  BY <1>1, <1>2 DEF IInv

\* execute asks about the current document, or starts on it.
LEMMA ExecuteInv ==
  ASSUME IInv, question = None, NEW unsaved, Execute(unsaved)
  PROVE  RunnerInv' /\ question' \in {None, currentDocument}
<1>1. currentDocument \in Targets
  BY DEF IInv, TypeOK, Documents
<1>2. CASE currentDocument \in unsaved
  BY <1>2, RunnerStep DEF Execute, IInv
<1>3. CASE currentDocument \notin unsaved
  BY <1>1, <1>3, RunnerStep DEF Execute, IInv
<1>4. QED
  BY <1>2, <1>3

\* Every action preserves the manager's invariant.
LEMMA NextRunnerInv == IInv /\ [Next]_vars => RunnerInv'
<1> SUFFICES ASSUME IInv, [Next]_vars PROVE RunnerInv'
  OBVIOUS
<1>1. ASSUME UNCHANGED runner PROVE RunnerInv'
  BY <1>1, RunnerStep DEF IInv
<1>2. question # None => question \in Targets
  BY DEF IInv, TypeOK, Documents
<1>3. CASE OnGrammarRun
  BY <1>3, ExecuteInv DEF OnGrammarRun, Idle
<1>4. CASE AnswerSave
  BY <1>1, <1>2, <1>4, RunnerStep DEF AnswerSave, IInv
<1>5. ASSUME NEW d \in Documents, SaveNext(d) PROVE RunnerInv'
  BY <1>1, <1>5, ExecuteInv DEF SaveNext
<1>6. CASE Cancel
  BY <1>6, RunnerStep DEF Cancel, IInv
<1>7. CASE ProcessEvent
  BY <1>7, RunnerStep DEF ProcessEvent, IInv
<1>8. CASE OnFinished
  BY <1>8, RunnerStep DEF OnFinished, IInv
<1>9. CASE \/ AnswerCancel \/ StartSaving \/ SaveRefused \/ Edit
           \/ \E d \in Documents : SwitchDocument(d)
  BY <1>1, <1>9 DEF AnswerCancel, StartSaving, SaveRefused, Edit, SwitchDocument
<1>10. CASE UNCHANGED vars
  BY <1>1, <1>10 DEF vars, runner
<1>11. QED
  BY <1>3, <1>4, <1>5, <1>6, <1>7, <1>8, <1>9, <1>10 DEF Next

\* Every action preserves the types, and the question's document.
LEMMA NextTypeOK == IInv /\ [Next]_vars => TypeOK'
<1> SUFFICES ASSUME IInv, [Next]_vars PROVE TypeOK'
  OBVIOUS
<1>0. RunnerTypeOK'
  BY NextRunnerInv DEF RunnerInv
<1> USE <1>0 DEF IInv, TypeOK, Documents
<1>1. CASE OnGrammarRun
  BY <1>1, ExecuteInv DEF OnGrammarRun, Idle
<1>2. CASE AnswerSave
  BY <1>2 DEF AnswerSave, TrySaveDocument, Saved, documents
<1>3. ASSUME NEW d \in Documents, SaveNext(d) PROVE TypeOK'
  <2>1. question' \in {None, currentDocument}
    BY <1>3, ExecuteInv DEF SaveNext
  <2>2. QED
    BY <1>3, <2>1 DEF SaveNext, TrySaveDocument, Saved, documents
<1>4. CASE AnswerCancel \/ Cancel \/ ProcessEvent \/ OnFinished
  BY <1>4 DEF AnswerCancel, Cancel, ProcessEvent, OnFinished, documents
<1>5. CASE StartSaving \/ SaveRefused
  BY <1>5 DEF StartSaving, SaveRefused, documents
<1>6. CASE Edit \/ \E d \in Documents : SwitchDocument(d)
  BY <1>6 DEF Edit, SwitchDocument, documents, Idle
<1>7. CASE UNCHANGED vars
  BY <1>7 DEF vars
<1>8. QED
  BY <1>1, <1>2, <1>3, <1>4, <1>5, <1>6, <1>7 DEF Next

\* The inductive invariant holds.
THEOREM GrammarInvariant == Spec => []IInv
<1>1. IInv /\ [Next]_vars => IInv'
  BY NextRunnerInv, NextTypeOK DEF IInv
<1>2. QED
  BY InitIInv, <1>1, PTL DEF Spec

\* The types, and that the question is about the current document.
THEOREM GrammarTypes == Spec => []TypeOK
<1>1. IInv => TypeOK
  BY DEF IInv
<1>2. QED
  BY GrammarInvariant, <1>1, PTL

\* The manager is idle or running with all its members.
THEOREM GrammarMembersAgree == Spec => []MembersAgree
<1>1. IInv => MembersAgree
  BY DEF IInv, RunnerInv
<1>2. QED
  BY GrammarInvariant, <1>1, PTL

\* No process of the generator is forgotten.
THEOREM GrammarNoOrphan == Spec => []NoOrphan
<1>1. IInv => NoOrphan
  BY DEF IInv, RunnerInv
<1>2. QED
  BY GrammarInvariant, <1>1, PTL

\* A start keeps the process, or the process is the one given.
LEMMA StartProcessIs ==
  ASSUME NEW t, Start(t), ~m_dirty => m_process = None
  PROVE  m_process' \in {m_process, t}
BY DEF Start, ProcessStarted, StartFailed, runner

\* The generator is started on a document only when what is in the editor
\* is in the file.
THEOREM GrammarSavedTextRuns == Spec => OnlySavedTextRuns
<1>1. ASSUME IInv, [Next]_vars, NEW d \in Documents, m_process # d, m_process' = d
      PROVE  d \notin modified'
  <2>0. d # None
    BY TargetsAssumption DEF Documents
  <2>1. ~m_dirty => m_process = None
    BY <1>1 DEF IInv, RunnerInv, MembersAgree
  <2>2. CASE OnGrammarRun
    <3>1. currentDocument \notin modified \union isNew
      BY <1>1, <2>2 DEF OnGrammarRun, Execute, runner
    <3>2. d = currentDocument
      BY <1>1, <2>1, <2>2, <3>1, StartProcessIs DEF OnGrammarRun, Execute
    <3>3. QED
      BY <2>2, <3>1, <3>2 DEF OnGrammarRun
  <2>3. CASE AnswerSave
    <3>1. Start(question) /\ TrySaveDocument(question)
      BY <1>1, <2>3 DEF AnswerSave, runner
    <3>2. d = question
      BY <1>1, <2>1, <3>1, StartProcessIs
    <3>3. QED
      BY <3>1, <3>2 DEF TrySaveDocument, Saved, documents
  <2>4. ASSUME NEW e \in Documents, SaveNext(e) PROVE d \notin modified'
    <3>1. Execute(modified' \union isNew')
      BY <1>1, <2>4 DEF SaveNext, runner
    <3>2. currentDocument \notin modified' \union isNew'
      BY <1>1, <3>1 DEF Execute, runner
    <3>3. d = currentDocument
      BY <1>1, <2>1, <3>1, <3>2, StartProcessIs DEF Execute
    <3>4. QED
      BY <3>2, <3>3
  <2>5. CASE Cancel \/ OnFinished
    BY <1>1, <2>0, <2>5 DEF Cancel, CancelBuildAction, OnFinished, SlotProcessFinished, Finish
  <2>6. CASE \/ ProcessEvent \/ AnswerCancel \/ StartSaving \/ SaveRefused \/ Edit
             \/ (\E e \in Documents : SwitchDocument(e)) \/ UNCHANGED vars
    BY <1>1, <2>6 DEF ProcessEvent, ProcessExits, IndicatorCancelled, AnswerCancel, StartSaving,
                      SaveRefused, Edit, SwitchDocument, runner, vars
  <2>7. QED
    BY <1>1, <2>2, <2>3, <2>4, <2>5, <2>6 DEF Next
<1>2. IInv /\ [Next]_vars
        => [\A d \in Documents : m_process # d /\ m_process' = d => d \notin modified']_vars
  BY <1>1
<1>3. QED
  BY GrammarInvariant, <1>2, PTL DEF Spec, OnlySavedTextRuns
=============================================================================
