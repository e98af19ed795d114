----------------------------- MODULE GrammarRun -----------------------------
(***************************************************************************)
(* Running the grammar generator (plugins/editors/grammareditor): on the   *)
(* command, or, when the setting RunOnSave is on, whenever a grammar       *)
(* document has been saved.  Both end in GrammarRunManager::execute, which *)
(* looks at the current document, may ask to save it, and may be called    *)
(* from inside a loop that is saving several documents.                    *)
(*                                                                         *)
(* While a question is open its event loop runs: the process may end.      *)
(* m_blockedByAutoRunOnSave is set only while execute itself is saving; it *)
(* makes the execute called by that save return, so the model's            *)
(* AnswerSave does not call it again.                                      *)
(***************************************************************************)
EXTENDS ProcessRunner

CONSTANTS
  Grammars,   \* the grammar documents among Targets; the others are, say, C++
  RunOnSave   \* the setting

ASSUME GrammarsAssumption == Grammars \subseteq Targets
ASSUME RunOnSaveAssumption == RunOnSave \in BOOLEAN

VARIABLES
  currentDocument,
  modified,   \* documents with changes that are not saved
  isNew,      \* documents without a file
  saving,     \* documents a loop has still to save
  question    \* the document execute is asking about

documents == <<modified, isNew>>
vars == <<m_dirty, m_process, m_parser, m_futureInterface, m_cmdCancelBuild, processes,
          currentDocument, modified, isNew, saving, question>>

Documents == Targets
Idle      == question = None /\ saving = {}

Init ==
  /\ RunnerInit
  /\ currentDocument \in Documents
  /\ modified = {} /\ isNew \in SUBSET Documents
  /\ saving = {} /\ question = None

(***************************************************************************)
(* GrammarRunManager::execute.                                             *)
(***************************************************************************)
Execute(unsaved) ==
  IF currentDocument \in unsaved
  THEN question' = currentDocument /\ UNCHANGED runner
  ELSE UNCHANGED question /\ Start(currentDocument)

\* saveDocument, or saveAsDocument with the name the user gives to a new
\* document; it has succeeded.
Saved(d) == modified' = modified \ {d} /\ isNew' = isNew \ {d}

\* trySaveDocument does nothing for a document that is not modified, and
\* says it is saved.
TrySaveDocument(d) == IF d \in modified THEN Saved(d) ELSE UNCHANGED documents

\* A mutant: the answer of trySaveDocument is not looked at.
AnswerSaveUnchecked ==
  /\ question # None
  /\ question' = None
  /\ \/ TrySaveDocument(question)
     \/ UNCHANGED documents
  /\ Start(question)
  /\ UNCHANGED <<currentDocument, saving>>

\* The question is answered with Save: the save succeeds, and the run
\* starts; or it fails.
AnswerSave ==
  /\ question # None
  /\ question' = None
  /\ \/ TrySaveDocument(question) /\ Start(question)
     \/ UNCHANGED documents /\ UNCHANGED runner
  /\ UNCHANGED <<currentDocument, saving>>

\* It is answered with Cancel.
AnswerCancel ==
  /\ question # None
  /\ question' = None
  /\ UNCHANGED runner /\ UNCHANGED documents
  /\ UNCHANGED <<currentDocument, saving>>

(***************************************************************************)
(* Its callers.                                                            *)
(***************************************************************************)
\* The command, in the tool bar and the menu of a grammar document.
OnGrammarRun ==
  /\ Idle /\ currentDocument \in Grammars
  /\ Execute(modified \union isNew)
  /\ UNCHANGED <<currentDocument, modified, isNew, saving>>

\* Save, Save All, and the prompts of closing documents, of a session and
\* of the application start to save some documents.
StartSaving ==
  /\ Idle
  /\ \E some \in (SUBSET Documents) \ {{}} : saving' = some
  /\ UNCHANGED runner /\ UNCHANGED documents
  /\ UNCHANGED <<currentDocument, question>>

\* The loop saves the next document; a grammar document that has been saved
\* calls onGrammarRun.
SaveNext(d) ==
  /\ question = None /\ d \in saving
  /\ saving' = saving \ {d}
  /\ TrySaveDocument(d)
  /\ IF d \in modified /\ d \in Grammars /\ RunOnSave
     THEN Execute(modified' \union isNew')
     ELSE UNCHANGED runner /\ UNCHANGED question
  /\ UNCHANGED currentDocument

\* A save fails, or the user gives no name: the loop ends.
SaveRefused ==
  /\ question = None /\ saving \intersect modified # {}
  /\ saving' = {}
  /\ UNCHANGED runner /\ UNCHANGED documents
  /\ UNCHANGED <<currentDocument, question>>

\* The user edits, and goes to another document.
Edit ==
  /\ Idle
  /\ modified' = modified \union {currentDocument}
  /\ UNCHANGED runner
  /\ UNCHANGED <<currentDocument, isNew, saving, question>>
SwitchDocument(d) ==
  /\ Idle
  /\ currentDocument' = d
  /\ UNCHANGED runner /\ UNCHANGED documents
  /\ UNCHANGED <<saving, question>>

\* onCancelGrammarRun, called when the application is about to close, between
\* two questions of others, and the close may be refused after it.  Nothing
\* calls it for the Cancel command, whose action is not connected.
Cancel ==
  /\ question = None
  /\ CancelBuildAction
  /\ UNCHANGED <<currentDocument, modified, isNew, saving, question>>

\* A mutant: the signal waits until the question is answered.
OnFinishedAfterQuestion ==
  /\ question = None
  /\ SlotProcessFinished
  /\ UNCHANGED <<currentDocument, modified, isNew, saving, question>>

\* The event loop: of the program, or of the question.
ProcessEvent ==
  /\ \/ \E t \in Targets : ProcessExits(t)
     \/ IndicatorCancelled
  /\ UNCHANGED <<currentDocument, modified, isNew, saving, question>>
OnFinished ==
  /\ SlotProcessFinished
  /\ UNCHANGED <<currentDocument, modified, isNew, saving, question>>

Next ==
  \/ OnGrammarRun \/ AnswerSave \/ AnswerCancel
  \/ StartSaving \/ SaveRefused \/ \E d \in Documents : SaveNext(d)
  \/ Edit \/ \E d \in Documents : SwitchDocument(d)
  \/ Cancel \/ ProcessEvent \/ OnFinished

Spec == Init /\ [][Next]_vars

\* Everything the program does of itself: the event loop delivers the signal of a process that has exited.
FairSpec == Spec /\ WF_vars(OnFinished)

(***************************************************************************)
(* Properties.                                                             *)
(***************************************************************************)
\* The types of the variables; the document execute holds a pointer to
\* while it asks stays the current one.
TypeOK ==
  /\ RunnerTypeOK
  /\ currentDocument \in Documents
  /\ modified \subseteq Documents /\ isNew \subseteq Documents /\ saving \subseteq Documents
  /\ question \in {None, currentDocument}

\* The generator reads the file, not the editor: when it is started, the
\* document it is started for has no changes that are not in the file,
\* although the document may be modified, saved, refused and asked about in
\* the middle of another save.
OnlySavedTextRuns ==
  [][\A d \in Documents : m_process # d /\ m_process' = d => d \notin modified']_vars

\* A run whose process has exited is reported finished, even while a
\* question is open and nobody answers it.
ExitedRunEnds == m_process # None /\ m_process \notin processes ~> m_process = None
=============================================================================
