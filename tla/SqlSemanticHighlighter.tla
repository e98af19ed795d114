----------------------- MODULE SqlSemanticHighlighter -----------------------
(***************************************************************************)
(* The semantic highlighting of one SQL editor (plugins/editors/sqleditor).*)
(* A thread of its own, SemanticHighlighter, parses the text: the editor   *)
(* leaves its newest request in a slot, m_source, under a mutex, and the   *)
(* thread answers with a queued signal, changed.  Each answer the editor   *)
(* accepts may start SqlCheckNames in the thread pool, whose results are   *)
(* painted as they arrive.  Meanwhile the user types, and the current      *)
(* database connection, hence the parser engine, changes.                  *)
(***************************************************************************)
EXTENDS Naturals, Sequences

CONSTANTS
  Engines,       \* the parser engines of SqlParserEngineManager
  NoEngine,      \* the null engine of a default constructed source or info
  MaxRevision,   \* bound: revisions of the text
  MaxRequests    \* bound: changes of the engine and of the text formats

ASSUME EnginesAssumption == Engines # {} /\ NoEngine \notin Engines
ASSUME BoundsAssumption  == MaxRevision \in Nat \ {0} /\ MaxRequests \in Nat

VARIABLES
  revision,         \* QTextDocument::revision, editorRevision()
  engine,           \* SqlParserEngineManager::currentEngine()
  updateUsesTimer,  \* the single shot timer is running
  m_source,         \* the slot of the highlighter
  pc,               \* where the highlighter's thread is in run()
  source, info,     \* its locals: the request it took, the answer it made
  workerInfo,       \* SemanticHighlighter::m_lastSemanticInfo
  m_done,           \* the editor asked the thread to end
  changed,          \* queued changed() signals
  editorInfo,       \* SQLEditorWidget::m_lastSemanticInfo
  m_highlightRevision, m_highlightEngine,
  m_highlighter,    \* the future of SqlCheckNames
  usages,           \* the document whose names are painted
  diagnostics,      \* the document whose messages are shown
  requests          \* bounded count of changes of engine and formats

workerVars == <<source, info, workerInfo>>
answerVars == <<editorInfo, m_highlightRevision, m_highlightEngine>>
screenVars == <<usages, diagnostics>>
vars == <<revision, engine, updateUsesTimer, m_source, pc, source, info, workerInfo, m_done,
          changed, editorInfo, m_highlightRevision, m_highlightEngine, m_highlighter, usages,
          diagnostics, requests>>

-----------------------------------------------------------------------------
(* Text number r is the text of revision r, and 0 the empty text of a       *)
(* request for which the editor did not fetch it.  A semantic info carries  *)
(* the revision and the engine it answers for and the text of its document, *)
(* which was parsed by that engine.                                         *)
Texts     == 0..MaxRevision
Infos     == [revision : Texts, engine : Engines \cup {NoEngine}, text : Texts]
EmptyInfo == [revision |-> 0, engine |-> NoEngine, text |-> 0]

(* Source::ended tells an empty slot; a default constructed one is a        *)
(* request, so the thread parses an empty text as soon as it is started.    *)
Sources == [ended : BOOLEAN, revision : Texts, engine : Engines \cup {NoEngine}, text : Texts]
DefaultSource == [ended |-> FALSE, revision |-> 0, engine |-> NoEngine, text |-> 0]
Clear(s) == [ended |-> TRUE, revision |-> 0, engine |-> s.engine, text |-> 0]

(* The future: its results are announced, then its end.  A canceled future  *)
(* announces nothing the editor looks at.                                   *)
FutureStates == {"none", "running", "reported", "finished", "canceled"}
NoFuture     == [state |-> "none", doc |-> EmptyInfo]
Moved(f, s)  == [state |-> s, doc |-> f.doc]
Canceled(f)  == IF f.state \in {"running", "reported"} THEN Moved(f, "canceled") ELSE f

(* The editor after it has loaded a file.  The answer to the default source *)
(* is lost when the thread gave it before createEditor connected changed(). *)
Init ==
  /\ revision = 1
  /\ engine \in Engines
  /\ updateUsesTimer = TRUE
  /\ \/ pc = "look" /\ m_source = DefaultSource
     \/ pc = "wait" /\ m_source = Clear(DefaultSource)
  /\ source = DefaultSource
  /\ info = EmptyInfo
  /\ workerInfo = EmptyInfo
  /\ m_done = FALSE
  /\ changed = <<>>
  /\ editorInfo = EmptyInfo
  /\ m_highlightRevision = 0
  /\ m_highlightEngine = NoEngine
  /\ m_highlighter = NoFuture
  /\ usages = EmptyInfo
  /\ diagnostics = EmptyInfo
  /\ requests = 0

-----------------------------------------------------------------------------
(* The thread.  run() holds the mutex while it looks at the slot; parsing   *)
(* is done without it.                                                      *)

Look ==
  /\ pc = "look"
  /\ \/ /\ m_done \/ ~m_source.ended
        /\ source' = m_source
        /\ m_source' = Clear(m_source)
        /\ pc' = IF m_done THEN "ended" ELSE "parse"
     \/ /\ ~m_done /\ m_source.ended
        /\ pc' = "wait"
        /\ UNCHANGED <<source, m_source>>
  /\ UNCHANGED <<revision, engine, updateUsesTimer, info, workerInfo, m_done, changed, answerVars,
                 m_highlighter, screenVars, requests>>

(* semanticInfo: the document of the last answer is used again when it is   *)
(* for the same revision and engine; otherwise the text of the request is   *)
(* parsed.                                                                  *)
ParsedText(s) ==
  IF workerInfo.revision = s.revision /\ workerInfo.engine = s.engine THEN workerInfo.text ELSE s.text

(* The answer is dropped when a newer request is in the slot (isOutdated).  *)
Parse ==
  /\ pc = "parse"
  /\ info' = [revision |-> source.revision, engine |-> source.engine, text |-> ParsedText(source)]
  /\ pc' = IF ~m_source.ended \/ m_done THEN "look" ELSE "publish"
  /\ UNCHANGED <<revision, engine, updateUsesTimer, m_source, source, workerInfo, m_done, changed,
                 answerVars, m_highlighter, screenVars, requests>>

Publish ==
  /\ pc = "publish"
  /\ workerInfo' = info
  /\ changed' = Append(changed, info)
  /\ pc' = "look"
  /\ UNCHANGED <<revision, engine, updateUsesTimer, m_source, source, info, m_done, answerVars,
                 m_highlighter, screenVars, requests>>

-----------------------------------------------------------------------------
(* The editor, in the GUI thread.                                           *)

(* Mutants: wakeOne is forgotten; the text is fetched when it is not needed.*)
WakeOneForgotten == UNCHANGED pc
CurrentSourceUnneeded(eng) ==
  [ended |-> FALSE, revision |-> revision, engine |-> eng,
   text |-> IF editorInfo.revision = revision THEN revision ELSE 0]

WakeOne == pc' = IF pc = "wait" THEN "look" ELSE pc

(* currentSource: the text is fetched only when the editor has no answer    *)
(* for this revision.                                                       *)
CurrentSource(eng) ==
  [ended |-> FALSE, revision |-> revision, engine |-> eng,
   text |-> IF editorInfo.revision # revision THEN revision ELSE 0]

(* rehighlight: the request replaces the one in the slot.                   *)
SemanticRehighlight(eng) == m_source' = CurrentSource(eng) /\ WakeOne

(* Mutant: only a change of the engine makes the painting out of date.      *)
OutdatedByEngine(rev, eng) == eng # m_highlightEngine

Outdated(rev, eng) == rev # m_highlightRevision \/ eng # m_highlightEngine

(* Mutant: updateUses does not start the timer.                             *)
EditUntimed ==
  /\ ~m_done /\ revision < MaxRevision
  /\ revision' = revision + 1
  /\ m_highlighter' = IF Outdated(revision', engine) THEN Canceled(m_highlighter) ELSE m_highlighter
  /\ UNCHANGED <<updateUsesTimer, engine, m_source, pc, workerVars, m_done, changed, answerVars,
                 screenVars, requests>>

(* The user changes the text; textChanged calls updateUses.                 *)
Edit ==
  /\ ~m_done /\ revision < MaxRevision
  /\ revision' = revision + 1
  /\ m_highlighter' = IF Outdated(revision', engine) THEN Canceled(m_highlighter) ELSE m_highlighter
  /\ updateUsesTimer' = TRUE
  /\ UNCHANGED <<engine, m_source, pc, workerVars, m_done, changed, answerVars, screenVars,
                 requests>>

(* updateUsesNow.                                                           *)
TimerFires ==
  /\ ~m_done /\ updateUsesTimer
  /\ updateUsesTimer' = FALSE
  /\ SemanticRehighlight(engine)
  /\ UNCHANGED <<revision, engine, workerVars, m_done, changed, answerVars, m_highlighter,
                 screenVars, requests>>

(* onParserEngineChanged, when another connection becomes current.          *)
ChangeEngine(eng) ==
  /\ ~m_done /\ requests < MaxRequests /\ eng # engine
  /\ requests' = requests + 1
  /\ engine' = eng
  /\ SemanticRehighlight(eng)
  /\ UNCHANGED <<revision, updateUsesTimer, workerVars, m_done, changed, answerVars,
                 m_highlighter, screenVars>>

(* onSemanticFormatSettingsChanged.                                         *)
ChangeFormats ==
  /\ ~m_done /\ requests < MaxRequests
  /\ requests' = requests + 1
  /\ SemanticRehighlight(engine)
  /\ UNCHANGED <<revision, engine, updateUsesTimer, workerVars, m_done, changed, answerVars,
                 m_highlighter, screenVars>>

(* updateSemanticInfo, for an outdated answer and for a current one.        *)
RejectAnswer(i) ==
  /\ i.revision # revision \/ i.engine # engine
  /\ SemanticRehighlight(engine)
  /\ UNCHANGED <<answerVars, m_highlighter>>

(* Mutant: the previous answer is read after it has been replaced.          *)
AcceptAnswerTooEarly(i) ==
  /\ i.revision = revision /\ i.engine = engine
  /\ editorInfo' = i
  /\ m_highlightRevision' = i.revision
  /\ m_highlightEngine' = i.engine
  /\ m_highlighter' = IF editorInfo'.revision # i.revision
                      THEN [state |-> "running", doc |-> i] ELSE m_highlighter
  /\ UNCHANGED <<m_source, pc>>

AcceptAnswer(i) ==
  /\ i.revision = revision /\ i.engine = engine
  /\ editorInfo' = i
  /\ m_highlightRevision' = i.revision
  /\ m_highlightEngine' = i.engine
  /\ m_highlighter' = IF editorInfo.revision # i.revision
                      THEN [state |-> "running", doc |-> i] ELSE m_highlighter
  /\ UNCHANGED <<m_source, pc>>

UpdateSemanticInfo ==
  /\ ~m_done /\ changed # <<>>
  /\ changed' = Tail(changed)
  /\ RejectAnswer(Head(changed)) \/ AcceptAnswer(Head(changed))
  /\ UNCHANGED <<revision, engine, updateUsesTimer, workerVars, m_done, screenVars, requests>>

(* SqlCheckNames reports its uses: highlightSymbolUsages paints them,       *)
(* unless they are out of date.                                             *)
HighlightSymbolUsages ==
  /\ ~m_done /\ m_highlighter.state = "running"
  /\ m_highlighter' = Moved(m_highlighter, "reported")
  /\ usages' = IF Outdated(revision, engine) THEN usages ELSE m_highlighter.doc
  /\ UNCHANGED <<revision, engine, updateUsesTimer, m_source, pc, workerVars, m_done, changed,
                 answerVars, diagnostics, requests>>

(* It ends: finishHighlightSymbolUsages shows the messages of the document  *)
(* of the editor's last answer.                                             *)
FinishHighlightSymbolUsages ==
  /\ ~m_done /\ m_highlighter.state = "reported"
  /\ m_highlighter' = Moved(m_highlighter, "finished")
  /\ diagnostics' = IF Outdated(revision, engine) THEN diagnostics ELSE editorInfo
  /\ UNCHANGED <<revision, engine, updateUsesTimer, m_source, pc, workerVars, m_done, changed,
                 answerVars, usages, requests>>

(* Mutant: the thread is not woken to end.                                  *)
StopUnwoken ==
  /\ ~m_done
  /\ m_done' = TRUE
  /\ UNCHANGED <<revision, engine, updateUsesTimer, m_source, pc, workerVars, changed, answerVars,
                 m_highlighter, screenVars, requests>>

(* stopSemanticHiglighter, in the editor's destructor: abort, then wait for *)
(* the thread.  The editor's timer, signals and future are gone with it.    *)
StopSemanticHiglighter ==
  /\ ~m_done
  /\ m_done' = TRUE
  /\ WakeOne
  /\ UNCHANGED <<revision, engine, updateUsesTimer, m_source, workerVars, changed, answerVars,
                 m_highlighter, screenVars, requests>>

-----------------------------------------------------------------------------
Worker      == Look \/ Parse \/ Publish
EditorEvent == TimerFires \/ UpdateSemanticInfo \/ HighlightSymbolUsages
                 \/ FinishHighlightSymbolUsages
User        == Edit \/ (\E eng \in Engines : ChangeEngine(eng)) \/ ChangeFormats
                 \/ StopSemanticHiglighter

Next == Worker \/ EditorEvent \/ User

Spec == Init /\ [][Next]_vars

(* The thread runs, if at the lowest priority; the event loop delivers the  *)
(* timer's and the queued events; the pool walks the document it was given. *)
Fairness == /\ WF_vars(Worker)
            /\ WF_vars(TimerFires)
            /\ WF_vars(UpdateSemanticInfo)
            /\ WF_vars(HighlightSymbolUsages \/ FinishHighlightSymbolUsages)

FairSpec == Spec /\ Fairness

-----------------------------------------------------------------------------
(* Properties.                                                              *)

(* The types of the members of the editor and of its highlighter.           *)
TypeOK ==
  /\ revision \in 1..MaxRevision
  /\ engine \in Engines
  /\ updateUsesTimer \in BOOLEAN
  /\ m_source \in Sources
  /\ pc \in {"look", "wait", "parse", "publish", "ended"}
  /\ source \in Sources
  /\ info \in Infos /\ workerInfo \in Infos
  /\ m_done \in BOOLEAN
  /\ changed \in Seq(Infos)
  /\ editorInfo \in Infos
  /\ m_highlightRevision \in Texts
  /\ m_highlightEngine \in Engines \cup {NoEngine}
  /\ m_highlighter \in [state : FutureStates, doc : Infos]
  /\ usages \in Infos /\ diagnostics \in Infos
  /\ requests \in 0..MaxRequests

UpToDate(i) == i.revision = revision /\ i.engine = engine

(* An editor whose last answer is out of date is never left alone: its      *)
(* timer runs, a request is in the slot, the thread is making an answer or  *)
(* one is queued.  A request may replace another, and an answer be dropped  *)
(* or rejected, but the last one always gets through.                       *)
NoLostRehighlight ==
  ~m_done /\ ~UpToDate(editorInfo) =>
    updateUsesTimer \/ ~m_source.ended \/ pc \in {"parse", "publish"} \/ changed # <<>>

(* rehighlight and abort signal the condition after they changed what it    *)
(* waits for: the thread never sleeps on a request or on the order to end.  *)
WaiterHasNothingToDo == pc = "wait" => m_source.ended /\ ~m_done

(* The pool reports uses of a text the user may have changed since: what    *)
(* is painted at any time was found in the text as it is at that time.      *)
UsagesMatchText == [][usages' # usages => usages'.revision = revision]_vars

(* The destructor of the editor waits for the thread: the thread ends.      *)
StopEnds == m_done ~> pc = "ended"

(* The text that is current for good is highlighted: the editor gets its    *)
(* semantic info, paints its names and shows its messages.                  *)
EveryRevisionIsHighlighted ==
  \A r \in 1..MaxRevision :
    revision = r ~> \/ revision # r \/ m_done
                    \/ \A i \in {editorInfo, usages, diagnostics} : i.revision = r

(* "get the source code only when needed.": when the editor does not send   *)
(* the text, the thread has the document of it.  The document of every      *)
(* semantic info the editor holds was parsed from the text of its revision. *)
DocumentMatchesText == editorInfo.text = editorInfo.revision
=============================================================================
