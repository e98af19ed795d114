# QWorkNew: models, checks and proofs

QWorkNew is a desktop workbench written in C++ with Qt: a text editor with plug-ins
for SQL, C++, Python and grammars, a browser for databases, a builder for projects
and a Python console that scripts all of them.  This directory holds TLA+ models of
the parts of it in which threads, event loops, callbacks and failures meet, the TLC
runs that check them and the TLAPS proofs about them.

`PROJECT.json` maps every definition to the lines it is translated from and lists
the runs, the mutants that show what each property is sensitive to, the finding,
the hazards and the theorems.

## 1. Inventory

Paths are under `src/`.  "Here" names the modules that model the part; what they
leave out is in section 7.

| Part | State it keeps | Operations | Talks to | What is hard | What makes it correct | Here |
|---|---|---|---|---|---|---|
| Database connection, `libs/sqlengine/DbConnection` | queue of jobs, the running statement (a future), the transaction flag, the flag as it was before the statement | submit a job, run a statement in the pool, handle its result, commit, rollback, ask, close | the driver; the pool; DbManager; the progress tasks | `processEvents` inside the handler, modal prompts inside prompts, failure of a statement or a commit, the flag only believes what the server knows | results go to the right job; no job is left asleep; a closed connection is quiet; no work is lost unasked | `DbConnection`, `JobService` |
| SQL editor highlighting, `QWorkNew/plugins/editors/sqleditor` | the request slot, the thread's last document, the editor's last document, the future that finds names | edit, timer, change of engine or formats, parse, answer, paint, stop | SqlParserEngineManager, the pool | a slot overwritten, answers dropped and rejected, a condition variable, a pool future that outlives its text | the last request gets through; what is painted belongs to the text; the thread ends | `SqlSemanticHighlighter` |
| Database manager, `QWorkNew/plugins/db/dbbrowser/DbManager` | three parallel lists, combo box, tabs, stack, the next number, Commit's state | open, select, close one, close all, commit, rollback, refresh, details | the connections; Qt's widgets, whose signals call back; the parser engine manager; Python scripts | slots called in the middle of a removal; a loop that stops half-way | the lists and widgets agree; the current connection is the same for all | `DbManager`; details and refresh in `DbCatalog` |
| Database catalog and details, `libs/sqlengine/DbCatalog`, `DbDetailsWidget` | the tree of items, loaded when it is opened; raw pointers to items in the details | expand, complete, follow a link, show details, refresh | the tree view and its filter model, completion, editors, the server | four callers load the same items, one of them announces rows; a refresh deletes the tree | an item is made once; the view shows what the model has; no pointer outlives its item | `DbCatalog` |
| Completion metadata, `libs/sqlengine/DbMetadataProvider` | pointer to the current connection | answer queries | DbManager through SqlParserEngineManager; the catalog | the pointer outlives the connection | never used after the connection is deleted | its pointer in `DbManager`, its loading in `DbCatalog` |
| Document manager, `libs/corelib/IDocument.cpp` | open text documents, paths, modified flags, files changed or deleted outside, files of projects | open, save, save as, close, reload, write files of projects | file watcher, editors, projects, sessions | watcher events during modal questions; the program's own writes; a watch lost when a file is replaced; reads that fail; two documents of one file | no change outside goes unnoticed; no unsaved text is lost unasked | `DocumentManager` |
| Sessions and end of the application, `libs/corelib/SessionManager`, `CloseApplicationHandler` | list of sessions, index of the current one, one directory for each, the list and index on disk | new, delete, switch, exit, start | DocumentManager, DbManager, project builds, other clients | asking in several steps; the list is written only at the end; a start that restores nothing; crash between any two steps | switching is one step to the user; nothing is lost or mixed but by a named failure | `SessionManager`, `SessionStore`; the connection's part in `DbConnection`, the build's in `ProjectBuild` |
| Grammar runs, `QWorkNew/plugins/editors/grammareditor` | the process and its members, the Cancel command | run, run on save, cancel, finished | QProcess, documents and their save loops | a question inside a save loop; a process that does not start or ends meanwhile | the manager is idle or running with all its members; only saved text is run | `ProcessRunner`, `GrammarRun` |
| Project builds, `QWorkNew/plugins/asproject` | the same members, the open project, its environment, disabled commands | build action, cancel, open and close a project, session and application close | QProcess, documents, sessions | opening and closing do not look at builds: only disabled commands keep the project | a running build belongs to the open project | `ProcessRunner`, `ProjectBuild` |
| Navigation history, `libs/qworkbase/NavigationManager` | list of places, position, the two commands | add, back, forward, document closed | documents and editors, sessions | raw pointers to documents; trimming at the limit moves the position | the places come back; no closed document stays | `NavigationManager` |
| Progress of tasks, `libs/qworkbase/progressmanager`, `libs/corelib/progressview` | running tasks, the synchronous task, status, indicators | add, end, cancel, fade | threads, two future watchers, timers | ends delivered late; one pointer for all synchronous tasks; room for ten indicators | no running task loses its indicator; ended ones go | `ProgressManager` |
| Histories, `DbConnectionsHistory`, `QSqlHistoryModel` | bounded list of what was used | add, edit, remove | DbManager | the limit | the newest entries are kept, each once | left out |
| Python object storage, `libs/corelib/PythonQtObjectStorage.h` | map of Qt objects to their Python wrappers | find or create, object destroyed | all plug-ins | two lifetimes | no wrapper without its object | left out |
| Parsers and engines, `libs/sqlengine`, `dbproviders` | none between calls | parse, flag statements | editors, connections | mostly generated | the flags match the grammar | only the flags, in `DbConnection` |
| Projects, favorites, commands, modes, log, other editors | trees and registries | sequential edits | | | | left out |

Interactions.  The user submits a job from an editor to the connection that the
manager's combo box shows.  The connection runs it statement by statement in Qt's
thread pool and reports each result by a queued event; the manager shows it and
enables Commit and Rollback by the transaction flag.  When another connection
becomes current, the manager tells the parser engine manager, which tells each SQL
editor, which asks its thread to parse again.  A job is also a task with an
indicator.  Closing a session or the application asks every client first (DbManager
asks each connection with a transaction, the project plug-in cancels its build,
DocumentManager asks about documents) and closes all of them only when none
refuses; a switch then loads the other session into the same managers.  Saving a
grammar may start its generator, and writing a project's file reloads its document.

## 2. Plan

Done, in this order: `DbConnection` with its abstract specification `JobService`;
`SqlSemanticHighlighter`; `DbManager`; proofs about all three; `ProcessRunner` with
`GrammarRun` and `ProjectBuild`, and proofs; `SessionManager` with its abstract
specification `SessionStore`, and the proof that the one implements the other;
`NavigationManager`; `DocumentManager` and proofs; `DbCatalog`; `ProgressManager`;
proofs about `NavigationManager`, `ProgressManager` and `DbCatalog`, of `NewTextsKept`, and
that the steps of `DbConnection` are those of `JobService`.

Left, the most important first:

1. The filter and the query tabs of DbManager, and the filter of the catalog's tree.
2. Renaming of documents and files, and the holders of documents (`IDocument.cpp`).
3. Schemas above the categories of a catalog.
4. Projects and bookmarks as session items: they are saved and loaded like the
   connections, and a project may refuse to open.
5. Proofs about what the first four add.  Every invariant and every action property that
   a passing run checks is stated by a theorem; what is left of the runs is liveness.

## 3. The modules

`MC<module>.tla` gives a module's constants their values for TLC.  Definitions whose
comment begins with "Mutant" are not part of the model: each is a definition as a
plausible fault would have it.

### DbConnection

Variables with an `m_` prefix are the members of the class.  `script` and
`itemsExecuted` are those of `DbJob`.  `future` is `m_jobItemFuture`: none, running,
or done with its event not yet delivered; in the last state `isRunning()` is already
false, which is what `wake()` looks at.  `stack` is the call stack of the GUI thread:
a frame for each handler that waits in an event loop.  `serverTx`, `uncommitted` and
`lost` are the server; `shown`, `ran` and `finished` record history.

| Action | Code |
|---|---|
| `StartNewJob`, `StartQueryDataNewJob` | the slots that parse the text, enqueue a job and wake the connection |
| `ExecuteJobItem` | `executeJobItem` in the pool |
| `OnJobItemExecuted`, `AfterProgress`, `AfterFinishing` | `onJobItemExecuted`, cut at its two calls of `processEvents` |
| `UserCommit`, `UserRollback` | the commands of DbManager |
| `UserClose`, `AnswerClose` | `closeConnection` and its prompt |
| `AboutToClose`, `AnswerAbout`, `OthersVeto`, `OthersAgree` | the two phases of a session or application close |

A handler that runs an event loop is cut where it does, and only there.  User input
is excluded from those loops (`ExcludeUserInputEvents`), a request to close the
window is not; a modal dialog lets queued events through and no other dialog.  The
statements are their kinds, what the engine tells apart; a name is a job and a number.
The server (`ServerRuns`, `DriverFails`, ...) is external: it executes, fails at will,
and aborts a transaction when told to by `AbortsOnFailure`.

`JobService` is what the user is promised: jobs served one at a time in the order of
submission, each result shown once and in order, no close while a job is served, and
every job served to its end.  `Steps` is that promise without the last part.

### SqlSemanticHighlighter

The GUI thread (`Edit`, `TimerFires`, `ChangeEngine`, `ChangeFormats`,
`UpdateSemanticInfo`, the two events of the pool's future,
`StopSemanticHiglighter`), and the highlighter's thread, cut where it takes and
releases the mutex (`Look`, `Parse`, `Publish`).  A text is the number of its
revision, and 0 is the empty text of a request for which the editor did not fetch
it.  The pool reports the names of a document in one batch and then its end; several
batches would each be painted under the condition that one is.

Comments, links and the drawing of formats are left out: they read the same
documents and change no state that is read again.

### DbManager

Six lists (three of the manager, three of the widgets) and three positions.  What Qt
does to a position when something is removed is external and stated once each
(`ComboAfterRemoval`, `TabAfterRemoval`, `PageAfterRemoval`).  `CloseConnection`
follows the signals that a removal emits, in the order in which they reach the
slots, and gives each slot the lists as they are at that moment: that is where
`OnCurrentConnectionChanged` takes lists as parameters.  A user closes the current
connection, a script any; `scripted` remembers that a script has closed one since the
last selection.  The state of one connection is reduced to what the manager asks it:
whether it has a job and whether its flag is set; `MayRefuse` and `MayClose` are its
two answers.  Closing all connections is one action with the number of connections
left as its choice, because no step of another handler that changes these variables
fits between two closes except inside a prompt, during which a modal dialog keeps the
user out.  A statement that ends during such a prompt has its effect before or after
the action.

### DbCatalog

The tree of one connection: `tree.children` and `tree.loaded` are `m_childrens` and
`m_childrenLoaded` of its items, and `tree.made` counts how often an item was made.  An
item is its path.  `viewRows` is what the view's filter model has mapped, `root` the tree
that is shown and `m_rootItem` the one the connection asks, `m_details` the pointers
that the details tabs keep.  `failed` is history: items whose children the view asked
for in vain.

`LoadChildrens` is the item's own loading; `Expand` is the view's
(`hasChildren`, `canFetchMore`, `fetchMore`), which announces rows;
`SchemaObjects` and `SchemaObjectObjects` are completion's; `OpenLink` is an editor's
link; `OnDetails` and `OnDetailsTabClose` are the tabs; `OnRefresh` replaces the tree.
The server is external: it lists any of the names, or the query fails
(`Answers`).  Everything runs in the GUI thread, so each handler is one action.

### DocumentManager

Text documents and files, of which matters only which document has the text of its file
(`saved`).  `disk`, `watched`, `lost` and `reports` are the file system and Qt's watcher,
which is external: it reports late, and taking a path from it drops what it has not
reported.  A file that is deleted or replaced is watched no more, but its path stays in
the watcher (`lost`) until the report is delivered, and `addPath` does nothing for a path
that is there.  So a Save As onto a watched file, which a `FileSaver` replaces, ends
with the new file unwatched (`WatchInstead`).  A read that fails leaves an empty text that
looks unmodified, and `openDocument` returns true (`Read`, `OpenDocument`).

| Action | Code |
|---|---|
| `OpenDocument`, `NewDocument`, `Edit`, `SaveDocument`, `SaveAs`, `CloseDocument` | the document manager's operations, with what they do to the watcher in their order |
| `RegisterProjectFile`, `DeregisterProjectFile` | the nodes of a project |
| `ChangeResource`, `ChangeProjectFile`, `RenameNothing` | writes between `expectFileChanges` and `unexpectFileChanges` by `.qrc` and `.pro` nodes |
| `OutsideWrite`, `OutsideDelete`, `Report` | other programs, and `onFileChangedOutside` |
| `CheckForReload`, `AskChanged`, `AskDeletedNext`, `AskDeleted`, `EndCheck` | `checkForReload`, cut at its questions |

`told`, `missed` and `unread` are history: files whose user knows that they are gone, files
with a change that nobody will report, and documents whose last read failed.  `missed`
grows only where the code loses a report: a file that is not watched changes, a report
comes for a file that has been asked about already, a path is taken from the watcher with
its report pending, or one document is saved over another one's file.

### SessionManager and SessionStore

`m_sessions` and `m_currentSessionIndex` are the members, `sessionsXml` and
`lastSessionIndex` what the destructor writes, `stored` the sessions' directories.  Items
are new documents, whose text exists nowhere else, and connections.  `phase`, `target`
and `asked` say where `switchToSession` or `closeEvent` has got to: asking the clients
(`Agree`, `Refuse`), saving (`SaveCurrentSession`), closing (`SessionClose`,
`ApplicationClose`) and loading (`LoadSession`).  `Crash` may come at any of these steps; a disk
may not take a text; a connection may not close; a start may restore or not.  `used`
and `ended` are history: what was ever opened, and what is done with, by the user or by one
of those failures.

`SessionStore` is the promise: each session has its contents, and a switch is one step
that replaces what is open by what the other session had.  The refinement maps the
steps between saving and loading to the states before and after.

### ProcessRunner, GrammarRun, ProjectBuild

`GrammarRunManager` and `ProjectBuildActionsManager` start, finish and cancel their
process line for line alike: `ProcessRunner` is that text once, and the other two
extend it with their own guards, questions and callers.  `processes` is the system's; it
lets a process exit at any time, and the slot is called later, also from the event loop
of a question.

`GrammarRun` has the command, RunOnSave, the loops that save several documents and the
question of `execute` inside them.  `ProjectBuild` has build actions with their prior
save or question, the commands that a build disables, opening and closing projects, and
the two phases of a session or application close.

### Subsequences

What a loop over a list leaves when it removes elements: `ElementsAt` of the positions
it keeps.  The next two modules use it where the code removes while it iterates.  It is
defined by counting and not by recursion, so that proofs can reach it; an assumption in
`MCProgressManager` has TLC compare it with `SelectSeq`.

### NavigationManager

The list and the position are the members; `At` translates positions that count from
0.  `AddPosition` inserts at the position and makes room at the limit, `CutForward` drops
what is ahead, `GoBack` and `GoForward` first record the place the user is at.  The
callers are actions too: opening, showing and closing documents, the cursor, the
outline, and a session that blocks the history while it loads.  `came` and `left` are
history: the places that going back and going forward owe the user.

### ProgressManager

A task is none, running or finished; its end is an event in `events`, delivered to the
manager's watcher and then to the indicator's.  `AddTask`, `DeliverFinished`,
`FadeAway` and `Cancel` are the handlers, `ReportFinished` the thread or process.  Builds and
grammar runs are added as synchronous and run on for as long as their process;
`overtaken` is history, the synchronous tasks a later one has displaced from `m_syncTask`.  `WithNew`,
`WithoutOld` and `WithoutOne` are the view's `addTask`, `removeOldTasks` and
`removeOneOldTask`.

## 4. The runs

| Run | Question | Bounds | States |
|---|---|---|---|
| `dbconnection` | Do queue, future, handler, prompts and transaction flag agree in every interleaving, is each job served to its end? | 2 jobs, 5 scripts of at most 2 statements, 2 session or application closes | 143,946 |
| `highlighter` | Does the last request get through, and is only the current text painted? | 2 engines, 3 revisions, 2 changes of engine or formats | 345,189 |
| `oneengine` | With one engine, is each document the right one, does each lasting text get painted, does the thread end? | 3 revisions, 2 changes of formats | 31,252 |
| `manager` | Do lists, widgets, names and engine agree when users and scripts open and close? | 4 connections, 2 engines, 5 numbers | 1,318,422 |
| `catalog` | Is an item made once, is every pointer to a live one, does the view show what is loaded? | 2 tables with an index each, 1 refresh | 137,150 |
| `documents` | Does every change outside reach the user? | 2 documents, 2 files, one of them a resource | 3,118,633 |
| `sessions` | Do sessions keep their contents through switches, refusals, crashes and starts? | 3 sessions, 1 new document, 1 connection, 2 clients, 3 starts | 1,174,241 |
| `grammar_run` | Is the runner idle or running, is only saved text run, is an exit noticed? | 2 grammars, 1 other document, RunOnSave on | 21,658 |
| `project_build` | Does a running build belong to the open project? | 6 projects | 102 |
| `navigation` | Do the places come back, at the limit too? | 2 documents with an editor, 1 without, 2 places in each; limit 5, half 2 | 185,472 |
| `progress` | Does each running task keep its indicator, and do ended ones go? | 5 tasks of 4 types, a build and a grammar run synchronous; 2 indicators, 2 running at once | 484,990 |
| `prompt` | Is there a transaction when a prompt says so?  Violated. | 1 close | |

What the properties mean:

- `ResultBelongsToHead`: the handler counts its result against the first job without
  looking whose result it is, so it must be that job's.  Needs that no job enters in
  front, that no two handlers are on the stack and that the queue is not emptied
  while a statement runs.
- `NoLostWakeup`: a queue with jobs has a statement under way, since `wake()` is
  called in two places only.
- `ClosedIsQuiescent`: DbManager deletes a closed connection; nothing of it may be
  left in the pool, the queue or on the stack.
- `FinishedJobsRan`: a progress task that ends stands for statements that have run.
- `NoForgottenTransaction`, `FailureKeepsEarlierWork`, `WorkLostOnlyWhenAsked`: the
  flag and its saved copy are guesses about the server; they never forget an open
  transaction, never roll back work done before the statement that failed, and a
  close never drops work unasked.
- `ImplementsService`, `EveryJobFinishes`: the refinement and its liveness.
- `NoLostRehighlight`, `WaiterHasNothingToDo`: an editor that is out of date has an
  answer coming, and the thread does not sleep on a request.
- `UsagesMatchText`, `DocumentMatchesText`, `EveryRevisionIsHighlighted`, `StopEnds`:
  what is painted, what was parsed, that it is painted in the end, and that the
  destructor's `wait()` returns.
- `ListsAgree`, `PanesAgree`, `NamesUnique`, `EngineOfCurrent`: positions index the
  right things, widgets show one connection (after a close by a script, two of the three
  do), QSqlDatabase's names are not reused while one is open, the editors' engine is
  that of the connection shown.
- `CatalogTypeOK`, `DetailsAlive`, `RowsMatch`: no item is made twice while
  pointers to it are kept; details point into the tree that is shown; a row for every
  child whoever loaded it, unless the view's own query failed.
- `NothingIgnored`: a document that looks unmodified and differs from its file has a
  report or a question to come, or the user knows.  What the code does lose is recorded
  by `missed` and `unread`, so the property says that there is no other way.
- `ImplementsStore`, `NewTextsKept`: the steps of a switch amount to one; the text of a new
  document, which is nowhere else, is not lost but by a disk, a crash or a start that
  does not restore.  `TypeOK` has the assertion of `switchToSession` on the index.
- `MembersAgree`, `OnlySavedTextRuns`, `ExitedRunEnds`: idle or running with all members
  after every start failure, exit and cancel; the generator reads files, so the document's changes
  must be in its file; a process that exits is noticed, also while a question is open.
- `BuildBelongsToProject`, `CommandsAgree` (builds): the commands that a build disables
  are what keeps its project; every way out of a build enables them again.
- `NoClosedDocuments`, `CommandsAgree` (navigation), `PlacesReturn`: no dangling pointer;
  the two commands tell the truth although going back may append a place untold; the
  place added last, before a jump or by opening a document, is where Back leads, whatever
  the limit drops.
- `StatusAgrees`, `ShownWhileRunning`, `EndedTasksGo`: the status bar counts what runs, and says
  that a synchronous task is executed exactly as long as the one added last is counted; a
  running task can be cancelled, an ended one leaves the manager and the view.

### Why the bounds are enough

Two jobs give a queue with a successor, one job being served, and a submission at
every moment of the other's life.  Two statements give a first, a last, and one in
between results.  With two closes one can be refused and the next one go on from
what the first left behind.  Three revisions give an answer that is one and two
behind, a request replaced in the slot, and an editor that has accepted one answer
before; two changes of engine go there and back.  Four connections have one to close
on either side of the current one with another one beyond it; five numbers let one
opening fail.  The states of `manager` are counted up to exchanging connections of one
type (`MCSymmetry`), which the module tells apart only by their type.  `MaxDbIndex` counts since
the last reset, so that runs open again after closing all; a connection's object is new
each time it is opened and is opened once.

Two tables with an index each let the index of one table be found through the other's
absence.  Two documents and two files give one document saved over the other's file, a Save
As onto a file that a project watches, and a resource and a `.pro` file written by their project.  Three sessions have one to delete in
front of the current one; three starts have one after a regular end and one after a
crash.  Three documents give a run started by saving one that is not current.  A build is
told apart from the next only by its project; six projects are more than any path needs.
The history's limit is 5 with a half of 2, where the code has 30 and 15: the loop that
makes room drops at the front, at the back, and on both sides within it.  Five tasks fill a view of
two with two running, with tasks of one type and of others; a build and a grammar run
overlap in each order of their starts and ends.  The code's view holds ten.

The bounds are guards on what the user does, so no execution is cut in the middle of a
handler.  `dbconnection` gives the driver transactions (`HasTransactionFeature = TRUE`) and
transactional DDL; drivers without them are covered by the proofs.

`CHECK_DEADLOCK FALSE`: in `dbconnection`, `highlighter`, `oneengine`, `manager`, `sessions`
and `progress` the user may stop doing anything or has used up a bound (jobs, revisions,
numbers, starts, tasks), and the closed connection and the destroyed editor have no steps left.

### Fairness

`FairSpec` of `DbConnection` says that a statement in the pool ends, that the event loop
delivers queued events and returns, and that a dialog on the screen is answered.
`FairSpec` of the highlighter says that its thread is scheduled (it has the lowest
priority and shares nothing that could starve it), that timer and queued events are
delivered, and that the pool walks its document.  `FairSpec` of `GrammarRun` says that the
signal of a process that has exited is delivered, and `Fairness` of `ProgressManager` that
events, timers and animations are.  Those are what Qt's event loop and thread pool
provide; a statement that never returns from the server is outside the assumption, as
the code has no timeout for it.  Nothing is assumed of the user, of processes or of the threads
of tasks: no edit, job, commit or close ever has to happen, no process has to exit.

## 5. Finding and observations

The finding is a run that is expected to end in a violation; `PROJECT.json` quotes the
lines.  `PromptTellsTruth`: the prompt of a session or application close commits or rolls
back and leaves the flag set; if another client refuses the close, the connection
believes in a transaction that is gone.

The models follow the code in what else they met, and the properties are stated around
it.  These are facts about the code, each visible in the module named:

- `DbConnection`: a job submitted when a statement has run and its event has not been
  delivered makes `wake()` run that statement again; one result is shown all the same.
  The PostgreSQL engine flags RELEASE SAVEPOINT like the end of the transaction, so the
  properties of the flag are for scripts without it (`NoSavepoints`).
- `SqlSemanticHighlighter`: with two engines an editor may accept the document of the
  empty text, and paint names found by the old engine; `oneengine` and
  `UsagesMatchText` say what remains true.
- `DbManager`: closing the first of several connections leaves Commit in the state of
  the closed one; a close by a script may leave the details page behind.
- `DocumentManager`: a report for a file the user has already been asked about, while
  questions are still open, is cleared with the sets; a file that is replaced is
  not watched any more, and neither is one that Save As has replaced while it was watched;
  Save As goes onto another document's file; a rename in a
  `.pro` file that finds nothing leaves the file unwatched; a resource that is written
  by its project is read again over the edits of its document; a file that was deleted
  and is kept looks unmodified; a file that cannot be read opens, or is reloaded, as an
  empty text that looks unmodified.
- `SessionManager`: a connection that refuses to close belongs to the next session from
  then on; a start without restoring overwrites what the default session held; a new
  document the disk does not take is closed all the same; the list of
  sessions and the current one are written only by a regular end.
- `GrammarRun`: the run after a save is that of the current document, which need not be
  the one saved; a new document that is not modified counts as saved and has no file;
  the Cancel command is not connected, so that a run is cancelled only by a close of the
  application.
- `ProcessRunner`: the indicator's own Cancel is not looked at by either manager.
- `ProjectBuild`: a build is cancelled when a close is asked about, also if the close is then refused.
- `ProgressManager`: a synchronous task takes the place of another in `m_syncTask`, and its
  end clears it; when a grammar run started during a build ends first, the status says
  `AnyTaskExecuted` while the build runs.  The indicator that makes room in a view of ten may belong to a
  running task when all ten run; `ShownWhileRunning` is checked with as many running as
  the view holds.
- `DbCatalog`: an item whose query failed for the view keeps no rows although another caller
  loads its children later.

## 6. Proofs

`tlapm` checks all of them to the last leaf.  The constants are arbitrary: any set of
jobs, scripts, engines, files or names, any bound; the assumptions are those named in
the modules.  Tasks, tables and indexes are finitely many, since their numbers are counted;
the history's half is at least 1 (the code's is 15).

**DbConnectionProofs.**  `TypeCorrect`, `ResultsBelongToHead`, `WakeupsAreNotLost`,
`ClosesQuiescent`.  None of the properties is inductive alone.  `IInv` adds

- `QueueOK`: queued jobs are distinct, were submitted with a script that is not empty,
  and only the first has been worked on (so a job that moves to the front starts with
  its first statement);
- `StackOK`: at most two frames, a handler and a prompt of a session or application
  close, in either order (a prompt may open inside `processEvents`, and a result may
  arrive inside a prompt);
- `HandlerOK`: while the handler waits, its job is at the head and nothing runs, and
  "finishing" means all its statements are counted;
- `PromptOK`: the prompt of `closeConnection` is open only without jobs.

There is one lemma per action.  What `wake()` may do is one lemma
(`WakeStarts`) used by the four actions that call it, and pushing and popping frames
three.

`FinishedJobsHaveRun` adds `RanOK`: what is counted has run, the result on its way too,
and a finished job is counted to its end.

`TransactionsAreKnown`, `FailuresKeepEarlierWork` and `WorkIsAskedAbout` assume
`NoSavepoints`.  Their invariant adds `ServerOK` (work is uncommitted only in a
transaction; a commit that succeeded has ended it) and `SaveOK` (when the flag was
not set as the statement started, nothing but that statement is uncommitted).  The last
follows because every close without the prompt needs the flag unset.

`ServesLikeTheService` is the refinement of `JobService` without its liveness: `Spec` implies
`Service!Steps`, the initial condition and the steps of the service.  Three actions are
seen: a job that arrives is a `Submit` (a job not submitted has no script yet, `UnsentOK`),
the start of the handler is a `Show` (by `ResultBelongsToHead`), its last return a `Retire` (by
`HandlerOK`); each of the three ways to close is a `Leave` (by `PromptOK` for the prompt);
everything else is a stutter.  `ResultsAreShownInOrder` says what a user sees of it: each
result once, in the order of its job, and no results of other jobs between those of one.
Its invariant adds `ShownOK`: once the first job has shown something, only its results
are shown.

**SqlSemanticHighlighterProofs.**  `TypeCorrect`, `RehighlightsAreNotLost`,
`WakeOnesAreNotLost`, `PaintsTheCurrentText`, and `DocumentsMatch` assuming `OneEngine`.
`NoLostRehighlight` and `WaiterHasNothingToDo` are inductive with the types; painting
needs `FutureOK` (the running future's document has the revision painted for); the
documents need `DocInv`: every request, answer and document on its way is faithful to
its revision, or is without a text and behind a document that has it, and revisions only
grow from the slot through the thread to the editor.

**DbManagerProofs.**  `TypeCorrect`, `ListsStayParallel`, `NamesStayUnique`,
`EngineFollowsCurrent`, `PanesStayTogether`.  `IInv` adds `SelectionOK` (the tab is the
row, and there is a current one as long as there is any) and `NamesOK` (every open
connection's number is below the next one, so that a new name is new, and resetting it
is right only with no connection open).  The step that needs work is `CloseConnection`:
the lemma `CloseMoves` follows row and tab through the signals of a removal and shows
that they meet, and with which lists the slot was called last; from that the engine is
the one of the connection at the position in the shortened list.  `PanesAgree` does not
strengthen the invariant; it is preserved given it.

The second half of the module is about `DbCatalog`: `CatalogTypes`, `DetailsStayAlive`,
`RowsAlwaysMatch`, for every schema.  `CatalogInv` is about the tree, the rows and the
details.  `TreeOK`: what is not loaded has no children, what is loaded is in the tree, an
object in the tree has its categories, and an item was made once if it is in the tree and
never otherwise.  `RowsOK`: an item the view has mapped has as many rows as children,
*and those are loaded*, or no row after a failed query; without "loaded" a later load by
somebody else would break the count.  The argument is that a tree only grows between
refreshes (`Grows`: children of loaded items stay as they are), which keeps rows and
details, and that each of the four ways to load keeps `TreeOK`.  `ClearNothing` shows that
clearing an item before it is loaded never clears anything, because nothing below it can
be loaded (`Lineage`: paths have at most four parts).  `FetchFacts` shows that the order in
`fetchMore` announces exactly what was loaded.

**GrammarRunProofs** and **ProjectBuildProofs** each show that the operations of the runner
keep `RunnerInv` (`RunnerTypeOK`, `MembersAgree`, `NoOrphan`), `RunnerStep`.  From it
`GrammarTypes`, `GrammarMembersAgree`, `GrammarNoOrphan`, `GrammarSavedTextRuns`; the
last needs that a question is about the current document.  And
`BuildTypes`, `BuildMembersAgree`, `BuildKeepsProject`, `BuildCommandsAgree`.
`BuildBelongsToProject` and `CommandsAgree` need each other, and `NoBuildWhileClosing`
(the first phase of a close has cancelled the build) and `EnvironmentOfProject`.

**SessionManagerProofs.**  `SessionTypes`, `NewTextsAreKept` and `SessionsImplementStore`, without
liveness, since the store has none.  `IInv` adds `NamesOK` (names in the list differ and the first is Default, which
makes deleting by index the same as deleting by name), `NoTarget` and `ConnectionsSaved` (a
connection that does not close in time is stored already).  `StoreNext` has one step
per action: each is a step of `SessionStore` or a stutter under the mapping.
`NewTextsAreKept` adds `TextsInv`: what only a session outside the list has is ended
(`UnlistedEnded`: a deleted session's texts are given up by the user), what the current
session has stored is open or ended while nothing is being closed (`CurrentIsOpen`), and
between saving and closing what is open is stored or ended (`TextsSaved`), so that neither the
close nor a crash then loses it.  Nothing is open in a stopped program (`StoppedIsEmpty`).

**DocumentManagerProofs.**  `DocumentTypes` and `ChangesAreTold`.  `IInv` adds `SharedOK`
(of two documents with one file the file is missed, because what is missed is forgotten
only by a file's single document), `TodoOK`, and `AskedOK`, which says where in
`checkForReload` the question for a document that differs from its file is still to
come.  For a file that is there it is among the changed files, and during the first loop
among those left of them; for a file that is gone it is among the deleted ones, and during the
second loop among those left of them.  The two are apart because the first loop is over
before the second begins, and Keep tells the user only of a file that is gone.

**QWorkbaseProofs.**  The lemmas about `Subsequences` come first: `NthExists` and `NthOnto`
(the k-th position of a finite set of numbers exists, and every position is the k-th for
some k) by the principle of the least number, `ElementsAtFacts` (length, elements and
order of what is kept).

Navigation: `NavigationTypes`, `NoDocumentDangles`, `CommandsAlwaysAgree`,
`PlacesAlwaysReturn`.  The invariant is split into `DocumentsOK` (documents, cursors, and that
the current document is open) and `HistoryOK` (history, position, commands, and the places
owed).  The operations on the list have a lemma each: `InsertFacts`; `TrimFacts`, that making
room at the limit drops neither the place before the position nor the one after it,
which is where `Half + 2 < Limit` is needed; `CutForwardFacts`; `RemoveFacts`, that
taking the places of a closed document out moves the position by as many as were in front of
it.

Progress: `ProgressTypes`, `StatusAlwaysAgrees`, and `RunningTasksAreShown` assuming
`MaxRunning <= ViewLimit`, without which it is false (section 5).  The invariant says that
the manager counts the tasks that run and those whose end is on its way, each once
(`EventsOK`), that its synchronous task is the only synchronous one it counts to which no
later one was added (`SyncOK`), and that the status is the one computed from both (`StatusOK`).  That a running task is not pushed out of a full view is a
pigeonhole: among `ViewLimit` indicators one belongs to a task that does not run, and
`WithoutOld` and `WithoutOne` prefer that one.

What is only model-checked: liveness (`EveryJobFinishes`, `EveryRevisionIsHighlighted`,
`StopEnds`, `ExitedRunEnds`, `EndedTasksGo` and the fairness in `ImplementsService`), which is out of
the prover's reach, and that `ElementsAt` is what `SelectSeq` computes, since the latter is
recursive.  `PromptTellsTruth` is false.

## 7. Not modelled, and why

- The generated parsers and lexers, and the catalogs of keywords: no state between calls.
- The queries of the loaders and the drivers: I/O; a driver is its answer.
- Widgets that only show: the result tables, models, delegates, dialogs, icons.
- Connection history and SQL history: one list, changed by one handler at a time and
  written when the program ends.
- Python object storage: a map from addresses to Python objects that one function fills
  and one slot empties.
- Project data, favorites, commands, modes, log: trees and registries changed by one
  handler at a time and saved as XML.
- Forks of Qt Creator's libraries (`libs/texteditorlib`, `libs/utils`, `libs/cplusplus`,
  `libs/ProjectExplorer` and others), PythonQt and `libs/3rdparty`: third-party code.  They and
  the generated parsers are nearly all of the repository's lines.
- `DbConnectionsManager`: the predecessor of DbManager, which is not built.
- Of DbManager: filters and query tabs, and `startTransaction` and `commitTransaction`
  called by scripts with an index.  `loaderByDatabaseType` walks its list without an end
  when no loader has the type asked for; the types come from the same list.
- `QSqlDatabase` used from the pool and the GUI thread at once: what it does then is the
  driver's.
- Of documents: renaming, holders, recent files, cursors and menus; editors that are not
  texts; the events, but no user's input, that the reading of a large text lets through.
- Of sessions: projects, bookmarks and favorites as items.
- Of the catalog: the filter and the schemas above the categories.
- Of tasks: `cancelTasks`, which nothing calls, the second indicator of a search, and
  `cancelAllRunningTasks` at the end of the program.
