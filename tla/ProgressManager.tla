-------------------------- MODULE ProgressManager --------------------------
(***************************************************************************)
(* Tasks in the background and their progress indicators                   *)
(* (ProgressManagerPrivate in libs/qworkbase/progressmanager, ProgressView *)
(* and FutureProgress in libs/corelib, TasksStatusWidget).                 *)
(*                                                                         *)
(* A task runs in a thread or a process of its own; its end is an event,   *)
(* which Qt delivers in the order of the ends, to the manager's watcher    *)
(* and then to the indicator's.  Builds, grammar runs, the search of       *)
(* CppHelperDialog and the opening of a large file are added as            *)
(* synchronous; the first two run on after the handler that added them.    *)
(* Nothing calls cancelTasks, which is left out.                           *)
(***************************************************************************)
EXTENDS Integers, Sequences, FiniteSets, SequencesExt, Subsequences

CONSTANTS
  Tasks, Types, Type,   \* Type[t] groups tasks
  SyncTasks,            \* those added as synchronous
  NoTask,
  ViewLimit,            \* indicators in the view
  MaxRunning            \* bound: tasks running at once

ASSUME TasksAssumption  == IsFiniteSet(Tasks)
ASSUME TypeAssumption   == Type \in [Tasks -> Types]
ASSUME SyncAssumption   == SyncTasks \subseteq Tasks /\ NoTask \notin Tasks
ASSUME BoundsAssumption == ViewLimit \in Nat \ {0} /\ MaxRunning \in Nat

VARIABLES
  future,           \* of each task: "none", "running" or "finished"
  canceled,         \* futures that are canceled
  events,           \* ends the event loop has still to deliver
  m_runningTasks, m_syncTask,
  overtaken,        \* history: synchronous tasks counted still, with a later one added
  status,           \* the last TasksStatus, which the status bar shows
  m_taskList,       \* the indicators, oldest first
  m_isFading        \* indicators that go away by themselves

manager == <<m_runningTasks, m_syncTask, overtaken, status>>
view    == <<m_taskList, m_isFading>>
progressVars == <<future, canceled, events, m_runningTasks, m_syncTask, overtaken,
                  status, m_taskList, m_isFading>>

Running     == {t \in Tasks : future[t] = "running"}
Finished(t) == future[t] = "finished"

StatusOf(tasks, sync) ==
  [taskCount |-> Cardinality(tasks),
   state |-> IF tasks = {} THEN "NoTasks"
             ELSE IF sync # NoTask THEN "SyncTaskExecuted" ELSE "AnyTaskExecuted"]

ProgressInit ==
  /\ future = [t \in Tasks |-> "none"] /\ canceled = {} /\ events = <<>>
  /\ m_runningTasks = {} /\ m_syncTask = NoTask /\ overtaken = {}
  /\ status = StatusOf({}, NoTask)
  /\ m_taskList = <<>> /\ m_isFading = {}

-----------------------------------------------------------------------------
(* The view.                                                                *)

\* removeOldTasks: the finished tasks of a type, with keepOne not the newest.
WithoutOld(list, type, keepOne) ==
  LET same   == {i \in DOMAIN list : Type[list[i]] = type}
      newest == {i \in same : \A j \in same : j <= i}
  IN  ElementsAt(list, {i \in DOMAIN list : \/ i \notin same
                                           \/ ~Finished(list[i])
                                           \/ (keepOne /\ i \in newest)})

\* Mutant: the oldest one, whether or not it has finished.
WithoutOldest(list) == Tail(list)

\* removeOneOldTask: the oldest finished one, or the oldest of a type with
\* others, or the oldest.
WithoutOne(list) ==
  LET ended  == {i \in DOMAIN list : Finished(list[i])}
      shared == {i \in DOMAIN list :
                   \E j \in DOMAIN list \ {i} : Type[list[j]] = Type[list[i]]}
      first(s) == CHOOSE i \in s : \A j \in s : i <= j
  IN  RemoveAt(list, first(IF ended # {} THEN ended
                           ELSE IF shared # {} THEN shared ELSE DOMAIN list))

\* Mutant: old indicators are left to themselves.
AppendOnly(list, t) == Append(list, t)

\* ProgressView::addTask.
WithNew(list, t) ==
  LET old == WithoutOld(list, Type[t], FALSE)
  IN  Append(IF Len(old) = ViewLimit THEN WithoutOne(old) ELSE old, t)

-----------------------------------------------------------------------------
(* The manager.                                                             *)

\* Mutant: taskFinished leaves m_syncTask.
KeepSync(t) == m_syncTask

SyncAfter(t) == IF m_syncTask = t THEN NoTask ELSE m_syncTask

\* addTask; the task may have ended before, or end in the same handler.  A
\* synchronous one takes the place of another.
AddTask(t) ==
  /\ future[t] = "none"
  /\ Cardinality(Running) < MaxRunning
  /\ \E end \in BOOLEAN :
       /\ future' = [future EXCEPT ![t] = IF end THEN "finished" ELSE "running"]
       /\ events' = IF end THEN Append(events, t) ELSE events
  /\ m_runningTasks' = m_runningTasks \union {t}
  /\ IF t \in SyncTasks
     THEN m_syncTask' = t /\ overtaken' = m_runningTasks \intersect SyncTasks
     ELSE UNCHANGED <<m_syncTask, overtaken>>
  /\ status' = StatusOf(m_runningTasks', m_syncTask')
  /\ m_taskList' = WithNew(m_taskList, t)
  /\ UNCHANGED <<canceled, m_isFading>>

\* The thread, or the process, reports its end, canceled or not.
ReportFinished(t) ==
  /\ t \in Running
  /\ future' = [future EXCEPT ![t] = "finished"]
  /\ events' = Append(events, t)
  /\ UNCHANGED <<canceled, manager, view>>

\* taskFinished of the manager.
TaskFinished(t) ==
  /\ m_runningTasks' = m_runningTasks \ {t}
  /\ m_syncTask' = SyncAfter(t) /\ overtaken' = overtaken \ {t}
  /\ status' = StatusOf(m_runningTasks', m_syncTask')

\* setFinished and tryToFadeAway of the indicator: one whose future is
\* canceled stays.
SetFinished(t) ==
  /\ m_isFading' = IF t \in ToSet(m_taskList) \ canceled
                   THEN m_isFading \union {t} ELSE m_isFading
  /\ UNCHANGED m_taskList

DeliverFinished ==
  /\ events # <<>> /\ events' = Tail(events)
  /\ TaskFinished(Head(events)) /\ SetFinished(Head(events))
  /\ UNCHANGED <<future, canceled>>

\* Mutant: an animation that nothing follows.
StaysFaded(t) == m_taskList

\* slotRemoveTask.
AfterFading(t) ==
  LET rest == ElementsAt(m_taskList, {i \in DOMAIN m_taskList : m_taskList[i] # t})
  IN  WithoutOld(rest, Type[t], TRUE)

\* The timer and the animation of fadeAway have ended.
FadeAway(t) ==
  /\ t \in m_isFading
  /\ m_isFading' = m_isFading \ {t}
  /\ m_taskList' = IF t \in ToSet(m_taskList) THEN AfterFading(t) ELSE m_taskList
  /\ UNCHANGED <<future, canceled, events, manager>>

\* The user clicks on an indicator.
Cancel(t) ==
  /\ t \in ToSet(m_taskList) \ canceled
  /\ canceled' = canceled \union {t}
  /\ UNCHANGED <<future, events, manager, view>>

ProgressNext ==
  \/ \E t \in Tasks : AddTask(t) \/ ReportFinished(t) \/ FadeAway(t) \/ Cancel(t)
  \/ DeliverFinished

\* The event loop runs, and so do its timers; threads may run for ever.
Fairness == WF_progressVars(DeliverFinished) /\ \A t \in Tasks : WF_progressVars(FadeAway(t))

ProgressSpec == ProgressInit /\ [][ProgressNext]_progressVars /\ Fairness

-----------------------------------------------------------------------------
(***************************************************************************)
(* Properties.                                                             *)
(***************************************************************************)

\* The types; an indicator is in the view once, and the view has its limit.
ProgressTypeOK ==
  /\ future \in [Tasks -> {"none", "running", "finished"}]
  /\ canceled \subseteq Tasks
  /\ m_runningTasks \subseteq Tasks /\ m_syncTask \in Tasks \union {NoTask}
  /\ overtaken \subseteq SyncTasks
  /\ status.taskCount \in 0..Cardinality(Tasks)
  /\ status.state \in {"NoTasks", "AnyTaskExecuted", "SyncTaskExecuted"}
  /\ ToSet(events) \subseteq {t \in Tasks : Finished(t)} /\ IsInjective(events)
  /\ ToSet(m_taskList) \subseteq Tasks /\ IsInjective(m_taskList)
  /\ Len(m_taskList) <= ViewLimit
  /\ m_isFading \subseteq {t \in Tasks : Finished(t)}

\* The status bar counts the tasks whose end the manager has not heard of,
\* those that run among them.  It says that a synchronous one is executed
\* exactly as long as that one is counted to which none was added later: of a
\* build that a grammar run has overtaken it knows nothing, whichever ends
\* first, and it never says so of a task that is gone.
StatusAgrees ==
  /\ status.taskCount = Cardinality(m_runningTasks)
  /\ (status.state = "NoTasks") <=> (m_runningTasks = {})
  /\ (status.state = "SyncTaskExecuted") <=> (m_runningTasks \intersect SyncTasks) \ overtaken # {}
  /\ Running \subseteq m_runningTasks

\* As long as the view has room for the tasks that run, none that runs is
\* without its indicator, by which the user could cancel it: neither the
\* limit nor the indicators of ended tasks take it away.
ShownWhileRunning == Running \subseteq ToSet(m_taskList)

\* A task that has ended leaves the manager, and the view unless canceled.
EndedTasksGo ==
  \A t \in Tasks :
    Finished(t) ~> t \notin m_runningTasks /\ (t \in ToSet(m_taskList) => t \in canceled)
=============================================================================
