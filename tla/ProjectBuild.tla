---------------------------- MODULE ProjectBuild ----------------------------
(***************************************************************************)
(* Projects and their build actions (plugins/asproject).  A build action   *)
(* is a program the project's database names; ProjectBuildActionsManager   *)
(* runs one at a time, in the environment read from the same database.     *)
(* Nothing in openProjectFilePath or closeProjectDb looks at a build:      *)
(* what keeps the project while one runs are commands that are disabled,   *)
(* and the session and the application, which cancel the build before      *)
(* they ask the other clients.                                             *)
(*                                                                         *)
(* m_process is the project whose action was started.                      *)
(***************************************************************************)
EXTENDS ProcessRunner

VARIABLES
  project,         \* the open project, or None
  environment,     \* the project m_environment was read from, or None
  projectCommands, \* New, Open, Close and Recent Projects are enabled
  buildActions,    \* the build actions of the tree's model are enabled
  unsaved,         \* some document has unsaved changes
  question,        \* "none"; "ask", "auto": a build action is saving them
  closing          \* "none"; "session", "application": the other clients are asked

project_vars == <<project, environment, projectCommands, buildActions>>
vars == <<m_dirty, m_process, m_parser, m_futureInterface, m_cmdCancelBuild, processes,
          project, environment, projectCommands, buildActions, unsaved, question,
          closing>>

Projects == Targets
Idle     == question = "none" /\ closing = "none"

Init ==
  /\ RunnerInit
  /\ project = None /\ environment = None
  /\ projectCommands = TRUE /\ buildActions = TRUE
  /\ unsaved = FALSE /\ question = "none"
  /\ closing = "none"

(***************************************************************************)
(* The manager's signals, as the plugin, the tree and the model take them. *)
(***************************************************************************)
OnBuildActionStarted  == projectCommands' = FALSE /\ buildActions' = FALSE
OnBuildActionFinished == projectCommands' = TRUE /\ buildActions' = TRUE

\* A mutant: a build that is cancelled does not tell.
FinishedUntold == SlotProcessFinished /\ UNCHANGED <<projectCommands, buildActions>>

Finished == SlotProcessFinished /\ OnBuildActionFinished
CancelBuild ==
  IF m_dirty THEN CancelBuildAction /\ OnBuildActionFinished
  ELSE UNCHANGED runner /\ UNCHANGED <<projectCommands, buildActions>>

(***************************************************************************)
(* startBuildAction.                                                       *)
(***************************************************************************)
\* The rest of it, once the documents are saved, or need not be.
StartProcess ==
  /\ \/ ProcessStarted(project) /\ OnBuildActionStarted
     \/ StartFailed /\ UNCHANGED <<projectCommands, buildActions>>
  /\ question' = "none"

\* A build action whose prior action is to save, to ask, or nothing.
OnBuildAction(prior) ==
  /\ Idle /\ project # None /\ buildActions
  /\ IF m_dirty
     THEN UNCHANGED <<m_dirty, m_process, m_parser, m_futureInterface, m_cmdCancelBuild,
                      processes, projectCommands, buildActions, question>>
     ELSE IF unsaved /\ prior # "none"
     THEN question' = prior /\ UNCHANGED runner /\ UNCHANGED <<projectCommands, buildActions>>
     ELSE StartProcess
  /\ UNCHANGED <<project, environment, unsaved, closing>>

\* The documents are saved, or the user, if asked, discards the question.
StartAfterSave ==
  /\ question # "none"
  /\ StartProcess
  /\ unsaved' \in IF question = "ask" THEN BOOLEAN ELSE {FALSE}
  /\ UNCHANGED <<project, environment, closing>>

\* The user cancels, or a document is not saved.
NotStarted ==
  /\ question # "none"
  /\ question' = "none"
  /\ UNCHANGED runner /\ UNCHANGED project_vars
  /\ UNCHANGED <<unsaved, closing>>

(***************************************************************************)
(* The project.                                                            *)
(***************************************************************************)
CloseProjectDb == project' = None /\ environment' = None

\* After closeProjectDb, openProjectDb, and createProjectDb for a new one,
\* may fail; the actions of a new model are enabled.
OpenedOrFailed ==
  \/ \E p \in Projects : project' = p /\ environment' = p /\ buildActions' = TRUE
  \/ CloseProjectDb /\ UNCHANGED buildActions

OpenProject ==
  /\ Idle /\ projectCommands
  /\ OpenedOrFailed
  /\ UNCHANGED runner
  /\ UNCHANGED <<projectCommands, unsaved, question, closing>>

\* A mutant: a build does not keep the user from closing the project.
CloseProjectWhileBuilding ==
  /\ Idle
  /\ CloseProjectDb
  /\ UNCHANGED runner
  /\ UNCHANGED <<projectCommands, buildActions, unsaved, question, closing>>

CloseProject ==
  /\ Idle /\ projectCommands
  /\ CloseProjectDb
  /\ UNCHANGED runner
  /\ UNCHANGED <<projectCommands, buildActions, unsaved, question, closing>>

(***************************************************************************)
(* Session and application.                                                *)
(***************************************************************************)
\* sessionAboutToClose and applicationAboutToClose.
AboutToClose(what) ==
  /\ Idle /\ closing' = what
  /\ CancelBuild
  /\ UNCHANGED <<project, environment, unsaved, question>>

\* A client asked after this one refuses.
CloseRefused ==
  /\ closing # "none"
  /\ closing' = "none"
  /\ UNCHANGED runner /\ UNCHANGED project_vars
  /\ UNCHANGED <<unsaved, question>>

\* They all agree: sessionClose closes the project, and loadSession may open
\* the next session's.
SessionClose ==
  /\ closing = "session"
  /\ closing' = "none"
  /\ OpenedOrFailed
  /\ UNCHANGED runner
  /\ UNCHANGED <<projectCommands, unsaved, question>>

Edit ==
  /\ Idle
  /\ unsaved' = TRUE
  /\ UNCHANGED runner /\ UNCHANGED project_vars
  /\ UNCHANGED <<question, closing>>

UserCancel ==
  /\ Idle /\ m_cmdCancelBuild
  /\ CancelBuild
  /\ UNCHANGED <<project, environment, unsaved, question, closing>>

\* The event loop, while a question is open too.
ProcessEvent ==
  /\ \/ \E t \in Targets : ProcessExits(t)
     \/ IndicatorCancelled
  /\ UNCHANGED project_vars
  /\ UNCHANGED <<unsaved, question, closing>>
OnFinished ==
  /\ Finished
  /\ UNCHANGED <<project, environment, unsaved, question, closing>>

Next ==
  \/ \E prior \in {"none", "ask", "auto"} : OnBuildAction(prior)
  \/ StartAfterSave \/ NotStarted
  \/ OpenProject \/ CloseProject
  \/ \E what \in {"session", "application"} : AboutToClose(what)
  \/ CloseRefused \/ SessionClose
  \/ Edit \/ UserCancel \/ ProcessEvent \/ OnFinished

Spec == Init /\ [][Next]_vars

(***************************************************************************)
(* Properties.                                                             *)
(***************************************************************************)
\* The types of the variables, and the manager's members (ProcessRunner).
TypeOK ==
  /\ RunnerTypeOK
  /\ project \in Projects \union {None} /\ environment \in Projects \union {None}
  /\ projectCommands \in BOOLEAN /\ buildActions \in BOOLEAN
  /\ unsaved \in BOOLEAN
  /\ question \in {"none", "ask", "auto"} /\ closing \in {"none", "session", "application"}
  /\ question # "none" => closing = "none" /\ ~m_dirty /\ project # None

\* A build that runs belongs to the project that is open, and was given the
\* environment of that project: no project is closed or opened under it, by
\* a command, a session or a question that took its time.
BuildBelongsToProject ==
  m_process # None => m_process = project /\ environment = project

\* The commands on projects and the build actions are enabled exactly while
\* no build runs: no way out of a build leaves them disabled, none lets two
\* builds start.
CommandsAgree == projectCommands = ~m_dirty /\ buildActions = ~m_dirty
=============================================================================
