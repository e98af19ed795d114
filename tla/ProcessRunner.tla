--------------------------- MODULE ProcessRunner ---------------------------
(***************************************************************************)
(* What GrammarRunManager and ProjectBuildActionsManager have in common:   *)
(* each runs one external process, with the same members and, line for     *)
(* line, the same start, finished slot and cancel.  This module has their  *)
(* state and those operations; GrammarRun and ProjectBuild extend it with  *)
(* their guards, questions and callers.                                    *)
(*                                                                         *)
(* The process is outside the program: it exits when it likes, and the     *)
(* event loop, a modal dialog's too, calls the finished slot some time     *)
(* later.  m_process is the target the process was started for.            *)
(***************************************************************************)
CONSTANTS
  Targets,  \* what a process is started for: documents, or projects
  None      \* no process

ASSUME TargetsAssumption == None \notin Targets

VARIABLES
  m_dirty,
  m_process,
  m_parser,           \* there is a parser
  m_futureInterface,  \* "none", or what the progress indicator shows
  m_cmdCancelBuild,   \* the Cancel command is enabled
  processes           \* the processes the system is running

runner == <<m_dirty, m_process, m_parser, m_futureInterface, m_cmdCancelBuild, processes>>

RunnerInit ==
  /\ m_dirty = FALSE /\ m_process = None /\ m_parser = FALSE
  /\ m_futureInterface = "none"
  /\ m_cmdCancelBuild = FALSE
  /\ processes = {}

\* waitForStarted has returned true; buildActionStarted enables Cancel.
ProcessStarted(t) ==
  /\ m_dirty' = TRUE /\ m_process' = t /\ m_parser' = TRUE
  /\ m_futureInterface' = "running"
  /\ m_cmdCancelBuild' = TRUE
  /\ processes' = processes \union {t}

\* A mutant: a start failure leaves m_dirty set.
StartFailedDirty ==
  /\ m_dirty' = TRUE /\ m_process' = None /\ m_parser' = FALSE
  /\ UNCHANGED <<m_futureInterface, m_cmdCancelBuild, processes>>

\* It has returned false: the members set before are taken back, and there
\* is no future yet.
StartFailed ==
  /\ m_process' = None /\ m_parser' = FALSE /\ m_dirty' = FALSE
  /\ UNCHANGED <<m_futureInterface, m_cmdCancelBuild, processes>>

Start(t) ==
  \/ m_dirty /\ UNCHANGED runner
  \/ ~m_dirty /\ (ProcessStarted(t) \/ StartFailed)

\* The external process ends, of itself.
ProcessExits(t) ==
  /\ t \in processes
  /\ processes' = processes \ {t}
  /\ UNCHANGED <<m_dirty, m_process, m_parser, m_futureInterface, m_cmdCancelBuild>>

\* A mutant: the indicator is not told.
FinishWithoutReport ==
  /\ m_dirty' = FALSE /\ m_process' = None /\ m_parser' = FALSE
  /\ m_cmdCancelBuild' = FALSE
  /\ UNCHANGED m_futureInterface

\* What both ways out do: the members are cleared, the future is reported
\* finished and deleted, and buildActionFinished disables Cancel.
Finish ==
  /\ m_dirty' = FALSE /\ m_process' = None /\ m_parser' = FALSE
  /\ m_futureInterface' = "none"
  /\ m_cmdCancelBuild' = FALSE

\* The slot is called for a process that has exited.
SlotProcessFinished ==
  /\ m_process # None /\ m_process \notin processes
  /\ Finish
  /\ UNCHANGED processes

\* cancelBuildAction disconnects the slot, terminates the process, waits and
\* kills it; a process that has exited already is not reported any more.
CancelBuildAction ==
  /\ m_dirty
  /\ Finish
  /\ processes' = processes \ {m_process}

\* The button of the progress indicator: it cancels the future, which no
\* manager looks at.
IndicatorCancelled ==
  /\ m_futureInterface = "running"
  /\ m_futureInterface' = "canceled"
  /\ UNCHANGED <<m_dirty, m_process, m_parser, m_cmdCancelBuild, processes>>

(***************************************************************************)
(* Invariants of both managers.                                            *)
(***************************************************************************)
RunnerTypeOK ==
  /\ m_dirty \in BOOLEAN /\ m_parser \in BOOLEAN /\ m_cmdCancelBuild \in BOOLEAN
  /\ m_process \in Targets \union {None}
  /\ m_futureInterface \in {"none", "running", "canceled"}
  /\ processes \in SUBSET Targets

\* The manager is idle or running with all its members: after a start that
\* failed, a process that ended and a cancel, in any order, none is left
\* behind, and the Cancel command is enabled exactly while there is
\* something to cancel.
MembersAgree ==
  /\ m_dirty <=> m_process # None
  /\ m_dirty <=> m_parser
  /\ m_dirty <=> m_futureInterface # "none"
  /\ m_dirty <=> m_cmdCancelBuild

\* No process runs that the manager has forgotten: one it cannot cancel and
\* whose output it would read into another run.
NoOrphan == processes \subseteq {m_process}

\* Every operation above keeps the three together; none does alone.
RunnerInv == RunnerTypeOK /\ MembersAgree /\ NoOrphan
=============================================================================
