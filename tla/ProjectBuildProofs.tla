------------------------- MODULE ProjectBuildProofs -------------------------
(***************************************************************************)
(* A running build keeps its project: the proof needs to know that the     *)
(* commands that could close the project are disabled (CommandsAgree), and *)
(* that a session that closes has no build (NoBuildWhileClosing).          *)
(***************************************************************************)
EXTENDS ProjectBuild, TLAPS

-----------------------------------------------------------------------------
(* The runner's own operations.                                             *)

\* A new manager is idle.
LEMMA RunnerInitInv == RunnerInit => RunnerInv
BY TargetsAssumption DEF RunnerInit, RunnerInv, RunnerTypeOK, MembersAgree, NoOrphan

\* Each operation keeps the runner's invariant: a process is started by an
\* idle manager, which has no process anywhere, and both ways out of a run
\* leave none.
LEMMA RunnerStep ==
  ASSUME RunnerInv,
         \/ UNCHANGED runner \/ SlotProcessFinished \/ CancelBuildAction \/ IndicatorCancelled
         \/ \E t \in Targets : (~m_dirty /\ (ProcessStarted(t) \/ StartFailed)) \/ ProcessExits(t)
  PROVE  RunnerInv'
<1> USE TargetsAssumption DEF RunnerInv, RunnerTypeOK, MembersAgree, NoOrphan
<1>1. ASSUME ~m_dirty PROVE processes = {} /\ m_process = None
  BY <1>1
<1>2. CASE UNCHANGED runner
  BY <1>2 DEF runner
<1>3. ASSUME NEW t \in Targets, ~m_dirty /\ (ProcessStarted(t) \/ StartFailed) PROVE RunnerInv'
  <2>1. CASE ProcessStarted(t)
    <3>1. processes' = {t} /\ m_process' = t /\ t # None
      BY <1>1, <1>3, <2>1 DEF ProcessStarted
    <3> QED BY <2>1, <3>1 DEF ProcessStarted
  <2>2. CASE StartFailed
    BY <1>1, <1>3, <2>2 DEF StartFailed
  <2> QED BY <1>3, <2>1, <2>2
<1>4. ASSUME NEW t \in Targets, ProcessExits(t) PROVE RunnerInv'
  BY <1>4 DEF ProcessExits
<1>5. CASE SlotProcessFinished \/ CancelBuildAction
  <2>1. Finish /\ processes' = {}
    BY <1>5 DEF SlotProcessFinished, CancelBuildAction
  <2> QED BY <2>1 DEF Finish
<1>6. CASE IndicatorCancelled
  BY <1>6 DEF IndicatorCancelled
<1> QED BY <1>2, <1>3, <1>4, <1>5, <1>6

-----------------------------------------------------------------------------
\* From phase one on, the session has no build.
NoBuildWhileClosing == closing # "none" => ~m_dirty

\* The environment is always that of the open project.
EnvironmentOfProject == environment = project

\* The inductive invariant.
IInv ==
  /\ RunnerInv /\ TypeOK /\ CommandsAgree /\ BuildBelongsToProject
  /\ NoBuildWhileClosing /\ EnvironmentOfProject

\* The first state.
LEMMA InitIInv == Init => IInv
<1>1. Init => RunnerInv
  BY RunnerInitInv DEF Init
<1>2. QED
  BY <1>1 DEF Init, IInv, RunnerInit, RunnerInv, TypeOK, CommandsAgree, BuildBelongsToProject,
              NoBuildWhileClosing, EnvironmentOfProject

\* startBuildAction, once it is past its questions.
LEMMA StartProcessInv ==
  ASSUME IInv, ~m_dirty, project # None, closing = "none", StartProcess,
         UNCHANGED <<project, environment, closing>>, unsaved' \in BOOLEAN
  PROVE  IInv'
<1>1. project \in Targets
  BY DEF IInv, TypeOK, Projects
<1>2. RunnerInv'
  BY <1>1, RunnerStep DEF StartProcess, IInv
<1>3. TypeOK'
  BY <1>2 DEF StartProcess, IInv, RunnerInv, TypeOK, OnBuildActionStarted
<1>4. (CommandsAgree /\ BuildBelongsToProject /\ NoBuildWhileClosing /\ EnvironmentOfProject)'
  BY DEF StartProcess, IInv, CommandsAgree, BuildBelongsToProject, NoBuildWhileClosing,
         EnvironmentOfProject, ProcessStarted, StartFailed, OnBuildActionStarted
<1>5. QED
  BY <1>2, <1>3, <1>4 DEF IInv

\* Cancel, by whomever, leaves an idle manager and enabled commands.
LEMMA CancelBuildIdle ==
  ASSUME IInv, CancelBuild
  PROVE  RunnerInv' /\ m_dirty' = FALSE /\ projectCommands' = TRUE /\ buildActions' = TRUE
<1>1. CASE m_dirty
  BY <1>1, RunnerStep
     DEF CancelBuild, CancelBuildAction, Finish, OnBuildActionFinished, IInv
<1>2. CASE ~m_dirty
  <2>1. UNCHANGED runner /\ UNCHANGED <<projectCommands, buildActions>>
    BY <1>2 DEF CancelBuild
  <2>2. m_dirty = FALSE /\ projectCommands = TRUE /\ buildActions = TRUE
    BY <1>2 DEF IInv, CommandsAgree, TypeOK, RunnerTypeOK
  <2>3. QED
    BY <2>1, <2>2, RunnerStep DEF IInv, runner
<1>3. QED
  BY <1>1, <1>2 DEF IInv, RunnerInv, RunnerTypeOK

\* A manager without a build.
LEMMA IdleInv ==
  ASSUME RunnerInv', TypeOK', m_dirty' = FALSE, projectCommands' = TRUE, buildActions' = TRUE,
         environment' = project'
  PROVE  IInv'
BY DEF IInv, CommandsAgree, BuildBelongsToProject, NoBuildWhileClosing, EnvironmentOfProject,
       RunnerInv, MembersAgree

\* Every action preserves the inductive invariant.
LEMMA NextIInv == IInv /\ [Next]_vars => IInv'
<1> SUFFICES ASSUME IInv, [Next]_vars PROVE IInv'
  OBVIOUS
<1>0. ASSUME UNCHANGED runner PROVE RunnerInv' /\ m_dirty' = m_dirty /\ RunnerTypeOK'
  BY <1>0, RunnerStep DEF IInv, runner, RunnerInv
<1>1. ASSUME NEW prior \in {"none", "ask", "auto"}, OnBuildAction(prior) PROVE IInv'
  <2>1. ~m_dirty /\ closing = "none"
    BY <1>1 DEF OnBuildAction, Idle, IInv, CommandsAgree, TypeOK, RunnerTypeOK
  <2>2. CASE unsaved /\ prior # "none"
    <3>1. UNCHANGED runner /\ question' = prior
      BY <1>1, <2>1, <2>2 DEF OnBuildAction
    <3>2. QED
      BY <1>0, <1>1, <2>1, <2>2, <3>1
         DEF OnBuildAction, IInv, TypeOK, CommandsAgree, BuildBelongsToProject,
             NoBuildWhileClosing, EnvironmentOfProject, runner
  <2>3. CASE ~(unsaved /\ prior # "none")
    <3>1. StartProcess
      BY <1>1, <2>1, <2>3 DEF OnBuildAction
    <3>2. QED
      BY <1>1, <2>1, <3>1, StartProcessInv DEF OnBuildAction, IInv, TypeOK
  <2>4. QED
    BY <2>2, <2>3
<1>2. CASE StartAfterSave
  <2>1. unsaved' \in BOOLEAN
    BY <1>2 DEF StartAfterSave
  <2>2. QED
    BY <1>2, <2>1, StartProcessInv DEF StartAfterSave, IInv, TypeOK
<1>3. CASE OpenProject \/ CloseProject
  <2>1. ~m_dirty /\ UNCHANGED runner
    BY <1>3 DEF OpenProject, CloseProject, IInv, CommandsAgree, TypeOK, RunnerTypeOK
  <2>2. environment' = project' /\ project' \in Projects \union {None}
        /\ projectCommands' = TRUE /\ buildActions' = TRUE
    BY <1>3, <2>1 DEF OpenProject, CloseProject, OpenedOrFailed, CloseProjectDb, IInv, CommandsAgree
  <2>3. TypeOK'
    BY <1>0, <1>3, <2>1, <2>2 DEF OpenProject, CloseProject, IInv, TypeOK, Idle
  <2>4. QED
    BY <1>0, <2>1, <2>2, <2>3, IdleInv DEF IInv, TypeOK, RunnerTypeOK
<1>4. ASSUME NEW what \in {"session", "application"}, AboutToClose(what) PROVE IInv'
  <2>1. RunnerInv' /\ m_dirty' = FALSE /\ projectCommands' = TRUE /\ buildActions' = TRUE
    BY <1>4, CancelBuildIdle DEF AboutToClose
  <2>2. TypeOK'
    BY <1>4, <2>1 DEF AboutToClose, IInv, TypeOK, Idle, RunnerInv, RunnerTypeOK
  <2>3. QED
    BY <1>4, <2>1, <2>2, IdleInv DEF AboutToClose, IInv, EnvironmentOfProject
<1>5. CASE SessionClose
  <2>1. ~m_dirty /\ UNCHANGED runner
    BY <1>5 DEF SessionClose, IInv, NoBuildWhileClosing
  <2>2. environment' = project' /\ project' \in Projects \union {None}
        /\ projectCommands' = TRUE /\ buildActions' = TRUE
    BY <1>5, <2>1 DEF SessionClose, OpenedOrFailed, CloseProjectDb, IInv, CommandsAgree
  <2>3. TypeOK'
    BY <1>0, <1>5, <2>1, <2>2 DEF SessionClose, IInv, TypeOK
  <2>4. QED
    BY <1>0, <2>1, <2>2, <2>3, IdleInv DEF IInv, TypeOK, RunnerTypeOK
<1>6. CASE NotStarted \/ CloseRefused \/ Edit
  <2>1. UNCHANGED runner /\ UNCHANGED project_vars
    BY <1>6 DEF NotStarted, CloseRefused, Edit
  <2>2. closing' \in {closing, "none"} /\ question' \in {question, "none"}
        /\ unsaved' \in BOOLEAN
    BY <1>6 DEF NotStarted, CloseRefused, Edit, IInv, TypeOK
  <2>3. TypeOK'
    BY <1>0, <2>1, <2>2 DEF IInv, TypeOK, project_vars
  <2>4. (CommandsAgree /\ BuildBelongsToProject /\ NoBuildWhileClosing /\ EnvironmentOfProject)'
    BY <2>1, <2>2 DEF IInv, CommandsAgree, BuildBelongsToProject, NoBuildWhileClosing,
                      EnvironmentOfProject, project_vars, runner
  <2>5. QED
    BY <1>0, <2>1, <2>3, <2>4 DEF IInv
<1>7. CASE UserCancel
  <2>1. RunnerInv' /\ m_dirty' = FALSE /\ projectCommands' = TRUE /\ buildActions' = TRUE
    BY <1>7, CancelBuildIdle DEF UserCancel
  <2>2. TypeOK'
    BY <1>7, <2>1 DEF UserCancel, IInv, TypeOK, Idle, RunnerInv, RunnerTypeOK
  <2>3. QED
    BY <1>7, <2>1, <2>2, IdleInv DEF UserCancel, IInv, EnvironmentOfProject
<1>8. CASE ProcessEvent
  <2>1. RunnerInv'
    BY <1>8, RunnerStep DEF ProcessEvent, IInv
  <2>2. m_dirty' = m_dirty /\ m_process' = m_process
    BY <1>8 DEF ProcessEvent, ProcessExits, IndicatorCancelled
  <2>3. QED
    BY <1>8, <2>1, <2>2 DEF ProcessEvent, IInv, RunnerInv, TypeOK, CommandsAgree,
       BuildBelongsToProject, NoBuildWhileClosing, EnvironmentOfProject, project_vars
<1>9. CASE OnFinished
  <2>1. RunnerInv' /\ m_dirty' = FALSE /\ projectCommands' = TRUE /\ buildActions' = TRUE
    BY <1>9, RunnerStep
       DEF OnFinished, Finished, SlotProcessFinished, Finish, OnBuildActionFinished, IInv
  <2>2. TypeOK'
    BY <1>9, <2>1 DEF OnFinished, IInv, TypeOK, RunnerInv, RunnerTypeOK
  <2>3. QED
    BY <1>9, <2>1, <2>2, IdleInv DEF OnFinished, IInv, EnvironmentOfProject
<1>10. CASE UNCHANGED vars
  <2>1. UNCHANGED runner
    BY <1>10 DEF vars, runner
  <2>2. QED
    BY <1>0, <1>10, <2>1 DEF vars, IInv, TypeOK, CommandsAgree, BuildBelongsToProject,
       NoBuildWhileClosing, EnvironmentOfProject, runner
<1>11. QED
  BY <1>1, <1>2, <1>3, <1>4, <1>5, <1>6, <1>7, <1>8, <1>9, <1>10 DEF Next

\* The inductive invariant holds.
THEOREM BuildInvariant == Spec => []IInv
BY InitIInv, NextIInv, PTL DEF Spec

\* The types, and that no question is open while a build runs or closes.
THEOREM BuildTypes == Spec => []TypeOK
<1>1. IInv => TypeOK
  BY DEF IInv
<1>2. QED
  BY BuildInvariant, <1>1, PTL

\* A running build belongs to the open project and uses its environment.
THEOREM BuildKeepsProject == Spec => []BuildBelongsToProject
<1>1. IInv => BuildBelongsToProject
  BY DEF IInv
<1>2. QED
  BY BuildInvariant, <1>1, PTL

\* The commands follow the build.
THEOREM BuildCommandsAgree == Spec => []CommandsAgree
<1>1. IInv => CommandsAgree
  BY DEF IInv
<1>2. QED
  BY BuildInvariant, <1>1, PTL

\* The manager is idle or running with all its members, and has no process
\* it has forgotten.
THEOREM BuildMembersAgree == Spec => [](MembersAgree /\ NoOrphan)
<1>1. IInv => MembersAgree /\ NoOrphan
  BY DEF IInv, RunnerInv
<1>2. QED
  BY BuildInvariant, <1>1, PTL
=============================================================================
