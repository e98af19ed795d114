----------------------- MODULE DocumentManagerProofs -----------------------
(***************************************************************************)
(* Proofs about DocumentManager, for every set of documents and files.     *)
(***************************************************************************)
EXTENDS DocumentManager, TLAPS

Clean == documents \ (modified \union saved \union unread)

(* What is still to be asked about comes from the two sets.                *)
TodoOK ==
  /\ asking = "changed" => todo \subseteq m_changedFiles \union m_deletedFiles
  /\ asking = "deleted" => todo \subseteq m_deletedFiles

(* Of two documents of one file, one has been saved over the other.        *)
SharedOK ==
  \A d, e \in documents :
    d # e /\ filePath[d] = filePath[e] /\ filePath[d] # New => filePath[d] \in missed

(* The user has been told, or will be by a report that has not come.       *)
Known == reports \union told \union missed

(* The questions that are still to come.                                   *)
ToAskChanged == IF Idle THEN m_changedFiles ELSE IF asking = "changed" THEN todo ELSE {}

ToAskDeleted == IF asking = "deleted" THEN todo ELSE m_deletedFiles

(* Of a document that differs from its file there is a question to come:   *)
(* about a file that is there whether to reload it, and about one that is  *)
(* gone whether to close it.                                               *)
AskedOK ==
  \A d \in Clean : LET f == filePath[d] IN f # New =>
    /\ f \in disk => f \in Known \union ToAskChanged
    /\ f \notin disk => f \in Known \union ToAskDeleted

IInv == TypeOK /\ TodoOK /\ SharedOK /\ AskedOK
-----------------------------------------------------------------------------
(* Every step keeps the types.                                             *)
LEMMA TypeStep == ASSUME TypeOK, [Next]_vars PROVE TypeOK'
<1>1. ASSUME NEW d \in Documents, NewDocument(d) \/ Edit(d) \/ CloseDocument(d)
      PROVE  TypeOK'
  BY <1>1 DEF TypeOK, NewDocument, Edit, CloseDocument, CloseNow, Unwatch, UpToDate, DocumentsOf,
              watcher, reported, check, Idle
<1>2. ASSUME NEW d \in Documents, SaveDocument(d)
      PROVE  TypeOK'
  BY <1>2 DEF TypeOK, SaveDocument, Written, Rewatch, UpToDate, DocumentsOf, reported, check, Idle
<1>3. ASSUME NEW d \in Documents, NEW f \in Files, OpenDocument(d, f) \/ SaveAs(d, f)
      PROVE  TypeOK'
  BY <1>3 DEF TypeOK, OpenDocument, SaveAs, Written, WatchInstead, UpToDate, DocumentsOf,
              reported, check, Idle, AddPath, Rewatch
<1>4. ASSUME NEW f \in Files,
             RegisterProjectFile(f) \/ DeregisterProjectFile(f) \/ RenameNothing(f)
      PROVE  TypeOK'
  BY <1>4 DEF TypeOK, RegisterProjectFile, DeregisterProjectFile, UnwatchUnlessOpen,
              RenameNothing, CanChange, Unwatch, docs, watcher, reported, check, Idle, AddPath
<1>5. ASSUME NEW f \in Files, ChangeResource(f) \/ ChangeProjectFile(f)
      PROVE  TypeOK'
  BY <1>5 DEF TypeOK, ChangeResource, ChangeProjectFile, CanChange, WriteAndReload, Rewatch,
              Replaced, UpToDate, DocumentsOf, reported, check, Idle, Read
<1>6. ASSUME NEW f \in Files, OutsideWrite(f) \/ OutsideDelete(f) \/ Report(f)
      PROVE  TypeOK'
  BY <1>6 DEF TypeOK, OutsideWrite, OutsideDelete, Written, Notify, Report, OnFileChangedOutside,
              DocumentsOf, docs, reported, check, Idle
<1>7. ASSUME NEW f \in Files, AskChanged(f) \/ AskDeleted(f)
      PROVE  TypeOK'
  BY <1>7 DEF TypeOK, AskChanged, Reload, AskDeleted, CloseNow, Unwatch, UpToDate, DocumentsOf,
              docs, watcher, reported, Idle, Read
<1>8. CASE CheckForReload \/ AskDeletedNext \/ EndCheck
  BY <1>8 DEF TypeOK, CheckForReload, AskDeletedNext, EndCheck, docs, watcher, reported, Idle
<1>9. CASE UNCHANGED vars
  BY <1>9 DEF TypeOK, Idle, vars
<1>10. QED
  BY <1>1, <1>2, <1>3, <1>4, <1>5, <1>6, <1>7, <1>8, <1>9 DEF Next

(* Only the check and the reports change what is to be asked about.        *)
LEMMA TodoStep == ASSUME TypeOK, TodoOK, [Next]_vars PROVE TodoOK'
<1>1. CASE Idle /\ Idle'
  BY <1>1 DEF TodoOK, Idle
<1>2. ASSUME NEW f \in Files, Report(f) PROVE TodoOK'
  BY <1>2 DEF TodoOK, Report, OnFileChangedOutside, check
<1>3. CASE UNCHANGED <<m_changedFiles, m_deletedFiles, asking>> /\ todo' \subseteq todo
  BY <1>3 DEF TodoOK
<1>4. CASE CheckForReload \/ AskDeletedNext \/ EndCheck
  BY <1>4 DEF TodoOK, CheckForReload, AskDeletedNext, EndCheck, reported
<1>5. ASSUME NEW f \in Files, AskChanged(f) \/ AskDeleted(f) PROVE TodoOK'
  BY <1>3, <1>5 DEF AskChanged, AskDeleted, reported
<1>6. ASSUME UNCHANGED <<reported, check>> PROVE TodoOK'
  BY <1>3, <1>6 DEF reported, check
<1>7. ASSUME NEW d \in Documents,
             \/ NewDocument(d) \/ Edit(d) \/ SaveDocument(d) \/ CloseDocument(d)
             \/ \E f \in Files : OpenDocument(d, f) \/ SaveAs(d, f)
      PROVE  TodoOK'
  BY <1>6, <1>7 DEF NewDocument, Edit, SaveDocument, CloseDocument, OpenDocument, SaveAs
<1>8. ASSUME NEW f \in Files,
             \/ RegisterProjectFile(f) \/ DeregisterProjectFile(f) \/ ChangeResource(f)
             \/ ChangeProjectFile(f) \/ RenameNothing(f) \/ OutsideWrite(f) \/ OutsideDelete(f)
      PROVE  TodoOK'
  BY <1>6, <1>8 DEF RegisterProjectFile, DeregisterProjectFile, ChangeResource,
                    ChangeProjectFile, RenameNothing, OutsideWrite, OutsideDelete
<1>9. CASE UNCHANGED vars
  BY <1>6, <1>9 DEF vars, reported, check
<1>10. QED
  BY <1>2, <1>4, <1>5, <1>7, <1>8, <1>9 DEF Next

(* A file with two documents stays missed: what is missed of a file is     *)
(* only forgotten by its one document.                                     *)
LEMMA SharedStep == ASSUME TypeOK, SharedOK, [Next]_vars PROVE SharedOK'
<1>1. ASSUME UNCHANGED filePath, documents' \subseteq documents, missed \subseteq missed'
      PROVE  SharedOK'
  BY <1>1 DEF SharedOK
<1>2. ASSUME NEW d \in documents, UNCHANGED filePath, documents' \subseteq documents,
             \/ missed' = UpToDate(filePath[d], d)
             \/ missed' = missed
      PROVE  SharedOK'
  BY <1>2 DEF SharedOK, UpToDate, DocumentsOf
<1>3. ASSUME NEW d \in Documents, NewDocument(d) \/ Edit(d) PROVE SharedOK'
  BY <1>3 DEF TypeOK, SharedOK, NewDocument, Edit
<1>4. ASSUME NEW d \in Documents, SaveDocument(d) \/ CloseDocument(d) PROVE SharedOK'
  BY <1>2, <1>4 DEF SaveDocument, CloseDocument, CloseNow
<1>5. ASSUME NEW d \in Documents, NEW f \in Files, OpenDocument(d, f) PROVE SharedOK'
  BY <1>5 DEF TypeOK, SharedOK, OpenDocument, DocumentsOf
<1>6. ASSUME NEW d \in Documents, NEW f \in Files, SaveAs(d, f) PROVE SharedOK'
  BY <1>6, FilesAssumption DEF TypeOK, SharedOK, SaveAs, UpToDate, DocumentsOf
<1>7. ASSUME NEW f \in Files,
             \/ RegisterProjectFile(f) \/ DeregisterProjectFile(f) \/ RenameNothing(f)
             \/ OutsideWrite(f) \/ OutsideDelete(f) \/ Report(f)
      PROVE  SharedOK'
  BY <1>1, <1>7 DEF RegisterProjectFile, DeregisterProjectFile, RenameNothing, OutsideWrite,
                    OutsideDelete, Notify, Report, docs
<1>8. ASSUME NEW f \in Files, ChangeResource(f) \/ ChangeProjectFile(f) PROVE SharedOK'
  BY <1>1, <1>2, <1>8 DEF ChangeResource, ChangeProjectFile, WriteAndReload, DocumentsOf
<1>9. ASSUME NEW f \in Files, AskChanged(f) \/ AskDeleted(f) PROVE SharedOK'
  BY <1>1, <1>2, <1>9 DEF AskChanged, Reload, AskDeleted, CloseNow, DocumentsOf, docs
<1>10. CASE CheckForReload \/ AskDeletedNext \/ EndCheck \/ UNCHANGED vars
  BY <1>1, <1>10 DEF CheckForReload, AskDeletedNext, EndCheck, docs, vars
<1>11. QED
  BY <1>3, <1>4, <1>5, <1>6, <1>7, <1>8, <1>9, <1>10 DEF Next

-----------------------------------------------------------------------------
(* The user's steps: a file is only forgotten by the document that has its *)
(* text from then on.                                                      *)
LEMMA AskedByUser ==
  ASSUME IInv, NEW d \in Documents,
         \/ NewDocument(d) \/ Edit(d) \/ SaveDocument(d) \/ CloseDocument(d)
         \/ \E f \in Files : OpenDocument(d, f) \/ SaveAs(d, f)
  PROVE  AskedOK'
<1> USE DEF IInv, TypeOK, AskedOK, Clean, Known, ToAskChanged, ToAskDeleted, Idle
<1>1. CASE NewDocument(d) \/ Edit(d)
  BY <1>1 DEF NewDocument, Edit, watcher, reported, check
<1>2. CASE SaveDocument(d)
  BY <1>2 DEF SaveDocument, Written, Rewatch, UpToDate, DocumentsOf, reported, check
<1>3. CASE CloseDocument(d)
  BY <1>3 DEF CloseDocument, CloseNow, Unwatch, UpToDate, DocumentsOf, reported, check
<1>4. ASSUME NEW f \in Files, OpenDocument(d, f) PROVE AskedOK'
  BY <1>4 DEF OpenDocument, DocumentsOf, reported, check, AddPath
<1>5. ASSUME NEW f \in Files, SaveAs(d, f) PROVE AskedOK'
  BY <1>5, FilesAssumption DEF SaveAs, Written, WatchInstead, UpToDate, DocumentsOf, reported,
                               check, Rewatch
<1>6. QED
  BY <1>1, <1>2, <1>3, <1>4, <1>5

(* The steps of projects.                                                  *)
LEMMA AskedByProject ==
  ASSUME IInv, NEW f \in Files,
         \/ RegisterProjectFile(f) \/ DeregisterProjectFile(f)
         \/ ChangeResource(f) \/ ChangeProjectFile(f) \/ RenameNothing(f)
  PROVE  AskedOK'
<1> USE DEF IInv, TypeOK, AskedOK, Clean, Known, ToAskChanged, ToAskDeleted, Idle
<1>1. CASE RegisterProjectFile(f)
  BY <1>1 DEF RegisterProjectFile, docs, reported, check, AddPath
<1>2. CASE DeregisterProjectFile(f)
  BY <1>2 DEF DeregisterProjectFile, UnwatchUnlessOpen, Unwatch, DocumentsOf, docs, watcher,
              reported, check
<1>3. CASE ChangeResource(f)
  BY <1>3 DEF ChangeResource, CanChange, WriteAndReload, Rewatch, UpToDate, DocumentsOf, reported,
              check, Read
<1>4. CASE ChangeProjectFile(f)
  BY <1>4 DEF ChangeProjectFile, CanChange, WriteAndReload, Rewatch, Replaced, UpToDate,
              DocumentsOf, reported, check, Read
<1>5. CASE RenameNothing(f)
  BY <1>5 DEF RenameNothing, CanChange, Unwatch, docs, reported, check
<1>6. QED
  BY <1>1, <1>2, <1>3, <1>4, <1>5

(* The steps of others and their reports: what the watcher does not report *)
(* and what comes while the user is asked is missed.                       *)
LEMMA AskedByOthers ==
  ASSUME IInv, NEW f \in Files, OutsideWrite(f) \/ OutsideDelete(f) \/ Report(f)
  PROVE  AskedOK'
<1> USE DEF IInv, TypeOK, AskedOK, Clean, Known, ToAskChanged, ToAskDeleted, Idle
<1>1. CASE OutsideWrite(f)
  BY <1>1 DEF OutsideWrite, Written, Notify, DocumentsOf, reported, check
<1>2. CASE OutsideDelete(f)
  BY <1>2 DEF OutsideDelete, Notify, DocumentsOf, reported, check
<1>3. CASE Report(f)
  BY <1>3 DEF Report, OnFileChangedOutside, AskedLater, docs, check
<1>4. QED
  BY <1>1, <1>2, <1>3

(* The steps of checkForReload: each file leaves the questions when its    *)
(* documents are reloaded, modified, closed or known to have no file.      *)
LEMMA AskedByCheck ==
  ASSUME IInv,
         \/ CheckForReload \/ AskDeletedNext \/ EndCheck
         \/ \E f \in Files : AskChanged(f) \/ AskDeleted(f)
  PROVE  AskedOK'
<1> USE DEF IInv, TypeOK, AskedOK, Clean, Known, ToAskChanged, ToAskDeleted, Idle
<1>1. CASE CheckForReload
  BY <1>1 DEF CheckForReload, docs, watcher, reported
<1>2. CASE AskDeletedNext
  BY <1>2 DEF AskDeletedNext, docs, watcher, reported
<1>3. CASE EndCheck
  BY <1>3 DEF EndCheck, docs, watcher
<1>4. ASSUME NEW f \in Files, AskChanged(f) PROVE AskedOK'
  BY <1>4 DEF SharedOK, AskChanged, Reload, UpToDate, DocumentsOf, watcher, reported, Read
<1>5. ASSUME NEW f \in Files, AskDeleted(f) PROVE AskedOK'
  BY <1>5 DEF AskDeleted, CloseNow, Unwatch, UpToDate, DocumentsOf, docs, watcher, reported
<1>6. QED
  BY <1>1, <1>2, <1>3, <1>4, <1>5

-----------------------------------------------------------------------------
(* The inductive invariant holds of the manager.                           *)
THEOREM DocumentInvariant == Spec => []IInv
<1>1. Init => IInv
  BY DEF Init, IInv, TypeOK, TodoOK, SharedOK, AskedOK, Clean, Idle
<1>2. ASSUME IInv, [Next]_vars PROVE IInv'
  <2>1. TypeOK' /\ TodoOK' /\ SharedOK'
    BY <1>2, TypeStep, TodoStep, SharedStep DEF IInv
  <2>2. ASSUME UNCHANGED vars PROVE AskedOK'
    BY <1>2, <2>2 DEF IInv, AskedOK, Clean, Known, ToAskChanged, ToAskDeleted, Idle, vars
  <2>3. AskedOK'
    BY <1>2, <2>2, AskedByUser, AskedByProject, AskedByOthers, AskedByCheck DEF Next, IInv
  <2>4. QED
    BY <2>1, <2>3 DEF IInv
<1>3. QED
  BY <1>1, <1>2, PTL DEF Spec

(* The types, and that nothing is watched that is not there but what the   *)
(* watcher will report to have lost.                                       *)
THEOREM DocumentTypes == Spec => []TypeOK
<1>1. IInv => TypeOK
  BY DEF IInv
<1>2. QED
  BY <1>1, DocumentInvariant, PTL

(* No document looks unmodified and differs from its file behind the       *)
(* user's back: in whichever order documents are opened, saved over each   *)
(* other, closed and asked about while files are written, replaced and     *)
(* deleted, but for the changes in missed and the reads that failed.       *)
THEOREM ChangesAreTold == Spec => []NothingIgnored
<1>1. IInv => NothingIgnored
  BY DEF IInv, TypeOK, TodoOK, AskedOK, Clean, Known, ToAskChanged, ToAskDeleted, Idle,
         NothingIgnored
<1>2. QED
  BY <1>1, DocumentInvariant, PTL
=============================================================================
