-------------------------- MODULE DocumentManager --------------------------
(***************************************************************************)
(* Documents and their files (DocumentManager in libs/corelib/             *)
(* IDocument.cpp): opening, saving and closing, the file watcher, and the  *)
(* questions about files that were changed or deleted outside, asked when  *)
(* the main window is activated.                                           *)
(*                                                                         *)
(* The questions are modal, so the user does nothing else meanwhile; their *)
(* event loop still delivers what the watcher reports.  The documents are  *)
(* texts.  Of a text only matters whether it is that of the file; every    *)
(* edit and every change outside makes a new one, and so does a read that  *)
(* fails, which leaves an empty text that looks unmodified.                *)
(*                                                                         *)
(* The watcher is Qt's: it reports later, by the event loop; taking a path *)
(* from it drops what it has not reported yet.  A file that is deleted, or *)
(* replaced by another of its name, is not watched any more, but its path  *)
(* stays in the watcher until that is reported, and adding a path that is  *)
(* there does nothing.                                                     *)
(***************************************************************************)
EXTENDS FiniteSets

CONSTANTS
  Documents, Files,
  ResourceFiles,  \* the .qrc files; the others can be .pro files
  New             \* the path of a document without a file

ASSUME FilesAssumption == New \notin Files /\ ResourceFiles \subseteq Files

VARIABLES
  documents,                       \* the container
  filePath, modified,              \* of each document
  saved,                           \* documents whose text is that of their file
  disk,                            \* the files there are
  watched,                         \* paths in the watcher
  lost,                            \* those of them whose file it has lost
  reports,                         \* changes not reported yet
  m_changedFiles, m_deletedFiles,
  m_projectFiles,                  \* files of open projects
  asking,                          \* where checkForReload has got to
  todo,                            \* files it has still to ask about
  told,                            \* history: files whose user knows they are deleted
  missed,                          \* history: files with a change nobody will report
  unread                           \* history: unmodified, for the last read has failed

docs     == <<documents, filePath, modified, saved, unread>>
watcher  == <<watched, lost, reports>>
reported == <<m_changedFiles, m_deletedFiles>>
check    == <<asking, todo>>
vars == <<documents, filePath, modified, saved, disk, watched, lost, reports, m_changedFiles,
          m_deletedFiles, m_projectFiles, asking, todo, told, missed, unread>>

Idle  == asking = "no"
DocumentsOf(f) == {d \in documents : filePath[d] = f}

Init ==
  /\ documents = {} /\ filePath = [d \in Documents |-> New]
  /\ modified = {} /\ saved = {}
  /\ disk = Files
  /\ watched = {} /\ lost = {} /\ reports = {}
  /\ m_changedFiles = {} /\ m_deletedFiles = {} /\ m_projectFiles = {}
  /\ asking = "no" /\ todo = {}
  /\ told = {} /\ missed = {} /\ unread = {}

-----------------------------------------------------------------------------
(* The watcher.                                                             *)

AddPath(f) == watched' = watched \union {f} /\ UNCHANGED <<lost, reports>>

Unwatch(f) == watched' = watched \ {f} /\ lost' = lost \ {f} /\ reports' = reports \ {f}

\* removePath, then addPath, which fails without a file.
Rewatch(f) ==
  /\ watched' = IF f \in disk' THEN watched \union {f} ELSE watched \ {f}
  /\ lost' = lost \ {f} /\ reports' = reports \ {f}

\* Something happens to a file; the watcher reports it if it watches.
Notify(f) ==
  IF f \in watched THEN reports' = reports \union {f} /\ UNCHANGED missed
  ELSE missed' = missed \union {f} /\ UNCHANGED reports

\* A FileSaver puts another file in its place.
Replaced(f) ==
  /\ lost' = lost \union ({f} \intersect watched)
  /\ reports' = reports \union ({f} \intersect watched)
  /\ UNCHANGED watched

-----------------------------------------------------------------------------
(* Documents.                                                               *)

\* The file has a new text, which the documents written have.
Written(f, written) ==
  /\ disk' = disk \union {f}
  /\ saved' = (saved \ DocumentsOf(f)) \union written
  /\ unread' = unread \ written

\* openDocument: that the read failed, for what reason ever, is not looked
\* at.  The other documents with the text of their file are base.
Read(d, base) ==
  /\ modified' = modified \ {d}
  /\ \/ filePath[d] \in disk /\ saved' = base \union {d} /\ unread' = unread \ {d}
     \/ saved' = base \ {d} /\ unread' = unread \union {d}

\* What has been missed of f matters to nobody, now that d has its text, or
\* goes, unless another document has the file.
UpToDate(f, d) ==
  IF DocumentsOf(f) \subseteq {d} THEN missed \ {f} ELSE missed \union ({f} \ {New})

\* openDocumentInternal: a document is made for a file no document has.
OpenDocument(d, f) ==
  /\ Idle /\ d \notin documents /\ f \in disk /\ DocumentsOf(f) = {}
  /\ documents' = documents \union {d}
  /\ filePath' = [filePath EXCEPT ![d] = f]
  /\ \/ saved' = saved \union {d} /\ UNCHANGED unread
     \/ unread' = unread \union {d} /\ UNCHANGED saved
  /\ AddPath(f)
  /\ missed' = missed \ {f}
  /\ UNCHANGED <<modified, disk, reported, m_projectFiles, check, told>>

NewDocument(d) ==
  /\ Idle /\ d \notin documents
  /\ documents' = documents \union {d}
  /\ filePath' = [filePath EXCEPT ![d] = New]
  /\ UNCHANGED <<modified, saved, unread, disk, watcher, reported, m_projectFiles, check, told,
                 missed>>

Edit(d) ==
  /\ Idle /\ d \in documents
  /\ saved' = saved \ {d} /\ modified' = modified \union {d} /\ unread' = unread \ {d}
  /\ UNCHANGED <<documents, filePath, disk, watcher, reported, m_projectFiles, check, told, missed>>

\* trySaveDocument of a document with a file, which may not be writable, and
\* is watched again all the same.
SaveDocument(d) ==
  LET f == filePath[d] IN
  /\ Idle /\ d \in documents \intersect modified /\ f # New
  /\ \/ Written(f, {d}) /\ modified' = modified \ {d} /\ told' = told \ {f}
     \/ UNCHANGED <<disk, saved, unread, modified, told>>
  /\ Rewatch(f)
  /\ missed' = UpToDate(f, d)
  /\ UNCHANGED <<documents, filePath, reported, m_projectFiles, check>>

\* The file is replaced, then the old path is removed, then the new one is
\* added: if it was watched, for a project or for another document, the
\* watch is on the file that was replaced.
WatchInstead(old, f) ==
  IF f = old THEN Rewatch(f)
  ELSE /\ watched' = (watched \ {old}) \union {f}
       /\ lost' = (lost \union ({f} \intersect watched)) \ {old}
       /\ reports' = (reports \union ({f} \intersect watched)) \ {old}

\* saveAsFile, and trySaveDocument of a new document: also onto the file of
\* another document.  The case of a Karel text is fixed when the text has
\* been written.
SaveAs(d, f) ==
  LET old == filePath[d] IN
  /\ Idle /\ d \in documents
  /\ \/ Written(f, {d}) /\ modified' = modified \ {d}
     \/ /\ disk' = disk \union {f} /\ saved' = saved \ (DocumentsOf(f) \union {d})
        /\ modified' = modified \union {d} /\ unread' = unread \ {d}
  /\ filePath' = [filePath EXCEPT ![d] = f]
  /\ WatchInstead(old, f)
  /\ told' = told \ {f}
  /\ missed' = UpToDate(f, d) \union (IF DocumentsOf(old) \subseteq {d} THEN {} ELSE {old} \ {New})
  /\ UNCHANGED <<documents, reported, m_projectFiles, check>>

CloseNow(d) ==
  /\ documents' = documents \ {d}
  /\ modified' = modified \ {d} /\ saved' = saved \ {d} /\ unread' = unread \ {d}
  /\ Unwatch(filePath[d])
  /\ told' = told \ {filePath[d]} /\ missed' = UpToDate(filePath[d], d)
  /\ UNCHANGED filePath

\* tryCloseFile: unmodified, or the answer is Discard; the answer Save is
\* SaveDocument before it.
CloseDocument(d) ==
  /\ Idle /\ d \in documents
  /\ CloseNow(d)
  /\ UNCHANGED <<disk, reported, m_projectFiles, check>>

Reload(d) == Read(d, saved) /\ missed' = UpToDate(filePath[d], d)

-----------------------------------------------------------------------------
(* Projects.                                                                *)

\* A node of a project is made, or removed; a file that is open in an editor
\* stays watched.
RegisterProjectFile(f) ==
  /\ Idle /\ f \in disk \ m_projectFiles
  /\ m_projectFiles' = m_projectFiles \union {f}
  /\ AddPath(f)
  /\ UNCHANGED <<docs, disk, reported, check, told, missed>>

\* Mutant: whether or not it is open.
UnwatchAnyway(f) == Unwatch(f)

UnwatchUnlessOpen(f) == IF DocumentsOf(f) = {} THEN Unwatch(f) ELSE UNCHANGED watcher

DeregisterProjectFile(f) ==
  /\ Idle /\ f \in m_projectFiles
  /\ m_projectFiles' = m_projectFiles \ {f}
  /\ UnwatchUnlessOpen(f)
  /\ UNCHANGED <<docs, disk, reported, check, told, missed>>

\* The file of a project is written, if it can be, between expectFileChanges
\* and unexpectFileChanges, where its document, findDocument's if there are
\* two, reads it again, modified or not.
WriteAndReload(f, d) ==
  /\ Rewatch(f)
  /\ \E base \in {saved, saved \ DocumentsOf(f)} : Read(d, base)
  /\ missed' = UpToDate(f, d)

CanChange(f) == Idle /\ f \in m_projectFiles \intersect disk

\* updateNode of a resource.
ChangeResource(f) ==
  /\ CanChange(f) /\ f \in ResourceFiles
  /\ UNCHANGED <<documents, filePath, disk, reported, m_projectFiles, check, told>>
  /\ \/ \E d \in DocumentsOf(f) : WriteAndReload(f, d)
     \/ DocumentsOf(f) = {} /\ Rewatch(f) /\ UNCHANGED <<saved, unread, modified, missed>>

\* Between beginChangeProjectFile and endChangeProjectFile, which expect the
\* change only if there is a document.  A modified one is saved first, by
\* SaveDocument, or its edits are discarded.  If the .pro file cannot be
\* made writable or read, nothing is written and nothing read again, but
\* what the watcher had not reported is dropped.
ChangeProjectFile(f) ==
  /\ CanChange(f) /\ f \notin ResourceFiles
  /\ UNCHANGED <<documents, filePath, disk, reported, m_projectFiles, check, told>>
  /\ \/ \E d \in DocumentsOf(f) : WriteAndReload(f, d)
     \/ /\ DocumentsOf(f) # {} /\ Rewatch(f)
        /\ missed' = missed \union ({f} \intersect reports)
        /\ UNCHANGED <<saved, unread, modified>>
     \/ DocumentsOf(f) = {} /\ Replaced(f) /\ UNCHANGED <<saved, unread, modified, missed>>

\* renameFile of a file the .pro file does not name: it returns after
\* beginChangeProjectFile, the text of the .pro file being what it was.
RenameNothing(f) ==
  /\ CanChange(f) /\ f \notin ResourceFiles /\ DocumentsOf(f) # {}
  /\ Unwatch(f)
  /\ missed' = missed \union ({f} \intersect reports)
  /\ UNCHANGED <<docs, disk, reported, m_projectFiles, check, told>>

-----------------------------------------------------------------------------
(* Others.                                                                  *)

\* Also a file that was deleted is made again.
OutsideWrite(f) ==
  /\ Written(f, {}) /\ Notify(f)
  /\ told' = told \ {f}
  /\ UNCHANGED <<documents, filePath, modified, watched, lost, reported, m_projectFiles, check>>

OutsideDelete(f) ==
  /\ f \in disk /\ disk' = disk \ {f}
  /\ saved' = saved \ DocumentsOf(f)
  /\ Notify(f)
  /\ lost' = lost \union ({f} \intersect watched)
  /\ UNCHANGED <<documents, filePath, modified, unread, watched, reported, m_projectFiles, check,
                 told>>

\* onFileChangedOutside.
OnFileChangedOutside(f) ==
  IF f \in disk
  THEN m_changedFiles' = m_changedFiles \union {f} /\ UNCHANGED m_deletedFiles
  ELSE /\ m_deletedFiles' = m_deletedFiles \union {f}
       /\ m_changedFiles' = m_changedFiles \ {f}

\* While the user is asked, a report is only asked about if the question for
\* its file is still to come.
AskedLater(f) == Idle \/ (asking = "changed" /\ f \in todo \union (Files \ disk))

\* A path whose file is lost leaves the watcher.
Report(f) ==
  /\ f \in reports
  /\ reports' = reports \ {f} /\ lost' = lost \ {f}
  /\ watched' = watched \ ({f} \intersect lost)
  /\ OnFileChangedOutside(f)
  /\ missed' = IF AskedLater(f) THEN missed ELSE missed \union {f}
  /\ UNCHANGED <<docs, disk, m_projectFiles, check, told>>

-----------------------------------------------------------------------------
(* checkForReload.  m_blockActivatedSignal is ~Idle, and the loops go over  *)
(* copies of the sets.                                                      *)

CheckForReload ==
  /\ Idle /\ m_changedFiles \union m_deletedFiles # {}
  /\ asking' = "changed" /\ todo' = m_changedFiles
  /\ UNCHANGED <<docs, disk, watcher, reported, m_projectFiles, told, missed>>

\* "has changed outside. Reload?"  The file may have gone meanwhile; a
\* document that is not reloaded becomes modified.
AskChanged(f) ==
  /\ asking = "changed" /\ f \in todo
  /\ todo' = todo \ {f}
  /\ \/ DocumentsOf(f) = {} /\ UNCHANGED <<modified, saved, unread, missed>>
     \/ \E d \in DocumentsOf(f) : Reload(d)
     \/ /\ \E d \in DocumentsOf(f) : modified' = modified \union {d} /\ unread' = unread \ {d}
        /\ UNCHANGED <<saved, missed>>
  /\ UNCHANGED <<documents, filePath, disk, watcher, reported, m_projectFiles, asking, told>>

AskDeletedNext ==
  /\ asking = "changed" /\ todo = {}
  /\ asking' = "deleted" /\ todo' = m_deletedFiles
  /\ UNCHANGED <<docs, disk, watcher, reported, m_projectFiles, told, missed>>

\* "has deleted outside. Close (Yes) / Keep (No)"
AskDeleted(f) ==
  /\ asking = "deleted" /\ f \in todo
  /\ todo' = todo \ {f}
  /\ \/ \E d \in DocumentsOf(f) : CloseNow(d)
     \/ told' = told \union ({f} \ disk) /\ UNCHANGED <<docs, watcher, missed>>
  /\ UNCHANGED <<disk, reported, m_projectFiles, asking>>

\* Mutant: the check ends with the user's first answers.
EndAnyTime ==
  /\ asking = "deleted"
  /\ asking' = "no"
  /\ m_changedFiles' = {} /\ m_deletedFiles' = {}
  /\ UNCHANGED <<docs, disk, watcher, m_projectFiles, todo, told, missed>>

\* The end of checkForReload; both sets are cleared.
EndCheck ==
  /\ asking = "deleted" /\ todo = {}
  /\ asking' = "no"
  /\ m_changedFiles' = {} /\ m_deletedFiles' = {}
  /\ UNCHANGED <<docs, disk, watcher, m_projectFiles, todo, told, missed>>

Next == \/ \E d \in Documents :
             \/ NewDocument(d) \/ Edit(d) \/ SaveDocument(d) \/ CloseDocument(d)
             \/ \E f \in Files : OpenDocument(d, f) \/ SaveAs(d, f)
        \/ \E f \in Files :
             \/ RegisterProjectFile(f) \/ DeregisterProjectFile(f)
             \/ ChangeResource(f) \/ ChangeProjectFile(f) \/ RenameNothing(f)
             \/ OutsideWrite(f) \/ OutsideDelete(f) \/ Report(f)
             \/ AskChanged(f) \/ AskDeleted(f)
        \/ CheckForReload \/ AskDeletedNext \/ EndCheck

Spec == Init /\ [][Next]_vars

-----------------------------------------------------------------------------
(***************************************************************************)
(* Properties.                                                             *)
(***************************************************************************)

\* The types; no file is watched that is not there, a path the watcher has
\* lost is one it will report, nobody is told that a file is gone that is
\* there, and questions are left only while one is open.
TypeOK ==
  /\ documents \subseteq Documents
  /\ filePath \in [Documents -> Files \union {New}]
  /\ modified \subseteq documents /\ saved \subseteq documents
  /\ unread \subseteq documents \ (modified \union saved)
  /\ disk \subseteq Files /\ reports \subseteq Files
  /\ watched \subseteq Files /\ lost \subseteq watched \intersect reports
  /\ watched \ lost \subseteq disk
  /\ m_changedFiles \subseteq Files /\ m_deletedFiles \subseteq Files
  /\ m_projectFiles \subseteq Files
  /\ asking \in {"no", "changed", "deleted"}
  /\ todo \subseteq Files /\ (Idle => todo = {})
  /\ told \subseteq Files \ disk /\ missed \subseteq Files

\* A document that looks unmodified shows what is in its file, or a report
\* of the change is on its way to the user, or the user has been told that
\* the file is gone.  The exceptions are the documents whose file could not
\* be read, of which nobody is told, and the files with a change that came
\* while nobody watched (after a FileSaver of the program has replaced the
\* file without a document or under Save As, or after a rename that found
\* nothing), while the user was being asked, just before the program wrote
\* the file, or over which another document was saved.
NothingIgnored ==
  \A d \in documents \ (modified \union saved \union unread) :
    LET f == filePath[d] IN
    f # New => f \in reports \union m_changedFiles \union m_deletedFiles \union told \union missed
=============================================================================
