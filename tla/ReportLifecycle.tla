-------------------------- MODULE ReportLifecycle --------------------------
(***************************************************************************)
(* The life of the reports System HOME stores, under everything that       *)
(* writes to the store concurrently:                                       *)
(*                                                                         *)
(*  - the event drivers of GamersWorld.EventHost.  EventConsumer starts a  *)
(*    driver for every message without waiting for the one before it, so   *)
(*    any number of them are suspended at an await at any time: one        *)
(*    element of Handler per driver in flight;                             *)
(*  - the Hangfire jobs ReportArchiver and ReportEraser of                 *)
(*    GamersWorld.JobHost.  Worker.ExecuteJob does not wait for the job, so*)
(*    a cron tick can start one while an earlier run is still busy: one    *)
(*    element of ArchiverRun or EraserRun per run in flight.               *)
(*                                                                         *)
(* A step is what a process does from one await to the next.               *)
(***************************************************************************)
EXTENDS ReportStore

CONSTANTS
    Handler, ArchiverRun, EraserRun,
    Requests,         \* the kinds of request the owners of reports send
    Faults,           \* the kinds of failure a run of the model may meet
    DuplicateReady    \* may Kahin report one document as ready twice?

VARIABLES
    arrived,  \* documents whose ReportIsHereEvent is in the queue
    task,     \* task[t]: where process t is, and its local variables
    pushed    \* <<document, topic>>: the notifications sent so far

vars == <<report, age, content, ftp, arrived, task, pushed>>

Job == ArchiverRun \cup EraserRun
Task == Handler \cup Job

FaultKinds ==
    {"save", "read", "upload", "erase", "abort", "crash"}

ASSUME LifecycleAssumption ==
    /\ Handler \cap Job = {}
    /\ ArchiverRun \cap EraserRun = {}
    /\ Requests \subseteq {"delete", "archive"}
    /\ Faults \subseteq FaultKinds
    /\ DuplicateReady \in BOOLEAN

Topic == {"Ready", "Deleted", "Archived"}

HandlerPC ==
    {"idle", "saving", "pushReady",
     "deleteRead", "deleteUpdate", "pushDeleted",
     "archiveUpload", "archiveRead", "archiveUpdate", "pushArchived"}

ArchiverPC == {"idle", "archiverNext", "archiverUpdate", "archiverFetch", "archiverUpload"}
EraserPC == {"idle", "eraserNext", "eraserRead", "eraserUpdate", "eraserFtp"}

\* todo: what is left of a job's document list; report and reportId: the
\* Report object read, as modified, and the row it will be written back to.
TaskState ==
    [pc : HandlerPC \cup ArchiverPC \cup EraserPC,
     documentId : DocumentId \cup {None},
     reportId : RowId \cup {None},
     report : Row \cup {None},
     todo : SUBSET RowId]

Local(pc, d, i, row, todo) ==
    [pc |-> pc, documentId |-> d, reportId |-> i, report |-> row, todo |-> todo]

Idle == Local("idle", None, None, None, {})

TypeOK ==
    /\ StoreTypeOK
    /\ arrived \subseteq DocumentId
    /\ task \in [Task -> TaskState]
    /\ \A h \in Handler : task[h].pc \in HandlerPC
    /\ \A j \in ArchiverRun : task[j].pc \in ArchiverPC
    /\ \A j \in EraserRun : task[j].pc \in EraserPC
    /\ pushed \subseteq DocumentId \X Topic

Init ==
    /\ StoreInit
    /\ arrived = {}
    /\ task = [t \in Task |-> Idle]
    /\ pushed = {}

-----------------------------------------------------------------------------
(* Local steps of a process *)

IsAt(t, pc) == task[t].pc = pc

Becomes(t, local) == task' = [task EXCEPT ![t] = local]

GoTo(t, pc) == task' = [task EXCEPT ![t].pc = pc]

Finish(t) == Becomes(t, Idle)

Begin(t, pc, d) ==
    /\ IsAt(t, "idle")
    /\ Becomes(t, Local(pc, d, None, None, {}))

\* ReadReportAsync into the local object: some row of the document.
ReadReport(t, pc, Modify(_)) ==
    \E i \in RowsOf(task[t].documentId) :
        Becomes(t, Local(pc, task[t].documentId, i, Modify(report[i]), task[t].todo))

AsArchived(row) == [row EXCEPT !.archived = TRUE]
\* Also a variant of AsArchivedAndDeleted: DeleteReport forgets one of its flags.
AsDeleted(row) == [row EXCEPT !.deleted = TRUE]
AsArchivedAndDeleted(row) == AsArchived(AsDeleted(row))

WriteBack(t) == UpdateReport(task[t].reportId, task[t].report)

\* PushToUserAsync that succeeds.  One that throws is a CrashEventHost.
Push(t, topic) ==
    pushed' = pushed \cup {<<task[t].documentId, topic>>}

\* The end of a job's loop body, or of its last one.
NextInList(j, pc) ==
    Becomes(j, IF task[j].todo = {} THEN Idle
               ELSE Local(pc, None, None, None, task[j].todo))

-----------------------------------------------------------------------------
(* ReportDocumentAvailable and TableSaver: a prepared report is stored *)

\* CreateReportAsync, the first of two statements outside any transaction.
SaveReport(h, d, i) ==
    /\ DuplicateReady \/ RowsOf(d) = {}
    /\ IsAt(h, "idle")
    /\ InsertReport(i, d)
    /\ Becomes(h, Local("saving", d, i, None, {}))
    /\ UNCHANGED <<age, content, ftp, arrived, pushed>>

\* Variant: the insert is done again, as if its answer had been lost.
SaveDocumentAgain(h) ==
    /\ IsAt(h, "saving")
    /\ InsertDocument(task[h].reportId)
    /\ arrived' = arrived \cup {task[h].documentId}
    /\ UNCHANGED <<report, age, ftp, task, pushed>>

\* CreateReportDocumentAsync and the publication of ReportIsHereEvent.
SaveDocument(h) ==
    /\ IsAt(h, "saving")
    /\ InsertDocument(task[h].reportId)
    /\ arrived' = arrived \cup {task[h].documentId}
    /\ Finish(h)
    /\ UNCHANGED <<report, age, ftp, pushed>>

\* The publication throws, which SaveAsync catches like the rest: the report is
\* complete and nobody is told.
SaveDocumentUntold(h) ==
    /\ "save" \in Faults
    /\ IsAt(h, "saving")
    /\ InsertDocument(task[h].reportId)
    /\ Finish(h)
    /\ UNCHANGED <<report, age, ftp, arrived, pushed>>

\* The second statement throws: SaveAsync catches it and answers Fail, which
\* ReportDocumentAvailable only logs.  The report row stays.
SaveDocumentFails(h) ==
    /\ "save" \in Faults
    /\ IsAt(h, "saving")
    /\ Finish(h)
    /\ UNCHANGED <<report, age, content, ftp, arrived, pushed>>

-----------------------------------------------------------------------------
(* UsePreparedReport: the owner is told *)

\* GetLength answers DocumentReadable whatever length the query returned.
ReadLength(h, d) ==
    /\ d \in arrived
    /\ arrived' = arrived \ {d}
    /\ Begin(h, "pushReady", d)
    /\ UNCHANGED <<storeVars, pushed>>

\* GetLength catches the exception of the query: no notification.
ReadLengthFails(h, d) ==
    /\ "read" \in Faults
    /\ d \in arrived
    /\ IsAt(h, "idle")
    /\ arrived' = arrived \ {d}
    /\ UNCHANGED <<storeVars, task, pushed>>

PushReady(h) ==
    /\ IsAt(h, "pushReady")
    /\ Push(h, "Ready")
    /\ Finish(h)
    /\ UNCHANGED <<storeVars, arrived>>

-----------------------------------------------------------------------------
(* DeleteReport: the owner deletes a report *)

\* The Messenger service publishes a request to delete unchecked, and as often
\* as it is made.
DeletionIsAsked == "delete" \in Requests

\* Variant: the count of deleted rows is not looked at.
DeleteReportUnchecked(h, d) ==
    /\ DeletionIsAsked
    /\ Begin(h, "deleteRead", d)
    /\ RowsOf(d) # {}
    /\ DeleteDocument(d)
    /\ UNCHANGED <<report, age, ftp, arrived, pushed>>

\* Variant: the report is marked as deleted, its document left alone.
DeleteReportKeepsDocument(h, d) ==
    /\ DeletionIsAsked
    /\ Begin(h, "deleteRead", d)
    /\ DocumentsOf(d) # {}
    /\ UNCHANGED <<storeVars, arrived, pushed>>

\* Only the driver whose statement removed the document row goes on; for any
\* other the request ends here without a trace.
DeleteReport(h, d) ==
    /\ DeletionIsAsked
    /\ Begin(h, "deleteRead", d)
    /\ DocumentsOf(d) # {}
    /\ DeleteDocument(d)
    /\ UNCHANGED <<report, age, ftp, arrived, pushed>>

DeleteReportRead(h) ==
    /\ IsAt(h, "deleteRead")
    /\ ReadReport(h, "deleteUpdate", AsArchivedAndDeleted)
    /\ UNCHANGED <<storeVars, arrived, pushed>>

DeleteReportUpdate(h) ==
    /\ IsAt(h, "deleteUpdate")
    /\ WriteBack(h)
    /\ GoTo(h, "pushDeleted")
    /\ UNCHANGED <<age, content, ftp, arrived, pushed>>

\* After the two seconds of Task.Delay.
PushDeleted(h) ==
    /\ IsAt(h, "pushDeleted")
    /\ Push(h, "Deleted")
    /\ Finish(h)
    /\ UNCHANGED <<storeVars, arrived>>

-----------------------------------------------------------------------------
(* ArchiveReport: the owner moves a report to the archive *)

\* The Messenger service checks that the fields are there, and publishes.
ArchivingIsAsked == "archive" \in Requests

ArchiveReport(h, d) ==
    /\ ArchivingIsAsked
    /\ DocumentsOf(d) # {}
    /\ Begin(h, "archiveUpload", d)
    /\ UNCHANGED <<storeVars, arrived, pushed>>

ArchiveReportUpload(h) ==
    /\ IsAt(h, "archiveUpload")
    /\ UploadFile(task[h].documentId)
    /\ GoTo(h, "archiveRead")
    /\ UNCHANGED <<report, age, content, arrived, pushed>>

ArchiveReportUploadFails(h) ==
    /\ "upload" \in Faults
    /\ IsAt(h, "archiveUpload")
    /\ UploadFails(task[h].documentId)
    /\ Finish(h)
    /\ UNCHANGED <<report, age, content, arrived, pushed>>

ArchiveReportRead(h) ==
    /\ IsAt(h, "archiveRead")
    /\ ReadReport(h, "archiveUpdate", AsArchived)
    /\ UNCHANGED <<storeVars, arrived, pushed>>

ArchiveReportUpdate(h) ==
    /\ IsAt(h, "archiveUpdate")
    /\ WriteBack(h)
    /\ GoTo(h, "pushArchived")
    /\ UNCHANGED <<age, content, ftp, arrived, pushed>>

PushArchived(h) ==
    /\ IsAt(h, "pushArchived")
    /\ Push(h, "Archived")
    /\ Finish(h)
    /\ UNCHANGED <<storeVars, arrived>>

-----------------------------------------------------------------------------
(* The process of EventHost *)

HandlersStopped == [t \in Task |-> IF t \in Handler THEN Idle ELSE task[t]]

\* EventConsumer's handler is async void: an exception that leaves a driver
\* (a query, the SignalR connection) ends the process.  With autoAck the
\* broker has already forgotten what the process had been sent.
CrashEventHost ==
    /\ "crash" \in Faults
    /\ \E h \in Handler : ~IsAt(h, "idle")
    /\ task' = HandlersStopped
    /\ arrived' \in SUBSET arrived
    /\ UNCHANGED <<storeVars, pushed>>

\* The exception DeleteReport certainly meets: see DeleteIsRefused.
DeleteReportThrows(h, d) ==
    /\ DeletionIsAsked
    /\ IsAt(h, "idle")
    /\ DeleteIsRefused(d)
    /\ task' = HandlersStopped
    /\ arrived' \in SUBSET arrived
    /\ UNCHANGED <<storeVars, pushed>>

-----------------------------------------------------------------------------
(* The job ReportArchiver *)

\* The run takes its list once; a run with an empty list changes nothing.
StartArchiver(j) ==
    /\ IsAt(j, "idle")
    /\ ExpiredNotArchived # {}
    /\ Becomes(j, Local("archiverNext", None, None, None, ExpiredNotArchived))
    /\ UNCHANGED <<storeVars, arrived, pushed>>

\* The next document of the list, and a row that carries its document_id.
ArchiverRead(j, i) ==
    /\ IsAt(j, "archiverNext")
    /\ i \in task[j].todo
    /\ \E k \in RowsOf(report[i].documentId) :
        Becomes(j, Local("archiverUpdate", report[i].documentId, k,
                         AsArchived(report[k]), task[j].todo \ {i}))
    /\ UNCHANGED <<storeVars, arrived, pushed>>

\* The row is marked before anything is on the FTP server.
ArchiverUpdate(j) ==
    /\ IsAt(j, "archiverUpdate")
    /\ WriteBack(j)
    /\ GoTo(j, "archiverFetch")
    /\ UNCHANGED <<age, content, ftp, arrived, pushed>>

ArchiverFetch(j) ==
    /\ IsAt(j, "archiverFetch")
    /\ IF DocumentsOf(task[j].documentId) = {}
         THEN NextInList(j, "archiverNext")
         ELSE GoTo(j, "archiverUpload")
    /\ UNCHANGED <<storeVars, arrived, pushed>>

ArchiverUpload(j) ==
    /\ IsAt(j, "archiverUpload")
    /\ UploadFile(task[j].documentId)
    /\ NextInList(j, "archiverNext")
    /\ UNCHANGED <<report, age, content, arrived, pushed>>

\* The failure is logged and the loop goes on.
ArchiverUploadFails(j) ==
    /\ "upload" \in Faults
    /\ IsAt(j, "archiverUpload")
    /\ UploadFails(task[j].documentId)
    /\ NextInList(j, "archiverNext")
    /\ UNCHANGED <<report, age, content, arrived, pushed>>

-----------------------------------------------------------------------------
(* The job ReportEraser *)

StartEraser(j) ==
    /\ IsAt(j, "idle")
    /\ OverdueNotDeleted # {}
    /\ Becomes(j, Local("eraserNext", None, None, None, OverdueNotDeleted))
    /\ UNCHANGED <<storeVars, arrived, pushed>>

\* Variant: a deletion that fails is taken for one that found nothing.
EraserDeleteIgnored(j, i) ==
    /\ IsAt(j, "eraserNext")
    /\ i \in task[j].todo
    /\ Becomes(j, Local("eraserRead", report[i].documentId, None, None,
                        task[j].todo \ {i}))
    /\ UNCHANGED <<storeVars, arrived, pushed>>

\* A count other than 1 is only logged.
EraserDelete(j, i) ==
    /\ IsAt(j, "eraserNext")
    /\ i \in task[j].todo
    /\ DeleteDocument(report[i].documentId)
    /\ Becomes(j, Local("eraserRead", report[i].documentId, None, None,
                        task[j].todo \ {i}))
    /\ UNCHANGED <<report, age, ftp, arrived, pushed>>

\* The statement is refused and the whole run ends in the catch of Execute.
EraserDeleteThrows(j, i) ==
    /\ IsAt(j, "eraserNext")
    /\ i \in task[j].todo
    /\ DeleteIsRefused(report[i].documentId)
    /\ Finish(j)
    /\ UNCHANGED <<storeVars, arrived, pushed>>

EraserRead(j) ==
    /\ IsAt(j, "eraserRead")
    /\ ReadReport(j, "eraserUpdate", AsDeleted)
    /\ UNCHANGED <<storeVars, arrived, pushed>>

EraserUpdate(j) ==
    /\ IsAt(j, "eraserUpdate")
    /\ WriteBack(j)
    /\ GoTo(j, "eraserFtp")
    /\ UNCHANGED <<age, content, ftp, arrived, pushed>>

EraserDeleteFile(j) ==
    /\ IsAt(j, "eraserFtp")
    /\ DeleteFile(task[j].documentId)
    /\ NextInList(j, "eraserNext")
    /\ UNCHANGED <<report, age, content, arrived, pushed>>

\* The failure is logged; the row is already marked as deleted.
EraserDeleteFileFails(j) ==
    /\ "erase" \in Faults
    /\ IsAt(j, "eraserFtp")
    /\ DeleteFileFails(task[j].documentId)
    /\ NextInList(j, "eraserNext")
    /\ UNCHANGED <<report, age, content, arrived, pushed>>

\* Any other exception of a job (a query, FtpDestroyer's Connect) ends that
\* run in its catch; so does the end of the JobHost process.
AbortJob(j) ==
    /\ "abort" \in Faults
    /\ ~IsAt(j, "idle")
    /\ Finish(j)
    /\ UNCHANGED <<storeVars, arrived, pushed>>

-----------------------------------------------------------------------------
(* Time *)

\* TableSaver is between its two statements for row i.
IsSaving(i) ==
    \E h \in Handler : IsAt(h, "saving") /\ task[h].reportId = i

\* Variant: deadlines are counted for ever.
PassDeadlineAgain(i) ==
    /\ i \in Rows
    /\ age' = [age EXCEPT ![i] = @ + 1]
    /\ UNCHANGED <<report, content, ftp, arrived, task, pushed>>

\* The shortest lifetime is ten minutes: no row expires between the two
\* statements of TableSaver.
PassDeadline(i) ==
    /\ i \in Rows
    /\ age[i] < Overdue
    /\ ~IsSaving(i)
    /\ age' = [age EXCEPT ![i] = @ + 1]
    /\ UNCHANGED <<report, content, ftp, arrived, task, pushed>>

-----------------------------------------------------------------------------

HandlerStep(h) ==
    \/ \E d \in DocumentId :
        \/ \E i \in RowId : SaveReport(h, d, i)
        \/ ReadLength(h, d) \/ ReadLengthFails(h, d)
        \/ DeleteReport(h, d) \/ DeleteReportThrows(h, d)
        \/ ArchiveReport(h, d)
    \/ SaveDocument(h) \/ SaveDocumentUntold(h) \/ SaveDocumentFails(h)
    \/ PushReady(h)
    \/ DeleteReportRead(h) \/ DeleteReportUpdate(h) \/ PushDeleted(h)
    \/ ArchiveReportUpload(h) \/ ArchiveReportUploadFails(h)
    \/ ArchiveReportRead(h) \/ ArchiveReportUpdate(h) \/ PushArchived(h)

ArchiverStep(j) ==
    \/ StartArchiver(j)
    \/ \E i \in RowId : ArchiverRead(j, i)
    \/ ArchiverUpdate(j) \/ ArchiverFetch(j)
    \/ ArchiverUpload(j) \/ ArchiverUploadFails(j)

EraserStep(j) ==
    \/ StartEraser(j)
    \/ \E i \in RowId : EraserDelete(j, i) \/ EraserDeleteThrows(j, i)
    \/ EraserRead(j) \/ EraserUpdate(j)
    \/ EraserDeleteFile(j) \/ EraserDeleteFileFails(j)

Next ==
    \/ \E h \in Handler : HandlerStep(h)
    \/ \E j \in ArchiverRun : ArchiverStep(j)
    \/ \E j \in EraserRun : EraserStep(j)
    \/ \E j \in Job : AbortJob(j)
    \/ \E i \in RowId : PassDeadline(i)
    \/ CrashEventHost

Spec == Init /\ [][Next]_vars

\* Clocks run, Hangfire starts every job again and again, and a statement a
\* job attempts again and again does not fail for ever.  Nothing is assumed
\* of users, of EventHost, or of the FTP server.
Fairness ==
    /\ \A i \in RowId : WF_vars(PassDeadline(i))
    /\ \A j \in ArchiverRun :
        /\ WF_vars(ArchiverStep(j))
        /\ SF_vars(ArchiverUpdate(j))
        /\ \A i \in RowId : SF_vars(ArchiverRead(j, i))
    /\ \A j \in EraserRun :
        /\ WF_vars(EraserStep(j))
        /\ SF_vars(EraserRead(j))
        /\ SF_vars(EraserUpdate(j))
        /\ \A i \in RowId : SF_vars(EraserDelete(j, i))

FairSpec == Spec /\ Fairness

-----------------------------------------------------------------------------
(* Properties.  They hold while every document is stored once, that is for   *)
(* DuplicateReady = FALSE; ContentIsKept and DeletedIsToldOnce always do.    *)

\* A report marked as deleted has no content left in the database: DeleteReport
\* and ReportEraser delete the document before they mark the report, and no
\* interleaving with TableSaver's two inserts or with a stale write-back of
\* another driver leaves content behind a deleted report, where the eraser's
\* query would never look again.
DeletedHasNoContent ==
    \A i \in Rows : report[i].deleted => i \notin content

\* A report that has left the owner's list stays out of it.  Every writer
\* overwrites the whole row with what it read earlier, so this is about four
\* kinds of process racing with stale copies.
ArchivedStays ==
    [][\A i \in Rows : report[i].archived => report'[i].archived]_vars

\* Content leaves the database only because its owner asked for it, or because
\* the report is archived and its lifetime and the hour after it are over, both
\* at the moment of the deletion: the eraser's list may be old by then.
IsDeletedByOwner(i) ==
    \E h \in Handler :
        /\ IsAt(h, "idle")
        /\ task'[h].pc = "deleteRead"
        /\ task'[h].documentId = report[i].documentId

ContentIsKept ==
    [][\A i \in content \ content' :
        \/ IsDeletedByOwner(i)
        \/ age[i] = Overdue /\ report[i].archived]_vars

\* However many delete requests of one report are in flight, at most one of
\* their drivers will say that it has been deleted, and only once.
DeletingPC == {"deleteRead", "deleteUpdate", "pushDeleted"}

Deleting(h, d) == task[h].pc \in DeletingPC /\ task[h].documentId = d

DeletedIsToldOnce ==
    \A d \in DocumentId, h \in Handler : Deleting(h, d) =>
        /\ <<d, "Deleted">> \notin pushed
        /\ \A other \in Handler \ {h} : ~Deleting(other, d)

\* What a notification said stays true: a report its owner was told is archived
\* is not listed any more, and one said to be deleted cannot be downloaded
\* either.
NoticesStayTrue ==
    \A d \in DocumentId :
        /\ <<d, "Archived">> \in pushed => RowsOf(d) \cap Listed = {}
        /\ <<d, "Deleted">> \in pushed => RowsOf(d) \cap (Listed \cup content) = {}

\* The jobs end what they exist for: from some time on, every report whose
\* lifetime ended more than an hour ago is archived, marked as deleted and has
\* no content in the database, whatever the users do and however often a run
\* of a job fails.
Erased(i) == report[i].archived /\ report[i].deleted /\ i \notin content

OverdueIsErased ==
    <>[](\A i \in Rows : age[i] = Overdue => Erased(i))

\* The store as its users see it implements ReportPromise: content that was
\* deleted or given up never returns, a report once off the list stays off it,
\* and no report is taken off the list while TableSaver is between its inserts.
StageOf(i) ==
    IF i \notin Rows THEN "absent"
    ELSE IF i \in content THEN "available"
    ELSE IF IsSaving(i) THEN "arriving" ELSE "gone"

Promise ==
    INSTANCE ReportPromise WITH
        Report <- RowId,
        stage <- [i \in RowId |-> StageOf(i)],
        listed <- Listed

KeepsPromise == Promise!PromiseSpec

-----------------------------------------------------------------------------
(* What the documentation says and the code does not do. *)

Quiet == \A t \in Task : IsAt(t, "idle")

\* "This record will stand in the database with archived = true [...] and so it
\* lives on the FTP server for some more time" (README.md:567): ReportArchiver
\* sets the flag first and only logs that the upload failed.
ArchivedLivesOnFtp ==
    Quiet => \A i \in Rows :
        report[i].archived /\ ~report[i].deleted /\ i \in content
            => ftp[report[i].documentId] = "whole"

\* "The deletion of reports that are archived and expired from both the database
\* and the FTP server" (README.md:563): a report its owner archived and then
\* deleted is marked as deleted, so that the job never looks for its file.
OverdueIsOutOfFtp ==
    <>[](\A i \in Rows :
            age[i] = Overdue => ftp[report[i].documentId] = "absent")

=============================================================================
