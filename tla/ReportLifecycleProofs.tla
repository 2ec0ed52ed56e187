----------------------- MODULE ReportLifecycleProofs -----------------------
(***************************************************************************)
(* Proofs about ReportLifecycle, for every set of documents, rows and      *)
(* processes and every choice of requests and failures.                    *)
(***************************************************************************)
EXTENDS ReportLifecycleInvariant, TLAPS

\* What every statement leaves of the store: rows are never removed.
StoreGrows == StoreTypeOK' /\ Rows \subseteq Rows'

-----------------------------------------------------------------------------
(* Operators of the model *)

\* Becomes replaces one process and leaves the others as they are.
LEMMA TaskUpdate ==
  ASSUME task \in [Task -> TaskState],
         NEW t \in Task, NEW s \in TaskState, Becomes(t, s)
  PROVE  /\ task' \in [Task -> TaskState]
         /\ task'[t] = s
         /\ \A u \in Task : u # t => task'[u] = task[u]
  BY DEF Becomes

\* GoTo moves one process and keeps everything it holds.
LEMMA PCUpdate ==
  ASSUME task \in [Task -> TaskState], NEW t \in Task,
         NEW pc \in HandlerPC \cup ArchiverPC \cup EraserPC, GoTo(t, pc)
  PROVE  /\ task' \in [Task -> TaskState]
         /\ task'[t] = Local(pc, task[t].documentId, task[t].reportId,
                             task[t].report, task[t].todo)
         /\ \A u \in Task : u # t => task'[u] = task[u]
  BY DEF GoTo, Local, TaskState

\* A Local of typed parts is a state of a process.
LEMMA LocalType ==
  ASSUME NEW pc \in HandlerPC \cup ArchiverPC \cup EraserPC,
         NEW d \in DocumentId \cup {None}, NEW i \in RowId \cup {None},
         NEW row \in Row \cup {None}, NEW todo \in SUBSET RowId
  PROVE  /\ Local(pc, d, i, row, todo) \in TaskState
         /\ Local(pc, d, i, row, todo).pc = pc
         /\ Local(pc, d, i, row, todo).documentId = d
         /\ Local(pc, d, i, row, todo).reportId = i
         /\ Local(pc, d, i, row, todo).report = row
         /\ Local(pc, d, i, row, todo).todo = todo
  BY DEF Local, TaskState

\* The state a process ends in is typed, and holds nothing.
LEMMA IdleType == Idle \in TaskState /\ Idle.pc = "idle" /\ Idle.todo = {}
  <1>1. "idle" \in HandlerPC
    BY DEF HandlerPC
  <1> QED BY <1>1, LocalType DEF Idle

\* Setting the flags of a Report object keeps its document.
LEMMA RowFlags ==
  ASSUME NEW row \in Row
  PROVE  /\ AsArchived(row) \in Row
         /\ AsArchived(row).documentId = row.documentId
         /\ AsArchived(row).archived
         /\ AsArchived(row).deleted = row.deleted
         /\ AsDeleted(row) \in Row
         /\ AsDeleted(row).documentId = row.documentId
         /\ AsDeleted(row).archived = row.archived
         /\ AsArchivedAndDeleted(row) \in Row
         /\ AsArchivedAndDeleted(row).documentId = row.documentId
         /\ AsArchivedAndDeleted(row).archived
  <1>1. \A r \in Row : AsArchived(r) \in Row
    BY DEF AsArchived, Row
  <1>2. \A r \in Row : AsArchived(r).documentId = r.documentId
    BY DEF AsArchived, Row
  <1>3. \A r \in Row : AsArchived(r).archived
    BY DEF AsArchived, Row
  <1>4. AsArchived(row).deleted = row.deleted
    BY DEF AsArchived, Row
  <1>5. AsDeleted(row) \in Row
    BY DEF AsDeleted, Row
  <1>6. AsDeleted(row).documentId = row.documentId
    BY DEF AsDeleted, Row
  <1>7. AsDeleted(row).archived = row.archived
    BY DEF AsDeleted, Row
  <1> QED
    BY <1>1, <1>2, <1>3, <1>4, <1>5, <1>6, <1>7, Zenon DEF AsArchivedAndDeleted

\* A row that a query found is a row of the table.
LEMMA RowsType ==
  ASSUME StoreTypeOK
  PROVE  /\ Rows \subseteq RowId
         /\ \A i \in Rows : report[i] \in Row
         /\ \A d \in DocumentId : RowsOf(d) \subseteq Rows
  BY DEF StoreTypeOK, Rows, RowsOf

\* The processes that do not act keep what TypeInv says of them.
LEMMA TaskTyping ==
  ASSUME TypeInv, NEW t \in Task, NEW s \in TaskState,
         t \in Handler => s.pc \in HandlerPC,
         t \in ArchiverRun => s.pc \in ArchiverPC,
         t \in EraserRun => s.pc \in EraserPC,
         s.pc \notin NoDocumentPC => s.documentId \in DocumentId,
         s.pc \in WritesBackPC => s.reportId \in RowId /\ s.report \in Row,
         s.pc = "saving" => s.reportId \in RowId, s.todo \subseteq Rows,
         task' \in [Task -> TaskState],
         task'[t] = s,
         \A u \in Task : u # t => task'[u] = task[u],
         StoreGrows, arrived' \subseteq DocumentId,
         pushed' \subseteq DocumentId \X Topic
  PROVE  TypeInv'
  <1>1. \A h \in Handler : task'[h].pc \in HandlerPC
    BY LifecycleAssumption DEF TypeInv, TypeOK, Task, Job
  <1>2. \A j \in ArchiverRun : task'[j].pc \in ArchiverPC
    BY LifecycleAssumption DEF TypeInv, TypeOK, Task, Job
  <1>3. \A j \in EraserRun : task'[j].pc \in EraserPC
    BY LifecycleAssumption DEF TypeInv, TypeOK, Task, Job
  <1>4. HoldsDocument' /\ HoldsReport' /\ HoldsRow' /\ HoldsList'
    BY DEF TypeInv, HoldsDocument, HoldsReport, HoldsRow, HoldsList, StoreGrows
  <1> QED BY <1>1, <1>2, <1>3, <1>4 DEF TypeInv, TypeOK, StoreGrows

-----------------------------------------------------------------------------
(* The statements keep the types of the store. *)

\* The INSERT keeps the types, and every row that was there.
LEMMA InsertReportType ==
  ASSUME StoreTypeOK, NEW i \in RowId, NEW d \in DocumentId,
         InsertReport(i, d), UNCHANGED <<age, content, ftp>>
  PROVE  StoreGrows
  BY NoneIsNoValue DEF StoreGrows, StoreTypeOK, InsertReport, Row, Rows

\* An UPDATE with a typed object keeps the types, and every row that was there.
LEMMA UpdateReportType ==
  ASSUME StoreTypeOK, NEW i \in RowId, NEW row \in Row,
         UpdateReport(i, row), UNCHANGED <<age, content, ftp>>
  PROVE  StoreGrows
  BY NoneIsNoValue DEF StoreGrows, StoreTypeOK, UpdateReport, Rows

\* The statements on report_document keep the types.
LEMMA DocumentType ==
  ASSUME StoreTypeOK, UNCHANGED <<report, age, ftp>>,
         \/ \E i \in RowId : InsertDocument(i)
         \/ \E d \in DocumentId : DeleteDocument(d)
  PROVE  StoreGrows
  BY DEF StoreGrows, StoreTypeOK, InsertDocument, DeleteDocument, Rows

\* An upload or a deletion on the FTP server, failed or not, keeps the types.
LEMMA FileType ==
  ASSUME StoreTypeOK, UNCHANGED <<report, age, content>>,
         NEW d \in DocumentId,
         UploadFile(d) \/ UploadFails(d) \/ DeleteFile(d) \/ DeleteFileFails(d)
  PROVE  StoreGrows
  <1>1. ASSUME NEW f \in File, ftp' = [ftp EXCEPT ![d] = f]
        PROVE  StoreGrows
    BY <1>1 DEF StoreGrows, StoreTypeOK, Rows
  <1>2. {"whole", "partial", "absent", ftp[d]} \subseteq File
    BY DEF StoreTypeOK, File
  <1> QED BY <1>1, <1>2 DEF UploadFile, UploadFails, DeleteFile, DeleteFileFails

\* A step without a statement keeps the types.
LEMMA SameStoreType == ASSUME StoreTypeOK, UNCHANGED storeVars PROVE StoreGrows
  BY DEF StoreGrows, StoreTypeOK, storeVars, Rows

-----------------------------------------------------------------------------
(* The local steps keep TypeInv. *)

\* A process may become any typed state whose list still exists.
LEMMA BecomesType ==
  ASSUME TypeInv, NEW t \in Task,
         NEW pc \in HandlerPC \cup ArchiverPC \cup EraserPC,
         NEW d \in DocumentId \cup {None}, NEW i \in RowId \cup {None},
         NEW row \in Row \cup {None}, NEW todo \in SUBSET Rows,
         Becomes(t, Local(pc, d, i, row, todo)),
         t \in Handler => pc \in HandlerPC,
         t \in ArchiverRun => pc \in ArchiverPC,
         t \in EraserRun => pc \in EraserPC,
         pc \notin NoDocumentPC => d \in DocumentId,
         pc \in WritesBackPC => i \in RowId /\ row \in Row,
         pc = "saving" => i \in RowId,
         StoreGrows, arrived' \subseteq DocumentId,
         pushed' \subseteq DocumentId \X Topic
  PROVE  TypeInv'
  <1> DEFINE s == Local(pc, d, i, row, todo)
  <1>1. /\ s \in TaskState /\ s.todo \subseteq Rows
        /\ s.pc = pc /\ s.documentId = d /\ s.reportId = i /\ s.report = row
    <2>1. todo \in SUBSET RowId
      BY DEF Rows
    <2> QED BY <2>1, LocalType
  <1>2. task \in [Task -> TaskState]
    BY DEF TypeInv, TypeOK
  <1>3. /\ task' \in [Task -> TaskState]
        /\ task'[t] = s
        /\ \A u \in Task : u # t => task'[u] = task[u]
    BY <1>1, <1>2, TaskUpdate
  <1> HIDE DEF s
  <1> QED BY <1>1, <1>3, TaskTyping

\* A process may end.
LEMMA FinishType ==
  ASSUME TypeInv, NEW t \in Task, Finish(t),
         StoreGrows, arrived' \subseteq DocumentId,
         pushed' \subseteq DocumentId \X Topic
  PROVE  TypeInv'
  <1>1. "idle" \in HandlerPC /\ "idle" \in ArchiverPC /\ "idle" \in EraserPC
    BY DEF HandlerPC, ArchiverPC, EraserPC
  <1>2. "idle" \in NoDocumentPC /\ "idle" \notin WritesBackPC
    BY DEF NoDocumentPC, WritesBackPC
  <1> QED BY <1>1, <1>2, BecomesType DEF Finish, Idle

\* A process may move on while it holds what the new state needs.
LEMMA GoToType ==
  ASSUME TypeInv, NEW t \in Task,
         NEW pc \in HandlerPC \cup ArchiverPC \cup EraserPC, GoTo(t, pc),
         task[t].pc \notin NoDocumentPC,
         pc \notin WritesBackPC \cup {"saving"},
         t \in Handler => pc \in HandlerPC,
         t \in ArchiverRun => pc \in ArchiverPC,
         t \in EraserRun => pc \in EraserPC,
         StoreGrows, arrived' \subseteq DocumentId,
         pushed' \subseteq DocumentId \X Topic
  PROVE  TypeInv'
  <1>1. task \in [Task -> TaskState]
    BY DEF TypeInv, TypeOK
  <1>2. /\ task[t].documentId \in DocumentId
        /\ task[t].reportId \in RowId \cup {None}
        /\ task[t].report \in Row \cup {None}
        /\ task[t].todo \in SUBSET Rows
    BY <1>1 DEF TypeInv, HoldsDocument, HoldsList, TaskState
  <1> DEFINE s == Local(pc, task[t].documentId, task[t].reportId,
                        task[t].report, task[t].todo)
  <1>3. Becomes(t, s)
    <2>1. [task[t] EXCEPT !.pc = pc] = s
      BY <1>1 DEF Local, TaskState
    <2>2. task' = [task EXCEPT ![t] = [task[t] EXCEPT !.pc = pc]]
      BY Zenon DEF GoTo
    <2> QED BY <2>1, <2>2 DEF Becomes
  <1> QED BY <1>2, <1>3, BecomesType

\* A job may go on with its list.
LEMMA NextInListType ==
  ASSUME TypeInv, NEW j \in Job,
         NEW pc \in {"archiverNext", "eraserNext"}, NextInList(j, pc),
         j \in ArchiverRun => pc = "archiverNext",
         j \in EraserRun => pc = "eraserNext",
         StoreGrows, arrived' \subseteq DocumentId,
         pushed' \subseteq DocumentId \X Topic
  PROVE  TypeInv'
  <1>1. j \in Task /\ j \notin Handler
    BY LifecycleAssumption DEF Task
  <1>2. task[j].todo \in SUBSET Rows
    BY <1>1 DEF TypeInv, HoldsList
  <1>3. CASE task[j].todo = {}
    BY <1>1, <1>3, FinishType DEF NextInList, Finish
  <1>4. CASE task[j].todo # {}
    <2>1. Becomes(j, Local(pc, None, None, None, task[j].todo))
      BY <1>4 DEF NextInList
    <2>2. /\ pc \in ArchiverPC \cup EraserPC
          /\ pc \in NoDocumentPC /\ pc \notin WritesBackPC /\ pc # "saving"
          /\ j \in ArchiverRun => pc \in ArchiverPC
          /\ j \in EraserRun => pc \in EraserPC
      BY DEF ArchiverPC, EraserPC, NoDocumentPC, WritesBackPC
    <2> QED BY <1>1, <1>2, <2>1, <2>2, BecomesType
  <1> QED BY <1>3, <1>4

-----------------------------------------------------------------------------
(* Type correctness *)

\* The initial state is typed.
LEMMA InitType == Init => TypeInv
  <1> SUFFICES ASSUME Init PROVE TypeInv
    OBVIOUS
  <1>1. StoreTypeOK
    BY DEF Init, StoreInit, StoreTypeOK, Fresh, Overdue, File
  <1>2. /\ task \in [Task -> TaskState]
        /\ \A t \in Task : task[t].pc = "idle" /\ task[t].todo = {}
    BY IdleType DEF Init
  <1>3. Handler \subseteq Task /\ ArchiverRun \subseteq Task /\ EraserRun \subseteq Task
    BY DEF Task, Job
  <1>4. TypeOK
    BY <1>1, <1>2, <1>3 DEF TypeOK, Init, HandlerPC, ArchiverPC, EraserPC
  <1> QED
    BY <1>2, <1>4
    DEF TypeInv, HoldsDocument, HoldsReport, HoldsRow, HoldsList, NoDocumentPC,
        WritesBackPC, StoreGrows

\* CrashEventHost and DeleteReportThrows.
LEMMA HandlersStoppedType ==
  ASSUME TypeInv, task' = HandlersStopped, arrived' \in SUBSET arrived,
         UNCHANGED <<storeVars, pushed>>
  PROVE  TypeInv'
  <1>1. StoreGrows
    BY SameStoreType DEF TypeInv, TypeOK
  <1>2. task' \in [Task -> TaskState]
    BY IdleType DEF TypeInv, TypeOK, HandlersStopped
  <1>3. \A t \in Task : task'[t] = IF t \in Handler THEN Idle ELSE task[t]
    BY DEF HandlersStopped
  <1>4. Handler \subseteq Task /\ ArchiverRun \subseteq Task /\ EraserRun \subseteq Task
    BY DEF Task, Job
  <1>5. TypeOK'
    BY <1>1, <1>2, <1>3, <1>4, IdleType, LifecycleAssumption
    DEF TypeInv, TypeOK, HandlerPC, Job, StoreGrows
  <1> QED
    BY <1>1, <1>3, <1>5, IdleType
    DEF TypeInv, HoldsDocument, HoldsReport, HoldsRow, HoldsList, NoDocumentPC,
        WritesBackPC, StoreGrows

\* Every step of a driver keeps TypeInv.
LEMMA HandlerStepType ==
  ASSUME TypeInv, NEW h \in Handler, HandlerStep(h)
  PROVE  TypeInv'
  <1> USE DEF TypeInv
  <1>0. /\ h \in Task /\ h \notin Job
        /\ StoreTypeOK /\ arrived \subseteq DocumentId
        /\ pushed \subseteq DocumentId \X Topic
        /\ None \in DocumentId \cup {None} /\ None \in RowId \cup {None}
        /\ None \in Row \cup {None} /\ {} \in SUBSET Rows
    BY LifecycleAssumption DEF Task, TypeOK
  <1>1. h \notin ArchiverRun /\ h \notin EraserRun
    BY <1>0 DEF Job
  <1>2. task[h] \in TaskState
    BY <1>0 DEF TypeOK
  <1> HIDE DEF TypeInv
  <1>b. ASSUME NEW d \in DocumentId, NEW pc \in {"pushReady", "deleteRead", "archiveUpload"},
               Begin(h, pc, d), StoreGrows, arrived' \subseteq DocumentId,
               pushed' \subseteq DocumentId \X Topic
        PROVE  TypeInv'
    <2>1. /\ pc \in HandlerPC /\ pc \notin WritesBackPC /\ pc # "saving"
      BY DEF HandlerPC, WritesBackPC
    <2> QED BY <1>0, <1>1, <1>b, <2>1, BecomesType DEF Begin
  <1>r. ASSUME NEW pc \in {"deleteUpdate", "archiveUpdate"}, NEW i \in RowId,
               NEW row \in Row, task[h].documentId \in DocumentId,
               Becomes(h, Local(pc, task[h].documentId, i, row, task[h].todo)),
               UNCHANGED <<storeVars, arrived, pushed>>
        PROVE  TypeInv'
    <2>1. pc \in HandlerPC /\ pc # "saving"
      BY DEF HandlerPC
    <2>2. task[h].todo \in SUBSET Rows
      BY <1>0 DEF TypeInv, HoldsList
    <2> QED BY <1>0, <1>1, <1>r, <2>1, <2>2, BecomesType, SameStoreType
  <1>3. ASSUME NEW d \in DocumentId, NEW i \in RowId, SaveReport(h, d, i)
        PROVE  TypeInv'
    <2>1. StoreGrows
      BY <1>0, <1>3, InsertReportType DEF SaveReport
    <2>2. "saving" \in HandlerPC /\ "saving" \notin WritesBackPC
      BY DEF HandlerPC, WritesBackPC
    <2> QED BY <1>0, <1>1, <1>3, <2>1, <2>2, BecomesType DEF SaveReport
  <1>4. CASE SaveDocument(h) \/ SaveDocumentUntold(h)
    <2>1. task[h].documentId \in DocumentId /\ task[h].reportId \in RowId
      BY <1>0, <1>4
      DEF SaveDocument, SaveDocumentUntold, IsAt, TypeInv, HoldsDocument, HoldsRow, NoDocumentPC
    <2>2. StoreGrows
      BY <1>0, <1>4, <2>1, DocumentType DEF SaveDocument, SaveDocumentUntold
    <2> QED BY <1>0, <1>4, <2>1, <2>2, FinishType DEF SaveDocument, SaveDocumentUntold
  <1>5. CASE SaveDocumentFails(h)
    BY <1>0, <1>5, FinishType, SameStoreType DEF SaveDocumentFails, storeVars
  <1>6. ASSUME NEW d \in DocumentId, ReadLength(h, d)
        PROVE  TypeInv'
    BY <1>0, <1>6, <1>b, SameStoreType DEF ReadLength
  <1>7. ASSUME NEW d \in DocumentId, ReadLengthFails(h, d)
        PROVE  TypeInv'
    <2>1. StoreGrows
      BY <1>0, <1>7, SameStoreType DEF ReadLengthFails
    <2> QED
      BY <1>7, <2>1
      DEF ReadLengthFails, TypeInv, TypeOK, HoldsDocument, HoldsReport, HoldsRow,
          HoldsList, StoreGrows
  <1>8. CASE PushReady(h)
    <2>1. pushed' \subseteq DocumentId \X Topic
      BY <1>0, <1>8
      DEF PushReady, Push, IsAt, TypeInv, HoldsDocument, NoDocumentPC, Topic
    <2> QED BY <1>0, <1>8, <2>1, FinishType, SameStoreType DEF PushReady
  <1>9. ASSUME NEW d \in DocumentId, DeleteReport(h, d)
        PROVE  TypeInv'
    <2>1. StoreGrows
      BY <1>0, <1>9, DocumentType DEF DeleteReport
    <2> QED BY <1>0, <1>9, <1>b, <2>1 DEF DeleteReport
  <1>10. CASE DeleteReportRead(h)
    <2>1. task[h].documentId \in DocumentId
      BY <1>0, <1>10 DEF DeleteReportRead, IsAt, TypeInv, HoldsDocument, NoDocumentPC
    <2>2. PICK i \in RowsOf(task[h].documentId) :
            Becomes(h, Local("deleteUpdate", task[h].documentId, i,
                             AsArchivedAndDeleted(report[i]), task[h].todo))
      BY <1>10 DEF DeleteReportRead, ReadReport
    <2>3. i \in RowId /\ AsArchivedAndDeleted(report[i]) \in Row
      BY <1>0, <2>1, RowsType, RowFlags
    <2> QED BY <1>10, <1>r, <2>1, <2>2, <2>3 DEF DeleteReportRead
  <1>11. CASE DeleteReportUpdate(h)
    <2>1. /\ task[h].pc \in WritesBackPC /\ task[h].pc \notin NoDocumentPC
          /\ "pushDeleted" \in HandlerPC /\ "pushDeleted" \notin WritesBackPC \cup {"saving"}
      BY <1>11 DEF DeleteReportUpdate, IsAt, WritesBackPC, NoDocumentPC, HandlerPC
    <2>2. task[h].reportId \in RowId /\ task[h].report \in Row
      BY <1>0, <2>1 DEF TypeInv, HoldsReport
    <2>3. StoreGrows
      BY <1>0, <1>11, <2>2, UpdateReportType DEF DeleteReportUpdate, WriteBack
    <2> QED BY <1>0, <1>1, <1>11, <2>1, <2>3, GoToType DEF DeleteReportUpdate
  <1>12. CASE PushDeleted(h)
    <2>1. pushed' \subseteq DocumentId \X Topic
      BY <1>0, <1>12
      DEF PushDeleted, Push, IsAt, TypeInv, HoldsDocument, NoDocumentPC, Topic
    <2> QED BY <1>0, <1>12, <2>1, FinishType, SameStoreType DEF PushDeleted
  <1>13. ASSUME NEW d \in DocumentId, DeleteReportThrows(h, d)
         PROVE  TypeInv'
    BY <1>13, HandlersStoppedType DEF DeleteReportThrows
  <1>14. ASSUME NEW d \in DocumentId, ArchiveReport(h, d)
         PROVE  TypeInv'
    BY <1>0, <1>14, <1>b, SameStoreType DEF ArchiveReport
  <1>15. CASE ArchiveReportUpload(h)
    <2>1. /\ task[h].documentId \in DocumentId /\ task[h].pc \notin NoDocumentPC
          /\ "archiveRead" \in HandlerPC
          /\ "archiveRead" \notin WritesBackPC \cup {"saving"}
      BY <1>0, <1>15
      DEF ArchiveReportUpload, IsAt, TypeInv, HoldsDocument, NoDocumentPC,
          HandlerPC, WritesBackPC
    <2>2. StoreGrows
      BY <1>0, <1>15, <2>1, FileType DEF ArchiveReportUpload
    <2> QED BY <1>0, <1>1, <1>15, <2>1, <2>2, GoToType DEF ArchiveReportUpload
  <1>16. CASE ArchiveReportUploadFails(h)
    <2>1. task[h].documentId \in DocumentId
      BY <1>0, <1>16
      DEF ArchiveReportUploadFails, IsAt, TypeInv, HoldsDocument, NoDocumentPC
    <2>2. StoreGrows
      BY <1>0, <1>16, <2>1, FileType DEF ArchiveReportUploadFails
    <2> QED BY <1>0, <1>16, <2>2, FinishType DEF ArchiveReportUploadFails
  <1>17. CASE ArchiveReportRead(h)
    <2>1. task[h].documentId \in DocumentId
      BY <1>0, <1>17 DEF ArchiveReportRead, IsAt, TypeInv, HoldsDocument, NoDocumentPC
    <2>2. PICK i \in RowsOf(task[h].documentId) :
            Becomes(h, Local("archiveUpdate", task[h].documentId, i,
                             AsArchived(report[i]), task[h].todo))
      BY <1>17 DEF ArchiveReportRead, ReadReport
    <2>3. i \in RowId /\ AsArchived(report[i]) \in Row
      BY <1>0, <2>1, RowsType, RowFlags
    <2> QED BY <1>17, <1>r, <2>1, <2>2, <2>3 DEF ArchiveReportRead
  <1>18. CASE ArchiveReportUpdate(h)
    <2>1. /\ task[h].pc \in WritesBackPC /\ task[h].pc \notin NoDocumentPC
          /\ "pushArchived" \in HandlerPC /\ "pushArchived" \notin WritesBackPC \cup {"saving"}
      BY <1>18 DEF ArchiveReportUpdate, IsAt, WritesBackPC, NoDocumentPC, HandlerPC
    <2>2. task[h].reportId \in RowId /\ task[h].report \in Row
      BY <1>0, <2>1 DEF TypeInv, HoldsReport
    <2>3. StoreGrows
      BY <1>0, <1>18, <2>2, UpdateReportType DEF ArchiveReportUpdate, WriteBack
    <2> QED BY <1>0, <1>1, <1>18, <2>1, <2>3, GoToType DEF ArchiveReportUpdate
  <1>19. CASE PushArchived(h)
    <2>1. pushed' \subseteq DocumentId \X Topic
      BY <1>0, <1>19
      DEF PushArchived, Push, IsAt, TypeInv, HoldsDocument, NoDocumentPC, Topic
    <2> QED BY <1>0, <1>19, <2>1, FinishType, SameStoreType DEF PushArchived
  <1> QED
    BY <1>3, <1>4, <1>5, <1>6, <1>7, <1>8, <1>9, <1>10, <1>11, <1>12, <1>13,
       <1>14, <1>15, <1>16, <1>17, <1>18, <1>19
    DEF HandlerStep

\* Every step of ReportArchiver keeps TypeInv.
LEMMA ArchiverStepType ==
  ASSUME TypeInv, NEW j \in ArchiverRun, ArchiverStep(j)
  PROVE  TypeInv'
  <1>0. /\ j \in Task /\ j \in Job /\ j \notin Handler /\ j \notin EraserRun
        /\ StoreTypeOK /\ arrived \subseteq DocumentId
        /\ pushed \subseteq DocumentId \X Topic
        /\ None \in DocumentId \cup {None} /\ None \in RowId \cup {None}
        /\ None \in Row \cup {None}
        /\ task[j] \in TaskState /\ task[j].todo \in SUBSET Rows
    BY LifecycleAssumption DEF Task, Job, TypeInv, TypeOK, HoldsList
  <1>1. CASE StartArchiver(j)
    <2>1. ExpiredNotArchived \in SUBSET Rows
      BY DEF ExpiredNotArchived
    <2>2. "archiverNext" \in ArchiverPC /\ "archiverNext" \in NoDocumentPC \ WritesBackPC
      BY DEF ArchiverPC, NoDocumentPC, WritesBackPC
    <2> QED BY <1>0, <1>1, <2>1, <2>2, BecomesType, SameStoreType DEF StartArchiver
  <1>2. ASSUME NEW i \in RowId, ArchiverRead(j, i)
        PROVE  TypeInv'
    <2>1. PICK k \in RowsOf(report[i].documentId) :
            Becomes(j, Local("archiverUpdate", report[i].documentId, k,
                             AsArchived(report[k]), task[j].todo \ {i}))
      BY <1>2 DEF ArchiverRead
    <2>2. /\ k \in RowId /\ report[k] \in Row
          /\ report[k].documentId = report[i].documentId
      BY <1>0, RowsType DEF RowsOf
    <2>3. report[i].documentId \in DocumentId /\ AsArchived(report[k]) \in Row
      BY <2>2, RowFlags DEF Row
    <2>4. "archiverUpdate" \in ArchiverPC /\ task[j].todo \ {i} \in SUBSET Rows
      BY <1>0 DEF ArchiverPC
    <2> QED
      BY <1>0, <1>2, <2>1, <2>2, <2>3, <2>4, BecomesType, SameStoreType
      DEF ArchiverRead
  <1>3. CASE ArchiverUpdate(j)
    <2>1. /\ task[j].pc \in WritesBackPC /\ task[j].pc \notin NoDocumentPC
          /\ "archiverFetch" \in ArchiverPC /\ "archiverFetch" \notin WritesBackPC \cup {"saving"}
      BY <1>3 DEF ArchiverUpdate, IsAt, WritesBackPC, NoDocumentPC, ArchiverPC
    <2>2. task[j].reportId \in RowId /\ task[j].report \in Row
      BY <1>0, <2>1 DEF TypeInv, HoldsReport
    <2>3. StoreGrows
      BY <1>0, <1>3, <2>2, UpdateReportType DEF ArchiverUpdate, WriteBack
    <2> QED BY <1>0, <1>3, <2>1, <2>3, GoToType DEF ArchiverUpdate
  <1>4. CASE ArchiverFetch(j)
    <2>1. StoreGrows
      BY <1>0, <1>4, SameStoreType DEF ArchiverFetch
    <2>2. CASE NextInList(j, "archiverNext")
      BY <1>0, <1>4, <2>1, <2>2, NextInListType DEF ArchiverFetch
    <2>3. CASE GoTo(j, "archiverUpload")
      <3>1. /\ task[j].pc \notin NoDocumentPC
            /\ "archiverUpload" \in ArchiverPC
            /\ "archiverUpload" \notin WritesBackPC \cup {"saving"}
        BY <1>4 DEF ArchiverFetch, IsAt, NoDocumentPC, ArchiverPC, WritesBackPC
      <3> QED BY <1>0, <1>4, <2>1, <2>3, <3>1, GoToType DEF ArchiverFetch
    <2> QED BY <1>4, <2>2, <2>3 DEF ArchiverFetch
  <1>5. CASE ArchiverUpload(j)
    <2>1. task[j].documentId \in DocumentId
      BY <1>0, <1>5 DEF ArchiverUpload, IsAt, TypeInv, HoldsDocument, NoDocumentPC
    <2>2. StoreGrows
      BY <1>0, <1>5, <2>1, FileType DEF ArchiverUpload
    <2> QED BY <1>0, <1>5, <2>2, NextInListType DEF ArchiverUpload
  <1>6. CASE ArchiverUploadFails(j)
    <2>1. task[j].documentId \in DocumentId
      BY <1>0, <1>6 DEF ArchiverUploadFails, IsAt, TypeInv, HoldsDocument, NoDocumentPC
    <2>2. StoreGrows
      BY <1>0, <1>6, <2>1, FileType DEF ArchiverUploadFails
    <2> QED BY <1>0, <1>6, <2>2, NextInListType DEF ArchiverUploadFails
  <1> QED
    BY <1>1, <1>2, <1>3, <1>4, <1>5, <1>6 DEF ArchiverStep

\* Every step of ReportEraser keeps TypeInv.
LEMMA EraserStepType ==
  ASSUME TypeInv, NEW j \in EraserRun, EraserStep(j)
  PROVE  TypeInv'
  <1>0. /\ j \in Task /\ j \in Job /\ j \notin Handler /\ j \notin ArchiverRun
        /\ StoreTypeOK /\ arrived \subseteq DocumentId
        /\ pushed \subseteq DocumentId \X Topic
        /\ None \in DocumentId \cup {None} /\ None \in RowId \cup {None}
        /\ None \in Row \cup {None}
        /\ task[j] \in TaskState /\ task[j].todo \in SUBSET Rows
    BY LifecycleAssumption DEF Task, Job, TypeInv, TypeOK, HoldsList
  <1>1. CASE StartEraser(j)
    <2>1. OverdueNotDeleted \in SUBSET Rows
      BY DEF OverdueNotDeleted
    <2>2. "eraserNext" \in EraserPC /\ "eraserNext" \in NoDocumentPC \ WritesBackPC
      BY DEF EraserPC, NoDocumentPC, WritesBackPC
    <2> QED BY <1>0, <1>1, <2>1, <2>2, BecomesType, SameStoreType DEF StartEraser
  <1>2. ASSUME NEW i \in RowId, EraserDelete(j, i)
        PROVE  TypeInv'
    <2>1. i \in Rows /\ report[i].documentId \in DocumentId
      BY <1>0, <1>2, RowsType DEF EraserDelete, Row
    <2>2. StoreGrows
      BY <1>0, <1>2, <2>1, DocumentType DEF EraserDelete
    <2>3. /\ "eraserRead" \in EraserPC /\ "eraserRead" \notin WritesBackPC
          /\ task[j].todo \ {i} \in SUBSET Rows
      BY <1>0 DEF EraserPC, WritesBackPC
    <2> QED BY <1>0, <1>2, <2>1, <2>2, <2>3, BecomesType DEF EraserDelete
  <1>3. ASSUME NEW i \in RowId, EraserDeleteThrows(j, i)
        PROVE  TypeInv'
    BY <1>0, <1>3, FinishType, SameStoreType DEF EraserDeleteThrows
  <1>4. CASE EraserRead(j)
    <2>1. task[j].documentId \in DocumentId
      BY <1>0, <1>4 DEF EraserRead, IsAt, TypeInv, HoldsDocument, NoDocumentPC
    <2>2. PICK i \in RowsOf(task[j].documentId) :
            Becomes(j, Local("eraserUpdate", task[j].documentId, i,
                             AsDeleted(report[i]), task[j].todo))
      BY <1>4 DEF EraserRead, ReadReport
    <2>3. i \in RowId /\ AsDeleted(report[i]) \in Row
      BY <1>0, <2>1, RowsType, RowFlags
    <2>4. "eraserUpdate" \in EraserPC
      BY DEF EraserPC
    <2> QED
      BY <1>0, <1>4, <2>1, <2>2, <2>3, <2>4, BecomesType, SameStoreType
      DEF EraserRead
  <1>5. CASE EraserUpdate(j)
    <2>1. /\ task[j].pc \in WritesBackPC /\ task[j].pc \notin NoDocumentPC
          /\ "eraserFtp" \in EraserPC /\ "eraserFtp" \notin WritesBackPC \cup {"saving"}
      BY <1>5 DEF EraserUpdate, IsAt, WritesBackPC, NoDocumentPC, EraserPC
    <2>2. task[j].reportId \in RowId /\ task[j].report \in Row
      BY <1>0, <2>1 DEF TypeInv, HoldsReport
    <2>3. StoreGrows
      BY <1>0, <1>5, <2>2, UpdateReportType DEF EraserUpdate, WriteBack
    <2> QED BY <1>0, <1>5, <2>1, <2>3, GoToType DEF EraserUpdate
  <1>6. CASE EraserDeleteFile(j)
    <2>1. task[j].documentId \in DocumentId
      BY <1>0, <1>6 DEF EraserDeleteFile, IsAt, TypeInv, HoldsDocument, NoDocumentPC
    <2>2. StoreGrows
      BY <1>0, <1>6, <2>1, FileType DEF EraserDeleteFile
    <2> QED BY <1>0, <1>6, <2>2, NextInListType DEF EraserDeleteFile
  <1>7. CASE EraserDeleteFileFails(j)
    <2>1. task[j].documentId \in DocumentId
      BY <1>0, <1>7 DEF EraserDeleteFileFails, IsAt, TypeInv, HoldsDocument, NoDocumentPC
    <2>2. StoreGrows
      BY <1>0, <1>7, <2>1, FileType DEF EraserDeleteFileFails
    <2> QED BY <1>0, <1>7, <2>2, NextInListType DEF EraserDeleteFileFails
  <1> QED
    BY <1>1, <1>2, <1>3, <1>4, <1>5, <1>6, <1>7 DEF EraserStep

\* TypeInv is inductive.
LEMMA TypeStep == TypeInv /\ [Next]_vars => TypeInv'
  <1> SUFFICES ASSUME TypeInv, [Next]_vars PROVE TypeInv'
    OBVIOUS
  <1>1. ASSUME NEW h \in Handler, HandlerStep(h) PROVE TypeInv'
    BY <1>1, HandlerStepType
  <1>2. ASSUME NEW j \in ArchiverRun, ArchiverStep(j) PROVE TypeInv'
    BY <1>2, ArchiverStepType
  <1>3. ASSUME NEW j \in EraserRun, EraserStep(j) PROVE TypeInv'
    BY <1>3, EraserStepType
  <1>4. ASSUME NEW j \in Job, AbortJob(j) PROVE TypeInv'
    <2>1. j \in Task
      BY DEF Task
    <2>2. StoreGrows
      BY <1>4, SameStoreType DEF AbortJob, TypeInv, TypeOK
    <2> QED BY <1>4, <2>1, <2>2, FinishType DEF AbortJob, TypeInv, TypeOK
  <1>5. ASSUME NEW i \in RowId, PassDeadline(i) PROVE TypeInv'
    <2>1. StoreGrows
      BY <1>5 DEF PassDeadline, TypeInv, TypeOK, StoreTypeOK, Fresh, Overdue,
            StoreGrows, Rows
    <2> QED
      BY <1>5, <2>1
      DEF PassDeadline, TypeInv, TypeOK, HoldsDocument, HoldsReport, HoldsRow,
          HoldsList, StoreGrows
  <1>6. CASE CrashEventHost
    BY <1>6, HandlersStoppedType DEF CrashEventHost
  <1>7. CASE UNCHANGED vars
    BY <1>7, SameStoreType
    DEF vars, storeVars, TypeInv, TypeOK, HoldsDocument, HoldsReport, HoldsRow,
        HoldsList, StoreGrows
  <1> QED
    BY <1>1, <1>2, <1>3, <1>4, <1>5, <1>6, <1>7 DEF Next

\* Every reachable state is typed, whatever requests, failures and duplicates
\* there are: no driver and no job writes back an object it has not read.
THEOREM TypeCorrect == Spec => []TypeOK
  <1>1. Init => TypeInv
    BY InitType
  <1>2. TypeInv /\ [Next]_vars => TypeInv'
    BY TypeStep
  <1>3. TypeInv => TypeOK
    BY DEF TypeInv
  <1> QED BY <1>1, <1>2, <1>3, PTL DEF Spec

=============================================================================
