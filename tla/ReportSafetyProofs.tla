------------------------- MODULE ReportSafetyProofs -------------------------
(***************************************************************************)
(* The safety of stored reports, proved for every set of documents, rows   *)
(* and processes and every choice of requests and failures: first as long  *)
(* as no document is reported as ready twice, then what holds besides.     *)
(***************************************************************************)
EXTENDS ReportLifecycleProofs

\* What every step leaves of the store: rows stay, keep their document, and
\* only gain flags and age; what is gone stays gone; a row is added only for a
\* document that has none, and one at a time.
Keeps ==
    /\ \A i \in Rows :
        /\ i \in Rows'
        /\ report'[i].documentId = report[i].documentId
        /\ report[i].archived => report'[i].archived
        /\ age[i] = Overdue => age'[i] = Overdue
        /\ Gone(i) => Gone(i)'
        /\ report'[i].deleted => report[i].deleted \/ Gone(i)
    /\ \A i \in Rows' \ Rows :
        RowsOf(report'[i].documentId) = {} /\ ~report'[i].deleted
    /\ \A i, k \in Rows' \ Rows : i = k

-----------------------------------------------------------------------------
(* What follows from Keeps *)

\* The content of a document that was withdrawn, and its archiving, last.
LEMMA DocumentStable ==
  ASSUME Keeps, NEW d
  PROVE  /\ Withdrawn(d) => Withdrawn(d)'
         /\ Archived(d) => Archived(d)'
  <1>1. ASSUME RowsOf(d) # {} PROVE RowsOf(d)' = RowsOf(d)
    BY <1>1 DEF Keeps, RowsOf
  <1>2. RowsOf(d) \subseteq Rows
    BY DEF RowsOf
  <1>3. ASSUME Withdrawn(d) PROVE Withdrawn(d)'
    <2>1. RowsOf(d)' = RowsOf(d) /\ RowsOf(d) # {}
      BY <1>1, <1>3 DEF Withdrawn
    <2>2. \A i \in RowsOf(d) : Gone(i)'
      BY <1>2, <1>3 DEF Keeps, Withdrawn
    <2> QED BY <2>1, <2>2 DEF Withdrawn
  <1>4. ASSUME Archived(d) PROVE Archived(d)'
    <2>1. RowsOf(d)' = RowsOf(d) /\ RowsOf(d) # {}
      BY <1>1, <1>4 DEF Archived
    <2>2. \A i \in RowsOf(d) : report'[i].archived
      BY <1>2, <1>4 DEF Keeps, Archived
    <2> QED BY <2>1, <2>2 DEF Archived
  <1> QED BY <1>3, <1>4

\* Without a new row, a document still has one row at most.
LEMMA OneRowStable ==
  ASSUME OneRowPerDocument, Keeps
  PROVE  OneRowPerDocument'
  <1> SUFFICES ASSUME NEW i \in Rows', NEW k \in Rows',
                      report'[i].documentId = report'[k].documentId
               PROVE  i = k
    BY DEF OneRowPerDocument
  <1>1. CASE i \in Rows /\ k \in Rows
    BY <1>1 DEF Keeps, OneRowPerDocument
  <1>2. CASE i \notin Rows /\ k \notin Rows
    BY <1>2 DEF Keeps
  <1>3. CASE i \in Rows /\ k \notin Rows
    BY <1>3 DEF Keeps, RowsOf
  <1>4. CASE i \notin Rows /\ k \in Rows
    BY <1>4 DEF Keeps, RowsOf
  <1> QED BY <1>1, <1>2, <1>3, <1>4

\* Without new content, the reports marked as deleted have none.
LEMMA DeletedStable ==
  ASSUME DeletedIsGone, Keeps
  PROVE  DeletedIsGone'
  BY DEF DeletedIsGone, Keeps

\* A process that does not act still holds what its next steps rely on.
LEMMA TaskStable ==
  ASSUME TypeInv, Keeps, NEW t \in Task, TaskOK(t), task'[t] = task[t],
         IsAt(t, "saving") =>
            task[t].reportId \notin content' /\ age'[task[t].reportId] = Fresh
  PROVE  TaskOK(t)'
  <1>1. SaverOK(t)'
    BY DEF TaskOK, SaverOK, IsAt, Keeps
  <1>2. CopyOK(t)'
    <2> SUFFICES ASSUME task[t].pc \in WritesBackPC
                 PROVE  CopyOK(t)'
      BY DEF CopyOK
    <2>1. /\ task[t].reportId \in RowsOf(task[t].documentId)
          /\ task[t].report.documentId = task[t].documentId
          /\ task[t].report.archived
          /\ task[t].report.deleted => Gone(task[t].reportId)
      BY DEF TaskOK, CopyOK
    <2>2. task[t].reportId \in RowsOf(task[t].documentId)'
      BY <2>1 DEF RowsOf, Keeps
    <2>3. Gone(task[t].reportId) => Gone(task[t].reportId)'
      BY <2>1 DEF RowsOf, Keeps
    <2> QED BY <2>1, <2>2, <2>3 DEF CopyOK
  <1>3. ReachedOK(t)'
    BY DocumentStable DEF TaskOK, ReachedOK
  <1>4. ListOK(t)'
    BY DEF TaskOK, ListOK, Keeps, TypeInv, HoldsList
  <1> QED BY <1>1, <1>2, <1>3, <1>4 DEF TaskOK

\* One step of process t: what has to be shown of the step, and of t itself.
LEMMA ProcessStep ==
  ASSUME Inductive, Keeps, NEW t \in Task, TaskOK(t)',
         \A u \in Task : u # t => task'[u] = task[u],
         age' = age,
         \A i \in content' \ content :
            t \in Handler /\ IsAt(t, "saving") /\ task[t].reportId = i,
         task'[t].pc = "saving" => task'[t].reportId \notin Rows,
         \A d \in DocumentId :
            /\ t \in Handler /\ Deleting(t, d)' => Deleting(t, d) \/ ~Withdrawn(d)
            /\ <<d, "Archived">> \in pushed' => <<d, "Archived">> \in pushed \/ Archived(d)
            /\ <<d, "Deleted">> \in pushed' =>
                \/ <<d, "Deleted">> \in pushed
                \/ t \in Handler /\ Deleting(t, d) /\ ~Deleting(t, d)' /\ Archived(d)
  PROVE  SafeInv'
  <1> USE DEF Inductive
  <1>0. Handler \subseteq Task
    BY DEF Task
  <1>1. OneRowPerDocument' /\ DeletedIsGone'
    BY OneRowStable, DeletedStable DEF SafeInv
  <1>2. ASSUME NEW g \in Handler, IsAt(g, "saving")
        PROVE  task[g].reportId \in Rows \ content /\ age[task[g].reportId] = Fresh
    BY <1>0, <1>2 DEF SafeInv, TaskOK, SaverOK
  <1>u. UnusedIsClean'
    BY <1>2 DEF SafeInv, UnusedIsClean, Keeps, Rows
  <1>3. SaversDiffer'
    <2> SUFFICES ASSUME NEW g \in Handler, NEW h \in Handler,
                        task'[g].pc = "saving", task'[h].pc = "saving",
                        task'[g].reportId = task'[h].reportId, g # h
                 PROVE  FALSE
      BY DEF SaversDiffer, IsAt
    <2>1. CASE g = t
      BY <1>0, <1>2, <2>1 DEF IsAt
    <2>2. CASE h = t
      BY <1>0, <1>2, <2>2 DEF IsAt
    <2>3. CASE g # t /\ h # t
      BY <1>0, <2>3 DEF SafeInv, SaversDiffer, IsAt
    <2> QED BY <2>1, <2>2, <2>3
  <1>4. ASSUME NEW u \in Task PROVE TaskOK(u)'
    <2>1. CASE u = t
      BY <2>1
    <2>2. CASE u # t
      <3>1. TaskOK(u) /\ task'[u] = task[u]
        BY <2>2 DEF SafeInv
      <3>2. ASSUME IsAt(u, "saving")
            PROVE  task[u].reportId \notin content' /\ age'[task[u].reportId] = Fresh
        <4>1. u \in Handler
          BY <3>2, LifecycleAssumption
          DEF Task, Job, IsAt, TypeInv, TypeOK, ArchiverPC, EraserPC
        <4> QED BY <1>2, <2>2, <3>2, <4>1 DEF SafeInv, SaversDiffer
      <3> QED BY <3>1, <3>2, TaskStable
    <2> QED BY <2>1, <2>2
  <1>5. NoticesOK'
    <2>1. ASSUME NEW d \in DocumentId, t \in Handler, Deleting(t, d)
          PROVE  Withdrawn(d)
      BY <1>0, <2>1 DEF SafeInv, TaskOK, ReachedOK, WithdrawnPC, Deleting
    <2> QED BY <2>1, DocumentStable DEF SafeInv, NoticesOK
  <1>6. DeletedIsToldOnce'
    <2> SUFFICES ASSUME NEW d \in DocumentId, NEW h \in Handler, Deleting(h, d)'
                 PROVE  /\ <<d, "Deleted">> \notin pushed'
                        /\ \A other \in Handler \ {h} : ~Deleting(other, d)'
      BY DEF DeletedIsToldOnce
    <2>1. \A g \in Handler : g # t => (Deleting(g, d)' <=> Deleting(g, d))
      BY <1>0 DEF Deleting
    <2>2. \A g \in Handler : Deleting(g, d) => Withdrawn(d)
      BY <1>0 DEF SafeInv, TaskOK, ReachedOK, WithdrawnPC, Deleting
    <2>3. <<d, "Deleted">> \in pushed => Withdrawn(d)
      BY DEF SafeInv, NoticesOK
    <2>4. \A g \in Handler : Deleting(g, d) =>
            /\ <<d, "Deleted">> \notin pushed
            /\ \A other \in Handler \ {g} : ~Deleting(other, d)
      BY DEF SafeInv, DeletedIsToldOnce
    <2>5. CASE h = t /\ ~Deleting(t, d)
      BY <2>1, <2>2, <2>3, <2>5
    <2>6. CASE h = t /\ Deleting(t, d)
      BY <2>1, <2>4, <2>6
    <2>7. CASE h # t
      BY <2>1, <2>2, <2>4, <2>7
    <2> QED BY <2>5, <2>6, <2>7
  <1> QED BY <1>1, <1>u, <1>3, <1>4, <1>5, <1>6 DEF SafeInv

-----------------------------------------------------------------------------
(* Local steps, and what they leave of the other processes *)

\* A process that becomes a given state is in it, and holds its parts.
LEMMA Updated ==
  ASSUME TypeInv, NEW t \in Task, NEW pc, NEW d, NEW i, NEW row, NEW todo,
         Becomes(t, Local(pc, d, i, row, todo))
  PROVE  /\ task'[t].pc = pc /\ task'[t].documentId = d /\ task'[t].reportId = i
         /\ task'[t].report = row /\ task'[t].todo = todo
         /\ \A u \in Task : u # t => task'[u] = task[u]
  BY DEF TypeInv, TypeOK, Becomes, Local

\* A process that moves holds what it held.
LEMMA Moved ==
  ASSUME TypeInv, NEW t \in Task, NEW pc, GoTo(t, pc)
  PROVE  /\ task'[t].pc = pc
         /\ task'[t].documentId = task[t].documentId
         /\ task'[t].reportId = task[t].reportId
         /\ task'[t].report = task[t].report
         /\ task'[t].todo = task[t].todo
         /\ \A u \in Task : u # t => task'[u] = task[u]
  <1>1. task \in [Task -> TaskState] /\ task[t] \in TaskState
    BY DEF TypeInv, TypeOK
  <1>2. task' = [task EXCEPT ![t] = [task[t] EXCEPT !.pc = pc]]
    BY Zenon DEF GoTo
  <1>3. task'[t] = [task[t] EXCEPT !.pc = pc]
    BY <1>1, <1>2
  <1>4. \A u \in Task : u # t => task'[u] = task[u]
    BY <1>1, <1>2
  <1> QED BY <1>1, <1>3, <1>4 DEF TaskState

\* A process that has ended is idle with an empty list.
LEMMA Finished ==
  ASSUME TypeInv, NEW t \in Task, Finish(t)
  PROVE  /\ task'[t].pc = "idle" /\ task'[t].todo = {}
         /\ \A u \in Task : u # t => task'[u] = task[u]
  BY Updated DEF Finish, Idle

\* A job that goes on is at rest, and its list has not grown.
LEMMA NextListed ==
  ASSUME TypeInv, NEW j \in Task, NEW pc \in {"archiverNext", "eraserNext"},
         NextInList(j, pc)
  PROVE  /\ task'[j].pc \in {"idle", pc} /\ task'[j].todo = task[j].todo
         /\ \A u \in Task : u # j => task'[u] = task[u]
  <1>1. CASE task[j].todo = {}
    BY <1>1, Updated DEF NextInList, Idle
  <1>2. CASE task[j].todo # {}
    BY <1>2, Updated DEF NextInList
  <1> QED BY <1>1, <1>2

\* Where a process holds nothing but its list.
RestingPC == {"idle", "pushReady", "archiveUpload", "archiveRead", "archiverNext",
              "archiverFetch", "archiverUpload", "eraserNext", "eraserFtp"}

\* TaskOK asks of a process at rest nothing but its list.
LEMMA RestingOK ==
  ASSUME NEW t \in Task, task'[t].pc \in RestingPC, ListOK(t)'
  PROVE  TaskOK(t)'
  BY DEF TaskOK, SaverOK, CopyOK, ReachedOK, RestingPC, IsAt, WritesBackPC,
         WithdrawnPC, DeletingPC, ArchivedPC

\* A list of the eraser stays one of archived and overdue reports.
LEMMA ListStable ==
  ASSUME Inductive, Keeps, NEW t \in Task, task'[t].todo \subseteq task[t].todo
  PROVE  ListOK(t)'
  BY DEF Inductive, TypeInv, HoldsList, SafeInv, TaskOK, ListOK, Keeps

\* A step that starts no TableSaver keeps its runs on different rows.
LEMMA SaversKept ==
  ASSUME NEW t \in Task, \A u \in Task : u # t => task'[u] = task[u],
         task'[t].pc # "saving", NEW i
  PROVE  IsSaving(i)' => IsSaving(i)
  BY DEF IsSaving, IsAt, Task

-----------------------------------------------------------------------------
(* Statements, and what they leave of the store *)

\* A step without an INSERT or UPDATE of report keeps every row.
LEMMA KeepsRows ==
  ASSUME report' = report, content' \subseteq content,
         \A i \in Rows : age[i] = Overdue => age'[i] = Overdue,
         \A i \in Rows : IsSaving(i)' => IsSaving(i)
  PROVE  Keeps
  BY DEF Keeps, Rows, Gone

\* A notification is added, none is lost.
LEMMA PushAdds ==
  ASSUME NEW d, NEW x, NEW told, NEW e,
         pushed' = pushed \cup {<<d, x>>}, <<e, told>> \in pushed'
  PROVE  <<e, told>> \in pushed \/ (e = d /\ told = x)
  OBVIOUS

\* Writing back a copy that satisfies CopyOK takes nothing back that
\* the row, or a notification about it, had promised.
LEMMA KeepsWriteBack ==
  ASSUME Inductive, NEW t \in Task, task[t].pc \in WritesBackPC, WriteBack(t),
         UNCHANGED <<age, content>>,
         \A i \in Rows : IsSaving(i)' => IsSaving(i),
         NEW d, d = task[t].documentId
  PROVE  Keeps /\ Archived(d)'
  <1>1. /\ task[t].reportId \in RowId /\ task[t].report \in Row
        /\ task[t].reportId \in RowsOf(task[t].documentId)
        /\ task[t].report.documentId = task[t].documentId
        /\ task[t].report.archived
        /\ task[t].report.deleted => Gone(task[t].reportId)
    BY DEF Inductive, TypeInv, HoldsReport, SafeInv, TaskOK, CopyOK
  <1>2. /\ report'[task[t].reportId] = task[t].report
        /\ \A i \in RowId : i # task[t].reportId => report'[i] = report[i]
    BY <1>1 DEF WriteBack, UpdateReport, Inductive, TypeInv, TypeOK, StoreTypeOK
  <1>3. Rows' = Rows
    BY <1>1, <1>2, NoneIsNoValue DEF Rows, RowsOf
  <1>4. Keeps
    <2>1. \A i \in Rows : Gone(i) => Gone(i)'
      BY DEF Gone
    <2>2. ASSUME NEW i \in Rows
          PROVE  /\ report'[i].documentId = report[i].documentId
                 /\ report[i].archived => report'[i].archived
                 /\ report'[i].deleted => report[i].deleted \/ Gone(i)
      <3>1. CASE i = task[t].reportId
        <4>1. report'[i] = task[t].report
          BY <1>2, <3>1
        <4>2. report'[i].documentId = report[i].documentId
          BY <1>1, <3>1, <4>1 DEF RowsOf
        <4>3. report'[i].archived
          BY <1>1, <4>1, Zenon
        <4>4. report'[i].deleted => Gone(i)
          BY <1>1, <3>1, <4>1, Zenon
        <4> QED BY <4>2, <4>3, <4>4, Zenon
      <3>2. CASE i # task[t].reportId
        <4>1. report'[i] = report[i]
          BY <1>2, <3>2 DEF Rows
        <4> QED BY <4>1, Zenon
      <3> QED BY <3>1, <3>2
    <2> QED BY <1>3, <2>1, <2>2 DEF Keeps
  <1>5. OneRowPerDocument'
    BY <1>4, OneRowStable DEF Inductive, SafeInv
  <1>6. task[t].reportId \in RowsOf(d)' /\ report'[task[t].reportId].archived
    <2>1. report'[task[t].reportId].archived
      BY <1>1, <1>2, Zenon
    <2>2. report'[task[t].reportId].documentId = d
      BY <1>1, <1>2
    <2> QED BY <1>1, <1>3, <2>1, <2>2 DEF RowsOf
  <1>7. \A i \in RowsOf(d)' : i = task[t].reportId
    BY <1>5, <1>6 DEF OneRowPerDocument, RowsOf
  <1> QED BY <1>4, <1>6, <1>7 DEF Archived

\* A copy just read and marked satisfies CopyOK.
LEMMA CopyRead ==
  ASSUME Inductive, Keeps, report' = report, NEW t \in Task, NEW d,
         NEW i \in RowsOf(d), NEW row,
         task'[t].documentId = d, task'[t].reportId = i, task'[t].report = row,
         row.documentId = d, row.archived, row.deleted => Gone(i)
  PROVE  CopyOK(t)'
  <1>1. i \in RowsOf(d)'
    BY DEF RowsOf, Rows
  <1>2. Gone(i) => Gone(i)'
    BY DEF Keeps, RowsOf
  <1> QED BY <1>1, <1>2, Zenon DEF CopyOK

\* A step of the environment, or of a driver that only takes a message.
LEMMA OutsideStep ==
  ASSUME Inductive, UNCHANGED <<report, content, task, pushed>>,
         \A i \in Rows : age'[i] # age[i] => age'[i] # Fresh /\ ~IsSaving(i),
         \A i \in Rows : age[i] = Overdue => age'[i] = Overdue,
         \A i \in RowId \ Rows : age'[i] = age[i]
  PROVE  Keeps /\ SafeInv'
  <1> USE DEF Inductive
  <1>1. Keeps
    BY KeepsRows DEF IsSaving, IsAt
  <1>2. OneRowPerDocument' /\ DeletedIsGone'
    BY <1>1, OneRowStable, DeletedStable DEF SafeInv
  <1>3. UnusedIsClean'
    BY DEF SafeInv, UnusedIsClean, Rows
  <1>4. SaversDiffer'
    BY DEF SafeInv, SaversDiffer, IsAt
  <1>5. ASSUME NEW u \in Task PROVE TaskOK(u)'
    <2>1. ASSUME IsAt(u, "saving")
          PROVE  task[u].reportId \notin content' /\ age'[task[u].reportId] = Fresh
      <3>1. u \in Handler
        BY <2>1, LifecycleAssumption
        DEF Task, Job, IsAt, TypeInv, TypeOK, ArchiverPC, EraserPC
      <3> QED BY <2>1, <3>1 DEF SafeInv, TaskOK, SaverOK, IsSaving
    <2> QED BY <1>1, <2>1, TaskStable DEF SafeInv
  <1>6. NoticesOK'
    BY <1>1, DocumentStable DEF SafeInv, NoticesOK
  <1>7. DeletedIsToldOnce'
    BY DEF SafeInv, DeletedIsToldOnce, Deleting
  <1> QED BY <1>1, <1>2, <1>3, <1>4, <1>5, <1>6, <1>7 DEF SafeInv

\* A step after which a process holds nothing but its list.
LEMMA RestingStep ==
  ASSUME Inductive, UNCHANGED <<report, age, content, pushed>>, NEW t \in Task,
         task'[t].pc \in RestingPC,
         \A u \in Task : u # t => task'[u] = task[u],
         task'[t].todo \subseteq task[t].todo \/ t \notin EraserRun
  PROVE  Keeps /\ SafeInv'
  <1>1. task'[t].pc # "saving" /\ \A d : ~Deleting(t, d)'
    BY DEF RestingPC, Deleting, DeletingPC
  <1>2. Keeps
    BY <1>1, SaversKept, KeepsRows
  <1>3. ListOK(t)'
    BY <1>2, ListStable DEF ListOK
  <1>4. TaskOK(t)'
    BY <1>3, RestingOK
  <1> QED BY <1>1, <1>2, <1>4, ProcessStep

-----------------------------------------------------------------------------
(* The drivers of EventHost *)

\* Every step of a driver keeps SafeInv.
LEMMA HandlerStepSafe ==
  ASSUME ~DuplicateReady, Inductive, NEW h \in Handler, HandlerStep(h)
  PROVE  Keeps /\ SafeInv'
  <1>0. /\ h \in Task /\ h \notin EraserRun /\ TypeInv /\ SafeInv
        /\ TaskOK(h) /\ ListOK(h)'
    BY LifecycleAssumption DEF Task, Job, Inductive, SafeInv, ListOK
  <1>1. ASSUME NEW d \in DocumentId, NEW i \in RowId, SaveReport(h, d, i)
        PROVE  Keeps /\ SafeInv'
    <2>1. /\ task'[h].pc = "saving" /\ task'[h].reportId = i
          /\ \A u \in Task : u # h => task'[u] = task[u]
      BY <1>0, <1>1, Updated DEF SaveReport
    <2>2. RowsOf(d) = {} /\ i \notin Rows
      BY <1>1 DEF SaveReport, InsertReport, Rows
    <2>3. /\ report' = [report EXCEPT ![i] =
                          [documentId |-> d, archived |-> FALSE, deleted |-> FALSE]]
          /\ UNCHANGED <<age, content, pushed>>
      BY <1>1 DEF SaveReport, InsertReport
    <2>4. /\ Rows' = Rows \cup {i}
          /\ \A k \in Rows : report'[k] = report[k]
          /\ report'[i].documentId = d /\ ~report'[i].deleted
      <3> DEFINE row == [documentId |-> d, archived |-> FALSE, deleted |-> FALSE]
      <3>1. row \in Row /\ row.documentId = d /\ ~row.deleted
        BY DEF Row
      <3>2. row # None
        BY <3>1, NoneIsNoValue
      <3>3. report'[i] = row /\ \A k \in RowId : k # i => report'[k] = report[k]
        BY <1>0, <2>3 DEF TypeInv, TypeOK, StoreTypeOK
      <3> HIDE DEF row
      <3>4. Rows' = Rows \cup {i} /\ \A k \in Rows : report'[k] = report[k]
        BY <2>2, <3>2, <3>3 DEF Rows
      <3> QED BY <3>1, <3>3, <3>4
    <2>5. \A k \in Rows : IsSaving(k)' => IsSaving(k)
      BY <1>0, <2>1, <2>2 DEF IsSaving, IsAt, Task
    <2>6. Keeps
      BY <2>2, <2>3, <2>4, <2>5 DEF Keeps, Gone
    <2>7. TaskOK(h)'
      <3>1. age'[i] = Fresh /\ i \in Rows' \ content'
        BY <1>0, <2>2, <2>3, <2>4 DEF SafeInv, UnusedIsClean
      <3>2. SaverOK(h)'
        BY <2>1, <3>1 DEF SaverOK
      <3>3. CopyOK(h)' /\ ReachedOK(h)'
        BY <2>1 DEF CopyOK, ReachedOK, WritesBackPC, WithdrawnPC, DeletingPC, ArchivedPC
      <3> QED BY <1>0, <3>2, <3>3 DEF TaskOK
    <2>8. \A e : ~Deleting(h, e)'
      BY <2>1 DEF Deleting, DeletingPC
    <2> QED BY <1>0, <2>1, <2>2, <2>3, <2>6, <2>7, <2>8, ProcessStep
  <1>2. CASE SaveDocument(h) \/ SaveDocumentUntold(h)
    <2>1. /\ task'[h].pc = "idle" /\ task'[h].todo = {}
          /\ \A u \in Task : u # h => task'[u] = task[u]
      BY <1>0, <1>2, Finished DEF SaveDocument, SaveDocumentUntold
    <2>2. /\ content' = content \cup {task[h].reportId} /\ IsSaving(task[h].reportId)
          /\ UNCHANGED <<report, age, pushed>> /\ IsAt(h, "saving")
      BY <1>2 DEF SaveDocument, SaveDocumentUntold, InsertDocument, IsSaving
    <2>3. \A k : IsSaving(k)' => IsSaving(k)
      BY <1>0, <2>1, SaversKept
    <2>4. Keeps
      BY <2>2, <2>3 DEF Keeps, Gone, Rows
    <2>5. TaskOK(h)'
      BY <1>0, <2>1, RestingOK DEF RestingPC
    <2>6. \A e : ~Deleting(h, e)'
      BY <2>1 DEF Deleting, DeletingPC
    <2> QED BY <1>0, <2>1, <2>2, <2>4, <2>5, <2>6, ProcessStep
  <1>3. CASE SaveDocumentFails(h)
    BY <1>0, <1>3, Finished, RestingStep DEF SaveDocumentFails, RestingPC
  <1>4. ASSUME NEW d \in DocumentId, ReadLength(h, d) \/ ArchiveReport(h, d)
        PROVE  Keeps /\ SafeInv'
    <2>1. /\ UNCHANGED <<report, age, content, pushed>>
          /\ Begin(h, "pushReady", d) \/ Begin(h, "archiveUpload", d)
      BY <1>4 DEF ReadLength, ArchiveReport, storeVars
    <2> QED BY <1>0, <2>1, Updated, RestingStep DEF Begin, RestingPC
  <1>5. ASSUME NEW d \in DocumentId, ReadLengthFails(h, d)
        PROVE  Keeps /\ SafeInv'
    BY <1>5, OutsideStep DEF ReadLengthFails, storeVars
  <1>6. ASSUME NEW d \in DocumentId, DeleteReport(h, d)
        PROVE  Keeps /\ SafeInv'
    <2>1. /\ task'[h].pc = "deleteRead" /\ task'[h].documentId = d
          /\ \A u \in Task : u # h => task'[u] = task[u]
      BY <1>0, <1>6, Updated DEF DeleteReport, Begin
    <2>2. /\ content' = content \ RowsOf(d) /\ content \cap RowsOf(d) # {}
          /\ UNCHANGED <<report, age, pushed>>
      BY <1>6 DEF DeleteReport, DeleteDocument, DocumentsOf
    <2>3. \A k : IsSaving(k)' => IsSaving(k)
      BY <1>0, <2>1, SaversKept
    <2>4. Keeps
      BY <2>2, <2>3, KeepsRows
    <2>5. ~Withdrawn(d)
      BY <2>2 DEF Withdrawn, Gone
    <2>6. \A i \in RowsOf(d) : i \in content
      BY <1>0, <2>2 DEF SafeInv, OneRowPerDocument, RowsOf
    <2>7. \A i \in RowsOf(d) : ~IsSaving(i)
      BY <1>0, <2>6 DEF SafeInv, TaskOK, SaverOK, IsSaving, Task
    <2>8. Withdrawn(d)'
      BY <2>2, <2>3, <2>7 DEF Withdrawn, Gone, RowsOf, Rows
    <2>9. TaskOK(h)'
      BY <1>0, <2>1, <2>8
      DEF TaskOK, SaverOK, CopyOK, ReachedOK, IsAt, WritesBackPC, ArchivedPC
    <2> QED BY <1>0, <2>1, <2>2, <2>4, <2>5, <2>9, ProcessStep DEF Deleting
  <1>7. CASE DeleteReportRead(h)
    <2>0. PICK d : d = task[h].documentId
      OBVIOUS
    <2>1. /\ IsAt(h, "deleteRead") /\ UNCHANGED <<report, age, content, pushed>>
      BY <2>0, <1>7 DEF DeleteReportRead, storeVars
    <2>2. PICK i \in RowsOf(d) :
            Becomes(h, Local("deleteUpdate", d, i, AsArchivedAndDeleted(report[i]),
                             task[h].todo))
      BY <2>0, <1>7 DEF DeleteReportRead, ReadReport
    <2>3. /\ task'[h].pc = "deleteUpdate" /\ task'[h].documentId = d
          /\ task'[h].reportId = i /\ task'[h].report = AsArchivedAndDeleted(report[i])
          /\ \A u \in Task : u # h => task'[u] = task[u]
      BY <2>0, <1>0, <2>2, Updated
    <2>4. Keeps
      BY <2>0, <1>0, <2>1, <2>3, SaversKept, KeepsRows
    <2>5. Withdrawn(d)
      BY <2>0, <1>0, <2>1 DEF TaskOK, ReachedOK, WithdrawnPC, DeletingPC, IsAt
    <2>6. /\ report[i] \in Row /\ report[i].documentId = d /\ Gone(i)
      BY <2>0, <1>0, <2>5, RowsType DEF TypeInv, TypeOK, RowsOf, Withdrawn
    <2>7. CopyOK(h)'
      BY <2>0, <1>0, <2>1, <2>3, <2>4, <2>6, RowFlags, CopyRead
    <2>8. ReachedOK(h)'
      BY <2>0, <2>3, <2>4, <2>5, DocumentStable DEF ReachedOK, ArchivedPC
    <2>9. TaskOK(h)' /\ task'[h].pc # "saving"
      BY <2>0, <1>0, <2>3, <2>7, <2>8 DEF TaskOK, SaverOK, IsAt
    <2>10. \A e : Deleting(h, e)' => Deleting(h, e)
      BY <2>0, <2>1, <2>3 DEF Deleting, DeletingPC, IsAt
    <2> QED BY <2>0, <1>0, <2>1, <2>3, <2>4, <2>9, <2>10, ProcessStep
  <1>8. CASE DeleteReportUpdate(h)
    <2>0. PICK d : d = task[h].documentId
      OBVIOUS
    <2>1. /\ task[h].pc = "deleteUpdate" /\ WriteBack(h)
          /\ UNCHANGED <<age, content, pushed>>
      BY <2>0, <1>8 DEF DeleteReportUpdate, IsAt
    <2>2. /\ task'[h].pc = "pushDeleted" /\ task'[h].documentId = d
          /\ \A u \in Task : u # h => task'[u] = task[u]
      BY <2>0, <1>0, <1>8, Moved DEF DeleteReportUpdate
    <2>3. Keeps /\ Archived(d)'
      BY <2>0, <1>0, <2>1, <2>2, SaversKept, KeepsWriteBack DEF WritesBackPC
    <2>4. Withdrawn(d)'
      BY <2>0, <1>0, <2>1, <2>3, DocumentStable
      DEF TaskOK, ReachedOK, WithdrawnPC, DeletingPC
    <2>5. TaskOK(h)'
      BY <2>0, <1>0, <2>2, <2>3, <2>4
      DEF TaskOK, SaverOK, CopyOK, ReachedOK, WritesBackPC, IsAt
    <2>6. \A e : Deleting(h, e)' => Deleting(h, e)
      BY <2>0, <2>1, <2>2 DEF Deleting, DeletingPC
    <2> QED BY <2>0, <1>0, <2>1, <2>2, <2>3, <2>5, <2>6, ProcessStep
  <1>9. CASE PushReady(h) \/ PushDeleted(h) \/ PushArchived(h)
    <2>0. PICK d : d = task[h].documentId
      OBVIOUS
    <2>1. /\ UNCHANGED <<report, age, content>>
          /\ \/ pushed' = pushed \cup {<<d, "Ready">>}
             \/ pushed' = pushed \cup {<<d, "Deleted">>} /\ task[h].pc = "pushDeleted"
             \/ pushed' = pushed \cup {<<d, "Archived">>} /\ task[h].pc = "pushArchived"
      BY <2>0, <1>9 DEF PushReady, PushDeleted, PushArchived, Push, storeVars, IsAt
    <2>2. /\ task'[h].pc = "idle" /\ task'[h].todo = {}
          /\ \A u \in Task : u # h => task'[u] = task[u]
      BY <2>0, <1>0, <1>9, Finished DEF PushReady, PushDeleted, PushArchived
    <2>3. Keeps
      BY <2>0, <1>0, <2>1, <2>2, SaversKept, KeepsRows
    <2>4. TaskOK(h)'
      BY <2>0, <1>0, <2>2, RestingOK DEF RestingPC
    <2>5. \A e : ~Deleting(h, e)'
      BY <2>0, <2>2 DEF Deleting, DeletingPC
    <2>6. task[h].pc \in {"pushDeleted", "pushArchived"} => Archived(d)
      BY <2>0, <1>0 DEF TaskOK, ReachedOK, ArchivedPC
    <2>7. task[h].pc = "pushDeleted" => Deleting(h, d)
      BY <2>0 DEF Deleting, DeletingPC
    <2>8. ASSUME NEW e \in DocumentId
          PROVE  /\ <<e, "Archived">> \in pushed' =>
                        <<e, "Archived">> \in pushed \/ Archived(e)
                 /\ <<e, "Deleted">> \in pushed' =>
                        <<e, "Deleted">> \in pushed \/ (Deleting(h, e) /\ Archived(e))
      <3>1. CASE pushed' = pushed \cup {<<d, "Ready">>}
        BY <3>1, PushAdds
      <3>2. CASE pushed' = pushed \cup {<<d, "Deleted">>} /\ task[h].pc = "pushDeleted"
        BY <2>6, <2>7, <3>2, PushAdds
      <3>3. CASE pushed' = pushed \cup {<<d, "Archived">>} /\ task[h].pc = "pushArchived"
        BY <2>6, <3>3, PushAdds
      <3> QED BY <2>1, <3>1, <3>2, <3>3
    <2> QED BY <2>0, <1>0, <2>1, <2>2, <2>3, <2>4, <2>5, <2>8, ProcessStep
  <1>10. ASSUME NEW d \in DocumentId, DeleteReportThrows(h, d)
         PROVE  Keeps /\ SafeInv'
    BY <1>0, <1>10
    DEF DeleteReportThrows, DeleteIsRefused, SafeInv, OneRowPerDocument, RowsOf
  <1>11. CASE ArchiveReportUpload(h)
    BY <1>0, <1>11, Moved, RestingStep DEF ArchiveReportUpload, RestingPC
  <1>12. CASE ArchiveReportUploadFails(h)
    BY <1>0, <1>12, Finished, RestingStep DEF ArchiveReportUploadFails, RestingPC
  <1>13. CASE ArchiveReportRead(h)
    <2>0. PICK d : d = task[h].documentId
      OBVIOUS
    <2>1. UNCHANGED <<report, age, content, pushed>>
      BY <2>0, <1>13 DEF ArchiveReportRead, storeVars
    <2>2. PICK i \in RowsOf(d) :
            Becomes(h, Local("archiveUpdate", d, i, AsArchived(report[i]),
                             task[h].todo))
      BY <2>0, <1>13 DEF ArchiveReportRead, ReadReport
    <2>3. /\ task'[h].pc = "archiveUpdate" /\ task'[h].documentId = d
          /\ task'[h].reportId = i /\ task'[h].report = AsArchived(report[i])
          /\ \A u \in Task : u # h => task'[u] = task[u]
      BY <2>0, <1>0, <2>2, Updated
    <2>4. Keeps
      BY <2>0, <1>0, <2>1, <2>3, SaversKept, KeepsRows
    <2>5. /\ report[i] \in Row /\ report[i].documentId = d
          /\ report[i].deleted => Gone(i)
      BY <2>0, <1>0, RowsType DEF TypeInv, TypeOK, RowsOf, SafeInv, DeletedIsGone
    <2>6. AsArchived(report[i]).deleted => Gone(i)
      BY <2>0, <2>5, RowFlags, Zenon
    <2>7. CopyOK(h)'
      BY <2>0, <1>0, <2>1, <2>3, <2>4, <2>5, <2>6, RowFlags, CopyRead
    <2>8. TaskOK(h)' /\ task'[h].pc # "saving" /\ \A e : ~Deleting(h, e)'
      BY <2>0, <1>0, <2>3, <2>7
      DEF TaskOK, SaverOK, ReachedOK, IsAt, WithdrawnPC, DeletingPC, ArchivedPC, Deleting
    <2> QED BY <2>0, <1>0, <2>1, <2>3, <2>4, <2>8, ProcessStep
  <1>14. CASE ArchiveReportUpdate(h)
    <2>0. PICK d : d = task[h].documentId
      OBVIOUS
    <2>1. /\ task[h].pc = "archiveUpdate" /\ WriteBack(h)
          /\ UNCHANGED <<age, content, pushed>>
      BY <2>0, <1>14 DEF ArchiveReportUpdate, IsAt
    <2>2. /\ task'[h].pc = "pushArchived" /\ task'[h].documentId = d
          /\ \A u \in Task : u # h => task'[u] = task[u]
      BY <2>0, <1>0, <1>14, Moved DEF ArchiveReportUpdate
    <2>3. Keeps /\ Archived(d)'
      BY <2>0, <1>0, <2>1, <2>2, SaversKept, KeepsWriteBack DEF WritesBackPC
    <2>4. TaskOK(h)' /\ \A e : ~Deleting(h, e)'
      BY <2>0, <1>0, <2>2, <2>3
      DEF TaskOK, SaverOK, CopyOK, ReachedOK, WritesBackPC, WithdrawnPC, DeletingPC,
          IsAt, Deleting
    <2> QED BY <2>0, <1>0, <2>1, <2>2, <2>3, <2>4, ProcessStep
  <1> QED
    BY <1>1, <1>2, <1>3, <1>4, <1>5, <1>6, <1>7, <1>8, <1>9, <1>10, <1>11, <1>12,
       <1>13, <1>14
    DEF HandlerStep

-----------------------------------------------------------------------------
(* The jobs *)

\* Every step of ReportArchiver keeps SafeInv.
LEMMA ArchiverStepSafe ==
  ASSUME Inductive, NEW j \in ArchiverRun, ArchiverStep(j)
  PROVE  Keeps /\ SafeInv'
  <1>0. /\ j \in Task /\ j \notin EraserRun /\ j \notin Handler
        /\ TypeInv /\ SafeInv /\ TaskOK(j) /\ ListOK(j)'
    BY LifecycleAssumption DEF Task, Job, Inductive, SafeInv, ListOK
  <1>1. CASE StartArchiver(j)
    BY <1>0, <1>1, Updated, RestingStep DEF StartArchiver, storeVars, RestingPC
  <1>2. ASSUME NEW i \in RowId, ArchiverRead(j, i)
        PROVE  Keeps /\ SafeInv'
    <2>0. PICK d : d = report[i].documentId
      OBVIOUS
    <2>1. UNCHANGED <<report, age, content, pushed>>
      BY <1>2 DEF ArchiverRead, storeVars
    <2>2. PICK k \in RowsOf(d) :
            Becomes(j, Local("archiverUpdate", d, k, AsArchived(report[k]),
                             task[j].todo \ {i}))
      BY <2>0, <1>2 DEF ArchiverRead
    <2>3. /\ task'[j].pc = "archiverUpdate" /\ task'[j].documentId = d
          /\ task'[j].reportId = k /\ task'[j].report = AsArchived(report[k])
          /\ \A u \in Task : u # j => task'[u] = task[u]
      BY <1>0, <2>2, Updated
    <2>4. Keeps
      BY <1>0, <2>1, <2>3, SaversKept, KeepsRows
    <2>5. /\ report[k] \in Row /\ report[k].documentId = d
          /\ report[k].deleted => Gone(k)
      BY <1>0, RowsType DEF TypeInv, TypeOK, RowsOf, SafeInv, DeletedIsGone
    <2>6. AsArchived(report[k]).deleted => Gone(k)
      BY <2>5, RowFlags, Zenon
    <2>7. CopyOK(j)'
      BY <1>0, <2>1, <2>3, <2>4, <2>5, <2>6, RowFlags, CopyRead
    <2>8. TaskOK(j)' /\ task'[j].pc # "saving"
      BY <1>0, <2>3, <2>7
      DEF TaskOK, SaverOK, ReachedOK, IsAt, WithdrawnPC, DeletingPC, ArchivedPC
    <2> QED BY <1>0, <2>1, <2>3, <2>4, <2>8, ProcessStep
  <1>3. CASE ArchiverUpdate(j)
    <2>0. PICK d : d = task[j].documentId
      OBVIOUS
    <2>1. /\ task[j].pc = "archiverUpdate" /\ WriteBack(j)
          /\ UNCHANGED <<age, content, pushed>>
      BY <1>3 DEF ArchiverUpdate, IsAt
    <2>2. /\ task'[j].pc = "archiverFetch"
          /\ \A u \in Task : u # j => task'[u] = task[u]
      BY <1>0, <1>3, Moved DEF ArchiverUpdate
    <2>3. Keeps
      BY <2>0, <1>0, <2>1, <2>2, SaversKept, KeepsWriteBack DEF WritesBackPC
    <2>4. TaskOK(j)'
      BY <1>0, <2>2, RestingOK DEF RestingPC
    <2> QED BY <1>0, <2>1, <2>2, <2>3, <2>4, ProcessStep
  <1>4. CASE ArchiverFetch(j)
    <2>1. CASE NextInList(j, "archiverNext")
      BY <1>0, <1>4, <2>1, NextListed, RestingStep
      DEF ArchiverFetch, storeVars, RestingPC
    <2>2. CASE GoTo(j, "archiverUpload")
      BY <1>0, <1>4, <2>2, Moved, RestingStep
      DEF ArchiverFetch, storeVars, RestingPC
    <2> QED BY <1>4, <2>1, <2>2 DEF ArchiverFetch
  <1>5. CASE ArchiverUpload(j) \/ ArchiverUploadFails(j)
    BY <1>0, <1>5, NextListed, RestingStep
    DEF ArchiverUpload, ArchiverUploadFails, RestingPC
  <1> QED BY <1>1, <1>2, <1>3, <1>4, <1>5 DEF ArchiverStep

\* Every step of ReportEraser keeps SafeInv.
LEMMA EraserStepSafe ==
  ASSUME Inductive, NEW j \in EraserRun, EraserStep(j)
  PROVE  Keeps /\ SafeInv'
  <1>0. /\ j \in Task /\ j \notin Handler
        /\ TypeInv /\ SafeInv /\ TaskOK(j)
    BY LifecycleAssumption DEF Task, Job, Inductive, SafeInv
  <1>1. CASE StartEraser(j)
    <2>1. /\ task'[j].pc = "eraserNext" /\ task'[j].todo = OverdueNotDeleted
          /\ \A u \in Task : u # j => task'[u] = task[u]
          /\ UNCHANGED <<report, age, content, pushed>>
      BY <1>0, <1>1, Updated DEF StartEraser, storeVars
    <2>2. Keeps
      BY <1>0, <2>1, SaversKept, KeepsRows
    <2>3. ListOK(j)'
      BY <2>1 DEF ListOK, OverdueNotDeleted
    <2>4. TaskOK(j)'
      BY <1>0, <2>1, <2>3, RestingOK DEF RestingPC
    <2> QED BY <1>0, <2>1, <2>2, <2>4, ProcessStep
  <1>2. ASSUME NEW i \in RowId, EraserDelete(j, i)
        PROVE  Keeps /\ SafeInv'
    <2>0. PICK d : d = report[i].documentId
      OBVIOUS
    <2>1. /\ task'[j].pc = "eraserRead" /\ task'[j].documentId = d
          /\ task'[j].todo = task[j].todo \ {i}
          /\ \A u \in Task : u # j => task'[u] = task[u]
      BY <2>0, <1>0, <1>2, Updated DEF EraserDelete
    <2>2. content' = content \ RowsOf(d) /\ UNCHANGED <<report, age, pushed>>
      BY <2>0, <1>2 DEF EraserDelete, DeleteDocument
    <2>3. \A k : IsSaving(k)' => IsSaving(k)
      BY <1>0, <2>1, SaversKept
    <2>4. Keeps
      BY <2>2, <2>3, KeepsRows
    <2>5. i \in RowsOf(d) /\ report[i].archived /\ age[i] = Overdue
      BY <2>0, <1>0, <1>2
      DEF EraserDelete, TypeInv, HoldsList, TaskOK, ListOK, RowsOf
    <2>6. \A k \in RowsOf(d) : k = i
      BY <1>0, <2>5 DEF SafeInv, OneRowPerDocument, RowsOf
    <2>7. ~IsSaving(i)
      BY <1>0, <2>5
      DEF SafeInv, TaskOK, SaverOK, IsSaving, Task, Fresh, Overdue
    <2>8. Withdrawn(d)' /\ Archived(d)'
      BY <2>2, <2>3, <2>5, <2>6, <2>7 DEF Withdrawn, Archived, Gone, RowsOf, Rows
    <2>9. ListOK(j)'
      BY <1>0, <2>1, <2>4, ListStable DEF Inductive
    <2>10. TaskOK(j)'
      BY <1>0, <2>1, <2>8, <2>9
      DEF TaskOK, SaverOK, CopyOK, ReachedOK, IsAt, WritesBackPC
    <2> QED BY <1>0, <2>1, <2>2, <2>4, <2>10, ProcessStep
  <1>3. ASSUME NEW i \in RowId, EraserDeleteThrows(j, i)
        PROVE  Keeps /\ SafeInv'
    BY <1>0, <1>3, Finished, RestingStep DEF EraserDeleteThrows, storeVars, RestingPC
  <1>4. CASE EraserRead(j)
    <2>0. PICK d : d = task[j].documentId
      OBVIOUS
    <2>1. task[j].pc = "eraserRead" /\ UNCHANGED <<report, age, content, pushed>>
      BY <1>4 DEF EraserRead, storeVars, IsAt
    <2>2. PICK i \in RowsOf(d) :
            Becomes(j, Local("eraserUpdate", d, i, AsDeleted(report[i]), task[j].todo))
      BY <2>0, <1>4 DEF EraserRead, ReadReport
    <2>3. /\ task'[j].pc = "eraserUpdate" /\ task'[j].documentId = d
          /\ task'[j].reportId = i /\ task'[j].report = AsDeleted(report[i])
          /\ task'[j].todo = task[j].todo
          /\ \A u \in Task : u # j => task'[u] = task[u]
      BY <1>0, <2>2, Updated
    <2>4. Keeps
      BY <1>0, <2>1, <2>3, SaversKept, KeepsRows
    <2>5. Withdrawn(d) /\ Archived(d)
      BY <2>0, <1>0, <2>1 DEF TaskOK, ReachedOK, WithdrawnPC, ArchivedPC
    <2>6. /\ report[i] \in Row /\ report[i].documentId = d /\ Gone(i)
          /\ report[i].archived
      BY <1>0, <2>5, RowsType DEF TypeInv, TypeOK, RowsOf, Withdrawn, Archived
    <2>7. AsDeleted(report[i]).documentId = d
      BY <2>6, RowFlags
    <2>8. AsDeleted(report[i]).archived
      BY <2>6, RowFlags, Zenon
    <2>9. CopyOK(j)'
      BY <1>0, <2>1, <2>3, <2>4, <2>6, <2>7, <2>8, CopyRead
    <2>10. ListOK(j)'
      BY <1>0, <2>3, <2>4, ListStable DEF Inductive
    <2>11. TaskOK(j)' /\ task'[j].pc # "saving"
      BY <2>3, <2>9, <2>10
      DEF TaskOK, SaverOK, ReachedOK, IsAt, WithdrawnPC, DeletingPC, ArchivedPC
    <2> QED BY <1>0, <2>1, <2>3, <2>4, <2>11, ProcessStep
  <1>5. CASE EraserUpdate(j)
    <2>0. PICK d : d = task[j].documentId
      OBVIOUS
    <2>1. /\ task[j].pc = "eraserUpdate" /\ WriteBack(j)
          /\ UNCHANGED <<age, content, pushed>>
      BY <1>5 DEF EraserUpdate, IsAt
    <2>2. /\ task'[j].pc = "eraserFtp" /\ task'[j].todo = task[j].todo
          /\ \A u \in Task : u # j => task'[u] = task[u]
      BY <1>0, <1>5, Moved DEF EraserUpdate
    <2>3. Keeps
      BY <2>0, <1>0, <2>1, <2>2, SaversKept, KeepsWriteBack DEF WritesBackPC
    <2>4. ListOK(j)'
      BY <1>0, <2>2, <2>3, ListStable DEF Inductive
    <2>5. TaskOK(j)'
      BY <1>0, <2>2, <2>4, RestingOK DEF RestingPC
    <2> QED BY <1>0, <2>1, <2>2, <2>3, <2>5, ProcessStep
  <1>6. CASE EraserDeleteFile(j) \/ EraserDeleteFileFails(j)
    BY <1>0, <1>6, NextListed, RestingStep
    DEF EraserDeleteFile, EraserDeleteFileFails, RestingPC
  <1> QED BY <1>1, <1>2, <1>3, <1>4, <1>5, <1>6 DEF EraserStep

-----------------------------------------------------------------------------
(* The theorems *)

\* SafeInv survives the end of the EventHost process.
LEMMA CrashSafe ==
  ASSUME Inductive, task' = HandlersStopped, UNCHANGED <<storeVars, pushed>>
  PROVE  Keeps /\ SafeInv'
  <1>0. TypeInv /\ SafeInv /\ UNCHANGED <<report, age, content, ftp, pushed>>
    BY DEF Inductive, storeVars
  <1>1. /\ \A h \in Handler : task'[h].pc = "idle" /\ task'[h].todo = {}
        /\ \A t \in Task \ Handler : task'[t] = task[t]
    BY IdleType DEF HandlersStopped, Task
  <1>2. \A i : ~IsSaving(i)'
    BY <1>1 DEF IsSaving, IsAt
  <1>3. Keeps
    BY <1>0, <1>2, KeepsRows
  <1>4. OneRowPerDocument' /\ DeletedIsGone'
    BY <1>0, <1>3, OneRowStable, DeletedStable DEF SafeInv
  <1>5. UnusedIsClean'
    BY <1>0 DEF SafeInv, UnusedIsClean, Rows
  <1>6. SaversDiffer' /\ DeletedIsToldOnce'
    BY <1>1 DEF SaversDiffer, IsAt, DeletedIsToldOnce, Deleting, DeletingPC
  <1>7. ASSUME NEW t \in Task PROVE TaskOK(t)'
    <2>1. CASE t \in Handler
      BY <1>1, <2>1, RestingOK DEF RestingPC, ListOK
    <2>2. CASE t \notin Handler
      <3>1. ~IsAt(t, "saving")
        BY <1>0, <2>2
        DEF Task, Job, IsAt, TypeInv, TypeOK, ArchiverPC, EraserPC
      <3> QED BY <1>0, <1>1, <1>3, <2>2, <3>1, TaskStable DEF SafeInv
    <2> QED BY <2>1, <2>2
  <1>8. NoticesOK'
    BY <1>0, <1>3, DocumentStable DEF SafeInv, NoticesOK
  <1> QED BY <1>3, <1>4, <1>5, <1>6, <1>7, <1>8 DEF SafeInv

\* Together with TypeInv, SafeInv is inductive.
LEMMA SafeStep ==
  ASSUME ~DuplicateReady, Inductive, [Next]_vars
  PROVE  Keeps /\ SafeInv'
  <1>1. ASSUME NEW h \in Handler, HandlerStep(h) PROVE Keeps /\ SafeInv'
    BY <1>1, HandlerStepSafe
  <1>2. ASSUME NEW j \in ArchiverRun, ArchiverStep(j) PROVE Keeps /\ SafeInv'
    BY <1>2, ArchiverStepSafe
  <1>3. ASSUME NEW j \in EraserRun, EraserStep(j) PROVE Keeps /\ SafeInv'
    BY <1>3, EraserStepSafe
  <1>4. ASSUME NEW j \in Job, AbortJob(j) PROVE Keeps /\ SafeInv'
    BY <1>4, Finished, RestingStep
    DEF AbortJob, storeVars, RestingPC, Task, Inductive
  <1>5. ASSUME NEW i \in RowId, PassDeadline(i) PROVE Keeps /\ SafeInv'
    BY <1>5, OutsideStep
    DEF PassDeadline, Fresh, Overdue, Inductive, TypeInv, TypeOK, StoreTypeOK, Rows
  <1>6. CASE CrashEventHost
    BY <1>6, CrashSafe DEF CrashEventHost
  <1>7. CASE UNCHANGED vars
    BY <1>7, OutsideStep DEF vars
  <1> QED
    BY <1>1, <1>2, <1>3, <1>4, <1>5, <1>6, <1>7 DEF Next

\* SafeInv holds initially.
LEMMA InitSafe == Init => SafeInv
  <1> SUFFICES ASSUME Init PROVE SafeInv
    OBVIOUS
  <1>1. Rows = {} /\ content = {} /\ pushed = {} /\ \A i \in RowId : age[i] = Fresh
    BY DEF Init, StoreInit, Rows
  <1>2. \A t \in Task : task[t].pc = "idle" /\ task[t].todo = {}
    BY IdleType DEF Init
  <1>3. \A t \in Task : TaskOK(t)
    BY <1>2
    DEF TaskOK, SaverOK, CopyOK, ReachedOK, ListOK, IsAt, WritesBackPC, WithdrawnPC,
        DeletingPC, ArchivedPC
  <1>4. SaversDiffer /\ DeletedIsToldOnce
    BY <1>2 DEF SaversDiffer, IsAt, DeletedIsToldOnce, Deleting, DeletingPC, Task
  <1> QED
    BY <1>1, <1>3, <1>4
    DEF SafeInv, OneRowPerDocument, UnusedIsClean, DeletedIsGone, NoticesOK

\* Inductive holds in every reachable state: at every await of every driver and
\* job, what it holds in its local variables agrees with the rows it is about
\* to overwrite.
THEOREM InductiveHolds ==
  ASSUME ~DuplicateReady
  PROVE  Spec => []Inductive
  <1>1. Init => Inductive
    BY InitType, InitSafe DEF Inductive
  <1>2. Inductive /\ [Next]_vars => Inductive'
    BY TypeStep, SafeStep DEF Inductive
  <1> QED BY <1>1, <1>2, PTL DEF Spec

\* A report that DeleteReport or ReportEraser has marked as deleted has no
\* content in the database, whatever TableSaver and stale write-backs do.
THEOREM DeletedHasNoContentHolds ==
  ASSUME ~DuplicateReady
  PROVE  Spec => []DeletedHasNoContent
  <1>1. Inductive => DeletedHasNoContent
    BY DEF Inductive, SafeInv, DeletedIsGone, Gone, DeletedHasNoContent
  <1> QED BY <1>1, InductiveHolds, PTL

\* What the owner was told of a report stays true of it.
THEOREM NoticesStayTrueHolds ==
  ASSUME ~DuplicateReady
  PROVE  Spec => []NoticesStayTrue
  <1>1. Inductive => NoticesStayTrue
    BY DEF Inductive, SafeInv, NoticesOK, NoticesStayTrue, Archived, Withdrawn, Gone,
           Listed, RowsOf
  <1> QED BY <1>1, InductiveHolds, PTL

\* No step of a driver or a job, however old the copy it writes back, puts an
\* archived report back on its owner's list.
THEOREM ArchivedStaysHolds ==
  ASSUME ~DuplicateReady
  PROVE  Spec => ArchivedStays
  <1>1. Inductive /\ [Next]_vars => [\A i \in Rows : report[i].archived => report'[i].archived]_vars
    BY SafeStep DEF Keeps
  <1> QED BY <1>1, InductiveHolds, PTL DEF ArchivedStays, Spec

-----------------------------------------------------------------------------
(* The refinement of ReportPromise: the effects a step may have on what the  *)
(* users of the store see                                                    *)

\* TableSaver begins and ends no insert for these rows.
SavingKept(S) == \A i \in S : IsSaving(i)' <=> IsSaving(i)

\* Users see nothing of the step.
Unseen == UNCHANGED <<report, content>> /\ SavingKept(RowId)

\* The first insert of TableSaver.
Lists(i) ==
    /\ i \notin Rows /\ i \notin content /\ content' = content
    /\ Rows' = Rows \cup {i} /\ Listed' = Listed \cup {i}
    /\ IsSaving(i)' /\ SavingKept(RowId \ {i})

\* The second.
Fills(i) ==
    /\ i \in Rows \ content /\ IsSaving(i)
    /\ content' = content \cup {i} /\ report' = report
    /\ SavingKept(RowId \ {i})

\* The second never comes.
Loses(lost) ==
    /\ \A i \in lost : i \in Rows \ content /\ IsSaving(i) /\ ~IsSaving(i)'
    /\ UNCHANGED <<report, content>> /\ SavingKept(RowId \ lost)

\* The document is deleted.
Deletes(i) ==
    /\ i \in Rows \cap content /\ ~IsSaving(i)
    /\ content' = content \ {i} /\ report' = report /\ SavingKept(RowId)

\* A copy marked as archived is written back.
Unlists(i) ==
    /\ i \in Rows /\ ~IsSaving(i)
    /\ Rows' = Rows /\ Listed' = Listed \ {i} /\ content' = content
    /\ SavingKept(RowId)

Effect ==
    \/ Unseen
    \/ \E i \in RowId : Lists(i) \/ Fills(i) \/ Deletes(i) \/ Unlists(i)
    \/ \E lost \in SUBSET RowId : Loses(lost)

\* What the stage of a report is.
LEMMA Staged ==
  ASSUME NEW i
  PROVE  /\ i \notin Rows => StageOf(i) = "absent"
         /\ i \in Rows /\ i \in content => StageOf(i) = "available"
         /\ i \in Rows /\ i \notin content /\ IsSaving(i) => StageOf(i) = "arriving"
         /\ i \in Rows /\ i \notin content /\ ~IsSaving(i) => StageOf(i) = "gone"
  BY DEF StageOf

\* The same after a step.
LEMMA StagedNext ==
  ASSUME NEW i
  PROVE  /\ i \notin Rows' => StageOf(i)' = "absent"
         /\ i \in Rows' /\ i \in content' => StageOf(i)' = "available"
         /\ i \in Rows' /\ i \notin content' /\ IsSaving(i)' => StageOf(i)' = "arriving"
         /\ i \in Rows' /\ i \notin content' /\ ~IsSaving(i)' => StageOf(i)' = "gone"
  BY DEF StageOf

\* The stage of a report depends on three facts.
LEMMA StageKept ==
  ASSUME NEW i, i \in Rows' <=> i \in Rows, i \in content' <=> i \in content,
         IsSaving(i)' <=> IsSaving(i)
  PROVE  StageOf(i)' = StageOf(i)
  BY Staged, StagedNext

Stages == [i \in RowId |-> StageOf(i)]

\* A report changes its stage alone.
LEMMA StageMoves ==
  ASSUME NEW i \in RowId, NEW x, StageOf(i)' = x,
         \A k \in RowId \ {i} : StageOf(k)' = StageOf(k)
  PROVE  Stages' = [Stages EXCEPT ![i] = x]
  BY DEF Stages

\* The rows and the list are those of table report.
LEMMA RowsAndListed ==
  ASSUME report' = report
  PROVE  Rows' = Rows /\ Listed' = Listed
  BY DEF Rows, Listed

\* Each effect is a step of ReportPromise, or changes nothing users see.
LEMMA EffectKeepsPromise ==
  ASSUME Effect
  PROVE  Promise!Next \/ UNCHANGED <<Stages, Listed>>
  <1>1. CASE Unseen
    <2>1. \A i \in RowId : StageOf(i)' = StageOf(i)
      BY <1>1, StageKept, RowsAndListed DEF Unseen, SavingKept
    <2>2. Stages' = Stages
      BY <2>1 DEF Stages
    <2> QED BY <1>1, <2>2, RowsAndListed DEF Unseen
  <1>2. ASSUME NEW i \in RowId, Lists(i) PROVE Promise!Store(i)
    <2>1. ASSUME NEW k \in RowId \ {i} PROVE StageOf(k)' = StageOf(k)
      <3>1. /\ k \in Rows' <=> k \in Rows
            /\ k \in content' <=> k \in content
            /\ IsSaving(k)' <=> IsSaving(k)
        BY <1>2 DEF Lists, SavingKept
      <3> QED BY <3>1, StageKept
    <2>2. StageOf(i) = "absent"
      BY <1>2, Staged, StagedNext DEF Lists
    <2>3. StageOf(i)' = "arriving"
      <3>1. i \in Rows' /\ i \notin content' /\ IsSaving(i)'
        BY <1>2 DEF Lists
      <3> QED BY <3>1, Staged, StagedNext
    <2>4. Stages' = [Stages EXCEPT ![i] = "arriving"]
      BY <2>1, <2>3, StageMoves
    <2> QED BY <1>2, <2>2, <2>4 DEF Promise!Store, Lists, Stages
  <1>3. ASSUME NEW i \in RowId, Fills(i) PROVE Promise!Attach(i)
    <2>1. Rows' = Rows /\ Listed' = Listed
      BY <1>3, RowsAndListed DEF Fills
    <2>2. \A k \in RowId \ {i} : StageOf(k)' = StageOf(k)
      BY <1>3, <2>1, StageKept DEF Fills, SavingKept
    <2>3. StageOf(i) = "arriving"
      BY <1>3, Staged, StagedNext DEF Fills
    <2>4. StageOf(i)' = "available"
      BY <1>3, <2>1, Staged, StagedNext DEF Fills
    <2>5. Stages' = [Stages EXCEPT ![i] = "available"]
      BY <2>2, <2>4, StageMoves
    <2> QED BY <2>1, <2>3, <2>5 DEF Promise!Attach, Stages
  <1>4. ASSUME NEW i \in RowId, Deletes(i) PROVE Promise!Withdraw(i)
    <2>1. Rows' = Rows /\ Listed' = Listed
      BY <1>4, RowsAndListed DEF Deletes
    <2>2. \A k \in RowId \ {i} : StageOf(k)' = StageOf(k)
      BY <1>4, <2>1, StageKept DEF Deletes, SavingKept
    <2>3. StageOf(i) = "available"
      BY <1>4, Staged, StagedNext DEF Deletes
    <2>4. i \in Rows' /\ i \notin content' /\ ~IsSaving(i)'
      BY <1>4, <2>1 DEF Deletes, SavingKept
    <2>5. StageOf(i)' = "gone"
      BY <2>4, Staged, StagedNext
    <2>6. Stages' = [Stages EXCEPT ![i] = "gone"]
      BY <2>2, <2>5, StageMoves
    <2> QED BY <2>1, <2>3, <2>6 DEF Promise!Withdraw, Stages
  <1>5. ASSUME NEW i \in RowId, Unlists(i) PROVE Promise!Hide(i)
    <2>1. \A k \in RowId : StageOf(k)' = StageOf(k)
      BY <1>5, StageKept DEF Unlists, SavingKept
    <2>2. Stages' = Stages
      BY <2>1 DEF Stages
    <2>3. StageOf(i) \in {"available", "gone"}
      BY <1>5, Staged, StagedNext DEF Unlists
    <2> QED BY <1>5, <2>2, <2>3 DEF Promise!Hide, Unlists, Stages
  <1>6. ASSUME NEW lost \in SUBSET RowId, Loses(lost) PROVE Promise!GiveUp(lost)
    <2>1. Rows' = Rows /\ Listed' = Listed
      BY <1>6, RowsAndListed DEF Loses
    <2>2. \A k \in RowId \ lost : StageOf(k)' = StageOf(k)
      BY <1>6, <2>1, StageKept DEF Loses, SavingKept
    <2>3. \A i \in lost : StageOf(i) = "arriving"
      BY <1>6, Staged, StagedNext DEF Loses
    <2>4. \A i \in lost : StageOf(i)' = "gone"
      BY <1>6, <2>1, Staged, StagedNext DEF Loses
    <2>5. Stages' = [i \in RowId |-> IF i \in lost THEN "gone" ELSE Stages[i]]
      BY <2>2, <2>4 DEF Stages
    <2> QED BY <2>1, <2>3, <2>5 DEF Promise!GiveUp, Stages
  <1> QED BY <1>1, <1>2, <1>3, <1>4, <1>5, <1>6 DEF Effect, Promise!Next

-----------------------------------------------------------------------------
(* What every process holds besides: nobody hides a report that is arriving  *)

\* No effect starts an insert for a row that is there.
LEMMA SavingNeverReturns ==
  ASSUME Effect, NEW i \in Rows, IsSaving(i)'
  PROVE  IsSaving(i)
  BY DEF Effect, Unseen, Lists, Fills, Loses, Deletes, Unlists, SavingKept, Rows

\* A process that does not act stays settled.
LEMMA SettledStable ==
  ASSUME Inductive, Keeps, Effect, NEW t \in Task, SettledOK(t), task'[t] = task[t]
  PROVE  SettledOK(t)'
  <1>1. \A i \in Rows : ~IsSaving(i) => ~IsSaving(i)'
    BY SavingNeverReturns
  <1>2. task[t].pc \in WritesBackPC => task[t].reportId \in Rows
    BY DEF Inductive, SafeInv, TaskOK, CopyOK, RowsOf
  <1>3. task[t].todo \subseteq Rows
    BY DEF Inductive, TypeInv, HoldsList
  <1>4. \A d : RowsOf(d) # {} => RowsOf(d)' = RowsOf(d)
    BY DEF Keeps, RowsOf
  <1>5. \A d : RowsOf(d) \subseteq Rows
    BY DEF RowsOf
  <1> QED BY <1>1, <1>2, <1>3, <1>4, <1>5 DEF SettledOK

\* A step of one process that settles itself.
LEMMA SettledStep ==
  ASSUME Inductive, Keeps, SettledInv, Effect, NEW t \in Task, SettledOK(t)',
         \A u \in Task : u # t => task'[u] = task[u]
  PROVE  SettledInv'
  BY SettledStable DEF SettledInv

\* Where a process hides no report.
HarmlessPC ==
    (RestingPC \ {"archiveUpload", "archiveRead"})
        \cup {"deleteRead", "pushDeleted", "pushArchived", "eraserRead", "saving"}

\* A process at such a place is settled if its list was.
LEMMA HarmlessSettled ==
  ASSUME Inductive, Effect, NEW t \in Task, SettledOK(t),
         task'[t].pc \in HarmlessPC,
         task'[t].todo \subseteq task[t].todo \/ t \notin ArchiverRun
  PROVE  SettledOK(t)'
  <1>1. task[t].todo \subseteq Rows
    BY DEF Inductive, TypeInv, HoldsList
  <1>2. \A i \in Rows : ~IsSaving(i) => ~IsSaving(i)'
    BY SavingNeverReturns
  <1>3. task'[t].pc \notin WritesBackPC \cup {"archiveUpload", "archiveRead"}
    BY DEF HarmlessPC, RestingPC, WritesBackPC
  <1> QED BY <1>1, <1>2, <1>3 DEF SettledOK

\* A step of a process that neither begins nor ends an insert.
LEMMA SavingUnmoved ==
  ASSUME NEW t \in Task, \A u \in Task : u # t => task'[u] = task[u],
         task[t].pc # "saving", task'[t].pc # "saving"
  PROVE  SavingKept(RowId)
  BY DEF SavingKept, IsSaving, IsAt, Task

\* A step that changes neither table, after which the process hides nothing.
LEMMA HarmlessStep ==
  ASSUME Inductive, Keeps, SettledInv, UNCHANGED <<report, content>>, NEW t \in Task,
         task[t].pc # "saving", task'[t].pc # "saving", task'[t].pc \in HarmlessPC,
         \A u \in Task : u # t => task'[u] = task[u],
         task'[t].todo \subseteq task[t].todo \/ t \notin ArchiverRun
  PROVE  Effect /\ SettledInv'
  <1>1. Effect
    BY SavingUnmoved DEF Effect, Unseen
  <1>2. SettledOK(t)'
    BY <1>1, HarmlessSettled DEF SettledInv
  <1> QED BY <1>1, <1>2, SettledStep

\* A row is never between its inserts once its content is there, or it has aged.
LEMMA NotSaving ==
  ASSUME Inductive, NEW i, i \in content \/ age[i] # Fresh
  PROVE  ~IsSaving(i)
  BY DEF Inductive, SafeInv, TaskOK, SaverOK, IsSaving, IsAt, Task

\* The rows of a document are the one row known to be among them.
LEMMA OnlyRow ==
  ASSUME Inductive, NEW d, NEW i \in RowsOf(d), NEW k \in RowsOf(d)
  PROVE  k = i
  BY DEF Inductive, SafeInv, OneRowPerDocument, RowsOf

\* Deleting a document that has content withdraws it; of one that has none,
\* nothing is seen.
LEMMA DeleteDocumentEffect ==
  ASSUME Inductive, NEW d, DeleteDocument(d), report' = report, SavingKept(RowId)
  PROVE  Effect
  <1>1. CASE DocumentsOf(d) = {}
    BY <1>1 DEF DeleteDocument, DocumentsOf, Effect, Unseen
  <1>2. CASE DocumentsOf(d) # {}
    <2>1. PICK i : i \in content /\ i \in RowsOf(d)
      BY <1>2 DEF DocumentsOf
    <2>2. RowsOf(d) = {i}
      BY <2>1, OnlyRow
    <2>3. i \in Rows \cap content /\ i \in RowId /\ ~IsSaving(i)
      BY <2>1, NotSaving DEF RowsOf, Rows
    <2>4. content' = content \ {i}
      BY <2>2 DEF DeleteDocument
    <2>5. Deletes(i)
      BY <2>3, <2>4 DEF Deletes
    <2> QED BY <2>3, <2>5 DEF Effect
  <1> QED BY <1>1, <1>2

\* A write-back takes its report off the list, and changes nothing else users see.
LEMMA WriteBackEffect ==
  ASSUME Inductive, SettledInv, NEW t \in Task, task[t].pc \in WritesBackPC,
         WriteBack(t), content' = content, SavingKept(RowId)
  PROVE  Effect
  <1>0. PICK i : i = task[t].reportId
    OBVIOUS
  <1>1. /\ i \in RowId /\ task[t].report \in Row /\ i \in Rows
        /\ task[t].report.archived
    BY <1>0 DEF Inductive, TypeInv, HoldsReport, SafeInv, TaskOK, CopyOK, RowsOf
  <1>2. ~IsSaving(i)
    BY <1>0 DEF SettledInv, SettledOK
  <1>3. report' = [report EXCEPT ![i] = task[t].report]
    BY <1>0 DEF WriteBack, UpdateReport
  <1>4. /\ report'[i] = task[t].report
        /\ \A k \in RowId : k # i => report'[k] = report[k]
    BY <1>1, <1>3 DEF Inductive, TypeInv, TypeOK, StoreTypeOK
  <1>5. Rows' = Rows
    BY <1>1, <1>4, NoneIsNoValue DEF Rows
  <1>6. report'[i].archived
    BY <1>1, <1>4, Zenon
  <1>7. \A k \in RowId \ {i} : report'[k].archived = report[k].archived
    BY <1>4
  <1>8. Listed' = Listed \ {i}
    BY <1>5, <1>6, <1>7 DEF Listed, Rows
  <1>9. Unlists(i)
    BY <1>1, <1>2, <1>5, <1>8 DEF Unlists
  <1> QED BY <1>1, <1>9 DEF Effect

\* A write-back and where the process goes.
LEMMA WriteBackSettles ==
  ASSUME Inductive, Keeps, SettledInv, NEW t \in Task, task[t].pc \in WritesBackPC,
         WriteBack(t), content' = content, NEW pc \in HarmlessPC \ {"saving"}, GoTo(t, pc)
  PROVE  Effect /\ SettledInv'
  <1>1. /\ task'[t].pc = pc /\ task'[t].todo = task[t].todo
        /\ \A u \in Task : u # t => task'[u] = task[u]
    BY Moved DEF Inductive
  <1>2. task[t].pc # "saving" /\ task'[t].pc # "saving"
    BY <1>1 DEF WritesBackPC
  <1>3. Effect
    BY <1>1, <1>2, SavingUnmoved, WriteBackEffect
  <1>4. SettledOK(t)'
    BY <1>1, <1>3, HarmlessSettled DEF SettledInv
  <1> QED BY <1>1, <1>3, <1>4, SettledStep

\* A process that has read a row which is not arriving.
LEMMA ReadSettles ==
  ASSUME Inductive, Keeps, SettledInv, UNCHANGED <<report, content>>, NEW t \in Task,
         task[t].pc # "saving", task'[t].pc \in WritesBackPC,
         \A u \in Task : u # t => task'[u] = task[u],
         task'[t].todo \subseteq task[t].todo,
         task'[t].reportId \in Rows, ~IsSaving(task'[t].reportId)
  PROVE  Effect /\ SettledInv'
  <1>1. task'[t].pc # "saving" /\ task'[t].pc \notin {"archiveUpload", "archiveRead"}
    BY DEF WritesBackPC
  <1>2. Effect
    BY <1>1, SavingUnmoved DEF Effect, Unseen
  <1>3. \A i \in Rows : ~IsSaving(i) => ~IsSaving(i)'
    BY <1>2, SavingNeverReturns
  <1>4. t \in ArchiverRun => \A i \in task'[t].todo : i \in Rows /\ ~IsSaving(i)
    BY DEF SettledInv, SettledOK, Inductive, TypeInv, HoldsList
  <1>5. SettledOK(t)'
    BY <1>1, <1>3, <1>4 DEF SettledOK
  <1> QED BY <1>2, <1>5, SettledStep

-----------------------------------------------------------------------------
(* Every step has one of the effects *)

\* Of the drivers.
LEMMA HandlerEffect ==
  ASSUME ~DuplicateReady, Inductive, SettledInv, Keeps,
         NEW h \in Handler, HandlerStep(h)
  PROVE  Effect /\ SettledInv'
  <1>0. /\ h \in Task /\ h \notin ArchiverRun /\ TypeInv /\ SafeInv
        /\ TaskOK(h) /\ SettledOK(h)
    BY LifecycleAssumption DEF Task, Job, Inductive, SafeInv, SettledInv
  <1>1. ASSUME NEW d \in DocumentId, NEW i \in RowId, SaveReport(h, d, i)
        PROVE  Effect /\ SettledInv'
    <2>1. /\ task'[h].pc = "saving" /\ task'[h].reportId = i
          /\ \A u \in Task : u # h => task'[u] = task[u]
      BY <1>0, <1>1, Updated DEF SaveReport
    <2>2. /\ i \notin Rows /\ content' = content /\ task[h].pc = "idle"
          /\ report' = [report EXCEPT ![i] =
                          [documentId |-> d, archived |-> FALSE, deleted |-> FALSE]]
      BY <1>1 DEF SaveReport, InsertReport, Rows, IsAt
    <2>3. Rows' = Rows \cup {i} /\ Listed' = Listed \cup {i}
      <3> DEFINE row == [documentId |-> d, archived |-> FALSE, deleted |-> FALSE]
      <3>1. row \in Row /\ ~row.archived
        BY DEF Row
      <3>2. row # None
        BY <3>1, NoneIsNoValue
      <3>3. report'[i] = row /\ \A k \in RowId : k # i => report'[k] = report[k]
        BY <1>0, <2>2 DEF TypeInv, TypeOK, StoreTypeOK
      <3> HIDE DEF row
      <3>4. Rows' = Rows \cup {i}
        BY <2>2, <3>2, <3>3 DEF Rows
      <3>5. ~report'[i].archived
        BY <3>1, <3>3, Zenon
      <3>6. \A k \in Rows : report'[k].archived = report[k].archived
        BY <2>2, <3>3 DEF Rows
      <3> QED BY <3>4, <3>5, <3>6 DEF Listed
    <2>4. i \notin content
      BY <1>0, <2>2 DEF SafeInv, UnusedIsClean
    <2>5. IsSaving(i)'
      BY <2>1 DEF IsSaving, IsAt
    <2>6. SavingKept(RowId \ {i})
      BY <1>0, <2>1, <2>2 DEF SavingKept, IsSaving, IsAt, Task
    <2>7. Effect
      BY <2>2, <2>3, <2>4, <2>5, <2>6 DEF Lists, Effect
    <2>8. SettledOK(h)'
      BY <1>0, <2>1, <2>7, HarmlessSettled DEF HarmlessPC
    <2> QED BY <1>0, <2>1, <2>7, <2>8, SettledStep
  <1>2. ASSUME SaveDocument(h) \/ SaveDocumentUntold(h) \/ SaveDocumentFails(h)
        PROVE  Effect /\ SettledInv'
    <2>0. PICK i : i = task[h].reportId
      OBVIOUS
    <2>1. /\ task[h].pc = "saving" /\ Finish(h) /\ report' = report
          /\ content' \in {content, content \cup {i}}
      BY <1>2, <2>0 DEF SaveDocument, SaveDocumentUntold, SaveDocumentFails,
            InsertDocument, IsAt
    <2>2. task'[h].pc = "idle" /\ \A u \in Task : u # h => task'[u] = task[u]
      BY <1>0, <2>1, Finished
    <2>3. i \in RowId /\ i \in Rows \ content /\ IsSaving(i)
      BY <1>0, <2>0, <2>1 DEF TaskOK, SaverOK, IsSaving, IsAt, Rows
    <2>4. ~IsSaving(i)'
      BY <1>0, <2>0, <2>1, <2>2 DEF SafeInv, SaversDiffer, IsSaving, IsAt, Task
    <2>5. SavingKept(RowId \ {i})
      BY <1>0, <2>0, <2>1, <2>2 DEF SavingKept, IsSaving, IsAt, Task
    <2>6. ASSUME content' = content PROVE Effect
      BY <2>1, <2>3, <2>4, <2>5, <2>6 DEF Loses, Effect
    <2>7. ASSUME content' = content \cup {i} PROVE Effect
      BY <2>1, <2>3, <2>5, <2>7 DEF Fills, Effect
    <2>8. Effect
      BY <2>1, <2>6, <2>7
    <2>9. SettledOK(h)'
      BY <1>0, <2>2, <2>8, HarmlessSettled DEF HarmlessPC, RestingPC
    <2> QED BY <1>0, <2>2, <2>8, <2>9, SettledStep
  <1>3. ASSUME NEW d \in DocumentId, ReadLength(h, d)
        PROVE  Effect /\ SettledInv'
    <2>1. /\ task[h].pc = "idle" /\ task'[h].pc = "pushReady"
          /\ \A u \in Task : u # h => task'[u] = task[u]
          /\ UNCHANGED <<report, content>>
      BY <1>0, <1>3, Updated DEF ReadLength, Begin, IsAt, storeVars
    <2> QED BY <1>0, <2>1, HarmlessStep DEF HarmlessPC, RestingPC
  <1>4. ASSUME NEW d \in DocumentId, ReadLengthFails(h, d)
        PROVE  Effect /\ SettledInv'
    <2>1. UNCHANGED <<report, content, task>> /\ task[h].pc = "idle"
      BY <1>4 DEF ReadLengthFails, storeVars, IsAt
    <2> QED BY <1>0, <2>1, HarmlessStep DEF HarmlessPC, RestingPC
  <1>5. ASSUME NEW d \in DocumentId, DeleteReport(h, d)
        PROVE  Effect /\ SettledInv'
    <2>1. /\ task[h].pc = "idle" /\ task'[h].pc = "deleteRead"
          /\ \A u \in Task : u # h => task'[u] = task[u]
          /\ DeleteDocument(d) /\ report' = report
      BY <1>0, <1>5, Updated DEF DeleteReport, Begin, IsAt
    <2>2. Effect
      BY <1>0, <2>1, SavingUnmoved, DeleteDocumentEffect
    <2>3. SettledOK(h)'
      BY <1>0, <2>1, <2>2, HarmlessSettled DEF HarmlessPC
    <2> QED BY <1>0, <2>1, <2>2, <2>3, SettledStep
  <1>6. ASSUME NEW d \in DocumentId, DeleteReportThrows(h, d)
        PROVE  FALSE
    BY <1>0, <1>6
    DEF DeleteReportThrows, DeleteIsRefused, SafeInv, OneRowPerDocument, RowsOf
  <1>7. ASSUME NEW d \in DocumentId, ArchiveReport(h, d)
        PROVE  Effect /\ SettledInv'
    <2>1. /\ task[h].pc = "idle" /\ task'[h].pc = "archiveUpload"
          /\ task'[h].documentId = d
          /\ \A u \in Task : u # h => task'[u] = task[u]
          /\ UNCHANGED <<report, content>>
      BY <1>0, <1>7, Updated DEF ArchiveReport, Begin, IsAt, storeVars
    <2>2. SavingKept(RowId) /\ Effect
      BY <1>0, <2>1, SavingUnmoved DEF Unseen, Effect
    <2>3. PICK i : i \in content /\ i \in RowsOf(d)
      BY <1>7 DEF ArchiveReport, DocumentsOf
    <2>4. RowsOf(d)' = RowsOf(d) /\ RowsOf(d) = {i}
      BY <2>1, <2>3, OnlyRow DEF RowsOf, Rows
    <2>5. ~IsSaving(i)'
      BY <2>2, <2>3, NotSaving DEF SavingKept, RowsOf, Rows
    <2>6. SettledOK(h)'
      BY <1>0, <2>1, <2>4, <2>5 DEF SettledOK, WritesBackPC
    <2> QED BY <1>0, <2>1, <2>2, <2>6, SettledStep
  <1>8. CASE PushReady(h) \/ PushDeleted(h) \/ PushArchived(h)
    <2>1. /\ task[h].pc # "saving" /\ Finish(h) /\ UNCHANGED <<report, content>>
      BY <1>8 DEF PushReady, PushDeleted, PushArchived, IsAt, storeVars
    <2> QED BY <1>0, <2>1, Finished, HarmlessStep DEF HarmlessPC, RestingPC
  <1>9. CASE DeleteReportRead(h)
    <2>0. PICK d : d = task[h].documentId
      OBVIOUS
    <2>1. task[h].pc = "deleteRead" /\ UNCHANGED <<report, content>>
      BY <1>9 DEF DeleteReportRead, storeVars, IsAt
    <2>2. PICK i \in RowsOf(d) :
            Becomes(h, Local("deleteUpdate", d, i, AsArchivedAndDeleted(report[i]),
                             task[h].todo))
      BY <2>0, <1>9 DEF DeleteReportRead, ReadReport
    <2>3. /\ task'[h].pc = "deleteUpdate" /\ task'[h].reportId = i
          /\ task'[h].todo = task[h].todo
          /\ \A u \in Task : u # h => task'[u] = task[u]
      BY <1>0, <2>2, Updated
    <2>4. i \in Rows /\ ~IsSaving(i)
      BY <2>0, <1>0, <2>1
      DEF TaskOK, ReachedOK, WithdrawnPC, DeletingPC, Withdrawn, Gone, RowsOf
    <2> QED BY <1>0, <2>1, <2>3, <2>4, ReadSettles DEF WritesBackPC
  <1>10. CASE DeleteReportUpdate(h) \/ ArchiveReportUpdate(h)
    <2>1. PICK pc \in {"pushDeleted", "pushArchived"} :
            /\ GoTo(h, pc) /\ task[h].pc \in WritesBackPC
            /\ WriteBack(h) /\ content' = content
      BY <1>10 DEF DeleteReportUpdate, ArchiveReportUpdate, IsAt, WritesBackPC
    <2> QED BY <1>0, <2>1, WriteBackSettles DEF HarmlessPC
  <1>11. CASE ArchiveReportUpload(h)
    <2>1. /\ task[h].pc = "archiveUpload" /\ GoTo(h, "archiveRead")
          /\ UNCHANGED <<report, content>>
      BY <1>11 DEF ArchiveReportUpload, IsAt
    <2>2. /\ task'[h].pc = "archiveRead" /\ task'[h].documentId = task[h].documentId
          /\ \A u \in Task : u # h => task'[u] = task[u]
      BY <1>0, <2>1, Moved
    <2>3. SavingKept(RowId) /\ Effect
      BY <1>0, <2>1, <2>2, SavingUnmoved DEF Unseen, Effect
    <2>4. PICK d : d = task[h].documentId
      OBVIOUS
    <2>5. RowsOf(d)' = RowsOf(d) /\ RowsOf(d) \subseteq RowId
      BY <2>1 DEF RowsOf, Rows
    <2>6. RowsOf(d) # {} /\ \A i \in RowsOf(d) : ~IsSaving(i)
      BY <1>0, <2>1, <2>4 DEF SettledOK
    <2>7. SettledOK(h)'
      BY <1>0, <2>2, <2>3, <2>4, <2>5, <2>6 DEF SettledOK, WritesBackPC, SavingKept
    <2> QED BY <1>0, <2>2, <2>3, <2>7, SettledStep
  <1>12. CASE ArchiveReportUploadFails(h)
    <2>1. /\ task[h].pc # "saving" /\ Finish(h) /\ UNCHANGED <<report, content>>
      BY <1>12 DEF ArchiveReportUploadFails, IsAt
    <2> QED BY <1>0, <2>1, Finished, HarmlessStep DEF HarmlessPC, RestingPC
  <1>13. CASE ArchiveReportRead(h)
    <2>0. PICK d : d = task[h].documentId
      OBVIOUS
    <2>1. task[h].pc = "archiveRead" /\ UNCHANGED <<report, content>>
      BY <1>13 DEF ArchiveReportRead, storeVars, IsAt
    <2>2. PICK i \in RowsOf(d) :
            Becomes(h, Local("archiveUpdate", d, i, AsArchived(report[i]), task[h].todo))
      BY <2>0, <1>13 DEF ArchiveReportRead, ReadReport
    <2>3. /\ task'[h].pc = "archiveUpdate" /\ task'[h].reportId = i
          /\ task'[h].todo = task[h].todo
          /\ \A u \in Task : u # h => task'[u] = task[u]
      BY <1>0, <2>2, Updated
    <2>4. i \in Rows /\ ~IsSaving(i)
      BY <2>0, <1>0, <2>1 DEF SettledOK, RowsOf
    <2> QED BY <1>0, <2>1, <2>3, <2>4, ReadSettles DEF WritesBackPC
  <1> QED
    BY <1>1, <1>2, <1>3, <1>4, <1>5, <1>6, <1>7, <1>8, <1>9, <1>10, <1>11, <1>12,
       <1>13
    DEF HandlerStep

\* Of the job ReportArchiver.
LEMMA ArchiverEffect ==
  ASSUME Inductive, SettledInv, Keeps, NEW j \in ArchiverRun, ArchiverStep(j)
  PROVE  Effect /\ SettledInv'
  <1>0. /\ j \in Task /\ TypeInv /\ SafeInv /\ TaskOK(j) /\ SettledOK(j)
    BY DEF Task, Job, Inductive, SafeInv, SettledInv
  <1>1. CASE StartArchiver(j)
    <2>1. /\ task[j].pc = "idle" /\ task'[j].pc = "archiverNext"
          /\ task'[j].todo = ExpiredNotArchived
          /\ \A u \in Task : u # j => task'[u] = task[u]
          /\ UNCHANGED <<report, content>>
      BY <1>0, <1>1, Updated DEF StartArchiver, IsAt, storeVars
    <2>2. SavingKept(RowId) /\ Effect
      BY <1>0, <2>1, SavingUnmoved DEF Unseen, Effect
    <2>3. \A i \in ExpiredNotArchived : i \in RowId /\ ~IsSaving(i)
      BY NotSaving DEF ExpiredNotArchived, Rows, Expired, Fresh
    <2>4. SettledOK(j)'
      BY <2>1, <2>2, <2>3 DEF SettledOK, WritesBackPC, SavingKept
    <2> QED BY <1>0, <2>1, <2>2, <2>4, SettledStep
  <1>2. ASSUME NEW i \in RowId, ArchiverRead(j, i)
        PROVE  Effect /\ SettledInv'
    <2>0. PICK d : d = report[i].documentId
      OBVIOUS
    <2>1. /\ task[j].pc = "archiverNext" /\ UNCHANGED <<report, content>>
          /\ i \in task[j].todo
      BY <1>2 DEF ArchiverRead, storeVars, IsAt
    <2>2. PICK k \in RowsOf(d) :
            Becomes(j, Local("archiverUpdate", d, k, AsArchived(report[k]),
                             task[j].todo \ {i}))
      BY <2>0, <1>2 DEF ArchiverRead
    <2>3. /\ task'[j].pc = "archiverUpdate" /\ task'[j].reportId = k
          /\ task'[j].todo \subseteq task[j].todo
          /\ \A u \in Task : u # j => task'[u] = task[u]
      BY <1>0, <2>2, Updated
    <2>4. i \in RowsOf(d) /\ ~IsSaving(i)
      BY <1>0, <2>0, <2>1 DEF SettledOK, TypeInv, HoldsList, RowsOf
    <2>5. k \in Rows /\ ~IsSaving(k)
      BY <2>4, OnlyRow DEF RowsOf
    <2> QED BY <1>0, <2>1, <2>3, <2>5, ReadSettles DEF WritesBackPC
  <1>3. CASE ArchiverUpdate(j)
    <2>1. /\ GoTo(j, "archiverFetch") /\ task[j].pc \in WritesBackPC
          /\ WriteBack(j) /\ content' = content
      BY <1>3 DEF ArchiverUpdate, IsAt, WritesBackPC
    <2> QED BY <1>0, <2>1, WriteBackSettles DEF HarmlessPC, RestingPC
  <1>4. CASE ArchiverFetch(j) \/ ArchiverUpload(j) \/ ArchiverUploadFails(j)
    <2>1. /\ task[j].pc # "saving" /\ UNCHANGED <<report, content>>
          /\ NextInList(j, "archiverNext") \/ GoTo(j, "archiverUpload")
      BY <1>4 DEF ArchiverFetch, ArchiverUpload, ArchiverUploadFails, IsAt, storeVars
    <2>2. /\ task'[j].pc \in {"idle", "archiverNext", "archiverUpload"}
          /\ task'[j].todo = task[j].todo
          /\ \A u \in Task : u # j => task'[u] = task[u]
      BY <1>0, <2>1, NextListed, Moved
    <2> QED BY <1>0, <2>1, <2>2, HarmlessStep DEF HarmlessPC, RestingPC
  <1> QED BY <1>1, <1>2, <1>3, <1>4 DEF ArchiverStep

\* Of the job ReportEraser.
LEMMA EraserEffect ==
  ASSUME Inductive, SettledInv, Keeps, NEW j \in EraserRun, EraserStep(j)
  PROVE  Effect /\ SettledInv'
  <1>0. /\ j \in Task /\ j \notin ArchiverRun /\ TypeInv /\ SafeInv
        /\ TaskOK(j) /\ SettledOK(j)
    BY LifecycleAssumption DEF Task, Job, Inductive, SafeInv, SettledInv
  <1>1. CASE StartEraser(j)
    <2>1. /\ task[j].pc = "idle" /\ task'[j].pc = "eraserNext"
          /\ \A u \in Task : u # j => task'[u] = task[u]
          /\ UNCHANGED <<report, content>>
      BY <1>0, <1>1, Updated DEF StartEraser, IsAt, storeVars
    <2> QED BY <1>0, <2>1, HarmlessStep DEF HarmlessPC, RestingPC
  <1>2. ASSUME NEW i \in RowId, EraserDelete(j, i)
        PROVE  Effect /\ SettledInv'
    <2>0. PICK d : d = report[i].documentId
      OBVIOUS
    <2>1. /\ task[j].pc = "eraserNext" /\ task'[j].pc = "eraserRead"
          /\ \A u \in Task : u # j => task'[u] = task[u]
          /\ DeleteDocument(d) /\ report' = report
      BY <2>0, <1>0, <1>2, Updated DEF EraserDelete, IsAt
    <2>2. Effect
      BY <1>0, <2>1, SavingUnmoved, DeleteDocumentEffect
    <2>3. SettledOK(j)'
      BY <1>0, <2>1, <2>2, HarmlessSettled DEF HarmlessPC
    <2> QED BY <1>0, <2>1, <2>2, <2>3, SettledStep
  <1>3. ASSUME NEW i \in RowId, EraserDeleteThrows(j, i)
        PROVE  Effect /\ SettledInv'
    <2>1. /\ task[j].pc # "saving" /\ Finish(j) /\ UNCHANGED <<report, content>>
      BY <1>3 DEF EraserDeleteThrows, IsAt, storeVars
    <2> QED BY <1>0, <2>1, Finished, HarmlessStep DEF HarmlessPC, RestingPC
  <1>4. CASE EraserRead(j)
    <2>0. PICK d : d = task[j].documentId
      OBVIOUS
    <2>1. task[j].pc = "eraserRead" /\ UNCHANGED <<report, content>>
      BY <1>4 DEF EraserRead, storeVars, IsAt
    <2>2. PICK i \in RowsOf(d) :
            Becomes(j, Local("eraserUpdate", d, i, AsDeleted(report[i]), task[j].todo))
      BY <2>0, <1>4 DEF EraserRead, ReadReport
    <2>3. /\ task'[j].pc = "eraserUpdate" /\ task'[j].reportId = i
          /\ task'[j].todo = task[j].todo
          /\ \A u \in Task : u # j => task'[u] = task[u]
      BY <1>0, <2>2, Updated
    <2>4. i \in Rows /\ ~IsSaving(i)
      BY <2>0, <1>0, <2>1 DEF TaskOK, ReachedOK, WithdrawnPC, Withdrawn, Gone, RowsOf
    <2> QED BY <1>0, <2>1, <2>3, <2>4, ReadSettles DEF WritesBackPC
  <1>5. CASE EraserUpdate(j)
    <2>1. /\ GoTo(j, "eraserFtp") /\ task[j].pc \in WritesBackPC
          /\ WriteBack(j) /\ content' = content
      BY <1>5 DEF EraserUpdate, IsAt, WritesBackPC
    <2> QED BY <1>0, <2>1, WriteBackSettles DEF HarmlessPC, RestingPC
  <1>6. CASE EraserDeleteFile(j) \/ EraserDeleteFileFails(j)
    <2>1. /\ task[j].pc # "saving" /\ UNCHANGED <<report, content>>
          /\ NextInList(j, "eraserNext")
      BY <1>6 DEF EraserDeleteFile, EraserDeleteFileFails, IsAt
    <2>2. /\ task'[j].pc \in {"idle", "eraserNext"}
          /\ \A u \in Task : u # j => task'[u] = task[u]
      BY <1>0, <2>1, NextListed
    <2> QED BY <1>0, <2>1, <2>2, HarmlessStep DEF HarmlessPC, RestingPC
  <1> QED BY <1>1, <1>2, <1>3, <1>4, <1>5, <1>6 DEF EraserStep

\* The end of EventHost gives up every insert that is between its statements.
LEMMA CrashEffect ==
  ASSUME Inductive, SettledInv, Keeps, CrashEventHost
  PROVE  Effect /\ SettledInv'
  <1>0. UNCHANGED <<report, content>> /\ task' = HandlersStopped
    BY DEF CrashEventHost, storeVars
  <1>1. /\ \A h \in Handler : task'[h].pc = "idle" /\ task'[h].todo = {}
        /\ \A t \in Task \ Handler : task'[t] = task[t]
    BY <1>0, IdleType DEF HandlersStopped, Task
  <1>2. \A i : ~IsSaving(i)'
    BY <1>1 DEF IsSaving, IsAt
  <1>3. \A i \in RowId : IsSaving(i) => i \in Rows \ content
    BY DEF Inductive, SafeInv, TaskOK, SaverOK, IsSaving, IsAt, Task
  <1>4. PICK lost \in SUBSET RowId : \A i \in RowId : i \in lost <=> IsSaving(i)
    <2> WITNESS {i \in RowId : IsSaving(i)} \in SUBSET RowId
    <2> QED OBVIOUS
  <1>5. Loses(lost)
    BY <1>0, <1>2, <1>3, <1>4 DEF Loses, SavingKept
  <1>6. Effect
    BY <1>5 DEF Effect
  <1>7. ASSUME NEW t \in Task PROVE SettledOK(t)'
    <2>1. CASE t \in Handler
      BY <1>1, <1>6, <2>1, HarmlessSettled DEF HarmlessPC, RestingPC, SettledInv
    <2>2. CASE t \notin Handler
      BY <1>1, <1>6, <2>2, SettledStable DEF SettledInv
    <2> QED BY <2>1, <2>2
  <1> QED BY <1>6, <1>7 DEF SettledInv

\* A step that leaves rows, contents and processes alone.
LEMMA UnseenEffect ==
  ASSUME Inductive, SettledInv, Keeps, UNCHANGED <<report, content, task>>
  PROVE  Effect /\ SettledInv'
  <1>1. Effect
    BY DEF Effect, Unseen, SavingKept, IsSaving, IsAt
  <1> QED BY <1>1, SettledStable DEF SettledInv

\* Together with Inductive, SettledInv is inductive.
LEMMA StepEffect ==
  ASSUME ~DuplicateReady, Inductive, SettledInv, [Next]_vars
  PROVE  Effect /\ SettledInv'
  <1>0. Keeps
    BY SafeStep
  <1>1. ASSUME NEW h \in Handler, HandlerStep(h) PROVE Effect /\ SettledInv'
    BY <1>0, <1>1, HandlerEffect
  <1>2. ASSUME NEW j \in ArchiverRun, ArchiverStep(j) PROVE Effect /\ SettledInv'
    BY <1>0, <1>2, ArchiverEffect
  <1>3. ASSUME NEW j \in EraserRun, EraserStep(j) PROVE Effect /\ SettledInv'
    BY <1>0, <1>3, EraserEffect
  <1>4. ASSUME NEW j \in Job, AbortJob(j) PROVE Effect /\ SettledInv'
    <2>1. /\ j \in Task /\ TypeInv /\ Finish(j) /\ UNCHANGED <<report, content>>
      BY <1>4 DEF AbortJob, Inductive, Task, storeVars
    <2>2. task[j].pc # "saving"
      BY <2>1, LifecycleAssumption DEF Job, TypeInv, TypeOK, ArchiverPC, EraserPC
    <2> QED BY <1>0, <2>1, <2>2, Finished, HarmlessStep DEF HarmlessPC, RestingPC
  <1>5. ASSUME NEW i \in RowId, PassDeadline(i) PROVE Effect /\ SettledInv'
    BY <1>0, <1>5, UnseenEffect DEF PassDeadline
  <1>6. CASE CrashEventHost
    BY <1>0, <1>6, CrashEffect
  <1>7. CASE UNCHANGED vars
    BY <1>0, <1>7, UnseenEffect DEF vars
  <1> QED BY <1>1, <1>2, <1>3, <1>4, <1>5, <1>6, <1>7 DEF Next

\* The store that drivers, jobs and crashes work on implements ReportPromise: what
\* has left it does not come back, what has left the owner's list stays off it, and
\* no report leaves the list while TableSaver is between its two inserts for it.
THEOREM KeepsPromiseHolds ==
  ASSUME ~DuplicateReady
  PROVE  Spec => KeepsPromise
  <1>1. Init => SettledInv /\ Promise!Init
    <2> SUFFICES ASSUME Init PROVE SettledInv /\ Promise!Init
      OBVIOUS
    <2>1. Rows = {} /\ \A t \in Task : task[t].pc = "idle" /\ task[t].todo = {}
      BY IdleType DEF Init, StoreInit, Rows
    <2>2. SettledInv
      BY <2>1 DEF SettledInv, SettledOK, WritesBackPC
    <2>3. \A i \in RowId : StageOf(i) = "absent"
      BY <2>1, Staged
    <2> QED BY <2>1, <2>2, <2>3 DEF Promise!Init, Listed
  <1>2. Inductive /\ SettledInv /\ [Next]_vars => SettledInv' /\ Effect
    BY StepEffect
  <1>3. Effect => [Promise!Next]_<<Stages, Listed>>
    BY EffectKeepsPromise
  <1> QED BY <1>1, <1>2, <1>3, InductiveHolds, PTL
      DEF KeepsPromise, Promise!PromiseSpec, Spec, Stages

-----------------------------------------------------------------------------
(* Documents that are reported as ready twice *)

\* What every step leaves of the store, whatever is reported twice.
Preserves ==
    \A i \in Rows :
        /\ i \in Rows' /\ report'[i].documentId = report[i].documentId
        /\ Held(i) => Held(i)'
        /\ age[i] = Overdue => age'[i] = Overdue
        /\ Gone(i) => Gone(i)'

\* A second row does not go away again.
LEMMA RefusedStable ==
  ASSUME \A i \in Rows : i \in Rows' /\ report'[i].documentId = report[i].documentId,
         NEW d, DeleteIsRefused(d)
  PROVE  DeleteIsRefused(d)'
  BY DEF DeleteIsRefused, RowsOf

\* A step without an INSERT or UPDATE of report preserves every row.
LEMMA PreservesRows ==
  ASSUME report' = report, content' \subseteq content,
         \A i \in Rows : age[i] = Overdue => age'[i] = Overdue,
         \A i \in Rows : IsSaving(i)' => IsSaving(i)
  PROVE  Preserves
  <1>1. Rows' = Rows
    BY DEF Rows
  <1>2. \A d : RowsOf(d)' = RowsOf(d)
    BY <1>1 DEF RowsOf
  <1>3. \A d : DeleteIsRefused(d)' <=> DeleteIsRefused(d)
    BY <1>2 DEF DeleteIsRefused
  <1> QED BY <1>1, <1>3 DEF Preserves, Held, Gone

\* What a process relies on survives the steps of the others.
LEMMA OwnStable ==
  ASSUME TypeInv, Preserves, NEW t \in Task, OwnOK(t), task'[t] = task[t],
         IsAt(t, "saving") =>
            task[t].reportId \notin content' /\ age'[task[t].reportId] = Fresh
  PROVE  OwnOK(t)'
  <1>0. \A i \in Rows : i \in Rows' /\ report'[i].documentId = report[i].documentId
    BY DEF Preserves
  <1>1. SaverOK(t)'
    BY <1>0 DEF OwnOK, SaverOK, IsAt
  <1>2. OwnCopyOK(t)'
    BY <1>0, RefusedStable DEF OwnOK, OwnCopyOK, RowsOf
  <1>3. t \in EraserRun => \A i \in task[t].todo : Held(i)' /\ age'[i] = Overdue
    BY DEF OwnOK, OwnListOK, Preserves, TypeInv, HoldsList
  <1>4. ASSUME IsAt(t, "eraserRead"), NEW d, d = task[t].documentId
        PROVE  RowsOf(d)' # {} /\ \A i \in RowsOf(d)' : Held(i)'
    <2>1. PICK k : k \in RowsOf(d)
      BY <1>4 DEF OwnOK, OwnListOK
    <2>2. k \in RowsOf(d)'
      BY <1>0, <2>1 DEF RowsOf
    <2>3. ASSUME NEW i \in RowsOf(d)' PROVE Held(i)'
      <3>1. CASE i \in Rows
        <4>1. i \in RowsOf(d)
          BY <1>0, <2>3, <3>1 DEF RowsOf
        <4>2. Held(i)
          BY <1>4, <4>1 DEF OwnOK, OwnListOK
        <4> QED BY <3>1, <4>2 DEF Preserves
      <3>2. CASE i \notin Rows
        <4>1. k # i
          BY <2>1, <3>2 DEF RowsOf
        <4>2. DeleteIsRefused(d)'
          BY <2>2, <2>3, <4>1 DEF DeleteIsRefused
        <4>3. report'[i].documentId = d
          BY <2>3 DEF RowsOf
        <4> QED BY <4>2, <4>3 DEF Held
      <3> QED BY <3>1, <3>2
    <2> QED BY <2>2, <2>3
  <1>5. OwnListOK(t)'
    BY <1>3, <1>4 DEF OwnListOK, IsAt
  <1> QED BY <1>1, <1>2, <1>5 DEF OwnOK

\* What one step of process t must not do to the notices of deletions.
TellsOnce(t) ==
    \A d \in DocumentId :
        /\ t \in Handler /\ Deleting(t, d)' =>
            Deleting(t, d) \/ (~HasGone(d) /\ HasGone(d)')
        /\ <<d, "Deleted">> \in pushed' =>
            \/ <<d, "Deleted">> \in pushed
            \/ t \in Handler /\ Deleting(t, d) /\ ~Deleting(t, d)'

\* One step of process t: what has to be shown of the step, and of t itself.
LEMMA OwnStep ==
  ASSUME TypeInv, DuplicateInv, Preserves, NEW t \in Task, OwnOK(t)',
         \A u \in Task : u # t => task'[u] = task[u],
         age' = age,
         \A i \in content' \ content :
            t \in Handler /\ IsAt(t, "saving") /\ task[t].reportId = i,
         task'[t].pc = "saving" => task'[t].reportId \notin Rows,
         TellsOnce(t)
  PROVE  DuplicateInv'
  <1>0. Handler \subseteq Task
    BY DEF Task
  <1>1. ASSUME NEW g \in Handler, IsAt(g, "saving")
        PROVE  task[g].reportId \in Rows \ content /\ age[task[g].reportId] = Fresh
    BY <1>0, <1>1 DEF DuplicateInv, OwnOK, SaverOK
  <1>2. UnusedIsClean'
    BY <1>1 DEF DuplicateInv, UnusedIsClean, Preserves, Rows
  <1>3. SaversDiffer'
    <2> SUFFICES ASSUME NEW g \in Handler, NEW h \in Handler,
                        task'[g].pc = "saving", task'[h].pc = "saving",
                        task'[g].reportId = task'[h].reportId, g # h
                 PROVE  FALSE
      BY DEF SaversDiffer, IsAt
    <2>1. CASE g = t
      BY <1>0, <1>1, <2>1 DEF IsAt
    <2>2. CASE h = t
      BY <1>0, <1>1, <2>2 DEF IsAt
    <2>3. CASE g # t /\ h # t
      BY <1>0, <2>3 DEF DuplicateInv, SaversDiffer, IsAt
    <2> QED BY <2>1, <2>2, <2>3
  <1>4. ASSUME NEW u \in Task PROVE OwnOK(u)'
    <2>1. CASE u = t
      BY <2>1
    <2>2. CASE u # t
      <3>1. OwnOK(u) /\ task'[u] = task[u]
        BY <2>2 DEF DuplicateInv
      <3>2. ASSUME IsAt(u, "saving")
            PROVE  task[u].reportId \notin content' /\ age'[task[u].reportId] = Fresh
        <4>1. u \in Handler
          BY <3>2, LifecycleAssumption
          DEF Task, Job, IsAt, TypeInv, TypeOK, ArchiverPC, EraserPC
        <4> QED BY <1>1, <2>2, <3>2, <4>1 DEF DuplicateInv, SaversDiffer
      <3> QED BY <3>1, <3>2, OwnStable
    <2> QED BY <2>1, <2>2
  <1>5. \A d \in DocumentId : HasGone(d) => HasGone(d)'
    BY DEF HasGone, RowsOf, Preserves
  <1>6. \A g \in Handler, d \in DocumentId : g # t => (Deleting(g, d)' <=> Deleting(g, d))
    BY <1>0 DEF Deleting
  <1>7. \A d \in DocumentId :
            /\ \A g \in Handler : Deleting(g, d) => HasGone(d)
            /\ <<d, "Deleted">> \in pushed => HasGone(d)
    BY DEF DuplicateInv, CondemnedIsGone, Condemned
  <1>8. CondemnedIsGone'
    BY <1>5, <1>6, <1>7 DEF CondemnedIsGone, Condemned, TellsOnce
  <1>9. DeletedIsToldOnce'
    <2> SUFFICES ASSUME NEW d \in DocumentId, NEW h \in Handler, Deleting(h, d)'
                 PROVE  /\ <<d, "Deleted">> \notin pushed'
                        /\ \A other \in Handler \ {h} : ~Deleting(other, d)'
      BY DEF DeletedIsToldOnce
    <2>1. \A g \in Handler : Deleting(g, d) =>
            /\ <<d, "Deleted">> \notin pushed
            /\ \A other \in Handler \ {g} : ~Deleting(other, d)
      BY DEF DuplicateInv, DeletedIsToldOnce
    <2>2. CASE h = t /\ ~Deleting(t, d)
      BY <1>6, <1>7, <2>2 DEF TellsOnce
    <2>3. CASE h = t /\ Deleting(t, d)
      BY <1>6, <2>1, <2>3 DEF TellsOnce
    <2>4. CASE h # t
      BY <1>6, <1>7, <2>1, <2>4 DEF TellsOnce
    <2> QED BY <2>2, <2>3, <2>4
  <1> QED BY <1>2, <1>3, <1>4, <1>8, <1>9 DEF DuplicateInv

\* A list of the eraser only shrinks.
LEMMA OwnListKept ==
  ASSUME TypeInv, DuplicateInv, Preserves, NEW t \in Task,
         task'[t].todo \subseteq task[t].todo \/ t \notin EraserRun,
         task'[t].pc # "eraserRead"
  PROVE  OwnListOK(t)'
  BY DEF TypeInv, HoldsList, DuplicateInv, OwnOK, OwnListOK, Preserves, IsAt

\* OwnOK asks of a process at rest nothing but its list.
LEMMA OwnRestingOK ==
  ASSUME NEW t \in Task, task'[t].pc \notin WritesBackPC \cup {"saving"}, OwnListOK(t)'
  PROVE  OwnOK(t)'
  BY DEF OwnOK, SaverOK, OwnCopyOK, IsAt

\* A step after which a process holds nothing but its list.
LEMMA OwnRestingStep ==
  ASSUME TypeInv, DuplicateInv, UNCHANGED <<report, age, content>>, NEW t \in Task,
         task'[t].pc \notin WritesBackPC \cup {"saving", "eraserRead"},
         \A u \in Task : u # t => task'[u] = task[u],
         task'[t].todo \subseteq task[t].todo \/ t \notin EraserRun,
         TellsOnce(t)
  PROVE  DuplicateInv'
  <1>1. Preserves
    BY SaversKept, PreservesRows
  <1>2. OwnOK(t)'
    BY <1>1, OwnListKept, OwnRestingOK
  <1> QED BY <1>1, <1>2, OwnStep

\* A process that ends up where it deletes nothing tells nothing new.
LEMMA TellsNothing ==
  ASSUME NEW t \in Task, task'[t].pc \notin DeletingPC, pushed' = pushed
  PROVE  TellsOnce(t)
  BY DEF TellsOnce, Deleting

\* A process that has read a row.
LEMMA OwnRead ==
  ASSUME TypeInv, DuplicateInv, UNCHANGED <<report, age, content, pushed>>,
         NEW t \in Task, NEW d, NEW i \in RowsOf(d),
         task'[t].pc \in WritesBackPC, task'[t].documentId = d,
         task'[t].reportId = i, task'[t].report.documentId = d,
         task'[t].report.archived \/ DeleteIsRefused(d),
         \A u \in Task : u # t => task'[u] = task[u],
         task'[t].todo \subseteq task[t].todo,
         task'[t].pc = "deleteUpdate" => task[t].pc = "deleteRead" /\ d = task[t].documentId
  PROVE  DuplicateInv'
  <1>1. task'[t].pc \notin {"saving", "eraserRead"}
    BY DEF WritesBackPC
  <1>2. Preserves
    BY <1>1, SaversKept, PreservesRows
  <1>3. OwnListOK(t)'
    BY <1>1, <1>2, OwnListKept
  <1>4. i \in RowsOf(d)' /\ (DeleteIsRefused(d) => DeleteIsRefused(d)')
    BY <1>2, RefusedStable DEF RowsOf, Preserves
  <1>5. OwnOK(t)'
    BY <1>1, <1>3, <1>4, Zenon DEF OwnOK, SaverOK, OwnCopyOK, IsAt
  <1>6. TellsOnce(t)
    BY DEF TellsOnce, Deleting, DeletingPC, WritesBackPC
  <1> QED BY <1>1, <1>2, <1>5, <1>6, OwnStep

\* A copy that is written back leaves the row with its document, and held.
LEMMA OwnWriteBack ==
  ASSUME TypeInv, DuplicateInv, NEW t \in Task, task[t].pc \in WritesBackPC,
         WriteBack(t), UNCHANGED <<age, content, pushed>>,
         NEW pc, pc \notin WritesBackPC \cup {"saving", "eraserRead"}, GoTo(t, pc),
         pc \in DeletingPC => task[t].pc \in DeletingPC
  PROVE  DuplicateInv'
  <1>0. PICK i : i = task[t].reportId
    OBVIOUS
  <1>1. PICK row : row = task[t].report
    OBVIOUS
  <1>2. PICK d : d = task[t].documentId
    OBVIOUS
  <1>3. /\ i \in RowsOf(d) /\ row \in Row /\ row.documentId = d
        /\ row.archived \/ DeleteIsRefused(d)
    BY <1>0, <1>1, <1>2 DEF TypeInv, HoldsReport, DuplicateInv, OwnOK, OwnCopyOK
  <1>4. i \in Rows /\ i \in RowId /\ report[i].documentId = d
    BY <1>3 DEF RowsOf, Rows
  <1>5. report' = [report EXCEPT ![i] = row]
    BY <1>0, <1>1 DEF WriteBack, UpdateReport
  <1>6. report'[i] = row /\ \A k \in RowId : k # i => report'[k] = report[k]
    BY <1>4, <1>5 DEF TypeInv, TypeOK, StoreTypeOK
  <1>7. /\ task'[t].pc = pc /\ task'[t].documentId = d
        /\ task'[t].todo = task[t].todo
        /\ \A u \in Task : u # t => task'[u] = task[u]
    BY <1>2, Moved
  <1>8. Rows' = Rows
    BY <1>3, <1>4, <1>6, NoneIsNoValue DEF Rows
  <1>9. \A k \in Rows : report'[k].documentId = report[k].documentId
    <2>1. report'[i].documentId = d
      BY <1>3, <1>6
    <2> QED BY <1>4, <1>6, <2>1 DEF Rows
  <1>10. \A e : DeleteIsRefused(e) => DeleteIsRefused(e)'
    BY <1>8, <1>9, RefusedStable
  <1>11. ASSUME NEW k \in Rows, Held(k) PROVE Held(k)'
    <2>1. CASE k = i
      <3>1. CASE row.archived
        <4>1. report'[k].archived
          BY <1>6, <2>1, <3>1, Zenon
        <4> QED BY <4>1 DEF Held
      <3>2. CASE DeleteIsRefused(d)
        <4>1. report'[k].documentId = d /\ DeleteIsRefused(d)'
          BY <1>4, <1>9, <1>10, <2>1, <3>2
        <4> QED BY <4>1, Zenon DEF Held
      <3> QED BY <1>3, <3>1, <3>2, Zenon
    <2>2. CASE k # i
      <3>1. report'[k] = report[k]
        BY <1>6, <2>2 DEF Rows
      <3> QED BY <1>10, <1>11, <3>1, Zenon DEF Held
    <2> QED BY <2>1, <2>2
  <1>12. \A k : IsSaving(k)' => IsSaving(k)
    BY <1>7, SaversKept
  <1>13. Preserves
    BY <1>8, <1>9, <1>11, <1>12 DEF Preserves, Gone
  <1>14. OwnOK(t)'
    BY <1>7, <1>13, OwnListKept, OwnRestingOK
  <1>15. TellsOnce(t)
    BY <1>2, <1>7 DEF TellsOnce, Deleting
  <1> QED BY <1>7, <1>13, <1>14, <1>15, OwnStep

\* The end of the EventHost process.
LEMMA CrashOwn ==
  ASSUME TypeInv, DuplicateInv, task' = HandlersStopped, UNCHANGED <<storeVars, pushed>>
  PROVE  DuplicateInv'
  <1>0. UNCHANGED <<report, age, content, pushed>>
    BY DEF storeVars
  <1>1. /\ \A h \in Handler : task'[h].pc = "idle" /\ task'[h].todo = {}
        /\ \A t \in Task \ Handler : task'[t] = task[t]
    BY IdleType DEF HandlersStopped, Task
  <1>2. \A i : ~IsSaving(i)'
    BY <1>1 DEF IsSaving, IsAt
  <1>3. Preserves
    BY <1>0, <1>2, PreservesRows
  <1>4. UnusedIsClean'
    BY <1>0 DEF DuplicateInv, UnusedIsClean, Rows
  <1>5. SaversDiffer' /\ DeletedIsToldOnce'
    BY <1>1 DEF SaversDiffer, IsAt, DeletedIsToldOnce, Deleting, DeletingPC
  <1>6. ASSUME NEW t \in Task PROVE OwnOK(t)'
    <2>1. CASE t \in Handler
      BY <1>1, <2>1 DEF OwnOK, SaverOK, OwnCopyOK, OwnListOK, IsAt, WritesBackPC
    <2>2. CASE t \notin Handler
      <3>1. ~IsAt(t, "saving")
        BY <2>2 DEF Task, Job, IsAt, TypeInv, TypeOK, ArchiverPC, EraserPC
      <3> QED BY <1>1, <1>3, <2>2, <3>1, OwnStable DEF DuplicateInv
    <2> QED BY <2>1, <2>2
  <1>7. \A d \in DocumentId : HasGone(d) => HasGone(d)'
    BY <1>3 DEF HasGone, RowsOf, Preserves
  <1>8. CondemnedIsGone'
    BY <1>0, <1>1, <1>7
    DEF DuplicateInv, CondemnedIsGone, Condemned, Deleting, DeletingPC
  <1> QED BY <1>4, <1>5, <1>6, <1>8 DEF DuplicateInv

\* Every step of a driver keeps DuplicateInv.
LEMMA HandlerStepOwn ==
  ASSUME TypeInv, DuplicateInv, NEW h \in Handler, HandlerStep(h)
  PROVE  DuplicateInv'
  <1>0. h \in Task /\ h \notin EraserRun /\ OwnOK(h)
    BY LifecycleAssumption DEF Task, Job, DuplicateInv
  <1>1. ASSUME NEW d \in DocumentId, NEW i \in RowId, SaveReport(h, d, i)
        PROVE  DuplicateInv'
    <2>1. /\ task'[h].pc = "saving" /\ task'[h].reportId = i
          /\ \A u \in Task : u # h => task'[u] = task[u]
      BY <1>0, <1>1, Updated DEF SaveReport
    <2>2. /\ i \notin Rows /\ UNCHANGED <<age, content, pushed>> /\ task[h].pc = "idle"
          /\ report' = [report EXCEPT ![i] =
                          [documentId |-> d, archived |-> FALSE, deleted |-> FALSE]]
      BY <1>1 DEF SaveReport, InsertReport, Rows, IsAt
    <2>3. Rows' = Rows \cup {i} /\ \A k \in Rows : report'[k] = report[k]
      <3> DEFINE row == [documentId |-> d, archived |-> FALSE, deleted |-> FALSE]
      <3>0. row \in Row
        BY DEF Row
      <3>1. row # None
        BY <3>0, NoneIsNoValue
      <3>2. report'[i] = row /\ \A k \in RowId : k # i => report'[k] = report[k]
        BY <2>2 DEF TypeInv, TypeOK, StoreTypeOK
      <3> HIDE DEF row
      <3> QED BY <2>2, <3>1, <3>2 DEF Rows
    <2>4. \A k \in Rows : IsSaving(k)' => IsSaving(k)
      BY <2>1, <2>2 DEF IsSaving, IsAt, Task
    <2>5. \A e : DeleteIsRefused(e) => DeleteIsRefused(e)'
      BY <2>3, RefusedStable
    <2>6. ASSUME NEW k \in Rows, Held(k) PROVE Held(k)'
      <3>1. report'[k] = report[k]
        BY <2>3
      <3> QED BY <2>5, <2>6, <3>1, Zenon DEF Held
    <2>7. Preserves
      BY <2>2, <2>3, <2>4, <2>6 DEF Preserves, Gone
    <2>8. SaverOK(h)'
      <3>1. i \notin content /\ age[i] = Fresh
        BY <2>2 DEF DuplicateInv, UnusedIsClean
      <3> QED BY <2>1, <2>2, <2>3, <3>1 DEF SaverOK
    <2>9. OwnOK(h)'
      BY <1>0, <2>1, <2>8 DEF OwnOK, OwnCopyOK, OwnListOK, WritesBackPC, IsAt
    <2>10. TellsOnce(h)
      BY <1>0, <2>1, <2>2, TellsNothing DEF DeletingPC
    <2> QED BY <1>0, <2>1, <2>2, <2>7, <2>9, <2>10, OwnStep
  <1>2. ASSUME SaveDocument(h) \/ SaveDocumentUntold(h) \/ SaveDocumentFails(h)
        PROVE  DuplicateInv'
    <2>0. PICK i : i = task[h].reportId
      OBVIOUS
    <2>1. /\ task[h].pc = "saving" /\ Finish(h) /\ UNCHANGED <<report, age, pushed>>
          /\ content' \in {content, content \cup {i}}
      BY <1>2, <2>0 DEF SaveDocument, SaveDocumentUntold, SaveDocumentFails,
            InsertDocument, IsAt
    <2>2. /\ task'[h].pc = "idle" /\ \A u \in Task : u # h => task'[u] = task[u]
      BY <1>0, <2>1, Finished
    <2>3. \A k : IsSaving(k)' => IsSaving(k)
      BY <1>0, <2>2, SaversKept
    <2>4. IsSaving(i)
      BY <2>0, <2>1 DEF IsSaving, IsAt
    <2>5. Rows' = Rows /\ \A k : Held(k)' <=> Held(k)
      BY <2>1 DEF Held, DeleteIsRefused, RowsOf, Rows
    <2>6. Preserves
      BY <2>1, <2>3, <2>4, <2>5 DEF Preserves, Gone
    <2>7. OwnOK(h)' /\ TellsOnce(h)
      BY <1>0, <2>1, <2>2, <2>6, OwnListKept, OwnRestingOK, TellsNothing
      DEF WritesBackPC, DeletingPC
    <2> QED BY <1>0, <2>0, <2>1, <2>2, <2>6, <2>7, OwnStep DEF IsAt
  <1>3. ASSUME NEW d \in DocumentId, ReadLength(h, d) \/ ArchiveReport(h, d)
        PROVE  DuplicateInv'
    <2>1. /\ task'[h].pc \in {"pushReady", "archiveUpload"}
          /\ \A u \in Task : u # h => task'[u] = task[u]
          /\ UNCHANGED <<report, age, content, pushed>>
      BY <1>0, <1>3, Updated DEF ReadLength, ArchiveReport, Begin, storeVars
    <2> QED BY <1>0, <2>1, TellsNothing, OwnRestingStep DEF WritesBackPC, DeletingPC
  <1>4. ASSUME NEW d \in DocumentId, DeleteReport(h, d)
        PROVE  DuplicateInv'
    <2>1. /\ task'[h].pc = "deleteRead" /\ task'[h].documentId = d
          /\ \A u \in Task : u # h => task'[u] = task[u]
          /\ content' = content \ RowsOf(d) /\ ~DeleteIsRefused(d)
          /\ UNCHANGED <<report, age, pushed>>
      BY <1>0, <1>4, Updated DEF DeleteReport, Begin, DeleteDocument
    <2>2. PICK i : i \in content /\ i \in RowsOf(d)
      BY <1>4 DEF DeleteReport, DocumentsOf
    <2>3. \A k : IsSaving(k)' => IsSaving(k)
      BY <1>0, <2>1, SaversKept
    <2>4. Preserves
      BY <2>1, <2>3, PreservesRows
    <2>5. ~HasGone(d)
      BY <2>1, <2>2 DEF HasGone, Gone, DeleteIsRefused
    <2>6. ~IsSaving(i)
      BY <2>2 DEF DuplicateInv, OwnOK, SaverOK, IsSaving, IsAt, Task
    <2>7. HasGone(d)'
      <3>1. i \in RowsOf(d)'
        BY <2>1, <2>2 DEF RowsOf, Rows
      <3>2. Gone(i)'
        BY <2>1, <2>2, <2>3, <2>6 DEF Gone
      <3> QED BY <3>1, <3>2 DEF HasGone
    <2>8. TellsOnce(h)
      BY <2>1, <2>5, <2>7 DEF TellsOnce, Deleting
    <2>9. OwnOK(h)'
      BY <1>0, <2>1, <2>4, OwnListKept, OwnRestingOK DEF WritesBackPC
    <2> QED BY <1>0, <2>1, <2>4, <2>8, <2>9, OwnStep
  <1>5. CASE PushReady(h) \/ PushArchived(h)
    <2>1. /\ Finish(h) /\ UNCHANGED <<report, age, content>>
          /\ \E x \in {"Ready", "Archived"} : Push(h, x)
      BY <1>5 DEF PushReady, PushArchived, storeVars
    <2>2. task'[h].pc = "idle" /\ \A u \in Task : u # h => task'[u] = task[u]
      BY <1>0, <2>1, Finished
    <2>3. \A d : <<d, "Deleted">> \in pushed' => <<d, "Deleted">> \in pushed
      BY <2>1 DEF Push
    <2>4. TellsOnce(h)
      BY <2>2, <2>3 DEF TellsOnce, Deleting, DeletingPC
    <2> QED BY <1>0, <2>1, <2>2, <2>4, OwnRestingStep DEF WritesBackPC
  <1>6. CASE PushDeleted(h)
    <2>0. PICK e : e = task[h].documentId
      OBVIOUS
    <2>1. /\ Finish(h) /\ UNCHANGED <<report, age, content>> /\ task[h].pc = "pushDeleted"
          /\ pushed' = pushed \cup {<<e, "Deleted">>}
      BY <2>0, <1>6 DEF PushDeleted, storeVars, Push, IsAt
    <2>2. task'[h].pc = "idle" /\ \A u \in Task : u # h => task'[u] = task[u]
      BY <1>0, <2>1, Finished
    <2>3. \A d : <<d, "Deleted">> \in pushed' => <<d, "Deleted">> \in pushed \/ d = e
      BY <2>1
    <2>4. \A d : ~Deleting(h, d)'
      BY <2>2 DEF Deleting, DeletingPC
    <2>5. Deleting(h, e)
      BY <2>0, <2>1 DEF Deleting, DeletingPC
    <2>6. TellsOnce(h)
      BY <2>3, <2>4, <2>5 DEF TellsOnce
    <2> QED BY <1>0, <2>1, <2>2, <2>6, OwnRestingStep DEF WritesBackPC
  <1>7. CASE DeleteReportRead(h)
    <2>0. PICK d : d = task[h].documentId
      OBVIOUS
    <2>1. task[h].pc = "deleteRead" /\ UNCHANGED <<report, age, content, pushed>>
      BY <1>7 DEF DeleteReportRead, storeVars, IsAt
    <2>2. PICK i \in RowsOf(d) :
            Becomes(h, Local("deleteUpdate", d, i, AsArchivedAndDeleted(report[i]),
                             task[h].todo))
      BY <2>0, <1>7 DEF DeleteReportRead, ReadReport
    <2>3. /\ task'[h].pc = "deleteUpdate" /\ task'[h].documentId = d
          /\ task'[h].reportId = i
          /\ task'[h].report = AsArchivedAndDeleted(report[i])
          /\ task'[h].todo = task[h].todo
          /\ \A u \in Task : u # h => task'[u] = task[u]
      BY <1>0, <2>2, Updated
    <2>4. report[i] \in Row /\ report[i].documentId = d
      BY RowsType DEF TypeInv, TypeOK, RowsOf
    <2>5. AsArchivedAndDeleted(report[i]).documentId = d
      BY <2>4, RowFlags
    <2>6. AsArchivedAndDeleted(report[i]).archived
      BY <2>4, RowFlags, Zenon
    <2>7. task'[h].report.documentId = d
      BY <2>3, <2>5
    <2>8. task'[h].report.archived
      BY <2>3, <2>6, Zenon
    <2> QED BY <1>0, <2>0, <2>1, <2>3, <2>7, <2>8, OwnRead DEF WritesBackPC
  <1>8. CASE ArchiveReportRead(h)
    <2>0. PICK d : d = task[h].documentId
      OBVIOUS
    <2>1. UNCHANGED <<report, age, content, pushed>>
      BY <1>8 DEF ArchiveReportRead, storeVars
    <2>2. PICK i \in RowsOf(d) :
            Becomes(h, Local("archiveUpdate", d, i, AsArchived(report[i]), task[h].todo))
      BY <2>0, <1>8 DEF ArchiveReportRead, ReadReport
    <2>3. /\ task'[h].pc = "archiveUpdate" /\ task'[h].documentId = d
          /\ task'[h].reportId = i /\ task'[h].report = AsArchived(report[i])
          /\ task'[h].todo = task[h].todo
          /\ \A u \in Task : u # h => task'[u] = task[u]
      BY <1>0, <2>2, Updated
    <2>4. report[i] \in Row /\ report[i].documentId = d
      BY RowsType DEF TypeInv, TypeOK, RowsOf
    <2>5. AsArchived(report[i]).documentId = d
      BY <2>4, RowFlags
    <2>6. AsArchived(report[i]).archived
      BY <2>4, RowFlags, Zenon
    <2>7. task'[h].report.documentId = d
      BY <2>3, <2>5
    <2>8. task'[h].report.archived
      BY <2>3, <2>6, Zenon
    <2> QED BY <1>0, <2>1, <2>3, <2>7, <2>8, OwnRead DEF WritesBackPC
  <1>9. CASE DeleteReportUpdate(h)
    <2>1. /\ GoTo(h, "pushDeleted") /\ task[h].pc = "deleteUpdate" /\ WriteBack(h)
          /\ UNCHANGED <<age, content, pushed>>
      BY <1>9 DEF DeleteReportUpdate, IsAt
    <2> QED BY <1>0, <2>1, OwnWriteBack DEF WritesBackPC, DeletingPC
  <1>10. CASE ArchiveReportUpdate(h)
    <2>1. /\ GoTo(h, "pushArchived") /\ task[h].pc = "archiveUpdate" /\ WriteBack(h)
          /\ UNCHANGED <<age, content, pushed>>
      BY <1>10 DEF ArchiveReportUpdate, IsAt
    <2> QED BY <1>0, <2>1, OwnWriteBack DEF WritesBackPC, DeletingPC
  <1>11. CASE ArchiveReportUpload(h) \/ ArchiveReportUploadFails(h)
    <2>1. /\ UNCHANGED <<report, age, content, pushed>>
          /\ Finish(h) \/ GoTo(h, "archiveRead")
      BY <1>11 DEF ArchiveReportUpload, ArchiveReportUploadFails
    <2>2. /\ task'[h].pc \in {"idle", "archiveRead"}
          /\ \A u \in Task : u # h => task'[u] = task[u]
      BY <1>0, <2>1, Finished, Moved
    <2> QED BY <1>0, <2>1, <2>2, TellsNothing, OwnRestingStep DEF WritesBackPC, DeletingPC
  <1>12. ASSUME NEW d \in DocumentId, ReadLengthFails(h, d)
         PROVE  DuplicateInv'
    <2>1. UNCHANGED <<report, age, content, task, pushed>> /\ task[h].pc = "idle"
      BY <1>12 DEF ReadLengthFails, storeVars, IsAt
    <2> QED BY <1>0, <2>1, TellsNothing, OwnRestingStep DEF WritesBackPC, DeletingPC
  <1>13. ASSUME NEW d \in DocumentId, DeleteReportThrows(h, d)
         PROVE  DuplicateInv'
    BY <1>13, CrashOwn DEF DeleteReportThrows
  <1> QED
    BY <1>1, <1>2, <1>3, <1>4, <1>5, <1>6, <1>7, <1>8, <1>9, <1>10, <1>11, <1>12,
       <1>13
    DEF HandlerStep

\* A step of the archiver after which it holds nothing but its list, or has read
\* or written a row.
LEMMA ArchiverStepOwn ==
  ASSUME TypeInv, DuplicateInv, NEW j \in ArchiverRun, ArchiverStep(j)
  PROVE  DuplicateInv'
  <1>0. j \in Task /\ j \notin EraserRun /\ j \notin Handler
    BY LifecycleAssumption DEF Task, Job
  <1>1. CASE StartArchiver(j)
    <2>1. /\ task'[j].pc = "archiverNext"
          /\ \A u \in Task : u # j => task'[u] = task[u]
          /\ UNCHANGED <<report, age, content, pushed>>
      BY <1>0, <1>1, Updated DEF StartArchiver, storeVars
    <2> QED BY <1>0, <2>1, TellsNothing, OwnRestingStep DEF WritesBackPC, DeletingPC
  <1>2. ASSUME NEW i \in RowId, ArchiverRead(j, i)
        PROVE  DuplicateInv'
    <2>0. PICK d : d = report[i].documentId
      OBVIOUS
    <2>1. UNCHANGED <<report, age, content, pushed>>
      BY <1>2 DEF ArchiverRead, storeVars
    <2>2. PICK k \in RowsOf(d) :
            Becomes(j, Local("archiverUpdate", d, k, AsArchived(report[k]),
                             task[j].todo \ {i}))
      BY <2>0, <1>2 DEF ArchiverRead
    <2>3. /\ task'[j].pc = "archiverUpdate" /\ task'[j].documentId = d
          /\ task'[j].reportId = k /\ task'[j].report = AsArchived(report[k])
          /\ task'[j].todo \subseteq task[j].todo
          /\ \A u \in Task : u # j => task'[u] = task[u]
      BY <1>0, <2>2, Updated
    <2>4. report[k] \in Row /\ report[k].documentId = d
      BY RowsType DEF TypeInv, TypeOK, RowsOf
    <2>5. AsArchived(report[k]).documentId = d
      BY <2>4, RowFlags
    <2>6. AsArchived(report[k]).archived
      BY <2>4, RowFlags, Zenon
    <2>7. task'[j].report.documentId = d
      BY <2>3, <2>5
    <2>8. task'[j].report.archived
      BY <2>3, <2>6, Zenon
    <2> QED BY <1>0, <2>1, <2>3, <2>7, <2>8, OwnRead DEF WritesBackPC
  <1>3. CASE ArchiverUpdate(j)
    <2>1. /\ GoTo(j, "archiverFetch") /\ task[j].pc = "archiverUpdate" /\ WriteBack(j)
          /\ UNCHANGED <<age, content, pushed>>
      BY <1>3 DEF ArchiverUpdate, IsAt
    <2> QED BY <1>0, <2>1, OwnWriteBack DEF WritesBackPC, DeletingPC
  <1>4. CASE ArchiverFetch(j) \/ ArchiverUpload(j) \/ ArchiverUploadFails(j)
    <2>1. /\ UNCHANGED <<report, age, content, pushed>>
          /\ NextInList(j, "archiverNext") \/ GoTo(j, "archiverUpload")
      BY <1>4 DEF ArchiverFetch, ArchiverUpload, ArchiverUploadFails, storeVars
    <2>2. /\ task'[j].pc \in {"idle", "archiverNext", "archiverUpload"}
          /\ \A u \in Task : u # j => task'[u] = task[u]
      BY <1>0, <2>1, NextListed, Moved
    <2> QED BY <1>0, <2>1, <2>2, TellsNothing, OwnRestingStep DEF WritesBackPC, DeletingPC
  <1> QED BY <1>1, <1>2, <1>3, <1>4 DEF ArchiverStep

\* The eraser's deletion succeeds for a document with one row only, which is the
\* archived one of its list.
LEMMA EraserDeleteOwn ==
  ASSUME TypeInv, DuplicateInv, NEW j \in EraserRun, NEW i \in RowId, EraserDelete(j, i)
  PROVE  DuplicateInv'
  <1>0. j \in Task /\ j \notin Handler /\ OwnOK(j)
    BY LifecycleAssumption DEF Task, Job, DuplicateInv
  <1>1. PICK d : d = report[i].documentId
    OBVIOUS
  <1>2. /\ task'[j].pc = "eraserRead" /\ task'[j].documentId = d
        /\ task'[j].todo \subseteq task[j].todo
        /\ \A u \in Task : u # j => task'[u] = task[u]
    BY <1>0, <1>1, Updated DEF EraserDelete
  <1>3. /\ UNCHANGED <<report, age, pushed>> /\ i \in task[j].todo
        /\ content' = content \ RowsOf(d) /\ ~DeleteIsRefused(d)
    BY <1>1 DEF EraserDelete, DeleteDocument
  <1>4. \A k : IsSaving(k)' => IsSaving(k)
    BY <1>0, <1>2, SaversKept
  <1>5. Preserves
    BY <1>3, <1>4, PreservesRows
  <1>6. i \in RowsOf(d) /\ Held(i)
    BY <1>0, <1>1, <1>3 DEF OwnOK, OwnListOK, TypeInv, HoldsList, RowsOf
  <1>7. \A k \in RowsOf(d) : k = i
    BY <1>3, <1>6 DEF DeleteIsRefused
  <1>8. RowsOf(d)' = RowsOf(d)
    BY <1>3 DEF RowsOf, Rows
  <1>9. Held(i)'
    BY <1>5, <1>6 DEF Preserves, RowsOf
  <1>10. \A k \in task'[j].todo : Held(k)' /\ age'[k] = Overdue
    BY <1>0, <1>2, <1>5 DEF OwnOK, OwnListOK, Preserves, TypeInv, HoldsList
  <1>11. OwnListOK(j)'
    BY <1>2, <1>6, <1>7, <1>8, <1>9, <1>10 DEF OwnListOK
  <1>12. OwnOK(j)'
    BY <1>2, <1>11 DEF OwnOK, SaverOK, OwnCopyOK, IsAt, WritesBackPC
  <1>13. TellsOnce(j)
    BY <1>0, <1>3 DEF TellsOnce
  <1> QED BY <1>0, <1>2, <1>3, <1>5, <1>12, <1>13, OwnStep

\* Every step of the eraser keeps DuplicateInv.
LEMMA EraserStepOwn ==
  ASSUME TypeInv, DuplicateInv, NEW j \in EraserRun, EraserStep(j)
  PROVE  DuplicateInv'
  <1>0. j \in Task /\ j \notin Handler /\ OwnOK(j)
    BY LifecycleAssumption DEF Task, Job, DuplicateInv
  <1>1. CASE StartEraser(j)
    <2>1. /\ task'[j].pc = "eraserNext" /\ task'[j].todo = OverdueNotDeleted
          /\ \A u \in Task : u # j => task'[u] = task[u]
          /\ UNCHANGED <<report, age, content, pushed>>
      BY <1>0, <1>1, Updated DEF StartEraser, storeVars
    <2>2. Preserves
      BY <1>0, <2>1, SaversKept, PreservesRows
    <2>3. \A k \in OverdueNotDeleted : Held(k)' /\ age'[k] = Overdue
      BY <2>1, <2>2 DEF OverdueNotDeleted, Held, Preserves
    <2>4. OwnListOK(j)'
      BY <2>1, <2>3 DEF OwnListOK, IsAt
    <2>5. OwnOK(j)'
      BY <1>0, <2>1, <2>4, OwnRestingOK DEF WritesBackPC
    <2>6. TellsOnce(j)
      BY <1>0, <2>1 DEF TellsOnce
    <2> QED BY <1>0, <2>1, <2>2, <2>5, <2>6, OwnStep
  <1>2. ASSUME NEW i \in RowId, EraserDelete(j, i)
        PROVE  DuplicateInv'
    BY <1>2, EraserDeleteOwn
  <1>3. ASSUME NEW i \in RowId, EraserDeleteThrows(j, i)
        PROVE  DuplicateInv'
    <2>1. Finish(j) /\ UNCHANGED <<report, age, content, pushed>>
      BY <1>3 DEF EraserDeleteThrows, storeVars
    <2> QED BY <1>0, <2>1, Finished, TellsNothing, OwnRestingStep
        DEF WritesBackPC, DeletingPC
  <1>4. CASE EraserRead(j)
    <2>0. PICK d : d = task[j].documentId
      OBVIOUS
    <2>1. task[j].pc = "eraserRead" /\ UNCHANGED <<report, age, content, pushed>>
      BY <1>4 DEF EraserRead, storeVars, IsAt
    <2>2. PICK i \in RowsOf(d) :
            Becomes(j, Local("eraserUpdate", d, i, AsDeleted(report[i]), task[j].todo))
      BY <2>0, <1>4 DEF EraserRead, ReadReport
    <2>3. /\ task'[j].pc = "eraserUpdate" /\ task'[j].documentId = d
          /\ task'[j].reportId = i /\ task'[j].report = AsDeleted(report[i])
          /\ task'[j].todo = task[j].todo
          /\ \A u \in Task : u # j => task'[u] = task[u]
      BY <1>0, <2>2, Updated
    <2>4. report[i] \in Row /\ report[i].documentId = d
      BY RowsType DEF TypeInv, TypeOK, RowsOf
    <2>5. AsDeleted(report[i]).documentId = d
      BY <2>4, RowFlags
    <2>6. AsDeleted(report[i]).archived <=> report[i].archived
      BY <2>4, RowFlags, Zenon
    <2>7. task'[j].report.documentId = d
      BY <2>3, <2>5
    <2>8. Held(i)
      BY <1>0, <2>0, <2>1 DEF OwnOK, OwnListOK, IsAt
    <2>9. task'[j].report.archived \/ DeleteIsRefused(d)
      BY <2>3, <2>4, <2>6, <2>8, Zenon DEF Held
    <2> QED BY <1>0, <2>1, <2>3, <2>7, <2>9, OwnRead DEF WritesBackPC
  <1>5. CASE EraserUpdate(j)
    <2>1. /\ GoTo(j, "eraserFtp") /\ task[j].pc = "eraserUpdate" /\ WriteBack(j)
          /\ UNCHANGED <<age, content, pushed>>
      BY <1>5 DEF EraserUpdate, IsAt
    <2> QED BY <1>0, <2>1, OwnWriteBack DEF WritesBackPC, DeletingPC
  <1>6. CASE EraserDeleteFile(j) \/ EraserDeleteFileFails(j)
    <2>1. UNCHANGED <<report, age, content, pushed>> /\ NextInList(j, "eraserNext")
      BY <1>6 DEF EraserDeleteFile, EraserDeleteFileFails
    <2>2. /\ task'[j].pc \in {"idle", "eraserNext"} /\ task'[j].todo = task[j].todo
          /\ \A u \in Task : u # j => task'[u] = task[u]
      BY <1>0, <2>1, NextListed
    <2> QED BY <1>0, <2>1, <2>2, TellsNothing, OwnRestingStep DEF WritesBackPC, DeletingPC
  <1> QED BY <1>1, <1>2, <1>3, <1>4, <1>5, <1>6 DEF EraserStep

\* The clock of a row that nobody is storing.
LEMMA DeadlineOwn ==
  ASSUME TypeInv, DuplicateInv, NEW i \in RowId, PassDeadline(i)
  PROVE  DuplicateInv'
  <1>1. /\ UNCHANGED <<report, content, task, pushed>> /\ i \in Rows
        /\ age[i] # Overdue /\ ~IsSaving(i)
        /\ \A k \in RowId : k # i => age'[k] = age[k]
    BY DEF PassDeadline, TypeInv, TypeOK, StoreTypeOK
  <1>2. \A k \in RowId : IsSaving(k)' <=> IsSaving(k)
    BY <1>1 DEF IsSaving, IsAt
  <1>3. Preserves
    BY <1>1, <1>2, PreservesRows DEF Rows
  <1>4. UnusedIsClean'
    BY <1>1 DEF DuplicateInv, UnusedIsClean, Rows
  <1>5. SaversDiffer' /\ DeletedIsToldOnce'
    BY <1>1 DEF DuplicateInv, SaversDiffer, DeletedIsToldOnce, Deleting, IsAt
  <1>6. ASSUME NEW t \in Task PROVE OwnOK(t)'
    <2>1. ASSUME IsAt(t, "saving")
          PROVE  task[t].reportId \notin content' /\ age'[task[t].reportId] = Fresh
      <3>1. t \in Handler
        BY <2>1, LifecycleAssumption
        DEF Task, Job, IsAt, TypeInv, TypeOK, ArchiverPC, EraserPC
      <3>2. IsSaving(task[t].reportId)
        BY <2>1, <3>1 DEF IsSaving
      <3>3. task[t].reportId \in Rows \ content /\ age[task[t].reportId] = Fresh
        BY <2>1 DEF DuplicateInv, OwnOK, SaverOK
      <3> QED BY <1>1, <3>2, <3>3 DEF Rows
    <2>2. OwnOK(t) /\ task'[t] = task[t]
      BY <1>1 DEF DuplicateInv
    <2> QED BY <1>3, <2>1, <2>2, OwnStable
  <1>7. \A d \in DocumentId : HasGone(d) => HasGone(d)'
    BY <1>3 DEF HasGone, RowsOf, Preserves
  <1>8. CondemnedIsGone'
    BY <1>1, <1>7 DEF DuplicateInv, CondemnedIsGone, Condemned, Deleting
  <1> QED BY <1>4, <1>5, <1>6, <1>8 DEF DuplicateInv

\* With the types, DuplicateInv is inductive.
LEMMA StepOwn ==
  ASSUME TypeInv, DuplicateInv, [Next]_vars
  PROVE  DuplicateInv'
  <1>1. ASSUME NEW h \in Handler, HandlerStep(h) PROVE DuplicateInv'
    BY <1>1, HandlerStepOwn
  <1>2. ASSUME NEW j \in ArchiverRun, ArchiverStep(j) PROVE DuplicateInv'
    BY <1>2, ArchiverStepOwn
  <1>3. ASSUME NEW j \in EraserRun, EraserStep(j) PROVE DuplicateInv'
    BY <1>3, EraserStepOwn
  <1>4. ASSUME NEW j \in Job, AbortJob(j) PROVE DuplicateInv'
    <2>1. j \in Task /\ Finish(j) /\ UNCHANGED <<report, age, content, pushed>>
      BY <1>4 DEF AbortJob, Task, storeVars
    <2> QED BY <2>1, Finished, TellsNothing, OwnRestingStep DEF WritesBackPC, DeletingPC
  <1>5. ASSUME NEW i \in RowId, PassDeadline(i) PROVE DuplicateInv'
    BY <1>5, DeadlineOwn
  <1>6. CASE CrashEventHost
    BY <1>6, CrashOwn DEF CrashEventHost
  <1>7. CASE UNCHANGED vars
    BY <1>7
    DEF vars, DuplicateInv, UnusedIsClean, SaversDiffer, OwnOK, SaverOK, OwnCopyOK,
        OwnListOK, CondemnedIsGone, Condemned, HasGone, Gone, IsSaving, Held,
        DeleteIsRefused, RowsOf, Rows, Deleting, DeletedIsToldOnce, IsAt
  <1> QED BY <1>1, <1>2, <1>3, <1>4, <1>5, <1>6, <1>7 DEF Next

\* At the start there are no rows, and no process is under way.
LEMMA InitOwn == Init => DuplicateInv
  <1> SUFFICES ASSUME Init PROVE DuplicateInv
    OBVIOUS
  <1>1. /\ Rows = {} /\ content = {} /\ pushed = {}
        /\ \A t \in Task : task[t].pc = "idle" /\ task[t].todo = {}
    BY IdleType DEF Init, StoreInit, Rows
  <1>2. UnusedIsClean
    BY <1>1 DEF UnusedIsClean, Init, StoreInit
  <1>3. SaversDiffer /\ DeletedIsToldOnce /\ CondemnedIsGone
    BY <1>1 DEF SaversDiffer, DeletedIsToldOnce, CondemnedIsGone, Condemned, Deleting,
         DeletingPC, IsAt, Task
  <1>4. \A t \in Task : OwnOK(t)
    BY <1>1 DEF OwnOK, SaverOK, OwnCopyOK, OwnListOK, IsAt, WritesBackPC
  <1> QED BY <1>2, <1>3, <1>4 DEF DuplicateInv

\* What the drivers and jobs rely on, also if Kahin reports documents twice: the
\* database refuses every deletion of a document with two rows.
THEOREM DuplicateInvHolds == Spec => [](TypeInv /\ DuplicateInv)
  <1>1. Init => TypeInv /\ DuplicateInv
    BY InitType, InitOwn
  <1>2. TypeInv /\ DuplicateInv /\ [Next]_vars => TypeInv' /\ DuplicateInv'
    BY TypeStep, StepOwn
  <1> QED BY <1>1, <1>2, PTL DEF Spec

\* However many drivers delete one report, one at most tells its owner, and once,
\* also if Kahin reported the document twice.
THEOREM DeletedIsToldOnceHolds == Spec => []DeletedIsToldOnce
  <1>1. DuplicateInv => DeletedIsToldOnce
    BY DEF DuplicateInv
  <1> QED BY <1>1, DuplicateInvHolds, PTL

\* Content leaves the database only at its owner's request, or when the report
\* is archived and overdue at that very moment.
THEOREM ContentIsKeptHolds == Spec => ContentIsKept
  <1> DEFINE Allowed(i) ==
        IsDeletedByOwner(i) \/ (age[i] = Overdue /\ report[i].archived)
  <1>1. ASSUME TypeInv, DuplicateInv, Next, NEW i \in content \ content'
        PROVE  Allowed(i)
    <2>0. i \in RowId
      BY <1>1 DEF TypeInv, TypeOK, StoreTypeOK
    <2>1. ASSUME NEW h \in Handler, HandlerStep(h) PROVE Allowed(i)
      <3>1. PICK d \in DocumentId : DeleteReport(h, d)
        BY <1>1, <2>1
        DEF HandlerStep, SaveReport, SaveDocument, InsertDocument, SaveDocumentUntold, SaveDocumentFails,
            ReadLength, ReadLengthFails, PushReady, DeleteReportRead,
            DeleteReportUpdate, PushDeleted, DeleteReportThrows, ArchiveReport,
            ArchiveReportUpload, ArchiveReportUploadFails, ArchiveReportRead,
            ArchiveReportUpdate, PushArchived, storeVars
      <3>2. i \in RowsOf(d)
        BY <1>1, <3>1 DEF DeleteReport, DeleteDocument
      <3>3. h \in Task
        BY DEF Task
      <3>4. IsAt(h, "idle") /\ task'[h].pc = "deleteRead" /\ task'[h].documentId = d
        BY <1>1, <3>1, <3>3, Updated DEF DeleteReport, Begin
      <3> QED BY <3>2, <3>4 DEF IsDeletedByOwner, RowsOf
    <2>2. ASSUME NEW j \in EraserRun, EraserStep(j) PROVE Allowed(i)
      <3>1. PICK k \in RowId : EraserDelete(j, k)
        BY <1>1, <2>2
        DEF EraserStep, StartEraser, EraserDeleteThrows, EraserRead, EraserUpdate,
            EraserDeleteFile, EraserDeleteFileFails, storeVars
      <3>2. j \in Task /\ k \in Rows /\ k \in task[j].todo
        BY <1>1, <3>1 DEF EraserDelete, Task, Job, TypeInv, HoldsList
      <3>3. i \in RowsOf(report[k].documentId) /\ ~DeleteIsRefused(report[k].documentId)
        BY <1>1, <3>1 DEF EraserDelete, DeleteDocument
      <3>4. i = k
        BY <3>2, <3>3 DEF DeleteIsRefused, RowsOf
      <3>5. Held(k) /\ age[k] = Overdue
        BY <1>1, <2>2, <3>2 DEF DuplicateInv, OwnOK, OwnListOK
      <3> QED BY <3>3, <3>4, <3>5, Zenon DEF Held
    <2>3. ASSUME NEW j \in ArchiverRun, ArchiverStep(j) PROVE FALSE
      BY <1>1, <2>3
      DEF ArchiverStep, StartArchiver, ArchiverRead, ArchiverUpdate, ArchiverFetch,
          ArchiverUpload, ArchiverUploadFails, storeVars
    <2>4. ~ \E j \in Job : AbortJob(j)
      BY <1>1 DEF AbortJob, storeVars
    <2>5. ~(\E k \in RowId : PassDeadline(k)) /\ ~CrashEventHost
      BY <1>1 DEF PassDeadline, CrashEventHost, storeVars
    <2> QED BY <1>1, <2>1, <2>2, <2>3, <2>4, <2>5 DEF Next
  <1>2. TypeInv /\ DuplicateInv /\ [Next]_vars =>
            [\A i \in content \ content' :
                \/ IsDeletedByOwner(i)
                \/ age[i] = Overdue /\ report[i].archived]_vars
    BY <1>1
  <1> QED BY <1>2, DuplicateInvHolds, PTL DEF ContentIsKept, Spec

=============================================================================
