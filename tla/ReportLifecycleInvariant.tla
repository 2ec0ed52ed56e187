---------------------- MODULE ReportLifecycleInvariant ----------------------
(***************************************************************************)
(* The inductive invariants behind the theorems of ReportLifecycleProofs.  *)
(* They are kept apart from the proofs so that TLC can check them too.     *)
(***************************************************************************)
EXTENDS ReportLifecycle

(* What type correctness rests on: what a process holds in which local state. *)

NoDocumentPC == {"idle", "archiverNext", "eraserNext"}
WritesBackPC == {"deleteUpdate", "archiveUpdate", "archiverUpdate", "eraserUpdate"}

HoldsDocument ==
    \A t \in Task : task[t].pc \notin NoDocumentPC => task[t].documentId \in DocumentId

HoldsReport ==
    \A t \in Task : task[t].pc \in WritesBackPC =>
        task[t].reportId \in RowId /\ task[t].report \in Row

HoldsRow ==
    \A t \in Task : task[t].pc = "saving" => task[t].reportId \in RowId

HoldsList ==
    \A t \in Task : task[t].todo \subseteq Rows

TypeInv == TypeOK /\ HoldsDocument /\ HoldsReport /\ HoldsRow /\ HoldsList

-----------------------------------------------------------------------------
(* What safety rests on, when no document is reported as ready twice. *)

\* The content of row i has left the database, and nobody is about to put it there.
Gone(i) == i \notin content /\ ~IsSaving(i)

Withdrawn(d) == RowsOf(d) # {} /\ \A i \in RowsOf(d) : Gone(i)
Archived(d) == RowsOf(d) # {} /\ \A i \in RowsOf(d) : report[i].archived

\* Where a process has deleted the content of its document, and where it has
\* seen or made the report archived.
WithdrawnPC == DeletingPC \cup {"eraserRead"}
ArchivedPC == {"pushDeleted", "pushArchived", "eraserRead"}

OneRowPerDocument ==
    \A i, k \in Rows : report[i].documentId = report[k].documentId => i = k

UnusedIsClean ==
    \A i \in RowId \ Rows : age[i] = Fresh /\ i \notin content

DeletedIsGone == \A i \in Rows : report[i].deleted => Gone(i)

SaversDiffer ==
    \A g, h \in Handler :
        IsAt(g, "saving") /\ IsAt(h, "saving") /\ task[g].reportId = task[h].reportId
            => g = h

SaverOK(t) ==
    IsAt(t, "saving") =>
        task[t].reportId \in Rows \ content /\ age[task[t].reportId] = Fresh

\* A copy that waits to be written back is as archived as the row can be, and
\* marked as deleted only if the content is gone for good.
CopyOK(t) ==
    task[t].pc \in WritesBackPC =>
        /\ task[t].reportId \in RowsOf(task[t].documentId)
        /\ task[t].report.documentId = task[t].documentId
        /\ task[t].report.archived
        /\ task[t].report.deleted => Gone(task[t].reportId)

ReachedOK(t) ==
    /\ task[t].pc \in WithdrawnPC => Withdrawn(task[t].documentId)
    /\ task[t].pc \in ArchivedPC => Archived(task[t].documentId)

ListOK(t) ==
    t \in EraserRun => \A i \in task[t].todo : report[i].archived /\ age[i] = Overdue

TaskOK(t) == SaverOK(t) /\ CopyOK(t) /\ ReachedOK(t) /\ ListOK(t)

NoticesOK ==
    \A d \in DocumentId :
        /\ <<d, "Archived">> \in pushed => Archived(d)
        /\ <<d, "Deleted">> \in pushed => Archived(d) /\ Withdrawn(d)

SafeInv ==
    /\ OneRowPerDocument
    /\ UnusedIsClean
    /\ DeletedIsGone
    /\ SaversDiffer
    /\ \A t \in Task : TaskOK(t)
    /\ NoticesOK
    /\ DeletedIsToldOnce

\* The inductive invariant holds in every reachable state: what the drivers and
\* the jobs hold in their local variables agrees with the rows they will
\* overwrite, at every await of every one of them.
Inductive == TypeInv /\ SafeInv

-----------------------------------------------------------------------------
(* What the refinement of ReportPromise rests on besides. *)

\* Nobody takes a report off the list, or is on the way to, while TableSaver is
\* between its inserts for it.
SettledOK(t) ==
    LET d == task[t].documentId IN
    /\ task[t].pc \in WritesBackPC => ~IsSaving(task[t].reportId)
    /\ task[t].pc \in {"archiveUpload", "archiveRead"} =>
        RowsOf(d) # {} /\ \A i \in RowsOf(d) : ~IsSaving(i)
    /\ t \in ArchiverRun => \A i \in task[t].todo : ~IsSaving(i)

SettledInv == \A t \in Task : SettledOK(t)

-----------------------------------------------------------------------------
(* What holds even if a document is reported as ready twice. *)

\* The row is archived, or its document has two rows: then no deletion of the
\* document succeeds any more.
Held(i) == report[i].archived \/ DeleteIsRefused(report[i].documentId)

\* Where a copy goes.  It may be one of a second row, read by a job that was
\* started for the first.
OwnCopyOK(t) ==
    task[t].pc \in WritesBackPC =>
        /\ task[t].reportId \in RowsOf(task[t].documentId)
        /\ task[t].report.documentId = task[t].documentId
        /\ task[t].report.archived \/ DeleteIsRefused(task[t].documentId)

OwnListOK(t) ==
    /\ t \in EraserRun => \A i \in task[t].todo : Held(i) /\ age[i] = Overdue
    /\ IsAt(t, "eraserRead") =>
        /\ RowsOf(task[t].documentId) # {}
        /\ \A i \in RowsOf(task[t].documentId) : Held(i)

OwnOK(t) == SaverOK(t) /\ OwnCopyOK(t) /\ OwnListOK(t)

\* Someone is deleting d, or its owner was told that it is deleted.
Condemned(d) ==
    \/ \E h \in Handler : Deleting(h, d)
    \/ <<d, "Deleted">> \in pushed

HasGone(d) == \E i \in RowsOf(d) : Gone(i)

\* One of its rows is gone, so that a deletion which finds content finds a second
\* row besides, and is refused.
CondemnedIsGone == \A d \in DocumentId : Condemned(d) => HasGone(d)

DuplicateInv ==
    /\ UnusedIsClean
    /\ SaversDiffer
    /\ \A t \in Task : OwnOK(t)
    /\ CondemnedIsGone
    /\ DeletedIsToldOnce

=============================================================================
