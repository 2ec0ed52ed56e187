---------------------------- MODULE ReportStore ----------------------------
(***************************************************************************)
(* The storage System HOME keeps reports in: the PostgreSQL tables report  *)
(* and report_document, behind ReportDataRepository and                    *)
(* ReportDocumentDataRepository, and the FTP server behind FtpWriter and   *)
(* FtpDestroyer.  One operator per statement; the processes that run them  *)
(* are in ReportLifecycle.                                                 *)
(***************************************************************************)
EXTENDS Naturals

CONSTANTS
    DocumentId,  \* values of report.document_id: one per report Kahin prepares
    RowId,       \* values of report.report_id; its size bounds the INSERTs of a run
    None         \* no row, no value

VARIABLES
    report,      \* report[i]: the row of table report with report_id i, or None
    age,         \* age[i]: deadlines row i has passed, see Overdue
    content,     \* the report_id of every row of table report_document
    ftp          \* ftp[d]: the file <d>.csv on the FTP server

storeVars == <<report, age, content, ftp>>

\* The columns of table report that any statement changes after the INSERT.
Row == [documentId : DocumentId, archived : BOOLEAN, deleted : BOOLEAN]

ASSUME NoneIsNoValue == None \notin DocumentId \cup RowId \cup Row

\* How many of its two deadlines a row has passed: expire_time itself (1),
\* and expire_time plus the hour the eraser waits (2).
Fresh == 0
Expired == 1
Overdue == 2

File == {"absent", "partial", "whole"}

StoreTypeOK ==
    /\ report \in [RowId -> Row \cup {None}]
    /\ age \in [RowId -> Fresh .. Overdue]
    /\ content \subseteq RowId
    /\ ftp \in [DocumentId -> File]

StoreInit ==
    /\ report = [i \in RowId |-> None]
    /\ age = [i \in RowId |-> Fresh]
    /\ content = {}
    /\ ftp = [d \in DocumentId |-> "absent"]

-----------------------------------------------------------------------------
(* Table report *)

Rows == {i \in RowId : report[i] # None}

\* selectReportByDocumentId.  Nothing makes document_id unique, and the
\* statement orders nothing: First() may return any of these rows.
RowsOf(d) == {i \in Rows : report[i].documentId = d}

\* selectReportByEmployeeId: what the Reports page of the web application lists.
Listed == {i \in Rows : ~report[i].archived}

\* selectReport: "Expired but not marked as archived".
ExpiredNotArchived ==
    {i \in Rows : age[i] >= Expired /\ ~report[i].archived}

\* Variant: the interval is forgotten.
ArchivedNotDeleted ==
    {i \in Rows : report[i].archived /\ ~report[i].deleted}

\* Variant: the query joins report_document.
OverdueWithContent ==
    {i \in Rows \cap content :
        age[i] = Overdue /\ report[i].archived /\ ~report[i].deleted}

\* selectExpiredReport, with the eraser's interval of one hour.
OverdueNotDeleted ==
    {i \in Rows : age[i] = Overdue /\ report[i].archived /\ ~report[i].deleted}

\* CreateReportAsync: a row with both flags false, under an unused report_id.
InsertReport(i, d) ==
    /\ report[i] = None
    /\ report' = [report EXCEPT
            ![i] = [documentId |-> d, archived |-> FALSE, deleted |-> FALSE]]

\* UpdateReportAsync writes every column of the object it is given, whatever
\* the row has become since the object was read.
UpdateReport(i, row) ==
    report' = [report EXCEPT ![i] = row]

-----------------------------------------------------------------------------
(* Table report_document *)

\* selectDocument: the contents a document_id leads to.
DocumentsOf(d) == content \cap RowsOf(d)

InsertDocument(i) ==
    content' = content \cup {i}

\* deleteDocument compares fk_report_id with a scalar subquery: PostgreSQL
\* refuses the statement when two report rows carry the document_id.
DeleteIsRefused(d) ==
    \E i, k \in RowsOf(d) : i # k

DeleteDocument(d) ==
    /\ ~DeleteIsRefused(d)
    /\ content' = content \ RowsOf(d)

-----------------------------------------------------------------------------
(* The FTP server *)

UploadFile(d) ==
    ftp' = [ftp EXCEPT ![d] = "whole"]

\* A failed transfer leaves what was there (no connection) or a cut file.
UploadFails(d) ==
    \E left \in {ftp[d], "partial"} : ftp' = [ftp EXCEPT ![d] = left]

DeleteFile(d) ==
    ftp' = [ftp EXCEPT ![d] = "absent"]

\* A failed DELETE leaves the file, or has removed it before the answer was lost.
DeleteFileFails(d) ==
    \E left \in {ftp[d], "absent"} : ftp' = [ftp EXCEPT ![d] = left]

=============================================================================
