CONSTANTS
    None = None
    DocumentId = {d1}
    RowId = {i1}
    Handler = {h1, h2}
    ArchiverRun = {a1}
    EraserRun = {e1}
    Requests = {"delete", "archive"}
    Faults = {"save", "read", "upload", "erase", "abort", "crash"}
    DuplicateReady = FALSE
SPECIFICATION FairSpec
INVARIANTS
    TypeOK
    DeletedHasNoContent
    DeletedIsToldOnce
    NoticesStayTrue
    Inductive
PROPERTIES
    ArchivedStays
    ContentIsKept
    OverdueIsErased
    KeepsPromise
CHECK_DEADLOCK FALSE
