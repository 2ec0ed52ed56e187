CONSTANTS
    None = None
    DocumentId = {d1}
    RowId = {i1}
    Handler = {h1}
    ArchiverRun = {a1}
    EraserRun = {e1}
    Requests = {}
    Faults = {"upload"}
    DuplicateReady = FALSE
SPECIFICATION Spec
INVARIANT
    ArchivedLivesOnFtp
CHECK_DEADLOCK FALSE
