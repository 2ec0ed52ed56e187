CONSTANTS
    None = None
    DocumentId = {d1}
    RowId = {i1}
    Handler = {h1}
    ArchiverRun = {a1}
    EraserRun = {e1}
    Requests = {"archive", "delete"}
    Faults = {}
    DuplicateReady = FALSE
SPECIFICATION FairSpec
PROPERTY
    OverdueIsOutOfFtp
CHECK_DEADLOCK FALSE
