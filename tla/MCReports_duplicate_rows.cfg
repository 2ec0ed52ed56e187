CONSTANTS
    None = None
    DocumentId = {d1}
    RowId = {i1, i2}
    Handler = {h1}
    ArchiverRun = {a1}
    EraserRun = {e1}
    Requests = {}
    Faults = {}
    DuplicateReady = TRUE
SPECIFICATION FairSpec
PROPERTY
    OverdueIsErased
CHECK_DEADLOCK FALSE
