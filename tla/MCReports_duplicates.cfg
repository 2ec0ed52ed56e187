CONSTANTS
    None = None
    DocumentId = {d1}
    RowId = {i1, i2}
    Handler = {h1, h2}
    ArchiverRun = {}
    EraserRun = {e1}
    Requests = {"delete", "archive"}
    Faults = {"crash"}
    DuplicateReady = TRUE
SYMMETRY Symmetry
SPECIFICATION Spec
INVARIANTS
    DeletedIsToldOnce
PROPERTIES
    ContentIsKept
CHECK_DEADLOCK FALSE
