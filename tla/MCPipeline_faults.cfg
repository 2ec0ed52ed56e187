CONSTANTS
    None = None
    Request = {r1}
    MaxAttempts = 2
    Faults = {"request", "outage", "garbled", "redis", "expire", "refusal", "answer", "handler", "host", "worker"}
SPECIFICATION Spec
INVARIANTS
    TypeOK
    OneCopy
    FirstComeFirstServed
    CopiesAreRetries
    PipelineInductive
PROPERTIES
    KeepsProgress
CHECK_DEADLOCK FALSE
