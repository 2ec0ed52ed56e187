CONSTANTS
    None = None
    Request = {r1, r2}
    MaxAttempts = 3
    Faults = {"outage", "garbled", "handler", "host"}
SPECIFICATION FairSpec
INVARIANTS
    OneOutcome
    OutcomeInductive
PROPERTIES
    RequestsAreReported
    RecordedIsReported
CHECK_DEADLOCK FALSE
