SPECIFICATION Spec
CONSTANTS
    Configs = {a}
    None = None
    AutoApprove = TRUE
    Threshold = FALSE
    Schedule = FALSE
    StuckTimeout = FALSE
    SyncInterval = TRUE
    Annotated = FALSE
    MaxRetries = 2
    JobLag = TRUE
    ProjectLag = FALSE
    IgnoredErrors = TRUE
    EditKinds = {"spec", "source", "program"}
    MaxEdits = 2
    MaxFaults = 2
    AttemptCap = 8
CHECK_DEADLOCK FALSE
INVARIANTS TypeOK AppliedRecordIsBacked RetriesAreCounted
