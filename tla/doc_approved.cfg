SPECIFICATION Spec
CONSTANTS
    Configs = {a, b}
    None = None
    AutoApprove = FALSE
    Threshold = FALSE
    Schedule = FALSE
    StuckTimeout = FALSE
    SyncInterval = FALSE
    Annotated = FALSE
    MaxRetries = 0
    JobLag = FALSE
    ProjectLag = FALSE
    IgnoredErrors = FALSE
    EditKinds = {"program"}
    MaxEdits = 1
    MaxFaults = 0
    AttemptCap = 0
CHECK_DEADLOCK FALSE
INVARIANT OnlyApprovedConfigRuns
