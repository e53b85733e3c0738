SPECIFICATION Spec
CONSTANTS
    Configs = {a, b}
    None = None
    AutoApprove = FALSE
    Threshold = TRUE
    Schedule = TRUE
    StuckTimeout = FALSE
    SyncInterval = FALSE
    Annotated = FALSE
    MaxRetries = 1
    JobLag = FALSE
    ProjectLag = FALSE
    IgnoredErrors = TRUE
    EditKinds = {"spec", "program"}
    MaxEdits = 2
    MaxFaults = 1
    AttemptCap = 0
CHECK_DEADLOCK FALSE
INVARIANTS ApprovedBeforeApply OneActiveJob
PROPERTIES ApprovalNotErasedUnseen ImplementsApprovalGate
