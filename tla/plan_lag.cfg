SPECIFICATION Spec
CONSTANTS
    Configs = {a, b}
    None = None
    AutoApprove = FALSE
    Threshold = FALSE
    Schedule = FALSE
    StuckTimeout = TRUE
    SyncInterval = FALSE
    Annotated = TRUE
    MaxRetries = 0
    JobLag = TRUE
    ProjectLag = TRUE
    IgnoredErrors = TRUE
    EditKinds = {"spec"}
    MaxEdits = 1
    MaxFaults = 0
    AttemptCap = 0
CHECK_DEADLOCK FALSE
SYMMETRY Symmetry
INVARIANTS ApprovedBeforeApply AppliedRecordIsBacked
PROPERTIES ApprovalNotErasedUnseen ImplementsApprovalGate
