SPECIFICATION FairSpec
CONSTANTS
    Configs = {a, b}
    None = None
    AutoApprove = FALSE
    Threshold = FALSE
    Schedule = FALSE
    StuckTimeout = FALSE
    SyncInterval = FALSE
    Annotated = FALSE
    MaxRetries = 1
    JobLag = FALSE
    ProjectLag = FALSE
    IgnoredErrors = FALSE
    EditKinds = {"spec", "source"}
    MaxEdits = 1
    MaxFaults = 1
    AttemptCap = 0
CHECK_DEADLOCK FALSE
PROPERTIES Settles EditsAreNoticed
