SPECIFICATION Spec
CONSTANTS
    Configs = {a, b}
    None = None
    Annotated = TRUE
    GitHubFails = {"get", "close", "create"}
    MaxEdits = 1
    MaxFaults = 1
    MaxPRs = 5
CHECK_DEADLOCK FALSE
INVARIANT OnlyMergedIsApplied
