SPECIFICATION FairSpec
CONSTANTS
    Configs = {a, b}
    None = None
    Annotated = FALSE
    GitHubFails = {"get", "close", "create"}
    MaxEdits = 2
    MaxFaults = 2
    MaxPRs = 5
CHECK_DEADLOCK FALSE
INVARIANTS TypeOK MergeApprovesItsPlan OpenPRsAreKnown
PROPERTIES MergeIsTheGate MergeIsHonoured
