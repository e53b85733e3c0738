SPECIFICATION FairSpec
CONSTANTS
    Gone = Gone
    Protected = TRUE
    StateLock = FALSE
    StuckTimeout = FALSE
    IgnoredErrors = FALSE
    Commands = {"suspend", "ttl", "force-unlock"}
    MaxLives = 1
    MaxCommands = 1
    MaxFaults = 1
CHECK_DEADLOCK FALSE
INVARIANTS NoApplyJobBesideUnlock ExpiryIsReported
PROPERTIES DeletionEnds UnlockEnds
