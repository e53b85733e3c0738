SPECIFICATION Spec
CONSTANTS
    Gone = Gone
    Protected = TRUE
    StateLock = TRUE
    StuckTimeout = TRUE
    IgnoredErrors = TRUE
    Commands = {"suspend", "ttl", "force-unlock"}
    MaxLives = 2
    MaxCommands = 1
    MaxFaults = 1
CHECK_DEADLOCK FALSE
INVARIANTS TypeOK ReleasedClean
PROPERTY DeletionNeedsConsent
