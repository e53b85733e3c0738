SPECIFICATION FairSpec
CONSTANTS
    Configs = {a, b}
    None = None
    Limit = 1
    FormerLife = {1}
    MaxRevision = 3
    MaxEdits = 2
    MaxFaults = 1
CHECK_DEADLOCK FALSE
INVARIANTS TypeOK AtMostOneAhead HistoryBounded SnapshotMatchesHash
PROPERTIES AuditTrailKept PinSettles SpecIsRendered
