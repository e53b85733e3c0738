SPECIFICATION FairSpec
CONSTANTS
    up = up
    down = down
    env = env
    Projects = {up, down}
    Values = {v, w}
    None = None
    Sources = {env}
    References <- MCReferences
    Upstreams <- MCUpstreams
    Settings <- MCSettings
    MaxEdits = 1
    MaxDrifts = 1
    MaxFaults = 1
CHECK_DEADLOCK FALSE
INVARIANTS TypeOK SharedExclusion
PROPERTIES WaitersAreServed DriftIsNoticed
