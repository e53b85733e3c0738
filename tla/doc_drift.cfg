SPECIFICATION FairSpec
CONSTANTS
    up = up
    down = down
    env = env
    Projects = {up, down}
    Values = {v, w}
    None = None
    Sources = {env}
    References <- MCReferences
    Upstreams <- MCUpstreams
    Settings <- MCRepair
    MaxEdits = 0
    MaxDrifts = 1
    MaxFaults = 0
CHECK_DEADLOCK FALSE
PROPERTY DriftIsRepaired
