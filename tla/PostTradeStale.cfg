SPECIFICATION Spec
CONSTANTS
    e1 = e1
    e2 = e2
    g1 = g1
    g2 = g2
    w1 = w1
    w2 = w2
    None = None
    Events = {e1, e2}
    Gateways = {g1, g2}
    Workers = {w1, w2}
    Deployments <- WorkersOnly
    MaxReorgs = 1
    MaxFaults = 1
INVARIANT NothingStale
CHECK_DEADLOCK FALSE
