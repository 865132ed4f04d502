SPECIFICATION FairSpec
CONSTANTS
    e1 = e1
    e2 = e2
    g1 = g1
    g2 = g2
    w1 = w1
    w2 = w2
    None = None
    Events = {e1, e2}
    Gateways = {g1, g2}
    Workers = {w1, w2}
    Deployments <- Pairs
    MaxReorgs = 1
    MaxFaults = 1
INVARIANTS
    TypeOK
    ProcessedIsProjected
    OneSubmitter
    PointersAgree
PROPERTIES
    Settles
CHECK_DEADLOCK FALSE
