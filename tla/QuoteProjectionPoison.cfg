SPECIFICATION FairSpec
CONSTANTS
    q1 = q1
    q2 = q2
    m1 = m1
    m2 = m2
    Quotes = {q1, q2}
    Keyed = {q1, q2}
    Mirrors = {m1, m2}
    BatchSize = 2
    MaxFaults = 0
    GatewayMarks = {q1, q2}
PROPERTIES
    FinalizedIsProjected
CHECK_DEADLOCK FALSE
