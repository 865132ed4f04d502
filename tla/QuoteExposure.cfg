SPECIFICATION FairSpec
CONSTANTS
    q1 = q1
    q2 = q2
    q3 = q3
    g1 = g1
    g2 = g2
    user = user
    output = output
    None = None
    Quotes = {q1, q2, q3}
    Gateways = {g1, g2}
    Buckets = {user, output}
    GatewayOf <- TwoGateways
    Uses <- Amounts
    Bound <- Bounds
    Delta <- Positions
    DeltaLimit = 1
    CleanupLimit = 1
    Expiring = {q1}
    MaxFaults = 1
INVARIANTS
    TypeOK
    LedgerBalanced
    CacheSound
    NeverResurrected
PROPERTIES
    LandsInBand
    EveryReservationEnds
CHECK_DEADLOCK FALSE
