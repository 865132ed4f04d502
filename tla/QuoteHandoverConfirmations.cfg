SPECIFICATION Spec
CONSTANTS
    q1 = q1
    q2 = q2
    g1 = g1
    Quotes = {q1, q2}
    Polled = {}
    Gateways = {g1}
    GatewayOf <- OneGateway
    Out <- Two
    Deployments <- Scarce
    Ttl = 2
    Grace = 2
    MaxAge = 1
    RequestTime = 2
    LoadTime = 0
    BlockDelay = 0
    BookLag = 3
INVARIANT
    PositionsCount
CHECK_DEADLOCK FALSE
