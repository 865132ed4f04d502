SPECIFICATION Spec
CONSTANTS
    q1 = q1
    q2 = q2
    g1 = g1
    Quotes = {q1, q2}
    Polled = {q1, q2}
    Gateways = {g1}
    GatewayOf <- OneGateway
    Out <- Two
    Deployments <- Scarce
    Ttl = 2
    Grace = 5
    MaxAge = 1
    RequestTime = 2
    LoadTime = 1
    BlockDelay = 0
    BookLag = 1
INVARIANTS
    Solvent
