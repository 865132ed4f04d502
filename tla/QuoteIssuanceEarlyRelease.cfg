SPECIFICATION Spec
CONSTANTS
    r1 = r1
    r2 = r2
    r3 = r3
    r4 = r4
    k1 = k1
    b1 = b1
    b2 = b2
    NoKey = NoKey
    None = None
    Requests = {r1, r2, r3, r4}
    Keys = {k1}
    KeyOf <- MCKeyOf
    BodyOf <- MCBodyOf
    Speculative = FALSE
    Leavers = {r1, r2, r3, r4}
    Batches <- Keyless
INVARIANTS
    FinalizedIsReserved
CHECK_DEADLOCK FALSE
