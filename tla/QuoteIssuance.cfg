SPECIFICATION FairSpec
CONSTANTS
    r1 = r1
    r2 = r2
    r3 = r3
    r4 = r4
    k1 = k1
    b1 = b1
    b2 = b2
    NoKey = NoKey
    None = None
    Requests = {r1, r2, r3, r4}
    Keys = {k1}
    KeyOf <- MCKeyOf
    BodyOf <- MCBodyOf
    Speculative = TRUE
    Leavers = {r2}
    Batches <- Threes
INVARIANTS
    TypeOK
    OneSignedQuotePerKey
    KeyVerdict
    AnswersDurable
    ExposureCoversSigned
PROPERTIES
    TerminalStable
    ImplementsOnceOnly
    EveryRequestEnds
CHECK_DEADLOCK FALSE
