SPECIFICATION FairSpec
CONSTANTS
    t1 = t1
    t2 = t2
    q1 = q1
    w1 = w1
    w2 = w2
    None = None
    Txs <- MCTxs
    Quotes = {q1}
    QuoteOf <- OneQuote
    Workers = {w1, w2}
    Deployments <- Instances
    MaxHeight = 5
    MaxReorgs = 2
    MaxFaults = 1
    Confirmations = 1
    MaxRange = 2
    Lookback = 2
INVARIANTS
    TypeOK
    CursorIsCheckpointed
    EventsFollowChain
PROPERTIES
    RollbackLeavesNoOrphan
    CatchesUp
