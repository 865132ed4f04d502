SPECIFICATION FairSpec
CONSTANTS
    None = None
    Jobs = {e1}
    Workers = {w1, w2}
    Amount = 2
    MaxReorgs = 2
    MaxFaults = 1
INVARIANTS
    TypeOK
    OneOrder
    InventoryExact
    FillsAreReal
    FailedIsSettled
PROPERTIES
    EvidenceKept
    OrdersAreSettled
CHECK_DEADLOCK FALSE
