SPECIFICATION Spec
CONSTANTS
    None = None
    Jobs = {e1}
    Workers = {w1, w2}
    Amount = 2
    MaxReorgs = 1
    MaxFaults = 1
INVARIANT
    FailedHasNoLiveOrder
CHECK_DEADLOCK FALSE
