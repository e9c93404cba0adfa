CONSTANTS
    Coroutine = {j1, j2}
    RelayTask = {t1, t2}
    Final = Final
    None = None
SPECIFICATION Spec
CHECK_DEADLOCK FALSE
INVARIANTS
    Accounting
    JoinMeansProcessed
PROPERTIES
    QueueOrder
    NothingStartsAfterCancel
    CancelStopsRunner
    JoinReturns
