CONSTANTS
    Coroutine = {j1, j2}
    RelayTask = {t1}
    Final = Final
    None = None
SPECIFICATION Spec
CHECK_DEADLOCK FALSE
PROPERTY CancelledMeansCancelled
