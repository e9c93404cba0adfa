CONSTANTS
    Coroutine = {m1, close}
    RelayTask = {t1}
    CloseJob = close
    Final = Final
    None = None
SPECIFICATION LSpec
CHECK_DEADLOCK FALSE
PROPERTY DroppedIsClosed
