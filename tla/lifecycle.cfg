CONSTANTS
    Coroutine = {m1, m2, close}
    RelayTask = {t1}
    CloseJob = close
    Final = Final
    None = None
SPECIFICATION LSpec
CHECK_DEADLOCK FALSE
INVARIANTS
    JobsBeforeClosing
    EndedIsClosed
PROPERTIES
    PromptDropCloses
    ClosedConnectionEnds
    FailureCloses
