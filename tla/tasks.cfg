CONSTANTS
    Task = {receive, keepAlive, third}
    None = None
SPECIFICATION Spec
CHECK_DEADLOCK FALSE
INVARIANTS
    ResultAfterTasks
    SetOnce
PROPERTIES
    GroupSpec
    EndedTaskEndsClient
    ResultArrives
