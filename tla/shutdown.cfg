CONSTANTS
    Client = {c1, c2}
    Key = {k1}
    None = None
    MaxPaths = 2
    LastSlot = 3
    Splice = TRUE
SPECIFICATION ESpec
CHECK_DEADLOCK FALSE
INVARIANTS
    ClosedMeansClosed
    NoHandlerCutOff
PROPERTY ClosingCompletes
