CONSTANTS
    Client = {c1, c2}
    Key = {k1}
    None = None
    MaxPaths = 2
    LastSlot = 2
    Splice = TRUE
SPECIFICATION Spec
CHECK_DEADLOCK FALSE
INVARIANT DetachedPathNotReused
