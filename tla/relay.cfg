CONSTANTS
    Client = {c1, c2, c3}
    Key = {k1}
    None = None
    MaxPaths = 1
    LastSlot = 3
    Splice = FALSE
    MaxRelays = 1
SPECIFICATION RSpec
CHECK_DEADLOCK FALSE
SYMMETRY Symmetry
INVARIANTS
    InitiatorView
    ResponderView
PROPERTIES
    RelayToPresent
