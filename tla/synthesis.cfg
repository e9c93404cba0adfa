CONSTANTS
    Letters = 3
    BoundLength = 2
    Slots = 2
    None = None
    Requests <- MCRequests
SPECIFICATION Spec
CHECK_DEADLOCK FALSE
INVARIANTS
    ResultSound
    KeySynthesized
