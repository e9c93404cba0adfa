CONSTANTS
    Client = {c1, c2, c3, c4}
    Key = {k1, k2}
    None = None
    MaxPaths = 2
    LastSlot = 3
    Splice = FALSE
SPECIFICATION Spec
CHECK_DEADLOCK FALSE
SYMMETRY Symmetry
INVARIANTS
    MembersMatch
    InitiatorReachable
    PathLifetime
    OnePathPerKey
    RegistryExact
PROPERTIES
    SlotsFullOnlyWhenFull
    SeatSpec
