CONSTANTS
    Object = {o1, o2, o3}
    Connection = {c1, c2}
    Port = {0, 1, 2}
    MaxUsers = 2
    Nobody = Nobody
SYMMETRY Symmetry
SPECIFICATION Spec
INVARIANTS
    FlagsMatch
    TaintsMatch
PROPERTIES
    DeletionExact
