SPECIFICATION Spec
CONSTANTS
    Admins = {a1, a2}
    Values = {v1, v2}
    Default = default
    Empty = empty
    Broken = broken
    Requests = {r1, r2, r3}
SYMMETRY Symmetry
INVARIANTS
    TypeOK
    RowsBounded
    SavedIsUsed
