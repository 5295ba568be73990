SPECIFICATION Spec
CONSTANTS
    Objs = {o1, o2}
    Handles = {h1, h2}
    Files = {f}
    Vectors = {v1, v2}
    NoFile = NoFile
    NoHandle = NoHandle
    MaxOutside = 1
SYMMETRY Symmetry
INVARIANTS
    TypeOK
    RefsExact
    UpdateIsReal
    DataProtected
    ProtectedWhileOpen
