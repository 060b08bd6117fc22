\* Two vnodes, two file objects, and resizes to every size.
CONSTANTS
    Fd = {f1, f2}
    Vnode = {v1, v2}
    Byte = {x}
    Junk = Junk
    NULL = NULL
    BLOCK = 2
    Request = {0, 1, 2, 3}
    ChstatSize = {0, 1, 2, 3, 4}
    MaxSize = 4
SPECIFICATION Spec
SYMMETRY Symmetry
INVARIANTS
    TypeOK
PROPERTIES
    CoverLostByEmptyWrite
