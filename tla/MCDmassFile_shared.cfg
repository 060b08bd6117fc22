\* Two file objects on two vnodes of the file; nobody resizes it.
CONSTANTS
    Fd = {f1, f2}
    Vnode = {v1, v2}
    Byte = {x, y}
    Junk = Junk
    NULL = NULL
    BLOCK = 2
    Request = {0, 1, 2, 3}
    ChstatSize = {}
    MaxSize = 4
SPECIFICATION Spec
INVARIANTS
    CopiesInBounds
    CopyNotAhead
PROPERTIES
    ImplementsByteFile
