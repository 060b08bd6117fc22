\* Truncation to nothing while another file object has an offset.
CONSTANTS
    Fd = {f1, f2}
    Vnode = {v1}
    Byte = {x}
    Junk = Junk
    NULL = NULL
    BLOCK = 2
    Request = {0, 1, 2, 3}
    ChstatSize = {0}
    MaxSize = 4
SPECIFICATION Spec
INVARIANTS
    CopiesInBounds
