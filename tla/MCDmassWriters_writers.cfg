\* Three callers share the file through two vnodes.
CONSTANTS
    Thread = {t1, t2, t3}
    Vnode = {v1, v2}
    Block = {b1, b2}
    NULL = NULL
    BLOCK = 2
    Request = {0, 2}
    MaxSize = 3
SPECIFICATION Spec
INVARIANTS
    FaultsNeedRace
    QuietFileWhole
SYMMETRY Symmetry
