\* Two file objects opened, read and closed while the tree changes under them.
CONSTANTS
    Entry = {e1, e2, e3}
    Vnode = {v1, v2, v3}
    File = {f1, f2}
    md = md
    a = a
    b = b
    Name <- MCName
    RootName = md
    Path <- MCPath
    NULL = NULL
SPECIFICATION Spec
SYMMETRY Symmetry
INVARIANTS
    TypeOK
    OpenFileBacked
    ReferCountsObjects
    ObjectsOwned
