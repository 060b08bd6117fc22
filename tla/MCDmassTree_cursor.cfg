\* A removal below a directory that is being read.
CONSTANTS
    Entry = {e1, e2}
    Vnode = {v1, v2}
    File = {f1}
    md = md
    a = a
    b = b
    Name <- MCName
    RootName = md
    Path <- MCPath
    NULL = NULL
SPECIFICATION Spec
INVARIANTS
    CursorLive
