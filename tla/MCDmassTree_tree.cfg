\* Creating, moving and removing entries, no file open: four vnodes are what a
\* move between two directories takes.
CONSTANTS
    Entry = {e1, e2, e3}
    Vnode = {v1, v2, v3, v4}
    File = {}
    md = md
    a = a
    b = b
    Name <- MCName
    RootName = md
    Path <- MCDeepPath
    NULL = NULL
SPECIFICATION Spec
SYMMETRY Symmetry
INVARIANTS
    SingleParent
    BackPointerFresh
PROPERTIES
    SuccessLosesNothing
    CreationKeepsNamesUnique
