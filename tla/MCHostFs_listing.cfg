\* Two vnodes beside the root; modules that share a name and one that begins
\* with '0', loaded and unloaded between the openings; map_conf1 told of other
\* memory.
CONSTANTS
    Modules = 3
    ModuleName <- MCSharedName
    ZeroNames = {2}
    ZERO = ZERO
    WordBytes = 2
    ComeAndGo = {2, 3}
    MemSize <- MCSharedSize
    StatFileSize <- MCStatFileSize
    Root = root
    Node = {root, n1, n2}
    Item = {i1, i2, i3}
    Cell = {c1, c2}
    Word = {0, 1}
    Named <- MCNamed
    MaxOpens <- MCMaxOpens
    NULL = NULL
SYMMETRY MCSymmetry
SPECIFICATION Spec
INVARIANTS
    HostTypeOK
    LinksAgree
    HandlesReached
    ListingOwned
    FreshHandlesLive
    HandleIsPath
    FilesFound
