CHECK_DEADLOCK FALSE
SPECIFICATION ToolsSpec
CONSTANTS
    Part = 3
    DeviceSize <- MCDeviceSize
    BUFFER_SIZE = 2
    MaxSize = 5
    EmMaxStarts = 2
    Fill = Fill
    NULL = NULL
    LogSize = 118
    Message <- MCMessage
    Asked <- MCAsked
    Reports <- MCReports
    MaxStarts = 2
    MaxShort = 1
    DpSize <- MCDpSize
    DpLargest = 8
    SlbHeader <- MCSlbHeader
    Leaves <- MCLeaves
    Sector = 2
    Chunk = 2
    NvsSecure = 1
    DpMaxStarts = 2
    DpMaxFails = 1
    MlDir <- MCDir
    MlFixed <- MCFixed
    MlTyped <- MCTyped
    MlWrap = 16
    AlRows = 3
    AlSizes = 3
    AlAligns = 2
    AlCerts = 2
    AvWords = {2, 3, 4, 5}
    AvDigest = 2
    AvVersions <- MCVersions
    AvFirst = 13824
    AvRange = 320
    AvModulus = 1048576
INVARIANTS
    ToolsTypeOK
    PrefixThenFill
    UncutIsComplete
    StartReachesAll
    LogInOrder
    NumbersFind
    BlocksOwned
    SigReversed
    FwAccepted
    SlbPieces
PROPERTIES
    SlbKeeps
    CompleteStays
    ToolFinishes
