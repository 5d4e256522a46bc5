\* XLEN 8 scales the registers, the four regions and the alignment rules down together:
\* a word is four bytes of two bits, a region 64 addresses. The regions have odd sizes,
\* so accesses end inside, at and past their last byte; l2 is absent.
CONSTANTS
    XLEN = 8
    UShift = 3
    RegionLen <- MCRegionLen
    Writable = {"data", "shared", "l2"}
    VmId = 3
    Calls = {1, 2}
    Handlers = {"exit", "put"}
    Budgets = {1, 2}
    AluA = {0, 1, 2, 3, 5, 7, 8, 15, 16, 63, 64, 100, 126, 127, 128, 129, 130, 170, 192, 200, 251, 253, 254, 255}
    AluB = {0, 1, 2, 3, 4, 5, 6, 7, 8, 9, 31, 32, 100, 127, 128, 129, 170, 240, 248, 251, 252, 253, 254, 255}
    X8s = {0, 5, 64, 128, 134, 196, 255}
    X9s = {0, 3, 255}
    Halves = {36866, 3}
    Slots = {0, 1}
    Blk = {1, 2, 3, 4, 5, 6, 7}
    Images <- MCImages
    DataSize = 3
    RegionCap = 8
    DivBits = 8
    FxBits = 8
    FmtBits = 6
    Formats <- MCFormats
    ArgLists <- MCArgLists
    Strings <- MCStrings
    MaxStr = 3
    BufCaps = {0, 1, 3, 12}
    FdAccepts = {2, 99}
    MaxPlatformInstalls = 2
    Sections = {"s", "t"}
    Keys = {"k"}
    Values = {1, 2}
    MaxLines = 4
    FirstCap = 1
    TickBits = 6
    StartTick = 50
    Jumps = {1, 3, 7}
    MaxTick = 76
    Periods = {0, 1, 2, 3}
    Safety = 32
    Naps = {0, 2, 9}
SPECIFICATION Spec
VIEW View
CHECK_DEADLOCK FALSE
INVARIANTS
    ComputationsExact
    LoadExact
PROPERTY
    TimingExact
