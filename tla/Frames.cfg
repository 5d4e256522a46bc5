\* Three frames through a pipeline of two; three drawing calls of each kind of guest over four
\* commits; two calls of mgapi_init in which every stage may fail; two tasks, one of which
\* makes one blocking call that the other may end.
CONSTANTS
    MaxInflight = 2
    CountMod = 16
    MaxFrames = 3
    MaxSub = 2
    Cancels = TRUE
    Empties = TRUE
    Unloads = TRUE
    Resets = TRUE
    Sprites = 1
    Colors = 2
    Cells = 2
    Layers = {0}
    SpriteSpecs <- MCSpriteSpecs
    Palettes <- MCPalettes
    Blits <- MCBlits
    Setups <- MCSetups
    Scrolls = {4}
    Blanks <- MCBlanks
    Uploads <- MCUploads
    Transients <- MCTransients
    HdmaLens = {2}
    Vram = {0, 1, 1024, 1025, 4096, 4097, 4098}
    SlotsPerBurst = 2
    MaxStaged = 8
    MaxSubframes = 4
    Budget = 4
    PayloadCells = 16
    PendingMax = 2
    HdmaCells = 4
    PipelineDepth = 2
    LateUploads = FALSE
    Overlaps = FALSE
    Guests <- MCGuests
    MaxDraws = 3
    MaxCommits = 4
    NTasks = 2
    MaxTasks = 2
    Spawners = {0}
    Calls = {"block", "wake"}
    MaxCalls = 1
    SleepTicks = 1
    GateCap = 2
    MayFail = {"psram", "channel", "service", "sink", "volume", "l2", "vm", "bridges", "media", "shell", "worker"}
    Port = TRUE
    MaxInits = 2
    MaxSteps = 1
    ProbeAnyTime = FALSE
    HoldMs = 2
    MsBits = 2
    MaxMs = 5
SPECIFICATION FramesSpec
INVARIANTS QueuedIsProtected CountersMatchQueue ListMatchesPayload  HandoffsExact
PROPERTIES FramesInOrder
CHECK_DEADLOCK FALSE
