\* Two canvases of at most two by three cells and an arena of three tile cells; an input buffer of four bytes;
\* two telnet clients; a line of six bytes with two lines of history; three shell commands.
CONSTANTS
    TuiVms = {0, 1}
    PoolCount = 2
    MaxRows = 2
    MaxCols = 3
    Dims <- MCDims
    InitFlags <- MCInitFlags
    DrawBuffers <- MCDrawBuffers
    TermOf <- MCTermOf
    InitRaw = FALSE
    TilesPerVm = 2
    ArenaCells = 3
    TileArgs <- MCTileArgs
    TileCells <- MCTileCells
    BoundExit = FALSE
    Reinit = FALSE
    AnyOrder = FALSE
    Streams <- MCStreams
    InBufCap = 4
    MaxCsiParams = 3
    Shell = 0
    Other = 1
    Sends <- MCSends
    Writes <- MCWrites
    ReadCaps = {1, 2, 4}
    PeekCap = 3
    MaxClients = 2
    MaxWritten = 3
    MaxInstalls = 1
    ShellMayExit = TRUE
    PathCap = 9
    CwdCap = 7
    MaxArgv = 4
    BuiltinNames <- MCBuiltins
    LineCap = 7
    HistN = 2
    CompMaxCand = 16
    CompPoolBytes = 60
    LineCwd <- MCCwd
    Entries <- MCEntries
    Typable <- MCTypable
    MaxSubmits = 3
    Lines <- MCLines
    Tree0 <- MCTree
    Programs <- MCPrograms
    Autostart <- MCAutostart
    Rude <- MCRude
    RoomCells = 7
    MaxFds = 2
    CanRaw = TRUE
    MaxCommands = 3
SPECIFICATION Spec
INVARIANT TerminalExact
PROPERTY GuestShellExact
CONSTRAINT Followed
VIEW View
CHECK_DEADLOCK FALSE
