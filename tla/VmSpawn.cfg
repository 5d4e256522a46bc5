SPECIFICATION SpawnSpec
CONSTANTS
    NumVms = 3
    Baseline = 1
    MaxOverrun = 0
    TickMod = 1
    TickSources = {FALSE}
    RunDrivers = {TRUE, FALSE}
    MaxGap = 0
    MaxSleep = 0
    MaxDebt = 0
    Calls = {"yield", "spawn", "alloc", "free"}
    TrapActions = {"terminate"}
    Blocks = {b1, b2}
    AllocCap = 1
    ExitCodes = {261}
    Kills = TRUE
INVARIANTS BlocksAccounted
PROPERTIES ExitCodeDelivered SpawnReturns
