SPECIFICATION Spec
CONSTANTS
    NumVms = 2
    Baseline = 1
    MaxOverrun = 0
    TickMod = 8
    TickSources = {TRUE, FALSE}
    RunDrivers = {TRUE, FALSE}
    MaxGap = 2
    MaxSleep = 2
    MaxDebt = 0
    Calls = {"sleep_ticks", "sleep_until", "yield"}
    TrapActions = {"terminate"}
PROPERTIES TimersExact SleeperWakes
