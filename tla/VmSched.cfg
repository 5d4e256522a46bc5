SPECIFICATION Spec
CONSTANTS
    NumVms = 2
    Baseline = 2
    MaxOverrun = 3
    TickMod = 2
    TickSources = {TRUE}
    RunDrivers = {FALSE}
    MaxGap = 0
    MaxSleep = 0
    MaxDebt = 4
    Calls = {"exit", "yield", "critical_enter", "critical_exit"}
    TrapActions = {"terminate", "resume"}
INVARIANTS BitmapsPartition BoundedOvertaking 
PROPERTY TurnEnds
