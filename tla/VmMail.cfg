SPECIFICATION MailSpec
CONSTANTS
    NumVms = 2
    Baseline = 1
    MaxOverrun = 0
    TickMod = 4
    TickSources = {FALSE}
    RunDrivers = {FALSE}
    MaxGap = 1
    MaxSleep = 1
    MaxDebt = 0
    Calls = {"critical_enter", "critical_exit"}
    TrapActions = {}
    Depth = 1
    MailCalls = {"send", "recv", "recv_forever", "whitelist_add", "whitelist_remove"}
INVARIANTS ReceivedInOrder NoneStranded
