SPECIFICATION Spec
CONSTANTS
    Leases = {l1}
    Limit = 4
    Window = 3
    Lifetimes = {2, 4}
    MayRaise = FALSE
    Faults = {"write", "slow", "late", "unseen"}
    Longest = 4
    TicksPerSecond = 2
    Shutdown = 1
    Grace = 1
    MaxTime = 9
INVARIANTS TypeOK NeverRefused ChargeCoversRun
CHECK_DEADLOCK FALSE
