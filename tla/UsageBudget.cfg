SPECIFICATION Spec
CONSTANTS
    Leases = {l1, l2}
    Limit = 5
    Window = 6
    Lifetimes = {3}
    MayRaise = FALSE
    Faults = {"write"}
    Longest = 3
    TicksPerSecond = 1
    Shutdown = 0
    Grace = 1
    MaxTime = 9
SYMMETRY Symmetry
INVARIANTS RollingCap ChargeCoversRun
CHECK_DEADLOCK FALSE
