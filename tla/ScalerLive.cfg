SPECIFICATION FairSpec
CONSTANTS
    l1 = l1
    Leases = {l1}
    MaxWorkers = 1
    Concurrency = 1
    Speculates = FALSE
    Faults = {"transient", "rejected", "denied", "capacity", "provider", "github", "write", "crash", "partial", "late", "lag"}
    MaxFaults = 3
    MaxAge = 2
INVARIANTS TypeOK
PROPERTIES RetirementsFinish WorkersEnd
