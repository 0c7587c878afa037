SPECIFICATION Spec
CONSTANTS
    l1 = l1
    Leases = {l1}
    MaxWorkers = 1
    Concurrency = 1
    Speculates = FALSE
    Faults = {"transient", "rejected", "denied", "capacity", "provider", "github", "write", "crash", "partial", "late"}
    MaxFaults = 4
    MaxAge = 2
PROPERTIES ChargesAsPromised JobsSurvive
