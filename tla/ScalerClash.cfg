SPECIFICATION Spec
CONSTANTS
    l1 = l1
    Leases = {l1}
    MaxWorkers = 1
    Concurrency = 1
    Speculates = FALSE
    Faults = {"transient", "provider"}
    MaxFaults = 3
    MaxAge = 2
PROPERTIES KeepsServing
