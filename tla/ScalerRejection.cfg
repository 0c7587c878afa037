SPECIFICATION Spec
CONSTANTS
    l1 = l1
    Leases = {l1}
    MaxWorkers = 1
    Concurrency = 1
    Speculates = FALSE
    Faults = {"rejected"}
    MaxFaults = 1
    MaxAge = 2
PROPERTIES RejectionRefunded
