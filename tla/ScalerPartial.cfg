SPECIFICATION Spec
CONSTANTS
    l1 = l1
    Leases = {l1}
    MaxWorkers = 1
    Concurrency = 1
    Speculates = FALSE
    Faults = {"transient", "partial", "provider"}
    MaxFaults = 2
    MaxAge = 2
PROPERTIES RegistrationOutlivesWorker
