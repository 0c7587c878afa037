SPECIFICATION Spec
CONSTANTS
    l1 = l1
    l2 = l2
    Leases = {l1, l2}
    MaxWorkers = 2
    Concurrency = 2
    Speculates = FALSE
    Faults = {"transient", "denied", "provider", "github", "write", "crash"}
    MaxFaults = 3
    MaxAge = 0
SYMMETRY Symmetry
INVARIANTS NoFreeCompute NothingLost
PROPERTIES RegistrationOutlivesWorker
