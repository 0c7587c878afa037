SPECIFICATION Spec
CONSTANTS
    l1 = l1
    l2 = l2
    Leases = {l1, l2}
    MaxWorkers = 1
    Concurrency = 2
    Speculates = FALSE
    Faults = {"transient", "provider", "crash"}
    MaxFaults = 2
    MaxAge = 1
SYMMETRY Symmetry
INVARIANTS Ceiling
