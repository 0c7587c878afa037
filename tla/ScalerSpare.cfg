SPECIFICATION Spec
CONSTANTS
    l1 = l1
    l2 = l2
    l3 = l3
    Leases = {l1, l2, l3}
    MaxWorkers = 2
    Concurrency = 2
    Speculates = TRUE
    Faults = {"transient", "provider"}
    MaxFaults = 2
    MaxAge = 1
SYMMETRY Symmetry
INVARIANTS Ceiling
