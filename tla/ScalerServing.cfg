SPECIFICATION Spec
CONSTANTS
    l1 = l1
    l2 = l2
    Leases = {l1, l2}
    MaxWorkers = 2
    Concurrency = 2
    Speculates = TRUE
    Faults = {"provider", "capacity"}
    MaxFaults = 2
    MaxAge = 1
SYMMETRY Symmetry
PROPERTIES KeepsServing
