\* One failed database write or crash while the lease runs.
CONSTANTS
    h1 = h1
    h2 = h2
    Handlers = {h1}
    MaxRetry = 2
    MaxManual = 0
    Faults = {"database", "crash"}
    MaxFaults = 1
SPECIFICATION Spec
INVARIANT NoLostEvent
CHECK_DEADLOCK FALSE
