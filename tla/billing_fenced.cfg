\* The user is deactivated once and let in again.
CONSTANTS
    p1 = p1
    w1 = w1
    Payments = {p1}
    Workers = {w1}
    Lookups = {}
    MaxFaults = 1
    MaxBlocks = 1
SPECIFICATION Spec
INVARIANT DoubtBlocks
CHECK_DEADLOCK FALSE
