\* An administrator with two keys and up to two manual jobs beside the daily job; two faults.
CONSTANTS
    h1 = h1
    h2 = h2
    a1 = a1
    k1 = k1
    k2 = k2
    Daily = {1}
    Manual = {2, 3}
    Admins = {a1}
    Keys = {k1, k2}
    Handlers = {h1, h2}
    MaxAttempts = 2
    MaxFaults = 2
SPECIFICATION Spec
SYMMETRY Symmetry
INVARIANTS TypeOK NoLostJob FailureIsAlerted OneActivePerAdmin
PROPERTIES ImplementsContract
CHECK_DEADLOCK FALSE
