\* The daily job under fair handlers, broker and clock; no symmetry, as a temporal
\* property is checked.
CONSTANTS
    h1 = h1
    h2 = h2
    a1 = a1
    k1 = k1
    k2 = k2
    Daily = {1}
    Manual = {}
    Admins = {a1}
    Keys = {k1}
    Handlers = {h1, h2}
    MaxAttempts = 2
    MaxFaults = 2
SPECIFICATION FairSpec
PROPERTY EveryJobEnds
CHECK_DEADLOCK FALSE
