\* Two handlers, two faults anywhere, a deferral, under fair handlers, publisher,
\* collectors and clock; no symmetry, as a temporal property is checked.
CONSTANTS
    w1 = w1
    w2 = w2
    Workers = {w1, w2}
    Kinds = {"plain", "reminder"}
    MaxRetries = 1
    MaxFaults = 2
    MaxDefers = 1
    MaxManual = 0
SPECIFICATION FairSpec
INVARIANTS TypeOK NoLostNotification SendsAccounted
PROPERTY AlwaysSettles
CHECK_DEADLOCK FALSE
