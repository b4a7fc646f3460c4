\* Two handlers and every kind of fault, under fair handlers and publisher; no symmetry, as
\* a temporal property is checked.
CONSTANTS
    h1 = h1
    h2 = h2
    Handlers = {h1, h2}
    MaxRetry = 2
    MaxManual = 1
    Faults = {"duplicate", "channel", "overrun", "crash", "database"}
    MaxFaults = 3
SPECIFICATION LiveSpec
INVARIANTS TypeOK LostOnlyIfOrphaned OperatorCanAct
PROPERTIES EventSettles ImplementsContract
CHECK_DEADLOCK FALSE
