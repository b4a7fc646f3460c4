\* One operator's retry and one fault.
CONSTANTS
    w1 = w1
    w2 = w2
    Workers = {w1, w2}
    Kinds = {"plain"}
    MaxRetries = 1
    MaxFaults = 1
    MaxDefers = 0
    MaxManual = 1
SPECIFICATION Spec
PROPERTY StaleCopyInterruptsNothing
CHECK_DEADLOCK FALSE
