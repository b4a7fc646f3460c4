\* Deferrals and operators beside one fault, for kinds that report and kinds that do not.
CONSTANTS
    w1 = w1
    w2 = w2
    Workers = {w1, w2}
    Kinds = {"tracked", "support", "reminder", "invitation"}
    MaxRetries = 1
    MaxFaults = 1
    MaxDefers = 1
    MaxManual = 1
SPECIFICATION Spec
SYMMETRY Symmetry
INVARIANTS NoLostNotification FailureAgrees OutcomesAgree
PROPERTIES FinalIsFinal ImplementsContract
CHECK_DEADLOCK FALSE
