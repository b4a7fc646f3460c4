\* Two charges of a renewal: a retry, or the next period.
CONSTANTS
    Keys <- MCKeys
    Retries = 1
    MaxCharges = 2
    MaxFaults = 2
    MaxEvents = 2
SPECIFICATION Spec
INVARIANTS TypeOK OneChargePerCycle OneOpenCharge DispatchIsCarried
PROPERTIES NotReactivated ChargedAtTheEnd ImplementsContract
CHECK_DEADLOCK FALSE
