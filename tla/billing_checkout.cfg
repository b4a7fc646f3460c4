\* One payment, two workers, notifications and verifications, the user never deactivated.
CONSTANTS
    p1 = p1
    w1 = w1
    w2 = w2
    Payments = {p1}
    Workers = {w1, w2}
    Lookups = {"webhook", "verify"}
    MaxFaults = 2
    MaxBlocks = 0
SPECIFICATION Spec
SYMMETRY Symmetry
INVARIANTS TypeOK OneGrant OneProviderPayment InDoubtIsOpen DoubtBlocks
PROPERTY ImplementsContract
CHECK_DEADLOCK FALSE
