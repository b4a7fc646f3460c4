\* One payment, one worker, notifications and receipts.
CONSTANTS
    p1 = p1
    w1 = w1
    Payments = {p1}
    Workers = {w1}
    Lookups = {"webhook", "receipt"}
    MaxFaults = 2
    MaxBlocks = 1
SPECIFICATION LiveSpec
PROPERTIES PaidIsGranted ReceiptFetched ImplementsContract
CHECK_DEADLOCK FALSE
