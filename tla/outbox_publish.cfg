\* Two publishers, three rows of which one has an invalid contract, batches of two, under
\* fair polling; no symmetry, as a temporal property is checked.
CONSTANTS
    p1 = p1
    p2 = p2
    Publishers = {p1, p2}
    Rows = {1, 2, 3}
    Invalid = {2}
    BatchSize = 2
    MaxFaults = 2
SPECIFICATION FairSpec
INVARIANTS TypeOK CopiesAccounted
PROPERTIES ImplementsChannel EveryRowEnds
CHECK_DEADLOCK FALSE
