SPECIFICATION FairSpec
CONSTANTS
    MaxOrders = 2
    MaxQty = 2
    MaxFaults = 1
INVARIANTS TypeOK OneAdd AddCountedOnce
PROPERTIES PendingEnds RowLockEnds
CHECK_DEADLOCK FALSE
