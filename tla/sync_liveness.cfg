SPECIFICATION FairSpec
CONSTANTS
    Lot = 1
    MaxHeld = 1
    MaxRows = 2
    MaxOutside = 0
    MaxRestarts = 1
    Overnight = FALSE
    Nxt = TRUE
    SimBook = FALSE
    DbFaults = FALSE
PROPERTIES
    MissedSharesAreManaged
    LostSaleIsFound
CHECK_DEADLOCK FALSE
