SPECIFICATION Spec
CONSTANTS
    Lot = 1
    MaxHeld = 1
    MaxRows = 2
    MaxOutside = 0
    MaxRestarts = 1
    Overnight = TRUE
    Nxt = TRUE
    SimBook = TRUE
    DbFaults = FALSE
PROPERTIES
    SyncSettles
CHECK_DEADLOCK FALSE
