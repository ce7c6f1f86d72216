SPECIFICATION Spec
CONSTANTS
    Lot = 1
    MaxHeld = 2
    MaxRows = 2
    MaxOutside = 1
    MaxRestarts = 0
    Overnight = FALSE
    Nxt = FALSE
    SimBook = FALSE
    DbFaults = TRUE
INVARIANTS
    TypeOK
    UpdatesAreTrue
PROPERTIES
    SyncSettles
CHECK_DEADLOCK FALSE
