SPECIFICATION Spec
CONSTANTS
    MaxOrders = 3
    MaxLegs = 2
    LegQty = 1
    MaxRec = 2
    LostReplies = TRUE
INVARIANTS
    TypeOK
    ClosedLegIsDead
    ExitClosesEntry
    ExitKnowsItsOrder
    PrimaryAlreadyResolved
PROPERTIES
    NoWorkingOrderRetired
    AttributesLateFills
CHECK_DEADLOCK FALSE
