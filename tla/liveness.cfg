SPECIFICATION FairSpec
CONSTANTS
    MaxOrders = 2
    MaxLegs = 2
    LegQty = 1
    MaxRec = 1
    LostReplies = TRUE
PROPERTIES
    LegsResolve
    BuyOrderedEnds
    SellOrderedEnds
CHECK_DEADLOCK FALSE
