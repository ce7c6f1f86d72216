SPECIFICATION FairSpec
CONSTANTS
    MaxOrders = 3
    EntryQty = 2
    LostReplies = TRUE
INVARIANTS TypeOK OneTakeProfit
PROPERTIES SellOrderedEnds
CHECK_DEADLOCK FALSE
