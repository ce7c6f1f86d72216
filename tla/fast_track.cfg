SPECIFICATION FairSpec
CONSTANTS
    MaxOrders = 3
    ReqQty = 2
    MaxFaults = 1
INVARIANTS TypeOK CountedOnce
PROPERTIES FailedExitKeepsTrack OneEntry TrackEnds
CHECK_DEADLOCK FALSE
