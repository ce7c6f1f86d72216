SPECIFICATION FairSpec
CONSTANTS
    MaxTargets = 3
    MaxRows = 3
    MaxEvents = 2
    MaxEntries = 2
INVARIANT TypeOK
PROPERTIES HeldIsManaged WatchIsListed WatchEnds
CHECK_DEADLOCK FALSE
