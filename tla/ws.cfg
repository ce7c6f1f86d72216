SPECIFICATION FairSpec
CONSTANTS
    MaxBreaks = 2
    MaxExpiries = 1
    MaxWaiting = 1
INVARIANTS TypeOK OutageAnnounced TickWakes
PROPERTIES SessionRecovers OutageSynced RequestsEnd TickPublished
CHECK_DEADLOCK FALSE
