SPECIFICATION FairSpec
CONSTANTS
    MaxVideos = 2
    MaxEvents = 1
INVARIANTS TypeOK OnlyCurrentShown DeathAnnounced
PROPERTIES ThreadsEnd
CHECK_DEADLOCK FALSE
