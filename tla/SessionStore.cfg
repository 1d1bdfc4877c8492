SPECIFICATION FairSpec
CONSTANTS
    SessionIds = {s1, s2, s3, s4}
    Models = {yolov5, other}
    MaxSessions = 2
    IdleTimeout = 2
    TicksPerSecond = 2
INVARIANTS TypeOK CapacityRespected
PROPERTIES NoResurrection OnlyCloseOrTimeEnds IdleSessionReclaimed ImplementsLease
