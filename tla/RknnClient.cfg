SPECIFICATION FairSpec
CONSTANTS
    Clients = {c1, c2}
    SessionIds = {s1, s2}
    IdleTimeout = 2
    TicksPerSecond = 1
    MaxOrphans = 2
    None = none
INVARIANTS TypeOK OneClientConnected LateCloseHarmless
PROPERTIES LeakReclaimed
