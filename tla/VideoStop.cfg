SPECIFICATION Spec
CONSTANTS
    MaxVideos = 2
    MaxEvents = 1
INVARIANTS StopAvailable
CHECK_DEADLOCK FALSE
